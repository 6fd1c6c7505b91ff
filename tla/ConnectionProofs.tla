-------------------------- MODULE ConnectionProofs --------------------------
(* Theorems about Connection, for sends of any size and any number of sends  *)
(* and closes.                                                               *)
EXTENDS Connection, TLAPS

-----------------------------------------------------------------------------
(* The inductive invariant.                                                *)

Channel ==
  [events : SUBSET {"r", "w"}, attached : BOOLEAN, event : BOOLEAN, cbs : BOOLEAN,
   crash : {"no", "null event", "freed channel", "freed connection"}]

TypeInv ==
  /\ ch \in Channel
  /\ wbuf \in Seq(Nat) /\ wire \in Seq(Nat) /\ sent \in Nat
  /\ queue \in Seq([op : {"attach", "close"}] \cup
                   [op : {"send"}, n : 1..MaxSend, valid : BOOLEAN])
  /\ which \in {"none", "write"} /\ removals \in Nat
  /\ table \in BOOLEAN /\ held \in BOOLEAN

\* A channel keeps its event and its callbacks until it is closed, and then it is
\* not attached either.
ChannelInv == (ch.cbs <=> ch.event) /\ (~ch.event => ~ch.attached)

\* Only a closed connection leaves the table.
TableInv == (~table => ~ch.event) /\ (removals > 0 => ~ch.event)

\* Until attach has run the connection is new and nobody else has it.
FreshInv ==
  \A k \in 1..Len(queue) : queue[k].op = "attach" =>
    k = 1 /\ ~held /\ ch = NewChannel /\ which = "none"

UseInv ==
  /\ TypeInv /\ ChannelInv /\ TableInv /\ FreshInv
  /\ WritableIffPending /\ WriteAsserts /\ CrashNeedsClose

\* The bytes of wire and wbuf are as many as were sent, and as long as nothing
\* spoilt them each has its place.
StreamInv ==
  /\ CompleteIsTrue
  /\ ch.crash = "no" => Len(wire) + Len(wbuf) = sent
  /\ ch.crash = "no" /\ ~spoilt =>
       /\ \A i \in 1..Len(wire) : wire[i] = i
       /\ \A i \in 1..Len(wbuf) : wbuf[i] = Len(wire) + i

-----------------------------------------------------------------------------
(* The channel.                                                            *)

\* What a change of the events of c to es keeps, and when it is an error.
Changed(c, es, d) ==
  /\ d \in Channel /\ d.events = es
  /\ d.event = c.event /\ d.cbs = c.cbs
  /\ c.event => d.crash = c.crash
  /\ es = {} => d.crash = c.crash
  /\ ~c.event => /\ d.attached => c.attached
                 /\ es = c.events => d = c
                 /\ es # c.events /\ es # {} => d.crash = "null event"

LEMMA SetEventsFacts ==
  ASSUME NEW c \in Channel, NEW es \in SUBSET {"r", "w"}, NEW ok \in BOOLEAN
  PROVE  Changed(c, es, SetEvents(c, es, ok))
<1> USE DEF Changed
<1>1. CASE es = c.events
  BY <1>1, Zenon DEF SetEvents, Channel
<1>2. CASE es # c.events /\ es = {}
  <2>1. SetEvents(c, es, ok) = [c EXCEPT !.events = es, !.attached = FALSE]
    BY <1>2, Zenon DEF SetEvents, UpdateEvents, DetachFromEventLoop, Channel
  <2> QED
    BY <1>2, <2>1, Zenon DEF Channel
<1>3. CASE es # c.events /\ es # {}
  <2>1. SetEvents(c, es, ok) = IF ~c.event THEN [c EXCEPT !.events = es, !.crash = "null event"]
                               ELSE [c EXCEPT !.events = es, !.attached = ok]
    BY <1>3, Zenon DEF SetEvents, UpdateEvents, AttachToEventLoop, Channel
  <2>2. CASE ~c.event
    BY <1>3, <2>1, <2>2, ZenonT(40) DEF Channel
  <2>3. CASE c.event
    BY <1>3, <2>1, <2>3, Zenon DEF Channel
  <2> QED
    BY <2>2, <2>3, Zenon
<1> QED
  BY <1>1, <1>2, <1>3, Zenon

LEMMA CloseFacts ==
  ASSUME NEW c \in Channel, NEW ok \in BOOLEAN
  PROVE  LET d == CloseChannel(SetEvents(c, {}, ok)) IN
         /\ d \in Channel /\ d.events = {}
         /\ ~d.event /\ ~d.cbs /\ ~d.attached /\ d.crash = c.crash
<1>1. PICK e \in Channel : e = SetEvents(c, {}, ok) /\ e.events = {} /\ e.crash = c.crash
  <2>1. {} \in SUBSET {"r", "w"}
    OBVIOUS
  <2>2. /\ SetEvents(c, {}, ok) \in Channel /\ SetEvents(c, {}, ok).events = {}
        /\ SetEvents(c, {}, ok).crash = c.crash
    <3>1. Changed(c, {}, SetEvents(c, {}, ok))
      BY <2>1, SetEventsFacts
    <3> QED
      BY <3>1, Zenon DEF Changed
  <2> QED
    BY <2>2, Zenon
<1>2. CloseChannel(e) = [e EXCEPT !.attached = FALSE, !.event = FALSE, !.cbs = FALSE]
  BY Zenon DEF CloseChannel, DetachFromEventLoop, Channel
<1>3. /\ CloseChannel(e) \in Channel /\ CloseChannel(e).events = e.events
      /\ ~CloseChannel(e).event /\ ~CloseChannel(e).cbs /\ ~CloseChannel(e).attached
      /\ CloseChannel(e).crash = e.crash
  BY <1>2, Zenon DEF Channel
<1> QED
  BY <1>1, <1>3

\* Enabling the write event: done on an open channel, an error on a closed one.
Enabled(c, d) ==
  /\ d \in Channel /\ "w" \in d.events
  /\ d.event = c.event /\ d.cbs = c.cbs
  /\ c.event => d.crash = c.crash
  /\ ~c.event => /\ d.attached => c.attached
                 /\ d.crash = c.crash \/ d.crash = "null event"
                 /\ "w" \notin c.events => d.crash = "null event"

LEMMA EnableFacts ==
  ASSUME NEW c \in Channel, NEW ok \in BOOLEAN
  PROVE  Enabled(c, EnableEvents(c, {"w"}, ok))
<1> DEFINE es == c.events \cup {"w"}
<1>1. es \in SUBSET {"r", "w"} /\ "w" \in es /\ es # {} /\ (es = c.events => "w" \in c.events)
  BY Zenon DEF Channel
<1>2. EnableEvents(c, {"w"}, ok) = SetEvents(c, es, ok)
  BY DEF EnableEvents
<1> HIDE DEF es
<1> DEFINE d == SetEvents(c, es, ok)
<1>3. /\ d \in Channel /\ d.events = es
      /\ d.event = c.event /\ d.cbs = c.cbs
      /\ c.event => d.crash = c.crash
      /\ ~c.event => /\ d.attached => c.attached
                     /\ es = c.events => d = c
                     /\ es # c.events /\ es # {} => d.crash = "null event"
  <2>1. Changed(c, es, d)
    BY <1>1, SetEventsFacts
  <2> QED
    BY <2>1, Zenon DEF Changed
<1> HIDE DEF d
<1>4. ~c.event => /\ d.crash = c.crash \/ d.crash = "null event"
                  /\ "w" \notin c.events => d.crash = "null event"
  BY <1>1, <1>3, Zenon
<1> QED
  BY <1>1, <1>2, <1>3, <1>4, Zenon DEF d, Enabled

\* Disabling it on an open channel.
LEMMA DisableFacts ==
  ASSUME NEW c \in Channel, NEW ok \in BOOLEAN, c.event
  PROVE  LET d == DisableEvents(c, {"w"}, ok) IN
         /\ d \in Channel /\ "w" \notin d.events
         /\ d.event = c.event /\ d.cbs = c.cbs /\ d.crash = c.crash
<1> DEFINE es == c.events \ {"w"}
<1>1. es \in SUBSET {"r", "w"} /\ "w" \notin es
  BY Zenon DEF Channel
<1>2. DisableEvents(c, {"w"}, ok) = SetEvents(c, es, ok)
  BY DEF DisableEvents
<1> HIDE DEF es
<1>3. /\ SetEvents(c, es, ok) \in Channel /\ SetEvents(c, es, ok).events = es
      /\ SetEvents(c, es, ok).event = c.event /\ SetEvents(c, es, ok).cbs = c.cbs
      /\ SetEvents(c, es, ok).crash = c.crash
  <2>1. Changed(c, es, SetEvents(c, es, ok))
    BY <1>1, SetEventsFacts
  <2> QED
    BY <2>1, Zenon DEF Changed
<1> QED
  BY <1>1, <1>2, <1>3, Zenon

-----------------------------------------------------------------------------
(* Steps that close.                                                       *)

\* What the channel operations of one step leave of the invariant; every step of
\* the loop is checked against these facts.
ChannelStep ==
  /\ ch' \in Channel /\ ChannelInv' /\ TableInv' /\ table' \in BOOLEAN /\ removals' \in Nat
  /\ WritableIffPending'
  /\ CrashNeedsClose'
  /\ ch'.cbs => ch.cbs

LEMMA CloseFnFacts ==
  ASSUME UseInv, CloseFn
  PROVE  table' \in BOOLEAN /\ removals' \in Nat
<1>1. table \in BOOLEAN /\ removals \in Nat
  BY DEF UseInv, TypeInv
<1>2. removals + 1 \in Nat
  BY <1>1
<1> QED
  BY <1>1, <1>2, Zenon DEF CloseFn

LEMMA CloseStep ==
  ASSUME UseInv, CloseHandle, ch.crash = "no"
  PROVE  ChannelStep /\ ~ch'.event /\ ~ch'.cbs /\ ch'.crash = ch.crash
<1>1. ch \in Channel /\ TRUE \in BOOLEAN
  BY DEF UseInv, TypeInv
<1>2. ch' \in Channel /\ ~ch'.event /\ ~ch'.cbs /\ ~ch'.attached /\ ch'.crash = ch.crash
  BY <1>1, CloseFacts, Zenon DEF CloseHandle
<1>3. table' \in BOOLEAN /\ removals' \in Nat
  BY CloseFnFacts DEF CloseHandle
<1> QED
  BY <1>2, <1>3, Zenon DEF ChannelStep, ChannelInv, TableInv, WritableIffPending, CrashNeedsClose, Closed

-----------------------------------------------------------------------------
(* The closure of send().                                                  *)

\* The bytes that stay to be written.
LEMMA RestFacts ==
  ASSUME NEW s \in Seq(Nat), s # <<>>, NEW n \in -1..(Len(s) - 1)
  PROVE  /\ Rest(s, n) \in Seq(Nat) /\ Rest(s, n) # <<>>
         /\ Len(Rest(s, n)) = IF n = -1 THEN Len(s) ELSE Len(s) - n
         /\ n # -1 => \A i \in 1..(Len(s) - n) : Rest(s, n)[i] = s[n + i]
<1>0. Len(s) \in Nat /\ Len(s) > 0
  OBVIOUS
<1>1. CASE n = -1
  <2>1. SubSeq(s, 1, Len(s) - 1) \in Seq(Nat) /\ Len(SubSeq(s, 1, Len(s) - 1)) = Len(s) - 1
    <3> DEFINE m == Len(s) - 1
    <3>1. m \in 0..Len(s)
      BY <1>0
    <3> HIDE DEF m
    <3>2. SubSeq(s, 1, m) \in Seq(Nat) /\ Len(SubSeq(s, 1, m)) = m
      BY <1>0, <3>1
    <3> QED
      BY <3>2 DEF m
  <2>2. <<Junk>> \in Seq(Nat) /\ Len(<<Junk>>) = 1
    BY DEF Junk
  <2>3. Rest(s, n) = <<Junk>> \o SubSeq(s, 1, Len(s) - 1)
    BY <1>1 DEF Rest
  <2>4. Rest(s, n) \in Seq(Nat) /\ Len(Rest(s, n)) = Len(s)
    <3> DEFINE t == SubSeq(s, 1, Len(s) - 1)
               j == <<Junk>>
    <3> HIDE DEF t, j
    <3>1. j \o t \in Seq(Nat) /\ Len(j \o t) = Len(j) + Len(t)
      BY <2>1, <2>2 DEF t, j
    <3> QED
      BY <1>0, <2>1, <2>2, <2>3, <3>1 DEF t, j
  <2> QED
    BY <1>0, <1>1, <2>4
<1>2. CASE n # -1
  <2>1. Rest(s, n) = SubSeq(s, n + 1, Len(s)) /\ n \in 0..(Len(s) - 1)
    BY <1>0, <1>2 DEF Rest
  <2>2. /\ SubSeq(s, n + 1, Len(s)) \in Seq(Nat) /\ Len(SubSeq(s, n + 1, Len(s))) = Len(s) - n
        /\ \A i \in 1..(Len(s) - n) : SubSeq(s, n + 1, Len(s))[i] = s[n + i]
    BY <1>0, <2>1
  <2>3. Len(Rest(s, n)) > 0
    BY <1>0, <2>1, <2>2
  <2>4. Rest(s, n) # <<>>
    BY <2>3
  <2> QED
    BY Zenon, <1>2, <2>1, <2>2, <2>4
<1> QED
  BY <1>1, <1>2

\* What concatenation does.
LEMMA ConcatFacts ==
  ASSUME NEW s \in Seq(Nat), NEW t \in Seq(Nat)
  PROVE  /\ s \o t \in Seq(Nat) /\ Len(s \o t) = Len(s) + Len(t) /\ Len(s) \in Nat /\ Len(t) \in Nat
         /\ \A i \in 1..Len(s) : (s \o t)[i] = s[i]
         /\ \A i \in 1..Len(t) : (s \o t)[Len(s) + i] = t[i]
         /\ t # <<>> => s \o t # <<>>
         /\ \A i \in 1..(Len(s) + Len(t)) : i \in 1..Len(s) \/ (i - Len(s) \in 1..Len(t) /\ Len(s) + (i - Len(s)) = i)
OBVIOUS

\* u is s followed by t, position by position.
Joined(s, t, u) ==
  /\ Len(u) = Len(s) + Len(t)
  /\ \A i \in 1..Len(s) : u[i] = s[i]
  /\ \A i \in 1..Len(t) : u[Len(s) + i] = t[i]
  /\ \A i \in 1..(Len(s) + Len(t)) : i \in 1..Len(s) \/ (i - Len(s) \in 1..Len(t) /\ Len(s) + (i - Len(s)) = i)
LEMMA JoinedFacts ==
  ASSUME NEW s \in Seq(Nat), NEW t \in Seq(Nat)
  PROVE  Joined(s, t, s \o t)
BY Zenon, ConcatFacts DEF Joined

LEMMA IsFunction == ASSUME NEW s \in Seq(Nat) PROVE s \in [1..Len(s) -> Nat]
OBVIOUS

\* The first n bytes.
LEMMA FirstFacts ==
  ASSUME NEW s \in Seq(Nat), NEW n \in 1..Len(s)
  PROVE  /\ SubSeq(s, 1, n) \in Seq(Nat) /\ Len(SubSeq(s, 1, n)) = n
         /\ \A i \in 1..n : SubSeq(s, 1, n)[i] = s[i]
OBVIOUS

\* Bytes that are kept for the write handler enable its event, and bytes kept by
\* a closed connection are an error.
LEMMA KeepStep ==
  ASSUME UseInv, ch.crash = "no", NEW s \in Seq(Nat), s # <<>>, NEW n \in -1..(Len(s) - 1),
         NEW ok \in BOOLEAN, Keep(s, n, ch, ok), UNCHANGED <<table, removals>>
  PROVE  /\ ChannelStep
         /\ wbuf' = wbuf \o Rest(s, n) /\ wbuf' \in Seq(Nat) /\ wbuf' # <<>>
         /\ "w" \in ch'.events
<1>1. ch \in Channel /\ wbuf \in Seq(Nat) /\ table \in BOOLEAN /\ removals \in Nat
  BY DEF UseInv, TypeInv
<1>2. /\ ch' \in Channel /\ "w" \in ch'.events /\ ch'.event = ch.event /\ ch'.cbs = ch.cbs
      /\ ch.event => ch'.crash = ch.crash
      /\ ~ch.event => (ch'.attached => ch.attached)
  <2>1. Enabled(ch, ch')
    BY <1>1, EnableFacts DEF Keep
  <2> QED
    BY <2>1, Zenon DEF Enabled
<1>3. wbuf' = wbuf \o Rest(s, n)
  BY DEF Keep
<1>4. wbuf' \in Seq(Nat) /\ wbuf' # <<>>
  BY <1>1, <1>3, RestFacts, ConcatFacts
<1>5. ChannelInv' /\ TableInv'
  BY <1>2, Zenon DEF UseInv, ChannelInv, TableInv
<1>6. WritableIffPending' /\ CrashNeedsClose'
  BY <1>2, <1>4, Zenon DEF WritableIffPending, CrashNeedsClose, Closed
<1> QED
  BY <1>1, <1>2, <1>3, <1>4, <1>5, <1>6, Zenon DEF ChannelStep

\* Nothing of send() happens to the channel.
LEMMA IdleChannel ==
  ASSUME UseInv, UNCHANGED <<ch, wbuf, table, removals>>
  PROVE  ChannelStep
<1>1. ch \in Channel /\ table \in BOOLEAN /\ removals \in Nat
  BY DEF UseInv, TypeInv
<1>2. ChannelInv' /\ TableInv' /\ WritableIffPending' /\ CrashNeedsClose'
  BY Zenon DEF UseInv, ChannelInv, TableInv, WritableIffPending, CrashNeedsClose, Closed
<1> QED
  BY <1>1, <1>2, Zenon DEF ChannelStep

\* ::send fails for good: the channel is closed and then enabled again, which is
\* the use of a NULL event.
LEMMA FailStep ==
  ASSUME UseInv, NEW s \in Seq(Nat), s # <<>>, NEW ok \in BOOLEAN,
         wbuf' = Rest(s, -1), CloseFn,
         ch' = EnableEvents(CloseChannel(SetEvents(ch, {}, ok)), {"w"}, ok)
  PROVE  ChannelStep /\ wbuf' \in Seq(Nat) /\ wbuf' # <<>> /\ ch'.crash = "null event"
<1>1. ch \in Channel
  BY DEF UseInv, TypeInv
<1>2. PICK c \in Channel : /\ c = CloseChannel(SetEvents(ch, {}, ok)) /\ c.events = {}
                           /\ ~c.event /\ ~c.cbs /\ ~c.attached
  BY <1>1, CloseFacts, Zenon
<1>3. ch' \in Channel /\ ~ch'.event /\ ~ch'.cbs /\ ~ch'.attached /\ ch'.crash = "null event"
  <2>1. "w" \notin c.events
    BY <1>2
  <2>2. ch' = EnableEvents(c, {"w"}, ok)
    BY <1>2
  <2>3. Enabled(c, ch')
    BY <1>2, <2>2, EnableFacts
  <2> QED
    BY <1>2, <2>1, <2>3, Zenon DEF Enabled
<1>4. wbuf' \in Seq(Nat) /\ wbuf' # <<>>
  <2>1. -1 \in -1..(Len(s) - 1)
    OBVIOUS
  <2> QED
    BY <2>1, RestFacts
<1>5. table' \in BOOLEAN /\ removals' \in Nat
  BY CloseFnFacts
<1> QED
  BY <1>3, <1>4, <1>5, Zenon DEF ChannelStep, ChannelInv, TableInv, WritableIffPending, CrashNeedsClose, Closed

LEMMA SendStep ==
  ASSUME UseInv, ch.crash = "no", NEW s \in Seq(Nat), s # <<>>, SendFn(s)
  PROVE  /\ ChannelStep /\ wbuf' \in Seq(Nat) /\ wire' \in Seq(Nat)
         /\ "w" \in ch.events => "w" \in ch'.events /\ wbuf' # <<>>
<1>0. wbuf \in Seq(Nat) /\ wire \in Seq(Nat) /\ Len(s) \in Nat /\ Len(s) > 0
  BY DEF UseInv, TypeInv
<1> DEFINE Goal == /\ ChannelStep /\ wbuf' \in Seq(Nat) /\ wire' \in Seq(Nat)
                   /\ "w" \in ch.events => "w" \in ch'.events /\ wbuf' # <<>>
<1>1. PICK ok \in BOOLEAN :
        \/ ~Direct /\ Keep(s, 0, ch, ok) /\ UNCHANGED <<wire, table, removals>>
        \/ \E n \in 1..Len(s) :
             /\ Direct /\ wire' = wire \o SubSeq(s, 1, n)
             /\ IF HasRest(n, s) THEN Keep(s, n, ch, ok) ELSE UNCHANGED <<wbuf, ch>>
             /\ UNCHANGED <<table, removals>>
        \/ Direct /\ Keep(s, -1, ch, ok) /\ UNCHANGED <<wire, table, removals>>
        \/ /\ Direct /\ wbuf' = Rest(s, -1) /\ CloseFn /\ UNCHANGED wire
           /\ ch' = EnableEvents(CloseChannel(SetEvents(ch, {}, ok)), {"w"}, ok)
  BY Zenon DEF SendFn
<1>2. Direct => "w" \notin ch.events
  BY DEF Direct
<1>3. CASE Keep(s, 0, ch, ok) /\ UNCHANGED <<wire, table, removals>>
  <2>1. 0 \in -1..(Len(s) - 1)
    BY <1>0
  <2> QED
    BY <1>0, <1>3, <2>1, KeepStep, Zenon
<1>4. ASSUME NEW n \in 1..Len(s), Direct, wire' = wire \o SubSeq(s, 1, n),
             IF HasRest(n, s) THEN Keep(s, n, ch, ok) ELSE UNCHANGED <<wbuf, ch>>,
             UNCHANGED <<table, removals>>
      PROVE  Goal
  <2>1. wire' \in Seq(Nat)
    BY <1>0, <1>4, FirstFacts, ConcatFacts
  <2>2. CASE HasRest(n, s)
    <3>1. n \in -1..(Len(s) - 1)
      BY <1>0, <2>2 DEF HasRest
    <3>2. Keep(s, n, ch, ok) /\ UNCHANGED <<table, removals>>
      BY <1>4, <2>2
    <3>3. ChannelStep /\ wbuf' \in Seq(Nat) /\ wbuf' # <<>> /\ "w" \in ch'.events
      BY <3>1, <3>2, KeepStep, Zenon
    <3> QED
      BY <2>1, <3>3, Zenon
  <2>3. CASE ~HasRest(n, s)
    <3>1. UNCHANGED <<ch, wbuf, table, removals>>
      BY <1>4, <2>3
    <3>2. ChannelStep
      BY <3>1, IdleChannel
    <3> QED
      BY <1>0, <1>2, <1>4, <2>1, <3>1, <3>2, Zenon
  <2> QED
    BY <2>2, <2>3
<1>5. CASE Keep(s, -1, ch, ok) /\ UNCHANGED <<wire, table, removals>>
  <2>1. -1 \in -1..(Len(s) - 1)
    BY <1>0
  <2> QED
    BY <1>0, <1>5, <2>1, KeepStep, Zenon
<1>6. CASE /\ Direct /\ wbuf' = Rest(s, -1) /\ CloseFn /\ UNCHANGED wire
           /\ ch' = EnableEvents(CloseChannel(SetEvents(ch, {}, ok)), {"w"}, ok)
  <2>1. ChannelStep /\ wbuf' \in Seq(Nat)
    BY <1>6, FailStep, Zenon
  <2> QED
    BY <1>0, <1>2, <1>6, <2>1, Zenon
<1> QED
  BY <1>1, <1>3, <1>4, <1>5, <1>6, Zenon

-----------------------------------------------------------------------------
(* Every step keeps UseInv.                                                *)

Closures == [op : {"attach", "close"}] \cup [op : {"send"}, n : 1..MaxSend, valid : BOOLEAN]
NoAttach(q) == \A k \in 1..Len(q) : q[k].op # "attach"

LEMMA Assemble ==
  ASSUME ChannelStep, WriteAsserts', FreshInv', which' \in {"none", "write"}, held' \in BOOLEAN,
         wbuf' \in Seq(Nat), wire' \in Seq(Nat), sent' \in Nat, queue' \in Seq(Closures)
  PROVE  UseInv'
BY Zenon DEF ChannelStep, UseInv, TypeInv, Closures

\* Whoever has the connection got it when attach ran.
LEMMA Attached ==
  ASSUME UseInv, held \/ ch.attached \/ ~ch.event \/ which # "none"
  PROVE  NoAttach(queue)
<1>1. NewChannel.event /\ ~NewChannel.attached
  BY DEF NewChannel
<1> QED
  BY <1>1 DEF UseInv, FreshInv, NoAttach

LEMMA NoAttachFresh == NoAttach(queue') => FreshInv'
BY DEF NoAttach, FreshInv

\* The types of what a step leaves alone.
LEMMA Frame ==
  ASSUME UseInv
  PROVE  /\ which \in {"none", "write"} /\ held \in BOOLEAN /\ table \in BOOLEAN /\ removals \in Nat
         /\ wbuf \in Seq(Nat) /\ wire \in Seq(Nat) /\ sent \in Nat /\ queue \in Seq(Closures)
         /\ ch \in Channel
BY Zenon DEF UseInv, TypeInv, Closures

LEMMA NextBytesFacts ==
  ASSUME sent \in Nat, NEW k \in 1..MaxSend
  PROVE  /\ NextBytes(k) \in Seq(Nat) /\ NextBytes(k) # <<>> /\ Len(NextBytes(k)) = k
         /\ NextBytes(k)[1] # Junk
         /\ \A i \in 1..k : NextBytes(k)[i] = sent + i
         /\ sent + k \in Nat
<1>1. k \in Nat /\ k > 0
  BY BoundAssumption
<1>2. NextBytes(k) \in Seq(Nat) /\ Len(NextBytes(k)) = k
  BY <1>1 DEF NextBytes
<1>3. NextBytes(k) # <<>>
  BY <1>1, <1>2
<1> QED
  BY <1>1, <1>2, <1>3 DEF NextBytes, Junk

\* The read callback may send between the two parts of eventHandle.
LEMMA SendUse ==
  ASSUME UseInv, ch.crash = "no", Send
  PROVE  UseInv'
<1>1. PICK k \in 1..MaxSend : /\ held /\ sent' = sent + k /\ SendFn(NextBytes(k))
                              /\ UNCHANGED <<queue, caller, which, held, closes>>
  BY DEF Send, CanSend
<1>2. NextBytes(k) \in Seq(Nat) /\ NextBytes(k) # <<>> /\ sent + k \in Nat
  BY Frame, NextBytesFacts
<1>3. /\ ChannelStep /\ wbuf' \in Seq(Nat) /\ wire' \in Seq(Nat)
      /\ "w" \in ch.events => "w" \in ch'.events /\ wbuf' # <<>>
  BY <1>1, <1>2, SendStep
<1>4. FreshInv'
  BY <1>1, Attached, NoAttachFresh
<1>5. WriteAsserts'
  <2>1. which = "write" /\ ch'.cbs => "w" \in ch.events
    BY <1>3, Zenon DEF UseInv, WriteAsserts, ChannelStep
  <2> QED
    BY <1>1, <1>3, <2>1, Zenon DEF WriteAsserts
<1> QED
  BY <1>1, <1>2, <1>3, <1>4, <1>5, Frame, Assemble

\* close() and the closing half of the handlers.
LEMMA CloseUse ==
  ASSUME UseInv, ch.crash = "no", CloseHandle, NoAttach(queue'), queue' \in Seq(Closures),
         which' \in {"none", "write"}, UNCHANGED <<held, wbuf, wire, sent>>
  PROVE  UseInv'
<1>1. ChannelStep /\ ~ch'.cbs
  BY CloseStep
<1>2. WriteAsserts'
  BY <1>1, Zenon DEF WriteAsserts
<1> QED
  BY <1>1, <1>2, Frame, NoAttachFresh, Assemble

\* The steps that leave the channel and its bytes alone.
LEMMA IdleUse ==
  ASSUME UseInv, UNCHANGED <<ch, wbuf, table, removals, wire, sent>>, NoAttach(queue'),
         queue' \in Seq(Closures), held' \in BOOLEAN, which' \in {"none", "write"},
         which' = "write" /\ ch.cbs => which = "write" \/ ("w" \in ch.events /\ wbuf # <<>>)
  PROVE  UseInv'
<1>1. ChannelStep
  BY IdleChannel
<1>2. WriteAsserts'
  BY Zenon DEF WriteAsserts, UseInv
<1> QED
  BY <1>1, <1>2, Frame, NoAttachFresh, Assemble

LEMMA ReadUse ==
  ASSUME UseInv, ch.crash = "no", NEW w \in {"none", "write"}, ReadHandle(w)
  PROVE  UseInv'
<1>1. /\ ch.attached /\ (w = "write" => "w" \in ch.events) /\ which' = w
      /\ UNCHANGED <<wbuf, wire, sent, queue, held>>
      /\ CloseHandle \/ UNCHANGED <<ch, table, removals>>
  BY Zenon DEF ReadHandle
<1>2. NoAttach(queue') /\ queue' \in Seq(Closures)
  <2>1. NoAttach(queue)
    BY <1>1, Attached
  <2> QED
    BY <1>1, <2>1, Frame
<1>3. "w" \in ch.events => wbuf # <<>>
  <2>1. ch.event
    BY <1>1, Zenon DEF UseInv, ChannelInv
  <2> QED
    BY <2>1, Zenon DEF UseInv, WritableIffPending, Closed
<1>4. CASE CloseHandle
  BY <1>1, <1>2, <1>4, CloseUse
<1>5. CASE UNCHANGED <<ch, table, removals>>
  BY <1>1, <1>2, <1>3, <1>5, Frame, IdleUse
<1> QED
  BY <1>1, <1>4, <1>5

\* A connection nobody has is closed.
LEMMA DeadIsClosed == ASSUME UseInv, ~Alive PROVE ~ch.event
BY Zenon DEF Alive, UseInv, TableInv

\* The use of what has been freed.
LEMMA FreedUse ==
  ASSUME UseInv, ~Alive, NEW why \in {"freed channel", "freed connection"},
         ch' = [ch EXCEPT !.crash = why], UNCHANGED <<wbuf, wire, sent, table, removals, held>>,
         queue' \in Seq(Closures), NoAttach(queue'), which' \in {"none", "write"}
  PROVE  UseInv'
<1>0. ~ch.event /\ ch \in Channel /\ ~ch.attached
  BY DeadIsClosed, Frame, Zenon DEF UseInv, ChannelInv
<1>1. /\ ch' \in Channel /\ ch'.event = ch.event /\ ch'.cbs = ch.cbs /\ ch'.attached = ch.attached
      /\ ch'.crash = why /\ why # "null event" /\ why # "no"
  BY <1>0, Zenon DEF Channel
<1>2. ChannelStep
  BY <1>0, <1>1, Frame, Zenon DEF ChannelStep, UseInv, ChannelInv, TableInv, WritableIffPending,
                                  CrashNeedsClose, Closed
<1>3. WriteAsserts'
  BY <1>1, Zenon DEF WriteAsserts
<1> QED
  BY <1>2, <1>3, Frame, NoAttachFresh, Assemble, Zenon

LEMMA LastType ==
  ASSUME NEW s \in Seq(Nat), NEW m \in 1..(Len(s) + 1)
  PROVE  SubSeq(s, m, Len(s)) \in Seq(Nat)
OBVIOUS

\* netFdWriteHandle: the event goes with the last byte.
LEMMA DrainStep ==
  ASSUME UseInv, ch.cbs, NEW ok \in BOOLEAN, NEW n \in 1..Len(wbuf),
         wbuf' = SubSeq(wbuf, n + 1, Len(wbuf)), ch' = DisableIfDrained(ch, wbuf', ok),
         UNCHANGED <<table, removals>>
  PROVE  ChannelStep /\ wbuf' \in Seq(Nat)
<1>0. ch.event /\ ch \in Channel /\ wbuf \in Seq(Nat)
  BY Frame, Zenon DEF UseInv, ChannelInv
<1>1. wbuf' \in Seq(Nat)
  <2>1. n + 1 \in 1..(Len(wbuf) + 1) /\ Len(wbuf) \in Nat
    BY <1>0
  <2> QED
    BY Zenon, <1>0, <2>1, LastType
<1>2. "w" \in ch.events
  <2>1. wbuf # <<>>
    BY <1>0
  <2> QED
    BY <1>0, <2>1, Zenon DEF UseInv, WritableIffPending, Closed
<1>3. /\ ch' \in Channel /\ ch'.event = ch.event /\ ch'.cbs = ch.cbs /\ ch'.crash = ch.crash
      /\ "w" \in ch'.events <=> wbuf' # <<>>
  <2>1. CASE wbuf' = <<>>
    BY <1>0, <2>1, DisableFacts, Zenon DEF DisableIfDrained
  <2>2. CASE wbuf' # <<>>
    BY <1>0, <1>2, <2>2, Zenon DEF DisableIfDrained
  <2> QED
    BY <2>1, <2>2, Zenon
<1>4. ChannelInv' /\ TableInv' /\ WritableIffPending' /\ CrashNeedsClose'
  BY <1>0, <1>3, Zenon DEF UseInv, ChannelInv, TableInv, WritableIffPending, CrashNeedsClose, Closed
<1> QED
  BY <1>1, <1>3, <1>4, Frame, Zenon DEF ChannelStep

LEMMA WriteUse ==
  ASSUME UseInv, ch.crash = "no", WritePart
  PROVE  UseInv'
<1>1. /\ which = "write" \/ ch.attached
      /\ which' = "none" /\ UNCHANGED <<queue, caller, held>>
  BY Zenon DEF WritePart
<1>2. NoAttach(queue') /\ queue' \in Seq(Closures)
  <2>1. NoAttach(queue)
    BY <1>1, Attached
  <2> QED
    BY <1>1, <2>1, Frame
<1>3. CASE ~Alive
  <2>1. ch' = [ch EXCEPT !.crash = "freed channel"] /\ UNCHANGED <<wire, wbuf, sent, table, removals>>
    BY <1>3, Zenon DEF WritePart
  <2> QED
    BY <1>1, <1>2, <1>3, <2>1, FreedUse, Zenon
<1>4. CASE UNCHANGED <<ch, wire, wbuf, sent, table, removals>>
  BY <1>1, <1>2, <1>4, Frame, IdleUse
<1>5. CASE Alive /\ ch.cbs /\ WriteHandle
  <2>1. ASSUME NEW ok \in BOOLEAN, NEW n \in 1..Len(wbuf),
               wire' = wire \o SubSeq(wbuf, 1, n), wbuf' = SubSeq(wbuf, n + 1, Len(wbuf)),
               ch' = DisableIfDrained(ch, wbuf', ok), sent' = sent, UNCHANGED <<table, removals>>
        PROVE  UseInv'
    <3>1. ChannelStep /\ wbuf' \in Seq(Nat)
      BY <1>5, <2>1, DrainStep
    <3>2. wire' \in Seq(Nat)
      BY <2>1, Frame, FirstFacts, ConcatFacts
    <3>3. WriteAsserts'
      BY <1>1 DEF WriteAsserts
    <3> QED
      BY Zenon, <1>1, <1>2, <2>1, <3>1, <3>2, <3>3, Frame, NoAttachFresh, Assemble
  <2>2. CASE CloseHandle /\ UNCHANGED <<wire, wbuf, sent>>
    BY <1>1, <1>2, <2>2, CloseUse
  <2> QED
    BY <1>4, <1>5, <2>1, <2>2, Zenon DEF WriteHandle
<1> QED
  BY <1>3, <1>4, <1>5, Zenon DEF WritePart

\* The queue of the loop: what is put there is no attach.
LEMMA OtherUse ==
  ASSUME UseInv, OtherSend \/ OtherReturn \/ OtherClose \/ Release
  PROVE  UseInv'
<1>0. queue \in Seq(Closures) /\ held \in BOOLEAN
  BY Frame
<1>1. UNCHANGED <<ch, wbuf, wire, sent, which, table, removals>>
  BY Zenon DEF OtherSend, OtherReturn, OtherClose, Release
<1>2. CASE OtherSend
  <2>1. PICK k \in 1..MaxSend : held /\ held' = held
                                /\ queue' = Append(queue, [op |-> "send", n |-> k, valid |-> TRUE])
    BY <1>2, Zenon DEF OtherSend, CanSend
  <2>2. [op |-> "send", n |-> k, valid |-> TRUE] \in Closures
    BY DEF Closures
  <2>3. NoAttach(queue)
    BY <2>1, Attached
  <2>4. NoAttach(queue') /\ queue' \in Seq(Closures)
    <3>1. [op |-> "send", n |-> k, valid |-> TRUE].op # "attach"
      OBVIOUS
    <3> DEFINE t == [op |-> "send", n |-> k, valid |-> TRUE]
    <3> HIDE DEF t
    <3> QED
      BY <1>0, <2>1, <2>2, <2>3, <3>1 DEF NoAttach, t
  <2> QED
    BY <1>0, <1>1, <2>1, <2>4, Frame, IdleUse
<1>3. CASE OtherClose
  <2>1. held /\ held' = held /\ queue' = Append(queue, [op |-> "close"])
    BY <1>3 DEF OtherClose, CanClose
  <2>2. [op |-> "close"] \in Closures
    BY DEF Closures
  <2>3. NoAttach(queue)
    BY <2>1, Attached
  <2>4. NoAttach(queue') /\ queue' \in Seq(Closures)
    BY <1>0, <2>1, <2>2, <2>3 DEF NoAttach
  <2> QED
    BY <1>0, <1>1, <2>1, <2>4, Frame, IdleUse
<1>4. CASE Release
  <2>1. held /\ held' = FALSE /\ queue' = queue
    BY <1>4 DEF Release
  <2>2. NoAttach(queue)
    BY <2>1, Attached
  <2> QED
    BY <1>0, <1>1, <2>1, <2>2, Frame, IdleUse, Zenon
<1>5. CASE OtherReturn
  <2>1. /\ held' = held
        /\ queue' = [i \in DOMAIN queue |->
                 IF queue[i].op = "send" THEN [queue[i] EXCEPT !.valid = FALSE] ELSE queue[i]]
    BY <1>5 DEF OtherReturn
  <2>2. ASSUME NEW q \in Closures PROVE /\ [q EXCEPT !.valid = FALSE].op = q.op
                                        /\ q.op = "send" => [q EXCEPT !.valid = FALSE] \in Closures
    BY Zenon DEF Closures
  <2>3. /\ queue' \in Seq(Closures) /\ Len(queue') = Len(queue)
        /\ \A k \in 1..Len(queue) : queue'[k].op = queue[k].op
    BY <1>0, <2>1, <2>2
  <2>4. FreshInv'
    BY <1>1, <2>1, <2>3 DEF UseInv, FreshInv
  <2>5. ChannelStep /\ WriteAsserts'
    BY <1>1, IdleChannel DEF UseInv, WriteAsserts
  <2> QED
    BY <1>0, <1>1, <2>1, <2>3, <2>4, <2>5, Frame, Assemble
<1> QED
  BY <1>2, <1>3, <1>4, <1>5

\* Taking a closure from the queue leaves no attach in it.
LEMMA RunFacts ==
  ASSUME UseInv, NEW op, Run(op)
  PROVE  /\ queue' \in Seq(Closures) /\ NoAttach(queue') /\ which' = "none" /\ which = "none"
         /\ Head(queue) \in Closures /\ Head(queue).op = op
         /\ op = "attach" => ~held /\ ch = NewChannel
<1>1. /\ queue \in Seq(Closures) /\ queue # <<>> /\ Head(queue).op = op /\ queue' = Tail(queue)
      /\ which = "none" /\ which' = which
  BY Frame DEF Run
<1>2. Head(queue) \in Closures /\ Head(queue) = queue[1] /\ 1 \in 1..Len(queue)
  BY <1>1
<1>3. /\ Tail(queue) \in Seq(Closures) /\ Len(Tail(queue)) = Len(queue) - 1 /\ Len(queue) \in Nat
      /\ \A k \in 1..(Len(queue) - 1) : Tail(queue)[k] = queue[k + 1]
  BY <1>1
<1>4. NoAttach(Tail(queue))
  <2> SUFFICES ASSUME NEW k \in 1..Len(Tail(queue)), Tail(queue)[k].op = "attach" PROVE FALSE
    BY Zenon DEF NoAttach
  <2>1. k + 1 \in 1..Len(queue) /\ queue[k + 1].op = "attach" /\ k + 1 # 1
    BY <1>3
  <2> QED
    BY <2>1 DEF UseInv, FreshInv
<1>5. op = "attach" => ~held /\ ch = NewChannel
  BY <1>1, <1>2 DEF UseInv, FreshInv
<1> QED
  BY <1>1, <1>2, <1>3, <1>4, <1>5

LEMMA AttachUse ==
  ASSUME UseInv, ch.crash = "no", RunAttach
  PROVE  UseInv'
<1>1. /\ queue' \in Seq(Closures) /\ NoAttach(queue') /\ which' = "none" /\ ch = NewChannel
  BY RunFacts DEF RunAttach
<1>2. PICK ok \in BOOLEAN : ch' = EnableEvents(ch, {"r"}, ok)
  BY DEF RunAttach
<1>3. held' = TRUE /\ UNCHANGED <<wbuf, wire, sent, table, removals>>
  BY DEF RunAttach
<1>4. ch' = [events |-> {"r"}, attached |-> ok, event |-> TRUE, cbs |-> TRUE, crash |-> "no"]
  BY <1>1, <1>2, Zenon DEF EnableEvents, SetEvents, UpdateEvents, AttachToEventLoop, NewChannel
<1>5. /\ ch' \in Channel /\ "w" \notin ch'.events /\ ch'.event /\ ch'.cbs /\ ch'.crash = "no"
  BY <1>4 DEF Channel
<1>6. ch.event /\ ch.cbs /\ "w" \notin ch.events
  BY <1>1 DEF NewChannel
<1>7. wbuf = <<>>
  BY <1>6, Zenon DEF UseInv, WritableIffPending, Closed
<1>8. ChannelStep
  BY <1>3, <1>5, <1>6, <1>7, Frame, Zenon DEF ChannelStep, UseInv, ChannelInv, TableInv,
                                              WritableIffPending, CrashNeedsClose, Closed
<1>9. WriteAsserts'
  BY <1>1 DEF WriteAsserts
<1> QED
  BY <1>1, <1>3, <1>8, <1>9, Frame, NoAttachFresh, Assemble

\* The bytes a queued send() runs with.
LEMMA QueuedBytes ==
  ASSUME sent \in Nat, NEW k \in 1..MaxSend, NEW valid,
         NEW s \in {NextBytes(k)} \cup (IF valid THEN {} ELSE {[i \in 1..k |-> Junk]})
  PROVE  /\ s \in Seq(Nat) /\ s # <<>> /\ Len(s) = k
         /\ s[1] = Junk \/ \A i \in 1..k : s[i] = sent + i
<1>1. k \in Nat /\ k > 0
  BY BoundAssumption
<1>2. CASE s = NextBytes(k)
  BY <1>2, NextBytesFacts
<1>3. CASE s = [i \in 1..k |-> Junk]
  <2>1. s \in Seq(Nat) /\ Len(s) = k /\ s[1] = Junk
    BY <1>1, <1>3 DEF Junk
  <2> QED
    BY <1>1, <2>1
<1> QED
  BY <1>2, <1>3

LEMMA RunSendUse ==
  ASSUME UseInv, ch.crash = "no", RunSend
  PROVE  UseInv'
<1>1. /\ queue' \in Seq(Closures) /\ NoAttach(queue') /\ which' = "none" /\ held' = held
      /\ Head(queue) \in Closures /\ Head(queue).op = "send"
  BY RunFacts, Zenon DEF RunSend
<1>2. Head(queue).n \in 1..MaxSend
  BY <1>1 DEF Closures
<1>3. CASE ~Alive
  <2>1. ch' = [ch EXCEPT !.crash = "freed connection"] /\ UNCHANGED <<wbuf, wire, sent, table, removals>>
    BY <1>3, Zenon DEF RunSend
  <2> QED
    BY <1>1, <1>3, <2>1, FreedUse, Zenon
<1>4. CASE Alive
  <2>1. PICK k \in 1..MaxSend : k = Head(queue).n
    BY <1>2
  <2>2. PICK s \in {NextBytes(k)} \cup (IF Head(queue).valid THEN {} ELSE {[i \in 1..k |-> Junk]}) :
          SendFn(s) /\ sent' = sent + k
    BY <1>4, <2>1 DEF RunSend
  <2>3. s \in Seq(Nat) /\ s # <<>>
    BY Frame, QueuedBytes, Zenon
  <2>4. ChannelStep /\ wbuf' \in Seq(Nat) /\ wire' \in Seq(Nat)
    BY <2>2, <2>3, SendStep
  <2>5. sent' \in Nat
    BY <2>2, Frame, NextBytesFacts
  <2>6. WriteAsserts'
    BY <1>1 DEF WriteAsserts
  <2> QED
    BY <1>1, <2>4, <2>5, <2>6, Frame, NoAttachFresh, Assemble
<1> QED
  BY <1>3, <1>4

LEMMA RunCloseUse ==
  ASSUME UseInv, ch.crash = "no", RunClose
  PROVE  UseInv'
<1>1. queue' \in Seq(Closures) /\ NoAttach(queue') /\ which' = "none"
  BY RunFacts DEF RunClose
<1> QED
  BY <1>1, CloseUse DEF RunClose

LEMMA RemoveUse ==
  ASSUME UseInv, ControlRemove
  PROVE  UseInv'
<1>1. /\ removals > 0 /\ removals' = removals - 1 /\ table' = FALSE
      /\ UNCHANGED <<ch, wbuf, wire, sent, queue, which, held>>
  BY DEF ControlRemove
<1>2. ~ch.event /\ removals' \in Nat
  BY <1>1, Frame DEF UseInv, TableInv
<1>3. ChannelStep
  BY <1>1, <1>2, Frame, Zenon DEF ChannelStep, UseInv, ChannelInv, TableInv, WritableIffPending,
                                  CrashNeedsClose, Closed
<1>4. FreshInv' /\ WriteAsserts'
  BY <1>1 DEF UseInv, FreshInv, WriteAsserts
<1> QED
  BY <1>1, <1>3, <1>4, Frame, Assemble

LEMMA UseInit == Init => UseInv
<1> SUFFICES ASSUME Init PROVE UseInv
  OBVIOUS
<1>1. TypeInv
  <2>1. ch \in Channel
    BY DEF Init, NewChannel, Channel
  <2>2. queue \in Seq([op : {"attach", "close"}] \cup [op : {"send"}, n : 1..MaxSend, valid : BOOLEAN])
    BY DEF Init
  <2>3. wbuf \in Seq(Nat) /\ wire \in Seq(Nat) /\ sent \in Nat /\ removals \in Nat
    BY DEF Init
  <2> QED
    BY <2>1, <2>2, <2>3, Zenon DEF Init, TypeInv
<1>2. FreshInv
  BY DEF Init, FreshInv
<1>3. ch.event /\ ch.cbs /\ ch.crash = "no" /\ ch.events = {} /\ table /\ removals = 0 /\ which = "none" /\ wbuf = <<>>
  BY DEF Init, NewChannel
<1>4. ChannelInv /\ TableInv /\ WritableIffPending /\ WriteAsserts /\ CrashNeedsClose
  BY <1>3 DEF ChannelInv, TableInv, WritableIffPending, WriteAsserts, CrashNeedsClose, Closed
<1> QED
  BY <1>1, <1>2, <1>4 DEF UseInv

LEMMA UseStep == UseInv /\ [Next]_vars => UseInv'
<1> SUFFICES ASSUME UseInv, [Next]_vars PROVE UseInv'
  OBVIOUS
<1>1. CASE UNCHANGED vars
  BY <1>1, Zenon DEF vars, UseInv, TypeInv, ChannelInv, TableInv, FreshInv, WritableIffPending,
              WriteAsserts, CrashNeedsClose, Closed
<1>2. CASE Next
  <2>1. ch.crash = "no"
    BY <1>2 DEF Next
  <2>2. CASE Close
    <3>1. NoAttach(queue) /\ queue' = queue /\ which' = which
      BY <2>2, Attached DEF Close, CanClose
    <3> QED
      BY <2>1, <2>2, <3>1, Frame, CloseUse DEF Close
  <2> QED
    BY <1>2, <2>1, <2>2, SendUse, ReadUse, WriteUse, OtherUse, AttachUse, RunCloseUse, RunSendUse,
       RemoveUse DEF Next
<1> QED
  BY <1>1, <1>2

LEMMA UseCorrect == Spec => []UseInv
BY UseInit, UseStep, PTL DEF Spec

-----------------------------------------------------------------------------
(* Every step keeps StreamInv.                                             *)

\* Byte i of the application is byte i of what is on the wire and then in the buffer.
InPlace == /\ \A i \in 1..Len(wire) : wire[i] = i
           /\ \A i \in 1..Len(wbuf) : wbuf[i] = Len(wire) + i

\* s is kept whole behind the buffer.
LEMMA KeepWhole ==
  ASSUME UseInv, Len(wire) + Len(wbuf) = sent, wire' = wire,
         NEW s \in Seq(Nat), NEW r \in Seq(Nat), Len(r) = Len(s), wbuf' = wbuf \o r,
         sent' = sent + Len(s)
  PROVE  /\ Len(wire') + Len(wbuf') = sent'
         /\ InPlace /\ (\A i \in 1..Len(s) : r[i] = sent + i) => InPlace'
<1>1. wbuf \in Seq(Nat) /\ Len(wbuf) \in Nat /\ Len(wire) \in Nat /\ Len(s) \in Nat
  BY Frame
<1>2. /\ Len(wbuf') = Len(wbuf) + Len(s)
      /\ \A i \in 1..Len(wbuf) : wbuf'[i] = wbuf[i]
      /\ \A i \in 1..Len(s) : wbuf'[Len(wbuf) + i] = r[i]
      /\ \A i \in 1..(Len(wbuf) + Len(s)) :
           i \in 1..Len(wbuf) \/ (i - Len(wbuf) \in 1..Len(s) /\ Len(wbuf) + (i - Len(wbuf)) = i)
  <2>1. PICK b \in Seq(Nat) : b = wbuf
    BY Zenon, <1>1
  <2>2. Joined(b, r, b \o r)
    BY Zenon, JoinedFacts
  <2> QED
    BY Zenon, <2>1, <2>2 DEF Joined
<1>3. Len(wire') + Len(wbuf') = sent'
  BY <1>1, <1>2
<1>4. ASSUME InPlace, \A i \in 1..Len(s) : r[i] = sent + i PROVE InPlace'
  <2>1. ASSUME NEW i \in 1..Len(wbuf') PROVE wbuf'[i] = Len(wire') + i
    <3>1. CASE i \in 1..Len(wbuf)
      BY <1>2, <1>4, <3>1 DEF InPlace
    <3>2. CASE i - Len(wbuf) \in 1..Len(s) /\ Len(wbuf) + (i - Len(wbuf)) = i
      <4>1. PICK j \in 1..Len(s) : j = i - Len(wbuf)
        BY <3>2
      <4>2. wbuf'[Len(wbuf) + j] = sent + j
        BY Zenon, <1>2, <1>4
      <4>3. Len(wbuf) + j = i /\ sent + j = Len(wire') + i
        BY <1>1, <4>1
      <4> QED
        BY Zenon, <4>2, <4>3
    <3> QED
      BY Zenon, <1>2, <3>1, <3>2
  <2> QED
    BY <1>4, <2>1 DEF InPlace
<1> QED
  BY <1>3, <1>4

\* The first n bytes of s go to the wire, the buffer being empty, and the others
\* to the buffer.
PartSent(s, n) ==
  /\ Len(wire) + Len(wbuf) = sent /\ wbuf = <<>> /\ sent' = sent + Len(s)
  /\ wire' = wire \o SubSeq(s, 1, n)
  /\ Len(wbuf') = Len(s) - n /\ \A i \in 1..(Len(s) - n) : wbuf'[i] = s[n + i]

LEMMA SendPart ==
  ASSUME UseInv, NEW s \in Seq(Nat), NEW n \in 1..Len(s), PartSent(s, n)
  PROVE  /\ Len(wire') = sent + n /\ Len(wire') + Len(wbuf') = sent'
         /\ InPlace /\ (\A i \in 1..Len(s) : s[i] = sent + i) => InPlace'
<1>0. Len(wbuf') = Len(s) - n /\ sent' = sent + Len(s)
  BY DEF PartSent
<1>1. wire \in Seq(Nat) /\ Len(wire) = sent /\ sent \in Nat /\ Len(s) \in Nat
  BY Frame DEF PartSent
<1>2. SubSeq(s, 1, n) \in Seq(Nat) /\ Len(SubSeq(s, 1, n)) = n /\ \A i \in 1..n : SubSeq(s, 1, n)[i] = s[i]
  BY FirstFacts
<1> DEFINE f == SubSeq(s, 1, n)
<1> HIDE DEF f
<1>3. /\ Len(wire') = sent + n
      /\ \A i \in 1..sent : wire'[i] = wire[i]
      /\ \A i \in 1..n : wire'[sent + i] = s[i]
      /\ \A i \in 1..(sent + n) : i \in 1..sent \/ (i - sent \in 1..n /\ sent + (i - sent) = i)
  <2>1. f \in Seq(Nat) /\ Len(f) = n /\ wire' = wire \o f /\ \A i \in 1..n : f[i] = s[i]
    BY <1>2 DEF f, PartSent
  <2>2. /\ Len(wire \o f) = Len(wire) + Len(f)
        /\ \A i \in 1..Len(wire) : (wire \o f)[i] = wire[i]
        /\ \A i \in 1..Len(f) : (wire \o f)[Len(wire) + i] = f[i]
        /\ \A i \in 1..(Len(wire) + Len(f)) : i \in 1..Len(wire)
                                             \/ (i - Len(wire) \in 1..Len(f) /\ Len(wire) + (i - Len(wire)) = i)
    BY <1>1, <2>1, ConcatFacts, Zenon
  <2> QED
    BY <1>1, <2>1, <2>2, Zenon
<1>4. Len(wire') + Len(wbuf') = sent'
  BY <1>0, <1>1, <1>3
<1>5. ASSUME InPlace, \A i \in 1..Len(s) : s[i] = sent + i PROVE InPlace'
  <2>1. ASSUME NEW i \in 1..Len(wire') PROVE wire'[i] = i
    <3>1. CASE i \in 1..sent
      BY <1>1, <1>3, <1>5, <3>1 DEF InPlace
    <3>2. CASE i - sent \in 1..n /\ sent + (i - sent) = i
      <4>1. PICK j \in 1..n : j = i - sent
        BY <3>2
      <4>2. j \in 1..Len(s) /\ sent + j = i
        BY <1>1, <3>2, <4>1
      <4>3. wire'[sent + j] = s[j]
        BY <1>3
      <4> QED
        BY <1>5, <4>2, <4>3
    <3> QED
      BY <1>3, <3>1, <3>2
  <2>2. ASSUME NEW i \in 1..Len(wbuf') PROVE wbuf'[i] = Len(wire') + i
    <3>1. n + i \in 1..Len(s) /\ wbuf'[i] = s[n + i]
      BY <1>0, <1>1 DEF PartSent
    <3>2. s[n + i] = sent + (n + i)
      BY <1>5, <3>1
    <3> QED
      BY <1>1, <1>3, <3>1, <3>2
  <2> QED
    BY <2>1, <2>2 DEF InPlace
<1> QED
  BY <1>3, <1>4, <1>5

LEMMA SpoilsFacts == ASSUME NEW cond, Spoils(cond), ~spoilt' PROVE ~spoilt /\ ~cond
BY Zenon DEF Spoils

LEMMA CompleteFacts ==
  ASSUME CompleteIsTrue, NEW done, Complete(done), done => sent' = Len(wire')
  PROVE  CompleteIsTrue'
<1>1. CASE done
  <2>1. complete' = complete \cup {<<sent', Len(wire')>>}
    BY <1>1, Zenon DEF Complete
  <2> QED
    BY <1>1, <2>1 DEF CompleteIsTrue
<1>2. CASE ~done
  <2>1. complete' = complete
    BY <1>2, Zenon DEF Complete
  <2> QED
    BY <2>1 DEF CompleteIsTrue
<1> QED
  BY <1>1, <1>2

\* The three parts of StreamInv, put together.
LEMMA StreamFrom ==
  ASSUME CompleteIsTrue', Len(wire') + Len(wbuf') = sent', ~spoilt' => InPlace'
  PROVE  StreamInv'
BY Zenon DEF StreamInv, InPlace

LEMMA SendStream ==
  ASSUME UseInv, StreamInv, ch.crash = "no", NEW s \in Seq(Nat), s # <<>>, SendFn(s),
         s[1] = Junk \/ (\A i \in 1..Len(s) : s[i] = sent + i), sent' = sent + Len(s)
  PROVE  StreamInv'
<1>0. /\ CompleteIsTrue /\ Len(wire) + Len(wbuf) = sent /\ (~spoilt => InPlace)
      /\ wbuf \in Seq(Nat) /\ Len(s) \in Nat /\ Len(s) > 0
  BY Frame DEF StreamInv, InPlace
<1>1. PICK ok \in BOOLEAN :
        \/ /\ Keep(s, 0, ch, ok) /\ Spoils(s[1] = Junk) /\ UNCHANGED <<wire, complete>>
        \/ \E n \in 1..Len(s) :
             /\ Direct /\ wire' = wire \o SubSeq(s, 1, n) /\ Complete(SentInFull(n, s))
             /\ IF HasRest(n, s) THEN Keep(s, n, ch, ok) ELSE UNCHANGED <<wbuf, ch>>
             /\ Spoils(s[1] = Junk)
        \/ Keep(s, -1, ch, ok) /\ Spoils(TRUE) /\ UNCHANGED <<wire, complete>>
        \/ /\ wbuf' = Rest(s, -1) /\ CloseFn /\ UNCHANGED complete
           /\ ch' = EnableEvents(CloseChannel(SetEvents(ch, {}, ok)), {"w"}, ok)
  BY Zenon DEF SendFn
<1>2. ASSUME Spoils(s[1] = Junk), ~spoilt'
      PROVE  InPlace /\ (\A i \in 1..Len(s) : s[i] = sent + i)
  BY <1>0, <1>2, SpoilsFacts, Zenon
<1>3. CASE Keep(s, 0, ch, ok) /\ Spoils(s[1] = Junk) /\ UNCHANGED <<wire, complete>>
  <2>1. 0 \in -1..(Len(s) - 1) /\ ~(0 = -1)
    BY <1>0
  <2>2. PICK r \in Seq(Nat) : r = Rest(s, 0) /\ Len(r) = Len(s) /\ \A i \in 1..Len(s) : r[i] = s[i]
    <3>1. /\ Rest(s, 0) \in Seq(Nat) /\ Len(Rest(s, 0)) = Len(s) - 0
          /\ \A i \in 1..(Len(s) - 0) : Rest(s, 0)[i] = s[0 + i]
      BY <2>1, RestFacts
    <3> QED
      BY <1>0, <3>1
  <2>3. wbuf' = wbuf \o r
    BY <1>3, <2>2 DEF Keep
  <2>4. /\ Len(wire') + Len(wbuf') = sent'
        /\ InPlace /\ (\A i \in 1..Len(s) : r[i] = sent + i) => InPlace'
    BY <1>0, <1>3, <2>2, <2>3, KeepWhole, Zenon
  <2>5. CompleteIsTrue'
    BY <1>0, <1>3 DEF CompleteIsTrue
  <2>6. ~spoilt' => InPlace'
    BY <1>2, <1>3, <2>2, <2>4
  <2> QED
    BY <2>4, <2>5, <2>6, StreamFrom
<1>4. ASSUME NEW n \in 1..Len(s), Direct, wire' = wire \o SubSeq(s, 1, n), Complete(SentInFull(n, s)),
             IF HasRest(n, s) THEN Keep(s, n, ch, ok) ELSE UNCHANGED <<wbuf, ch>>,
             Spoils(s[1] = Junk)
      PROVE  StreamInv'
  <2>1. wbuf = <<>>
    BY <1>4 DEF Direct
  <2>2. Len(wbuf') = Len(s) - n /\ \A i \in 1..(Len(s) - n) : wbuf'[i] = s[n + i]
    <3>1. CASE HasRest(n, s)
      <4>1. n \in -1..(Len(s) - 1) /\ ~(n = -1)
        BY <1>0, <3>1 DEF HasRest
      <4>2. PICK r \in Seq(Nat) : r = Rest(s, n) /\ Len(r) = Len(s) - n
                                  /\ \A i \in 1..(Len(s) - n) : r[i] = s[n + i]
        BY Zenon, <4>1, RestFacts
      <4>3. wbuf' = <<>> \o r
        BY <1>4, <2>1, <3>1, <4>2 DEF Keep
      <4>4. wbuf' = r
        BY <4>2, <4>3
      <4> QED
        BY <4>2, <4>4
    <3>2. CASE ~HasRest(n, s)
      <4>1. wbuf' = <<>> /\ Len(s) - n = 0
        BY <1>0, <1>4, <2>1, <3>2 DEF HasRest
      <4> QED
        BY <4>1
    <3> QED
      BY <3>1, <3>2
  <2>3. PartSent(s, n)
    BY <1>0, <1>4, <2>1, <2>2, Zenon DEF PartSent
  <2>4. /\ Len(wire') = sent + n /\ Len(wire') + Len(wbuf') = sent'
        /\ InPlace /\ (\A i \in 1..Len(s) : s[i] = sent + i) => InPlace'
    BY <2>3, SendPart
  <2>5. CompleteIsTrue'
    <3>1. SentInFull(n, s) => sent' = Len(wire')
      BY <2>4 DEF SentInFull
    <3> QED
      BY <1>0, <1>4, <3>1, CompleteFacts
  <2>6. ~spoilt' => InPlace'
    BY <1>2, <1>4, <2>4
  <2> QED
    BY <2>4, <2>5, <2>6, StreamFrom
<1>5. CASE Keep(s, -1, ch, ok) /\ Spoils(TRUE) /\ UNCHANGED <<wire, complete>>
  <2>1. -1 \in -1..(Len(s) - 1)
    BY <1>0
  <2>2. PICK r \in Seq(Nat) : r = Rest(s, -1) /\ Len(r) = Len(s)
    BY <2>1, RestFacts
  <2>3. wbuf' = wbuf \o r
    BY <1>5, <2>2 DEF Keep
  <2>4. Len(wire') + Len(wbuf') = sent'
    BY Zenon, <1>0, <1>5, <2>2, <2>3, KeepWhole
  <2>5. CompleteIsTrue' /\ spoilt'
    BY <1>0, <1>5, Zenon DEF CompleteIsTrue, Spoils
  <2> QED
    BY <2>4, <2>5, StreamFrom
<1>6. CASE /\ wbuf' = Rest(s, -1) /\ CloseFn /\ UNCHANGED complete
           /\ ch' = EnableEvents(CloseChannel(SetEvents(ch, {}, ok)), {"w"}, ok)
  <2>1. ch'.crash # "no"
    BY <1>6, FailStep, Zenon
  <2> QED
    BY Zenon, <1>0, <1>6, <2>1 DEF StreamInv, CompleteIsTrue
<1> QED
  BY <1>1, <1>3, <1>4, <1>5, <1>6, Zenon

\* The write handler moves the first n bytes of the buffer to the wire.
Drained(n) ==
  /\ wire' = wire \o SubSeq(wbuf, 1, n)
  /\ wbuf' = SubSeq(wbuf, n + 1, Len(wbuf))

LEMMA DrainStream ==
  ASSUME UseInv, StreamInv, ch.crash = "no", NEW n \in 1..Len(wbuf), Drained(n),
         sent' = sent, Complete(wbuf' = <<>>), spoilt' = spoilt
  PROVE  StreamInv'
<1>0. /\ CompleteIsTrue /\ Len(wire) + Len(wbuf) = sent /\ (~spoilt => InPlace)
      /\ wbuf \in Seq(Nat) /\ wire \in Seq(Nat)
  BY Frame DEF StreamInv, InPlace
<1>1. Len(wbuf) \in Nat /\ Len(wire) \in Nat /\ n \in Nat /\ n <= Len(wbuf)
  BY <1>0
<1>2. /\ Len(wbuf') = Len(wbuf) - n
      /\ \A i \in 1..(Len(wbuf) - n) : wbuf'[i] = wbuf[n + i] /\ n + i \in 1..Len(wbuf)
  BY <1>0, <1>1 DEF Drained
<1>3. PICK t \in Seq(Nat) : /\ t = SubSeq(wbuf, 1, n) /\ Len(t) = n
                            /\ \A i \in 1..n : t[i] = wbuf[i]
  BY <1>0, FirstFacts, Zenon
<1> wire' = wire \o t
  BY <1>3 DEF Drained
<1>4. /\ Len(wire') = Len(wire) + n
      /\ \A i \in 1..Len(wire) : wire'[i] = wire[i]
      /\ \A i \in 1..n : wire'[Len(wire) + i] = t[i]
      /\ \A i \in 1..(Len(wire) + n) :
           i \in 1..Len(wire) \/ (i - Len(wire) \in 1..n /\ Len(wire) + (i - Len(wire)) = i)
  <2>1. Joined(wire, t, wire \o t)
    BY Zenon, <1>0, JoinedFacts
  <2> QED
    BY Zenon, <1>3, <2>1 DEF Joined
<1>5. Len(wire') + Len(wbuf') = sent'
  BY <1>0, <1>1, <1>2, <1>4
<1>6. CompleteIsTrue'
  <2>1. wbuf' = <<>> => sent' = Len(wire')
    <3>1. Len(wire') \in Nat /\ (wbuf' = <<>> => Len(wbuf') = 0)
      BY <1>1, <1>4
    <3> QED
      BY <1>5, <3>1
  <2> QED
    BY <1>0, <2>1, CompleteFacts, Zenon
<1>7. ASSUME InPlace PROVE InPlace'
  <2>1. ASSUME NEW i \in 1..Len(wire') PROVE wire'[i] = i
    <3>1. CASE i \in 1..Len(wire)
      BY <1>4, <1>7, <3>1 DEF InPlace
    <3>2. CASE i - Len(wire) \in 1..n /\ Len(wire) + (i - Len(wire)) = i
      <4>1. PICK j \in 1..n : j = i - Len(wire) /\ Len(wire) + j = i
        BY <3>2, Zenon
      <4>2. wire'[Len(wire) + j] = wbuf[j] /\ j \in 1..Len(wbuf)
        BY <1>1, <1>3, <1>4
      <4>3. wbuf[j] = Len(wire) + j
        BY <1>7, <4>2 DEF InPlace
      <4> QED
        BY <4>1, <4>2, <4>3
    <3> QED
      BY <1>4, <3>1, <3>2
  <2>2. ASSUME NEW i \in 1..Len(wbuf') PROVE wbuf'[i] = Len(wire') + i
    <3>1. wbuf'[i] = wbuf[n + i] /\ n + i \in 1..Len(wbuf)
      BY <1>2
    <3>2. wbuf[n + i] = Len(wire) + (n + i)
      BY <1>7, <3>1 DEF InPlace
    <3> QED
      BY <1>1, <1>2, <1>4, <3>1, <3>2
  <2> QED
    BY <2>1, <2>2 DEF InPlace
<1> QED
  BY <1>0, <1>5, <1>6, <1>7, StreamFrom

\* A step that leaves the bytes alone.
LEMMA IdleStream ==
  ASSUME StreamInv, ch.crash = "no", UNCHANGED <<wbuf, wire, sent, complete, spoilt>>
  PROVE  StreamInv'
BY Zenon DEF StreamInv, CompleteIsTrue

LEMMA WriteStream ==
  ASSUME UseInv, StreamInv, ch.crash = "no", WritePart
  PROVE  StreamInv'
<1>1. spoilt' = spoilt
  BY Zenon DEF WritePart
<1>2. CASE UNCHANGED <<wbuf, wire, sent, complete>>
  BY <1>1, <1>2, IdleStream
<1>3. CASE WriteHandle
  <2>1. ASSUME NEW n \in 1..Len(wbuf),
               wire' = wire \o SubSeq(wbuf, 1, n), wbuf' = SubSeq(wbuf, n + 1, Len(wbuf)),
               sent' = sent, Complete(wbuf' = <<>>)
        PROVE  StreamInv'
    BY <1>1, <2>1, DrainStream, Zenon DEF Drained
  <2> QED
    BY <1>2, <1>3, <2>1, Zenon DEF WriteHandle
<1> QED
  BY <1>2, <1>3, Zenon DEF WritePart

LEMMA SendStreams ==
  ASSUME UseInv, StreamInv, ch.crash = "no", Send \/ RunSend
  PROVE  StreamInv'
<1>1. CASE Send
  <2>1. PICK k \in 1..MaxSend : sent' = sent + k /\ SendFn(NextBytes(k))
    BY <1>1, Zenon DEF Send
  <2>2. PICK s \in Seq(Nat) : /\ s = NextBytes(k) /\ s # <<>> /\ Len(s) = k
                              /\ \A i \in 1..k : s[i] = sent + i
    BY Frame, NextBytesFacts
  <2> QED
    BY <2>1, <2>2, SendStream
<1>2. CASE RunSend
  <2>1. Head(queue) \in Closures /\ Head(queue).op = "send"
    BY <1>2, RunFacts, Zenon DEF RunSend
  <2>2. PICK k \in 1..MaxSend : k = Head(queue).n
    BY <2>1 DEF Closures
  <2>3. CASE Alive
    <3>1. PICK s \in {NextBytes(k)} \cup (IF Head(queue).valid THEN {} ELSE {[i \in 1..k |-> Junk]}) :
            SendFn(s) /\ sent' = sent + k
      BY <1>2, <2>2, <2>3, Zenon DEF RunSend
    <3>2. s \in Seq(Nat) /\ s # <<>> /\ Len(s) = k /\ (s[1] = Junk \/ \A i \in 1..k : s[i] = sent + i)
      BY Zenon, <3>1, Frame, QueuedBytes
    <3> QED
      BY <3>1, <3>2, SendStream
  <2>4. CASE ~Alive
    <3>1. UNCHANGED <<wbuf, wire, sent, complete, spoilt>>
      BY <1>2, <2>4, Zenon DEF RunSend
    <3> QED
      BY <3>1, IdleStream
  <2> QED
    BY <2>3, <2>4
<1> QED
  BY <1>1, <1>2

LEMMA StreamInit == Init => StreamInv
BY DEF Init, StreamInv, CompleteIsTrue, NewChannel

LEMMA StreamStep == UseInv /\ StreamInv /\ [Next]_vars => StreamInv'
<1> SUFFICES ASSUME UseInv, StreamInv, [Next]_vars PROVE StreamInv'
  OBVIOUS
<1>1. CASE UNCHANGED vars
  BY <1>1 DEF vars, StreamInv, CompleteIsTrue
<1>2. CASE Next
  <2>1. ch.crash = "no"
    BY <1>2 DEF Next
  <2>2. CASE \/ Close \/ \E w \in {"none", "write"} : ReadHandle(w)
             \/ OtherSend \/ OtherReturn \/ OtherClose \/ RunAttach
             \/ RunClose \/ ControlRemove \/ Release
    <3>1. UNCHANGED <<wbuf, wire, sent, complete, spoilt>>
      BY <2>2, Zenon DEF Close, ReadHandle, OtherSend, OtherReturn, OtherClose, RunAttach, RunClose,
                  ControlRemove, Release
    <3> QED
      BY <2>1, <3>1, IdleStream
  <2>3. CASE WritePart
    BY <2>1, <2>3, WriteStream
  <2>4. CASE Send \/ RunSend
    BY <2>1, <2>4, SendStreams
  <2> QED
    BY <1>2, <2>2, <2>3, <2>4, Zenon DEF Next
<1> QED
  BY <1>1, <1>2

\* wire \o wbuf is the sequence of the bytes sent.
LEMMA PlacesAreOrder ==
  ASSUME UseInv, Len(wire) + Len(wbuf) = sent, InPlace
  PROVE  wire \o wbuf = [i \in 1..sent |-> i]
<1>0. wbuf \in Seq(Nat) /\ wire \in Seq(Nat) /\ Len(wbuf) \in Nat /\ Len(wire) \in Nat
  BY Frame
<1>1. PICK t \in Seq(Nat) :
        /\ t = wire \o wbuf /\ Len(t) = sent
        /\ \A i \in 1..Len(wire) : t[i] = wire[i]
        /\ \A i \in 1..Len(wbuf) : t[Len(wire) + i] = wbuf[i]
        /\ \A i \in 1..sent :
             i \in 1..Len(wire) \/ (i - Len(wire) \in 1..Len(wbuf) /\ Len(wire) + (i - Len(wire)) = i)
  BY <1>0, ConcatFacts, Zenon
<1>2. ASSUME NEW i \in 1..sent PROVE t[i] = i
  <2>1. CASE i \in 1..Len(wire)
    BY <1>1, <2>1 DEF InPlace
  <2>2. CASE i - Len(wire) \in 1..Len(wbuf) /\ Len(wire) + (i - Len(wire)) = i
    <3>1. PICK j \in 1..Len(wbuf) : Len(wire) + j = i
      BY <2>2, Zenon
    <3>2. t[Len(wire) + j] = Len(wire) + j
      BY <1>1 DEF InPlace
    <3> QED
      BY <3>1, <3>2
  <2> QED
    BY <1>1, <2>1, <2>2
<1>3. t = [i \in 1..sent |-> t[i]]
  <2>1. t \in [1..Len(t) -> Nat]
    BY Zenon, IsFunction
  <2> QED
    BY <1>1, <2>1, Zenon
<1>4. t = [i \in 1..sent |-> i]
  BY <1>2, <1>3, Zenon
<1> QED
  BY <1>1, <1>4

-----------------------------------------------------------------------------
(* Theorems.                                                               *)

\* The write event is enabled exactly while write_buffer_ holds bytes, until the
\* connection is closed, as the comment at tcp_conn.cpp:69 says: for sends of
\* every size, whatever the kernel takes of them, and for every answer of event_add.
THEOREM WritableHolds == Spec => []WritableIffPending
BY UseCorrect, PTL DEF UseInv

LEMMA UseGivesClosedUse == UseInv => ClosedUse
<1> SUFFICES ASSUME UseInv PROVE ClosedUse
  OBVIOUS
<1>1. AliveWhileAttached
  BY DeadIsClosed, Zenon DEF UseInv, ChannelInv, AliveWhileAttached
<1> QED
  BY <1>1, Zenon DEF UseInv, ClosedUse

\* While its event may fire the connection lives; netFdWriteHandle finds the write
\* event enabled and bytes to write, also after a read callback that sent or closed;
\* and it is misused (a NULL event, a freed channel or connection) only once closed.
THEOREM ClosedUseHolds == Spec => []ClosedUse
BY UseCorrect, UseGivesClosedUse, PTL

LEMMA StreamGivesTrue == UseInv /\ StreamInv => StreamIsTrue
<1> SUFFICES ASSUME UseInv, StreamInv PROVE StreamIsTrue
  OBVIOUS
<1>1. ASSUME ch.crash = "no", ~spoilt PROVE wire \o wbuf = [i \in 1..sent |-> i]
  <2>1. Len(wire) + Len(wbuf) = sent /\ InPlace
    BY <1>1, Zenon DEF StreamInv, InPlace
  <2> QED
    BY <2>1, PlacesAreOrder
<1> QED
  BY <1>1, Zenon DEF StreamInv, StreamIsTrue, DisorderNeedsCause, InOrder

\* The bytes of send() reach the kernel in their order and none is lost or repeated,
\* unless ::send met EAGAIN in send() or a closure ran without its arguments; and
\* write_complete_fn_ is called only when all bytes sent so far are on the wire.
THEOREM StreamIsTrueHolds == Spec => []StreamIsTrue
<1>1. Spec => []StreamInv
  BY UseCorrect, StreamInit, StreamStep, PTL DEF Spec
<1> QED
  BY <1>1, UseCorrect, StreamGivesTrue, PTL
=============================================================================
