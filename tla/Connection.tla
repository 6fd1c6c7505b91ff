----------------------------- MODULE Connection -----------------------------
(***************************************************************************)
(* One TCP connection (src/net/atp_tcp_conn.cpp) with the Channel that     *)
(* carries its libevent event (src/net/atp_channel.cpp), on its IO loop,   *)
(* with the entry in the server's table that keeps it alive.  The bytes of *)
(* the application are 1, 2, 3, ... in the order send runs; Junk is a byte *)
(* it never passed.  A callback, on the loop thread, calls send and close  *)
(* inline; another thread calls them through the loop's queue.  The kernel *)
(* takes any number of bytes or answers with an error.                     *)
(***************************************************************************)
EXTENDS Integers, Sequences

CONSTANTS
  MaxSend,       \* bound on the bytes of one send
  MaxSent,       \* bound on the bytes of all sends
  MaxClose       \* bound on the calls of close

ASSUME BoundAssumption == MaxSend \in Nat

VARIABLES
  ch,        \* *chan_: events_, attached_, event_ (non-NULL), callbacks set, crash
  wbuf,      \* the unread bytes of write_buffer_
  wire,      \* the bytes the kernel took
  sent,      \* how many bytes send() was given
  queue,     \* closures queued to the IO loop
  caller,    \* the other thread is inside send()
  which,     \* eventHandle is between its read and its write part
  table,     \* conns_table_ holds the connection
  held,      \* the application holds a ConnectionPtr
  removals,  \* handleCloseConnection closures queued to the control loop
  complete,  \* history: (bytes sent, bytes on the wire) at each write_complete_fn_
  closes,    \* history: calls of close
  spoilt,    \* history: ::send met EAGAIN, or a send() ran without its arguments
  inline     \* the control loop is the IO loop (thread_num_ 0)

vars == <<ch, wbuf, wire, sent, queue, caller, which, table, held, removals,
          complete, closes, spoilt, inline>>

Junk == 0

NewChannel ==
  [events |-> {}, attached |-> FALSE, event |-> TRUE, cbs |-> TRUE, crash |-> "no"]

Init ==
  /\ ch = NewChannel
  /\ wbuf = <<>> /\ wire = <<>> /\ sent = 0
  /\ queue = <<[op |-> "attach"]>> /\ caller = FALSE /\ which = "none"
  /\ table = TRUE /\ held = FALSE /\ removals = 0
  /\ complete = {} /\ closes = 0 /\ spoilt = FALSE /\ inline \in BOOLEAN

\* Closures made by attach and close own a reference, those of send do not.
Alive == \/ table \/ held \/ removals > 0
         \/ \E i \in DOMAIN queue : queue[i].op # "send"
Closed == ~ch.event

-----------------------------------------------------------------------------
(* Channel.                                                                *)

DetachFromEventLoop(c) == [c EXCEPT !.attached = FALSE]

\* event_assign on event_, which is NULL once the channel was closed; ok is
\* the result of event_add.
AttachToEventLoop(c, ok) ==
  IF c.events = {} THEN c
  ELSE IF ~c.event THEN [c EXCEPT !.crash = "null event"]
  ELSE [c EXCEPT !.attached = ok]

UpdateEvents(c, ok) ==
  IF c.events = {} THEN DetachFromEventLoop(c) ELSE AttachToEventLoop(c, ok)

SetEvents(c, events, ok) ==
  IF events = c.events THEN c ELSE UpdateEvents([c EXCEPT !.events = events], ok)

EnableEvents(c, es, ok)  == SetEvents(c, c.events \cup es, ok)
DisableEvents(c, es, ok) == SetEvents(c, c.events \ es, ok)

CloseChannel_CallbacksKept(c) == [DetachFromEventLoop(c) EXCEPT !.event = FALSE]
CloseChannel(c) == [DetachFromEventLoop(c) EXCEPT !.event = FALSE, !.cbs = FALSE]

-----------------------------------------------------------------------------
(* Connection: what runs on the IO loop.                                   *)

\* close_fn_ is the server's handleCloseConnection: the removal is queued to the
\* control loop, or run at once when that is this loop.
CloseFn_Dropped == UNCHANGED <<table, removals>>
CloseFn ==
  IF inline THEN table' = FALSE /\ UNCHANGED removals
            ELSE removals' = removals + 1 /\ UNCHANGED table

\* netFdErrorHandle, netFdCloseHandle.
CloseHandle == ch' = CloseChannel(SetEvents(ch, {}, TRUE)) /\ CloseFn

Complete(done) ==
  complete' = IF done THEN complete \cup {<<sent', Len(wire')>>} ELSE complete

\* Nothing may overtake the bytes that wait in write_buffer_.
Direct_BufferForgotten == "w" \notin ch.events \/ wbuf = <<>>
Direct == "w" \notin ch.events /\ wbuf = <<>>

SentInFull(n, s) == n = Len(s)

HasRest(n, s) == n < Len(s)

\* The remaining bytes of data + nwrite: with nwrite = -1 from the byte before.
Rest(s, n) ==
  IF n = -1 THEN <<Junk>> \o SubSeq(s, 1, Len(s) - 1) ELSE SubSeq(s, n + 1, Len(s))

Keep(s, n, c, ok) ==
  /\ wbuf' = wbuf \o Rest(s, n)
  /\ ch' = EnableEvents(c, {"w"}, ok)

Spoils(cond) == spoilt' = (spoilt \/ cond)

\* The closure of send() run with the bytes s.
SendFn(s) == \E ok \in BOOLEAN :
  \/ /\ ~Direct
     /\ Keep(s, 0, ch, ok)
     /\ Spoils(s[1] = Junk)
     /\ UNCHANGED <<wire, table, removals, complete>>
  \/ \E n \in 1..Len(s) :
     /\ Direct
     /\ wire' = wire \o SubSeq(s, 1, n)
     /\ Complete(SentInFull(n, s))
     /\ IF HasRest(n, s) THEN Keep(s, n, ch, ok) ELSE UNCHANGED <<wbuf, ch>>
     /\ Spoils(s[1] = Junk)
     /\ UNCHANGED <<table, removals>>
  \/ /\ Direct                             \* EAGAIN, EINTR
     /\ Keep(s, -1, ch, ok) /\ Spoils(TRUE)
     /\ UNCHANGED <<wire, table, removals, complete>>
  \/ /\ Direct                             \* close, then enableEvents all the same
     /\ wbuf' = Rest(s, -1)
     /\ ch' = EnableEvents(CloseChannel(SetEvents(ch, {}, ok)), {"w"}, ok)
     /\ CloseFn /\ Spoils(s[1] = Junk)
     /\ UNCHANGED <<wire, complete>>

NextBytes(k) == [i \in 1..k |-> sent + i]
CanSend(k) == held /\ sent + k <= MaxSent
CanClose == held /\ closes < MaxClose

\* send() and close() on the loop thread: sendToQueue runs them at once.
Send == \E k \in 1..MaxSend :
  /\ CanSend(k)
  /\ sent' = sent + k
  /\ SendFn(NextBytes(k))
  /\ UNCHANGED <<queue, caller, which, held, closes>>

Close ==
  /\ CanClose
  /\ closes' = closes + 1
  /\ CloseHandle
  /\ UNCHANGED <<wbuf, wire, sent, queue, caller, which, held, complete, spoilt>>

\* The read part of eventHandle.  A readv of no bytes closes, whatever the error;
\* otherwise read_fn_ runs, whose calls are Send and Close.
ReadHandle(w) ==
  /\ ch.attached /\ "r" \in ch.events /\ which = "none"
  /\ w = "write" => "w" \in ch.events
  /\ which' = w
  /\ CloseHandle \/ UNCHANGED <<ch, table, removals>>
  /\ UNCHANGED <<wbuf, wire, sent, queue, caller, held, complete, closes, spoilt>>

DisableIfDrained_Never(c, rest, ok) == c
DisableIfDrained(c, rest, ok) == IF rest = <<>> THEN DisableEvents(c, {"w"}, ok) ELSE c

\* netFdWriteHandle.
WriteHandle == \E ok \in BOOLEAN :
  \/ \E n \in 1..Len(wbuf) :
     /\ wire' = wire \o SubSeq(wbuf, 1, n)
     /\ wbuf' = SubSeq(wbuf, n + 1, Len(wbuf))
     /\ ch' = DisableIfDrained(ch, wbuf', ok)
     /\ sent' = sent
     /\ Complete(wbuf' = <<>>)
     /\ UNCHANGED <<table, removals>>
  \/ UNCHANGED <<wire, wbuf, ch, sent, complete, table, removals>>   \* EAGAIN, EINTR
  \/ CloseHandle /\ UNCHANGED <<wire, wbuf, sent, complete>>

\* The write part of eventHandle: alone, or after a read part.
WritePart ==
  /\ \/ which = "write"
     \/ which = "none" /\ ch.attached /\ "w" \in ch.events
  /\ which' = "none"
  /\ IF ~Alive THEN /\ ch' = [ch EXCEPT !.crash = "freed channel"]
                    /\ UNCHANGED <<wire, wbuf, sent, complete, table, removals>>
     ELSE IF ch.cbs THEN WriteHandle
     ELSE UNCHANGED <<ch, wire, wbuf, sent, complete, table, removals>>
  /\ UNCHANGED <<queue, caller, held, closes, spoilt>>

-----------------------------------------------------------------------------
(* The queue of the IO loop, the other thread and the control loop.        *)

\* Another thread calls send(): the closure holds references to its arguments.
OtherSend == \E k \in 1..MaxSend :
  /\ CanSend(k) /\ ~caller
  /\ \A i \in DOMAIN queue : queue[i].op # "send"   \* bound: one waits at a time
  /\ queue' = Append(queue, [op |-> "send", n |-> k, valid |-> TRUE])
  /\ caller' = TRUE
  /\ UNCHANGED <<ch, wbuf, wire, sent, which, table, held, removals, complete, closes, spoilt>>

OtherReturn ==
  /\ caller
  /\ caller' = FALSE
  /\ queue' = [i \in DOMAIN queue |->
                 IF queue[i].op = "send" THEN [queue[i] EXCEPT !.valid = FALSE] ELSE queue[i]]
  /\ UNCHANGED <<ch, wbuf, wire, sent, which, table, held, removals, complete, closes, spoilt>>

OtherClose ==
  /\ CanClose /\ ~caller
  /\ closes' = closes + 1
  /\ queue' = Append(queue, [op |-> "close"])
  /\ UNCHANGED <<ch, wbuf, wire, sent, caller, which, table, held, removals, complete, spoilt>>

\* The loop takes the first closure of its queue.
Run(op) ==
  /\ queue # <<>> /\ Head(queue).op = op /\ which = "none"
  /\ queue' = Tail(queue)
  /\ UNCHANGED <<caller, which, closes>>

RunAttach ==
  /\ Run("attach")
  /\ \E ok \in BOOLEAN : ch' = EnableEvents(ch, {"r"}, ok)
  /\ held' = TRUE   \* conn_fn_
  /\ UNCHANGED <<wbuf, wire, sent, table, removals, complete, spoilt>>

RunClose ==
  /\ Run("close")
  /\ CloseHandle
  /\ UNCHANGED <<held, wbuf, wire, sent, complete, spoilt>>

\* The arguments of a send() that has returned may have been overwritten.
RunSend ==
  /\ Run("send")
  /\ LET k == Head(queue).n
         junk == IF Head(queue).valid THEN {} ELSE {[i \in 1..k |-> Junk]}
     IN IF Alive THEN /\ sent' = sent + k
                      /\ \E s \in {NextBytes(k)} \cup junk : SendFn(s)
        ELSE /\ ch' = [ch EXCEPT !.crash = "freed connection"]
             /\ UNCHANGED <<wbuf, wire, sent, table, removals, complete, spoilt>>
  /\ UNCHANGED held

\* The closure of handleCloseConnection: hashTableRemove.
ControlRemove ==
  /\ removals > 0
  /\ removals' = removals - 1
  /\ table' = FALSE
  /\ UNCHANGED <<ch, wbuf, wire, sent, queue, caller, which, held, complete, closes, spoilt>>

Release ==
  /\ held /\ ~caller
  /\ held' = FALSE
  /\ UNCHANGED <<ch, wbuf, wire, sent, queue, caller, which, table, removals, complete, closes, spoilt>>

Next ==
  /\ ch.crash = "no" /\ UNCHANGED inline
  /\ \/ Send \/ Close \/ \E w \in {"none", "write"} : ReadHandle(w)
     \/ WritePart \/ OtherSend \/ OtherReturn \/ OtherClose \/ RunAttach
     \/ RunClose \/ RunSend \/ ControlRemove \/ Release

Spec == Init /\ [][Next]_vars

\* The control loop runs what is queued to it (Delivered of EventLoop).
FairSpec == Spec /\ WF_vars(ch.crash = "no" /\ ControlRemove /\ UNCHANGED inline)

-----------------------------------------------------------------------------
(* Properties.                                                             *)

\* "to make sure that write in order" (tcp_conn.cpp:66-68): through short writes,
\* retransmission, and sends in between, the kernel is given exactly the bytes of
\* send(), in their order, and what it was not given yet is in write_buffer_.
InOrder ==
  ch.crash = "no" => wire \o wbuf = [i \in 1..sent |-> i]

\* The order of the bytes is lost only through an EAGAIN of ::send in send(), or a
\* send() of another thread that ran after its arguments were gone: short writes,
\* closes and the alternation of direct and buffered sending keep it.
DisorderNeedsCause == ~spoilt => InOrder

\* "When a Connection write all data to file description kernel buffer, this callback
\* will be called" (tcp_conn.h:103): write_complete_fn_ is never called early.
CompleteIsTrue == \A p \in complete : p[1] = p[2]

\* "The channel's writable is true only if retransmission data needs to be written"
\* (tcp_conn.cpp:69), and conversely waiting bytes keep the write event enabled
\* until the connection is closed: a forgotten event would strand them.
WritableIffPending == ~Closed => ("w" \in ch.events <=> wbuf # <<>>)

\* netFdWriteHandle's assertion (tcp_conn.cpp:135), also when the read callback of
\* the same event has run first and the application has sent or closed in it.
WriteAsserts ==
  which = "write" /\ ch.cbs /\ ch.crash = "no" => "w" \in ch.events /\ wbuf # <<>>

\* A connection is misused only once it is closed: by a send() with bytes left over,
\* which enables the write event of the closed channel; by eventHandle, testing
\* write_cb_ after a read callback during which the last reference went away; and by
\* a send() of another thread, whose closure holds no reference.
CrashNeedsClose ==
  ch.crash # "no" => Closed /\ (ch.crash = "null event" => wbuf # <<>>)

\* The connection lives as long as its event may fire.
AliveWhileAttached == ch.attached => Alive

\* What the stream promises: order unless it was spoilt, and no early completion
\* (send and netFdWriteHandle).
StreamIsTrue == DisorderNeedsCause /\ CompleteIsTrue

\* What is used of a connection that is closing: an attached channel is alive, the write
\* handler's assertion holds, and only a closed connection is misused.
ClosedUse == AliveWhileAttached /\ WriteAsserts /\ CrashNeedsClose

\* Whatever closes it, the connection leaves the server's table.
ClosedIsRemoved == Closed ~> (~table \/ ch.crash # "no")
=============================================================================
