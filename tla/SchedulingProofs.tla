--------------------------- MODULE SchedulingProofs ---------------------------
(* Theorems about the parts that run callbacks later or elsewhere: about     *)
(* TimingWheel, for every set of connections, every size of the ring and any *)
(* number of messages; about CycleTimer, for every number of triggers and    *)
(* cancels; about LoopWatcher, for every capacity of the pipe and any number *)
(* of notifications; and about DynamicThreadPool, for every number of        *)
(* workers and tasks.                                                        *)
EXTENDS TimingWheel, CycleTimer, LoopWatcher, DynamicThreadPool,
        FiniteSetTheorems, SequenceTheorems, TLAPS

-----------------------------------------------------------------------------
(* The wheel: the inductive invariant.                                     *)

TypeInv ==
  /\ locked \in BOOLEAN /\ single \in BOOLEAN /\ lock \in BOOLEAN /\ crash \in BOOLEAN
  /\ wheel \in Seq(SUBSET WheelConns) /\ Len(wheel) <= Slots
  /\ DOMAIN wheelConn = WheelConns
  /\ wheelIo \in [WheelConns -> {"idle", "insert", "inserting"}]
  /\ alive \subseteq WheelConns
  /\ wheelCtl \in {"idle", "pushing"}
  /\ age \in [WheelConns -> Nat]

\* With the mutex nobody is in the wheel while it is free, and with one thread a
\* handler and the timer exclude each other.
MutexInv ==
  /\ locked /\ ~lock => wheelCtl = "idle" /\ \A c \in WheelConns : wheelIo[c] # "inserting"
  /\ single => /\ wheelCtl = "pushing" => Holders = {}
               /\ \A c, d \in Holders : c = d
  /\ RaceNeedsMode1

\* The last bucket of ring that holds c is the one pushed n buckets ago.
Latest(ring, c, n) ==
  /\ n < Len(ring) /\ c \in ring[Len(ring) - n]
  /\ \A q \in 1..Len(ring) : q > Len(ring) - n => c \notin ring[q]

\* An entry's age is its distance from the end of the ring; an entry exists as
\* long as the ring or a handler has it; a close is queued only by an entry that
\* has fallen out, Slots buckets after its last insert.
AgeInv ==
  \A c \in WheelConns :
    /\ c \in In(wheel) => c \in alive /\ Latest(wheel, c, age[c])
    /\ wheelIo[c] # "idle" => c \in alive
    /\ ~crash /\ c \in alive /\ wheelIo[c] = "idle" => c \in In(wheel)
    /\ wheelConn[c] = "closing" => c \notin alive /\ age[c] = Slots
    /\ wheel = <<>> => age[c] = 0

Inv == TypeInv /\ MutexInv /\ AgeInv /\ (crash => wheel = <<>>)

LEMMA InitInv == ASSUME WheelInit PROVE Inv
<1>1. wheel = <<>> /\ Len(wheel) = 0 /\ wheel \in Seq(SUBSET WheelConns) /\ In(wheel) = {}
  BY DEF WheelInit, In
<1>2. TypeInv
  <2>1. Len(wheel) <= Slots
    BY <1>1, SlotsAssumption
  <2>2. wheelIo \in [WheelConns -> {"idle", "insert", "inserting"}] /\ age \in [WheelConns -> Nat] /\ DOMAIN wheelConn = WheelConns
    BY DEF WheelInit
  <2> QED
    BY <1>1, <2>1, <2>2, Zenon DEF WheelInit, TypeInv
<1>3. MutexInv
  BY DEF WheelInit, MutexInv, Holders, RaceNeedsMode1, Race
<1>4. AgeInv
  BY <1>1 DEF WheelInit, AgeInv
<1> QED
  BY <1>1, <1>2, <1>3, <1>4 DEF Inv

-----------------------------------------------------------------------------
(* The ring.                                                               *)

\* What push_back of an empty bucket does: a ring that is not full grows, a full
\* one loses its first bucket.
LEMMA PushEmpty ==
  ASSUME NEW ring \in Seq(SUBSET WheelConns), Len(ring) <= Slots
  PROVE  /\ PushBack(ring, {}) \in Seq(SUBSET WheelConns)
         /\ Len(PushBack(ring, {})) \in 1..Slots
         /\ PushBack(ring, {})[Len(PushBack(ring, {}))] = {}
         /\ Len(ring) = Slots =>
              /\ Len(PushBack(ring, {})) = Slots
              /\ \A q \in 1..(Slots - 1) : PushBack(ring, {})[q] = ring[q + 1]
         /\ Len(ring) # Slots =>
              /\ Len(PushBack(ring, {})) = Len(ring) + 1
              /\ \A q \in 1..Len(ring) : PushBack(ring, {})[q] = ring[q]
<1>0. Slots \in Nat /\ Slots > 0 /\ Len(ring) \in Nat
  BY SlotsAssumption
<1>1. CASE Len(ring) = Slots
  <2>1. PushBack(ring, {}) = Append(Tail(ring), {})
    BY <1>1 DEF PushBack
  <2>2. Tail(ring) \in Seq(SUBSET WheelConns) /\ Len(Tail(ring)) = Slots - 1
    BY <1>0, <1>1
  <2>3. \A q \in 1..(Slots - 1) : Tail(ring)[q] = ring[q + 1]
    BY <1>0, <1>1
  <2> HIDE DEF PushBack
  <2> DEFINE t == Tail(ring)
  <2> HIDE DEF t
  <2>4. t \in Seq(SUBSET WheelConns) /\ Len(t) = Slots - 1 /\ PushBack(ring, {}) = Append(t, {})
    BY <2>1, <2>2 DEF t
  <2>5. /\ Append(t, {}) \in Seq(SUBSET WheelConns) /\ Len(Append(t, {})) = Slots
        /\ Append(t, {})[Slots] = {}
        /\ \A q \in 1..(Slots - 1) : Append(t, {})[q] = t[q]
    BY <1>0, <2>4
  <2>6. \A q \in 1..(Slots - 1) : t[q] = ring[q + 1]
    BY Zenon, <2>3 DEF t
  <2>7. \A q \in 1..(Slots - 1) : PushBack(ring, {})[q] = ring[q + 1]
    BY Zenon, <2>4, <2>5, <2>6
  <2>8. Slots \in 1..Slots
    BY <1>0
  <2> QED
    BY Zenon, <1>1, <2>4, <2>5, <2>7, <2>8
<1>2. CASE Len(ring) # Slots
  <2>1. PushBack(ring, {}) = Append(ring, {})
    BY <1>2 DEF PushBack
  <2>2. /\ Append(ring, {}) \in Seq(SUBSET WheelConns) /\ Len(Append(ring, {})) = Len(ring) + 1
        /\ Append(ring, {})[Len(ring) + 1] = {}
        /\ \A q \in 1..Len(ring) : Append(ring, {})[q] = ring[q]
    BY <1>0
  <2> QED
    BY <1>0, <1>2, <2>1, <2>2
<1> QED
  BY <1>1, <1>2

\* An element of the ring is in one of its buckets.
LEMMA InBucket ==
  ASSUME NEW ring \in Seq(SUBSET WheelConns), NEW c
  PROVE  c \in In(ring) <=> \E q \in 1..Len(ring) : c \in ring[q]
BY DEF In

\* A push makes an entry one bucket older, or drops it when it was in the oldest
\* one of Slots buckets and in no other.
LEMMA PushAges ==
  ASSUME NEW ring \in Seq(SUBSET WheelConns), Len(ring) <= Slots,
         NEW c \in WheelConns, NEW n \in Nat, Latest(ring, c, n)
  PROVE  IF c \in In(PushBack(ring, {}))
         THEN Latest(PushBack(ring, {}), c, n + 1)
         ELSE n + 1 = Slots
<1> DEFINE new == PushBack(ring, {})
<1>0. Slots \in Nat /\ Slots > 0 /\ Len(ring) \in Nat
  BY SlotsAssumption
<1>1. /\ new \in Seq(SUBSET WheelConns) /\ Len(new) \in 1..Slots /\ new[Len(new)] = {}
      /\ Len(ring) = Slots =>
           Len(new) = Slots /\ \A q \in 1..(Slots - 1) : new[q] = ring[q + 1]
      /\ Len(ring) # Slots =>
           Len(new) = Len(ring) + 1 /\ \A q \in 1..Len(ring) : new[q] = ring[q]
  BY PushEmpty
<1>2. /\ n < Len(ring) /\ c \in ring[Len(ring) - n]
      /\ \A q \in 1..Len(ring) : q > Len(ring) - n => c \notin ring[q]
  BY DEF Latest
<1> HIDE DEF new
<1>3. CASE Len(ring) # Slots
  <2>1. Len(new) - (n + 1) = Len(ring) - n /\ Len(ring) - n \in 1..Len(ring)
    BY <1>0, <1>1, <1>2, <1>3
  <2>2. n + 1 < Len(new) /\ c \in new[Len(new) - (n + 1)]
    <3>1. n + 1 < Len(new)
      BY <1>0, <1>1, <1>2, <1>3
    <3>2. new[Len(ring) - n] = ring[Len(ring) - n]
      BY Zenon, <1>1, <1>3, <2>1
    <3> QED
      BY Zenon, <1>2, <2>1, <3>1, <3>2
  <2>3. ASSUME NEW q \in 1..Len(new), q > Len(new) - (n + 1) PROVE c \notin new[q]
    <3>1. q = Len(new) \/ (q \in 1..Len(ring) /\ q > Len(ring) - n)
      BY <1>0, <1>1, <1>3, <2>1, <2>3
    <3>2. CASE q = Len(new)
      BY <1>1, <3>2, Zenon
    <3>3. CASE q \in 1..Len(ring) /\ q > Len(ring) - n
      BY <1>1, <1>2, <1>3, <3>3, Zenon
    <3> QED
      BY <3>1, <3>2, <3>3
  <2>4. Len(new) - (n + 1) \in 1..Len(new)
    BY <1>0, <1>1, <1>3, <2>1
  <2>5. c \in In(new)
    BY <1>1, <2>2, <2>4, InBucket, Zenon
  <2> QED
    BY <2>2, <2>3, <2>5 DEF Latest, new
<1>4. CASE Len(ring) = Slots
  <2>1. ASSUME NEW q \in 1..Len(new), q > Slots - (n + 1) PROVE c \notin new[q]
    <3>1. CASE q = Slots
      BY <1>1, <1>4, <3>1
    <3>2. CASE q # Slots
      <4>1. q \in 1..(Slots - 1) /\ q + 1 \in 1..Slots /\ q + 1 > Slots - n
        BY <1>0, <1>1, <1>4, <2>1, <3>2
      <4> QED
        BY <1>1, <1>2, <1>4, <4>1
    <3> QED
      BY <3>1, <3>2
  <2>2. CASE n + 1 = Slots
    <3>1. \A q \in 1..Len(new) : c \notin new[q]
      BY <1>0, <2>1, <2>2
    <3>2. c \notin In(new)
      BY <1>1, <3>1, InBucket
    <3> QED
      BY <2>2, <3>2 DEF new
  <2>3. CASE n + 1 # Slots
    <3>1. Slots - (n + 1) \in 1..(Slots - 1) /\ n + 1 < Slots /\ (Slots - (n + 1)) + 1 = Slots - n
      BY <1>0, <1>2, <1>4, <2>3
    <3>2. c \in new[Slots - (n + 1)]
      BY Zenon, <1>1, <1>2, <1>4, <3>1
    <3>3. c \in In(new)
      BY <1>0, <1>1, <1>4, <3>1, <3>2, InBucket
    <3>4. Latest(new, c, n + 1)
      BY Zenon, <1>1, <1>4, <2>1, <3>1, <3>2 DEF Latest
    <3> QED
      BY <3>3, <3>4 DEF new
  <2> QED
    BY <2>2, <2>3
<1> QED
  BY <1>3, <1>4

\* A push adds no entry to the ring.
LEMMA PushKeeps ==
  ASSUME NEW ring \in Seq(SUBSET WheelConns), Len(ring) <= Slots,
         NEW c \in In(PushBack(ring, {}))
  PROVE  c \in In(ring)
<1> DEFINE new == PushBack(ring, {})
<1>0. Slots \in Nat /\ Slots > 0 /\ Len(ring) \in Nat
  BY SlotsAssumption
<1>1. /\ new \in Seq(SUBSET WheelConns) /\ Len(new) \in 1..Slots /\ new[Len(new)] = {}
      /\ Len(ring) = Slots =>
           Len(new) = Slots /\ \A q \in 1..(Slots - 1) : new[q] = ring[q + 1]
      /\ Len(ring) # Slots =>
           Len(new) = Len(ring) + 1 /\ \A q \in 1..Len(ring) : new[q] = ring[q]
  BY PushEmpty
<1>2. PICK q \in 1..Len(new) : c \in new[q]
  BY <1>1, InBucket
<1> HIDE DEF new
<1>3. \E p \in 1..Len(ring) : c \in ring[p]
  <2>1. CASE Len(ring) = Slots
    <3>1. q \in 1..(Slots - 1) /\ q + 1 \in 1..Len(ring)
      BY <1>0, <1>1, <1>2, <2>1
    <3> QED
      BY <1>1, <1>2, <2>1, <3>1
  <2>2. CASE Len(ring) # Slots
    <3>1. q \in 1..Len(ring)
      BY <1>0, <1>1, <1>2, <2>2
    <3> QED
      BY <1>1, <1>2, <2>2, <3>1
  <2> QED
    BY <2>1, <2>2
<1> QED
  BY <1>3, InBucket

-----------------------------------------------------------------------------
(* The steps.                                                              *)

\* What a step may do to the handlers of the connections and to the timer, for
\* the mutual exclusion.
LEMMA MutexStep ==
  ASSUME TypeInv, MutexInv, [WheelNext]_whl
  PROVE  MutexInv'
<1>0. /\ locked' = locked /\ single' = single
      /\ locked \in BOOLEAN /\ single \in BOOLEAN /\ lock \in BOOLEAN
      /\ wheelIo \in [WheelConns -> {"idle", "insert", "inserting"}] /\ wheelCtl \in {"idle", "pushing"}
  BY DEF TypeInv, WheelNext, whl
<1> USE DEF Holders, RaceNeedsMode1, Race
<1>1. CASE UNCHANGED <<wheelIo, wheelCtl, lock>>
  BY <1>0, <1>1 DEF MutexInv
<1>2. ASSUME NEW c \in WheelConns, OnConnection(c) \/ OnMessage(c) PROVE MutexInv'
  <2>1. CASE wheelIo' = wheelIo
    BY <1>1, <1>2, <2>1 DEF OnConnection, OnMessage
  <2>2. CASE wheelIo' # wheelIo
    <3>1. wheelIo' = [wheelIo EXCEPT ![c] = "insert"] /\ UNCHANGED <<wheelCtl, lock>>
      BY <1>2, <2>2 DEF OnConnection, OnMessage
    <3>2. single => wheelCtl = "idle" /\ \A d \in WheelConns : wheelIo[d] # "idle" => d = c
      BY <1>2 DEF OnConnection, OnMessage, Turn
    <3>3. \A d \in WheelConns : /\ wheelIo'[d] = "inserting" => wheelIo[d] = "inserting"
                           /\ d # c => wheelIo'[d] = wheelIo[d]
      BY <1>0, <3>1
    <3> QED
      BY <1>0, <3>1, <3>2, <3>3 DEF MutexInv
  <2> QED
    BY <2>1, <2>2
<1>3. ASSUME NEW c \in WheelConns, BeginInsert(c) PROVE MutexInv'
  <2>1. /\ wheelIo[c] = "insert" /\ wheelIo' = [wheelIo EXCEPT ![c] = "inserting"] /\ wheelCtl' = wheelCtl
        /\ locked => ~lock /\ lock' = TRUE
        /\ single => wheelCtl = "idle"
    BY <1>3 DEF BeginInsert, Acquire
  <2>2. wheelIo'[c] = "inserting" /\ \A d \in WheelConns \ {c} : wheelIo'[d] = wheelIo[d]
    BY <1>0, <2>1
  <2> QED
    BY <1>0, <2>1, <2>2 DEF MutexInv
<1>4. ASSUME NEW c \in WheelConns, EndInsert(c) PROVE MutexInv'
  <2>1. wheelIo[c] = "inserting" /\ wheelIo' = [wheelIo EXCEPT ![c] = "idle"] /\ wheelCtl' = wheelCtl /\ lock' = FALSE
    BY <1>4 DEF EndInsert, Release
  <2>2. wheelIo'[c] = "idle" /\ \A d \in WheelConns \ {c} : wheelIo'[d] = wheelIo[d]
    BY <1>0, <2>1
  <2> QED
    BY <1>0, <2>1, <2>2 DEF MutexInv
<1>5. CASE BeginTick
  <2>1. /\ wheelCtl' = "pushing" /\ wheelIo' = wheelIo /\ (locked => ~lock /\ lock' = TRUE)
        /\ single => \A c \in WheelConns : wheelIo[c] = "idle"
    BY <1>5 DEF BeginTick, Acquire
  <2> QED
    BY <1>0, <2>1 DEF MutexInv
<1>6. CASE EndTick
  <2>1. wheelCtl = "pushing" /\ wheelCtl' = "idle" /\ wheelIo' = wheelIo /\ lock' = FALSE
    BY <1>6 DEF EndTick, Release
  <2> QED
    BY <1>0, <2>1 DEF MutexInv
<1>7. ASSUME NEW c \in WheelConns, RunClose(c) \/ PeerClose(c) PROVE MutexInv'
  BY <1>1, <1>7 DEF RunClose, PeerClose
<1>8. CASE UNCHANGED whl
  BY <1>1, <1>8 DEF whl
<1> QED
  BY <1>2, <1>3, <1>4, <1>5, <1>6, <1>7, <1>8 DEF WheelNext

Inserted(ring, c) == [ring EXCEPT ![Len(ring)] = @ \cup {c}]

\* An insert makes the entry the youngest of the ring.
LEMMA InsertRing ==
  ASSUME NEW ring \in Seq(SUBSET WheelConns), ring # <<>>, NEW c \in WheelConns
  PROVE  /\ Inserted(ring, c) \in Seq(SUBSET WheelConns) /\ Len(Inserted(ring, c)) = Len(ring) /\ Len(ring) \in Nat \ {0}
         /\ c \in In(Inserted(ring, c)) /\ Latest(Inserted(ring, c), c, 0)
         /\ \A d \in WheelConns \ {c} : /\ d \in In(Inserted(ring, c)) <=> d \in In(ring)
                                   /\ \A n \in Nat : Latest(ring, d, n) => Latest(Inserted(ring, c), d, n)
<1> DEFINE new == Inserted(ring, c)
<1>1. Len(ring) \in Nat \ {0}
  OBVIOUS
<1>2. new \in Seq(SUBSET WheelConns) /\ Len(new) = Len(ring)
  BY <1>1 DEF Inserted
<1>3. /\ new[Len(ring)] = ring[Len(ring)] \cup {c}
      /\ \A q \in 1..Len(ring) : q # Len(ring) => new[q] = ring[q]
  BY <1>1 DEF Inserted
<1> HIDE DEF new
<1>4. \A d \in WheelConns \ {c} : \A q \in 1..Len(ring) : d \in new[q] <=> d \in ring[q]
  BY <1>3
<1>5. c \in new[Len(new)] /\ Len(new) \in 1..Len(new)
  <2>1. Len(new) \in 1..Len(new)
    BY <1>1, <1>2
  <2>2. c \in new[Len(ring)]
    BY <1>3, Zenon
  <2> QED
    BY <1>2, <2>1, <2>2, Zenon
<1>6. c \in In(new)
  BY <1>2, <1>5, InBucket
<1>7. Latest(new, c, 0)
  <2>1. 0 < Len(new) /\ Len(new) - 0 = Len(new) /\ \A q \in 1..Len(new) : ~(q > Len(new) - 0)
    BY <1>1, <1>2
  <2> QED
    BY <1>5, <2>1 DEF Latest
<1>8. ASSUME NEW d \in WheelConns \ {c}
      PROVE  d \in In(new) <=> d \in In(ring)
  BY <1>2, <1>4, InBucket
<1>9. ASSUME NEW d \in WheelConns \ {c}, NEW n \in Nat, Latest(ring, d, n)
      PROVE  Latest(new, d, n)
  <2>1. Len(ring) - n \in 1..Len(ring)
    BY <1>1, <1>9 DEF Latest
  <2> QED
    BY Zenon, <1>2, <1>4, <1>9, <2>1 DEF Latest
<1> QED
  BY <1>1, <1>2, <1>6, <1>7, <1>8, <1>9 DEF new

LEMMA TypeStep ==
  ASSUME TypeInv, [WheelNext]_whl
  PROVE  TypeInv'
<1>0. /\ locked' = locked /\ single' = single
      /\ locked \in BOOLEAN /\ single \in BOOLEAN /\ lock \in BOOLEAN /\ crash \in BOOLEAN
      /\ wheel \in Seq(SUBSET WheelConns) /\ Len(wheel) <= Slots /\ DOMAIN wheelConn = WheelConns
      /\ wheelIo \in [WheelConns -> {"idle", "insert", "inserting"}] /\ wheelCtl \in {"idle", "pushing"}
      /\ alive \subseteq WheelConns /\ age \in [WheelConns -> Nat]
  BY DEF TypeInv, WheelNext, whl
<1>1. ASSUME lock' \in BOOLEAN, crash' \in BOOLEAN, wheelCtl' \in {"idle", "pushing"},
             wheelIo' \in [WheelConns -> {"idle", "insert", "inserting"}], DOMAIN wheelConn' = WheelConns,
             alive' \subseteq WheelConns, UNCHANGED <<wheel, age>>
      PROVE  TypeInv'
  BY <1>0, <1>1, Zenon DEF TypeInv
<1>2. ASSUME NEW c \in WheelConns, OnConnection(c) \/ OnMessage(c) PROVE TypeInv'
  <2>1. wheelIo' \in [WheelConns -> {"idle", "insert", "inserting"}] /\ DOMAIN wheelConn' = WheelConns
    BY Zenon, <1>0, <1>2 DEF OnConnection, OnMessage
  <2>2. alive' \subseteq WheelConns
    BY <1>0, <1>2 DEF OnConnection, OnMessage
  <2> QED
    BY <1>0, <1>1, <1>2, <2>1, <2>2, Zenon DEF OnConnection, OnMessage
<1>3. ASSUME NEW c \in WheelConns, BeginInsert(c) PROVE TypeInv'
  <2>1. wheelIo' \in [WheelConns -> {"idle", "insert", "inserting"}]
    BY <1>0, <1>3 DEF BeginInsert
  <2>2. lock' \in BOOLEAN
    BY <1>0, <1>3, Zenon DEF BeginInsert, Acquire
  <2> QED
    BY <1>0, <1>1, <1>3, <2>1, <2>2, Zenon DEF BeginInsert
<1>4. ASSUME NEW c \in WheelConns, EndInsert(c) PROVE TypeInv'
  <2>1. wheelIo' \in [WheelConns -> {"idle", "insert", "inserting"}]
    BY <1>0, <1>4 DEF EndInsert
  <2>2. age' \in [WheelConns -> Nat]
    BY <1>0, <1>4 DEF EndInsert
  <2>3. wheel' \in Seq(SUBSET WheelConns) /\ Len(wheel') <= Slots
    <3>1. CASE wheel = <<>>
      BY <1>0, <1>4, <3>1, Zenon DEF EndInsert
    <3>2. CASE wheel # <<>>
      <4>1. wheel' = Inserted(wheel, c)
        BY <1>4, <3>2, Zenon DEF EndInsert, Inserted
      <4>2. wheel' \in Seq(SUBSET WheelConns) /\ Len(wheel') = Len(wheel)
        BY Zenon, <1>0, <3>2, <4>1, InsertRing
      <4> QED
        BY <1>0, <4>2
    <3> QED
      BY <3>1, <3>2
  <2>4. crash' \in BOOLEAN /\ lock' \in BOOLEAN
    BY <1>0, <1>4, Zenon DEF EndInsert, Release
  <2> QED
    BY <1>0, <1>4, <2>1, <2>2, <2>3, <2>4, Zenon DEF EndInsert, TypeInv
<1>5. CASE BeginTick
  <2>1. lock' \in BOOLEAN
    BY <1>0, <1>5, Zenon DEF BeginTick, Acquire
  <2> QED
    BY <1>0, <1>1, <1>5, <2>1, Zenon DEF BeginTick
<1>6. CASE EndTick
  <2>1. age' \in [WheelConns -> Nat] /\ DOMAIN wheelConn' = WheelConns /\ alive' \subseteq WheelConns
    BY <1>0, <1>6, SlotsAssumption DEF EndTick, Expire
  <2>2. wheel' \in Seq(SUBSET WheelConns) /\ Len(wheel') <= Slots
    <3>1. Len(PushBack(wheel, {})) \in 1..Slots /\ PushBack(wheel, {}) \in Seq(SUBSET WheelConns)
      BY <1>0, PushEmpty
    <3> QED
      BY <1>6, <3>1, SlotsAssumption DEF EndTick
  <2>3. lock' \in BOOLEAN /\ wheelCtl' = "idle" /\ UNCHANGED <<wheelIo, crash>>
    BY <1>6, Zenon DEF EndTick, Release
  <2> QED
    BY <1>0, <2>1, <2>2, <2>3, Zenon DEF TypeInv
<1>7. ASSUME NEW c \in WheelConns, RunClose(c) \/ PeerClose(c) PROVE TypeInv'
  <2>1. DOMAIN wheelConn' = WheelConns
    BY <1>0, <1>7 DEF RunClose, PeerClose
  <2> QED
    BY <1>0, <1>1, <1>7, <2>1, Zenon DEF RunClose, PeerClose
<1>8. CASE UNCHANGED whl
  BY <1>0, <1>1, <1>8, Zenon DEF whl
<1> QED
  BY <1>2, <1>3, <1>4, <1>5, <1>6, <1>7, <1>8, Zenon DEF WheelNext

\* The timer's step on one connection: what expires is Slots buckets old.
LEMMA TickStep ==
  ASSUME TypeInv, AgeInv, ~crash, EndTick
  PROVE  AgeInv'
<1>0. /\ wheel \in Seq(SUBSET WheelConns) /\ Len(wheel) <= Slots /\ DOMAIN wheelConn = WheelConns
      /\ alive \subseteq WheelConns /\ age \in [WheelConns -> Nat] /\ Slots \in Nat /\ Slots > 0
  BY SlotsAssumption DEF TypeInv
<1>1. /\ wheel' = PushBack(wheel, {}) /\ wheelIo' = wheelIo /\ crash' = crash
      /\ alive' = alive \cap (In(wheel') \cup Holders)
      /\ wheelConn' = Expire(alive \ alive')
      /\ age' = [c \in WheelConns |-> IF c \in alive /\ age[c] < Slots THEN age[c] + 1 ELSE age[c]]
  BY DEF EndTick, Referenced
<1>2. Len(wheel') # 0 /\ wheel' # <<>>
  <2>1. Len(PushBack(wheel, {})) \in 1..Slots
    BY <1>0, PushEmpty
  <2> QED
    BY <1>0, <1>1, <2>1
<1> SUFFICES ASSUME NEW c \in WheelConns
             PROVE  /\ c \in In(wheel)' => c \in alive' /\ Latest(wheel, c, age[c])'
                    /\ wheelIo'[c] # "idle" => c \in alive'
                    /\ ~crash' /\ c \in alive' /\ wheelIo'[c] = "idle" => c \in In(wheel)'
                    /\ wheelConn'[c] = "closing" => c \notin alive' /\ age'[c] = Slots
  BY Zenon, <1>2 DEF AgeInv
<1>3. /\ c \in In(wheel) => c \in alive /\ Latest(wheel, c, age[c])
      /\ wheelIo[c] # "idle" => c \in alive
      /\ c \in alive /\ wheelIo[c] = "idle" => c \in In(wheel)
      /\ wheelConn[c] = "closing" => c \notin alive /\ age[c] = Slots
  BY DEF AgeInv
<1>4. c \in In(wheel') => c \in In(wheel)
  BY Zenon, <1>0, <1>1, PushKeeps
<1>5. c \in Holders <=> wheelIo[c] # "idle"
  BY DEF Holders
<1>6. age'[c] = IF c \in alive /\ age[c] < Slots THEN age[c] + 1 ELSE age[c]
  BY <1>1
<1>7. ASSUME c \in In(wheel)
      PROVE  IF c \in In(wheel') THEN Latest(wheel', c, age'[c]) ELSE age'[c] = Slots
  <2>1. age[c] \in Nat /\ Latest(wheel, c, age[c]) /\ c \in alive
    BY <1>0, <1>3, <1>7
  <2>2. age[c] < Slots
    BY <1>0, <2>1 DEF Latest
  <2>3. age'[c] = age[c] + 1
    BY <1>6, <2>1, <2>2
  <2>4. IF c \in In(PushBack(wheel, {})) THEN Latest(PushBack(wheel, {}), c, age[c] + 1)
                                        ELSE age[c] + 1 = Slots
    BY <1>0, <2>1, PushAges
  <2> QED
    BY <1>1, <2>3, <2>4
<1>8. c \in In(wheel') => c \in alive' /\ Latest(wheel', c, age'[c])
  BY Zenon, <1>1, <1>3, <1>4, <1>7
<1>9. wheelIo'[c] # "idle" => c \in alive'
  BY Zenon, <1>1, <1>3, <1>5
<1>10. c \in alive' /\ wheelIo'[c] = "idle" => c \in In(wheel')
  BY Zenon, <1>1, <1>5
<1>11. wheelConn'[c] = "closing" => c \notin alive' /\ age'[c] = Slots
  <2>1. CASE wheelConn[c] = "closing"
    BY Zenon, <1>1, <1>3, <1>6, <2>1
  <2>2. CASE wheelConn[c] # "closing" /\ wheelConn'[c] = "closing"
    <3>1. c \in alive /\ c \notin alive'
      BY Zenon, <1>1, <2>2 DEF Expire
    <3>2. wheelIo[c] = "idle" /\ c \notin In(wheel')
      BY Zenon, <1>1, <1>5, <3>1
    <3>3. c \in In(wheel)
      BY Zenon, <1>3, <3>1, <3>2
    <3> QED
      BY Zenon, <1>7, <3>1, <3>2, <3>3
  <2> QED
    BY <2>1, <2>2
<1> QED
  BY Zenon, <1>8, <1>9, <1>10, <1>11 DEF In, Latest

LEMMA AgeStep ==
  ASSUME TypeInv, AgeInv, crash => wheel = <<>>, [WheelNext]_whl
  PROVE  AgeInv' /\ (crash' => wheel' = <<>>)
<1>0. /\ wheel \in Seq(SUBSET WheelConns) /\ DOMAIN wheelConn = WheelConns /\ Slots \in Nat /\ Slots > 0
      /\ wheelIo \in [WheelConns -> {"idle", "insert", "inserting"}]
      /\ alive \subseteq WheelConns /\ age \in [WheelConns -> Nat]
  BY SlotsAssumption DEF TypeInv
<1> DEFINE C(c) == /\ c \in In(wheel) => c \in alive /\ Latest(wheel, c, age[c])
                   /\ wheelIo[c] # "idle" => c \in alive
                   /\ ~crash /\ c \in alive /\ wheelIo[c] = "idle" => c \in In(wheel)
                   /\ wheelConn[c] = "closing" => c \notin alive /\ age[c] = Slots
                   /\ wheel = <<>> => age[c] = 0
<1>1. \A c \in WheelConns : C(c)
  BY Zenon DEF AgeInv
\* The wheel, the entries and the handlers stay, and no close is queued.
<1>2. ASSUME UNCHANGED <<wheel, alive, age, crash>>,
             \A c \in WheelConns : (wheelIo'[c] = "idle" <=> wheelIo[c] = "idle")
                              /\ (wheelConn'[c] = "closing" => wheelConn[c] = "closing")
      PROVE  AgeInv' /\ (crash' => wheel' = <<>>)
  BY <1>1, <1>2 DEF AgeInv, In, Latest
<1>3. CASE UNCHANGED whl
  BY Zenon, <1>2, <1>3 DEF whl
<1>4. CASE WheelNext
  <2>0. ~crash
    BY <1>4 DEF WheelNext
  <2>1. ASSUME NEW c \in WheelConns, RunClose(c) \/ PeerClose(c)
        PROVE  AgeInv' /\ (crash' => wheel' = <<>>)
    <3>1. /\ UNCHANGED <<wheel, alive, age, crash, wheelIo>>
          /\ \A d \in WheelConns : wheelConn'[d] = "closing" => wheelConn[d] = "closing"
      BY <1>0, <2>1 DEF RunClose, PeerClose
    <3> QED
      BY Zenon, <1>2, <3>1
  <2>2. ASSUME NEW c \in WheelConns, BeginInsert(c)
        PROVE  AgeInv' /\ (crash' => wheel' = <<>>)
    <3>1. /\ UNCHANGED <<wheel, alive, age, crash, wheelConn>>
          /\ \A d \in WheelConns : wheelIo'[d] = "idle" <=> wheelIo[d] = "idle"
      BY <1>0, <2>2 DEF BeginInsert
    <3> QED
      BY Zenon, <1>2, <3>1
  <2>3. CASE BeginTick
    BY <1>2, <2>3 DEF BeginTick
  <2>4. ASSUME NEW c \in WheelConns, OnConnection(c) \/ OnMessage(c)
        PROVE  AgeInv' /\ (crash' => wheel' = <<>>)
    <3>1. CASE wheelIo' = wheelIo /\ alive' = alive /\ wheelConn' = wheelConn
      BY Zenon, <1>2, <2>4, <3>1 DEF OnConnection, OnMessage
    <3>2. CASE ~(wheelIo' = wheelIo /\ alive' = alive /\ wheelConn' = wheelConn)
      <4>1. /\ UNCHANGED <<wheel, age, crash>> /\ wheelIo' = [wheelIo EXCEPT ![c] = "insert"]
            /\ alive' = alive \cup {c}
        BY Zenon, <2>4, <3>2 DEF OnConnection, OnMessage
      <4>2. wheelConn'[c] = "closing" => wheelConn[c] = "closing" /\ c \in alive
        BY Zenon, <1>0, <2>4, <3>2 DEF OnConnection, OnMessage, Lockable
      <4>3. \A d \in WheelConns \ {c} : wheelConn'[d] = wheelConn[d] /\ wheelIo'[d] = wheelIo[d]
        BY Zenon, <1>0, <2>4, <4>1 DEF OnConnection, OnMessage
      <4>4. wheelConn'[c] # "closing"
        BY Zenon, <1>1, <4>2
      <4> QED
        BY <1>0, <1>1, <2>0, <4>1, <4>3, <4>4 DEF AgeInv, In, Latest
    <3> QED
      BY <3>1, <3>2
  <2>5. ASSUME NEW c \in WheelConns, EndInsert(c)
        PROVE  AgeInv' /\ (crash' => wheel' = <<>>)
    <3>1. /\ UNCHANGED <<wheelConn, alive>> /\ wheelIo[c] = "inserting" /\ c \in alive
          /\ wheelIo'[c] = "idle" /\ \A d \in WheelConns \ {c} : wheelIo'[d] = wheelIo[d]
      BY Zenon, <1>0, <1>1, <2>5 DEF EndInsert
    <3>2. CASE wheel = <<>>
      <4>1. crash' = TRUE /\ UNCHANGED <<wheel, age>>
        BY <2>5, <3>2, Zenon DEF EndInsert
      <4>2. ASSUME NEW d \in WheelConns
            PROVE  /\ d \in In(wheel') => d \in alive' /\ Latest(wheel', d, age'[d])
                   /\ wheelIo'[d] # "idle" => d \in alive'
                   /\ wheelConn'[d] = "closing" => d \notin alive' /\ age'[d] = Slots
                   /\ wheel' = <<>> => age'[d] = 0
        <5>1. C(d) /\ (wheelIo'[d] # "idle" => wheelIo[d] # "idle")
          BY Zenon, <1>1, <3>1
        <5> QED
          BY Zenon, <3>1, <4>1, <5>1
      <4> QED
        BY Zenon, <3>2, <4>1, <4>2 DEF AgeInv
    <3>3. CASE wheel # <<>>
      <4>1. /\ crash' = crash /\ wheel' = [wheel EXCEPT ![Len(wheel)] = @ \cup {c}]
            /\ age' = [age EXCEPT ![c] = 0]
        BY <2>5, <3>3, Zenon DEF EndInsert
      <4>2. /\ Len(wheel') = Len(wheel) /\ Len(wheel) \in Nat \ {0}
            /\ c \in In(wheel') /\ Latest(wheel', c, 0)
            /\ \A d \in WheelConns \ {c} : /\ d \in In(wheel') <=> d \in In(wheel)
                                      /\ \A n \in Nat : Latest(wheel, d, n) => Latest(wheel', d, n)
        <5>1. wheel \in Seq(SUBSET WheelConns) /\ c \in WheelConns
          BY <1>0
        <5>2. wheel' = Inserted(wheel, c)
          BY <4>1 DEF Inserted
        <5> QED
          BY Zenon, <3>3, <5>1, <5>2, InsertRing
      <4>3. age'[c] = 0 /\ \A d \in WheelConns \ {c} : age'[d] = age[d] /\ age[d] \in Nat
        BY <1>0, <4>1
      <4>4. wheel' # <<>>
        BY <4>2
      <4>5. ASSUME NEW d \in WheelConns
            PROVE  /\ d \in In(wheel') => d \in alive /\ Latest(wheel', d, age'[d])
                   /\ wheelIo'[d] # "idle" => d \in alive
                   /\ ~crash /\ d \in alive /\ wheelIo'[d] = "idle" => d \in In(wheel')
                   /\ wheelConn[d] = "closing" => d \notin alive /\ age'[d] = Slots
        <5>1. CASE d = c
          BY Zenon, <1>1, <3>1, <4>2, <4>3, <5>1
        <5>2. CASE d # c
          BY Zenon, <1>1, <3>1, <4>2, <4>3, <5>2
        <5> QED
          BY Zenon, <5>1, <5>2
      <4> QED
        BY Zenon, <2>0, <3>1, <4>1, <4>4, <4>5 DEF AgeInv, In, Latest
    <3> QED
      BY <3>2, <3>3
  <2>6. CASE EndTick
    BY Zenon, <2>0, <2>6, TickStep DEF EndTick
  <2> QED
    BY Zenon, <1>4, <2>1, <2>2, <2>3, <2>4, <2>5, <2>6 DEF WheelNext
<1> QED
  BY <1>3, <1>4

LEMMA InvCorrect == WheelSpec => []Inv
<1>1. WheelInit => Inv
  BY InitInv
<1>2. Inv /\ [WheelNext]_whl => Inv'
  BY TypeStep, MutexStep, AgeStep DEF Inv
<1> QED
  BY <1>1, <1>2, PTL DEF WheelSpec

-----------------------------------------------------------------------------
(* The theorems.                                                           *)

\* The wheel closes an idle connection after exactly Slots ticks: however
\* connections, messages and ticks interleave, with and without the mutex and
\* the IO threads, no entry falls out sooner, and none is left in or beside the
\* ring when its time has come.
THEOREM ExpiresOnTimeHolds == WheelSpec => []ExpiresOnTime
<1>1. Inv => ExpiresOnTime
  <2> SUFFICES ASSUME Inv, NEW c \in WheelConns, ~crash, c \in alive, wheelIo[c] = "idle"
               PROVE  age[c] < Slots /\ c \in In(wheel)
    BY Zenon DEF Inv, AgeInv, ExpiresOnTime
  <2>1. c \in In(wheel) /\ Latest(wheel, c, age[c])
    BY Zenon DEF Inv, AgeInv
  <2>2. age[c] \in Nat /\ Len(wheel) \in Nat /\ Len(wheel) <= Slots /\ Slots \in Nat
    BY SlotsAssumption DEF Inv, TypeInv
  <2> QED
    BY <2>1, <2>2 DEF Latest
<1> QED
  BY <1>1, InvCorrect, PTL

\* lock_ or the single thread keeps every two users of the wheel apart, and
\* back() of an empty ring is used only by an insert before the first tick.
THEOREM WheelFaultsHolds == WheelSpec => []WheelFaults
<1>1. Inv => WheelFaults
  BY SlotsAssumption DEF Inv, MutexInv, AgeInv, WheelFaults, EmptyNeedsFirst
<1> QED
  BY <1>1, InvCorrect, PTL

\* A handler that holds the entry keeps its connection open: no tick queues a
\* close for it.
THEOREM HeldIsNotClosedHolds == WheelSpec => HeldIsNotClosed
<1> DEFINE Keeps == \A c \in WheelConns : wheelIo[c] # "idle" /\ wheelConn[c] = "open" => wheelConn'[c] = "open"
<1>0. WheelInit => DOMAIN wheelConn = WheelConns
  BY DEF WheelInit
<1>1. DOMAIN wheelConn = WheelConns /\ [WheelNext]_whl => (DOMAIN wheelConn = WheelConns)'
  BY Zenon DEF WheelNext, whl, OnConnection, OnMessage, BeginInsert, EndInsert, RunClose, PeerClose,
         BeginTick, EndTick, Expire
<1>2. DOMAIN wheelConn = WheelConns /\ [WheelNext]_whl => [Keeps]_whl
  <2> SUFFICES ASSUME DOMAIN wheelConn = WheelConns, WheelNext, NEW c \in WheelConns, wheelIo[c] # "idle", wheelConn[c] = "open"
               PROVE  wheelConn'[c] = "open"
    OBVIOUS
  <2>1. CASE EndTick
    <3>1. c \in Holders
      BY DEF Holders
    <3>2. c \notin alive \ alive'
      BY Zenon, <2>1, <3>1 DEF EndTick, Referenced
    <3> QED
      BY Zenon, <2>1, <3>2 DEF EndTick, Expire
  <2>2. CASE BeginTick
    BY <2>2 DEF BeginTick
  <2>3. ASSUME NEW d \in WheelConns, \/ OnConnection(d) \/ OnMessage(d) \/ BeginInsert(d) \/ EndInsert(d)
                                \/ RunClose(d) \/ PeerClose(d)
        PROVE  wheelConn'[c] = "open"
    BY Zenon, <2>3 DEF OnConnection, OnMessage, BeginInsert, EndInsert, RunClose, PeerClose
  <2> QED
    BY Zenon, <2>1, <2>2, <2>3 DEF WheelNext
<1> QED
  BY <1>0, <1>1, <1>2, PTL DEF WheelSpec, HeldIsNotClosed

-----------------------------------------------------------------------------
(* The timer.                                                              *)

\* The record of a timer's watcher, which has no descriptors.
TimerWatcher ==
  [kind : {"timer"}, event : BOOLEAN, added : BOOLEAN, attached : BOOLEAN, fds : {{}}, own : {{}},
   foreign : BOOLEAN, freedUse : BOOLEAN]

\* The ranges of the timer's variables.
TimerType ==
  /\ watcher \in TimerWatcher
  /\ member \in BOOLEAN /\ self \in BOOLEAN /\ held \in BOOLEAN /\ persist \in BOOLEAN
  /\ fn \in BOOLEAN /\ cancelfn \in BOOLEAN /\ inside \in BOOLEAN /\ late \in BOOLEAN
  /\ cyclic \in BOOLEAN /\ inner \in BOOLEAN
  /\ queue \in Seq({"start", "cancel", "null cancel"}) /\ user \in {"idle", "copy"}
  /\ fired \in Nat /\ cancelled \in Nat

\* Before the closure of start has run nothing has happened.
Unstarted ==
  /\ queue = <<"start">> /\ user = "idle" /\ ~inside
  /\ watcher = NewWatcher("timer") /\ ~member /\ self /\ fn /\ cancelfn /\ persist = cyclic
  /\ fired = 0 /\ cancelled = 0 /\ ~late /\ ~inner

\* A cancel has run, or a one-shot timer has fired.
Gone == late \/ (fired > 0 /\ ~cyclic)

\* timer_watcher_, self_ and expires_fn_ are set and cleared together; the event is
\* attached as long as it exists, pending only while the timer waits for it, and
\* gone once a cancel has run.
HeldInv ==
  /\ member => watcher.event
  /\ (member <=> self) /\ (member <=> fn)
  /\ watcher.event => watcher.attached
  /\ watcher.added => member /\ ~inside
  /\ late => ~watcher.event
  /\ persist => member
  /\ inside => fired > 0 /\ (~self => inner)
  /\ ~member => Gone

\* What is queued: start only once, and a closure without a watcher only if g.
Calls(q, g) == \A k \in 1..Len(q) : q[k] # "start" /\ (q[k] = "null cancel" => g)
QueueInv == Calls(queue, Gone)

\* A callback that was called is not called again, and cancel_fn_ is cleared by the
\* end of the trigger that called expires_fn_.
CountInv ==
  /\ cancelfn => cancelled = 0
  /\ cancelled <= 1
  /\ ~cyclic => ~persist
  /\ persist \/ ~cyclic \/ late
  /\ ~cyclic /\ ~inner => /\ fired + cancelled <= 1
                          /\ fired + cancelled = 1 => ~watcher.added /\ (inside \/ ~cancelfn)

\* The inductive invariant.
TimerInv ==
  /\ TimerType
  /\ Unstarted \/ (HeldInv /\ QueueInv /\ CountInv)
  /\ FaultsNeedMisuse

Closures == {"start", "cancel", "null cancel"}

\* Running the first closure.
LEMMA CallsTail ==
  ASSUME NEW q \in Seq(Closures), NEW g \in BOOLEAN, Calls(q, g), q # <<>>
  PROVE  Tail(q) \in Seq(Closures) /\ Calls(Tail(q), g) /\ Head(q) # "start" /\ (Head(q) = "null cancel" => g)
<1>1. /\ Tail(q) \in Seq(Closures) /\ Len(q) \in Nat /\ Len(q) > 0 /\ Len(Tail(q)) = Len(q) - 1
      /\ \A k \in 1..Len(Tail(q)) : Tail(q)[k] = q[k + 1] /\ k + 1 \in 1..Len(q)
      /\ Head(q) = q[1] /\ 1 \in 1..Len(q)
  OBVIOUS
<1> QED
  BY <1>1, Zenon DEF Calls

\* The elements of a sequence and of that sequence with one more at its end.
LEMMA OneMore ==
  ASSUME NEW T, NEW q \in Seq(T), NEW e \in T
  PROVE  /\ Append(q, e) \in Seq(T)
         /\ \A k \in 1..Len(Append(q, e)) :
              (k \in 1..Len(q) /\ Append(q, e)[k] = q[k]) \/ Append(q, e)[k] = e
OBVIOUS

\* Queueing a closure.
LEMMA CallsAppend ==
  ASSUME NEW q \in Seq(Closures), NEW g \in BOOLEAN, Calls(q, g), NEW e \in Closures,
         e # "start", e = "null cancel" => g
  PROVE  Append(q, e) \in Seq(Closures) /\ Calls(Append(q, e), g)
<1> DEFINE r == Append(q, e)
<1>1. /\ r \in Seq(Closures)
      /\ \A k \in 1..Len(r) : (k \in 1..Len(q) /\ r[k] = q[k]) \/ r[k] = e
  BY Zenon, OneMore
<1> HIDE DEF r
<1>2. Calls(r, g)
  BY Zenon, <1>1 DEF Calls
<1> QED
  BY Zenon, <1>1, <1>2 DEF r

\* What the functions of EventWatcher do to a timer's watcher.
LEMMA WatcherFacts ==
  ASSUME NEW x \in TimerWatcher
  PROVE  /\ Fired(x) \in TimerWatcher /\ ~Fired(x).added
         /\ Fired(x).event = x.event /\ Fired(x).attached = x.attached
         /\ Fired(x).freedUse = x.freedUse
         /\ x.event => /\ DoWatch(x, TRUE) \in TimerWatcher /\ DoWatch(x, TRUE).event
                       /\ DoWatch(x, TRUE).added /\ DoWatch(x, TRUE).attached
                       /\ DoWatch(x, TRUE).freedUse = x.freedUse
BY Zenon DEF TimerWatcher, Fired, DoWatch

\* detachEventAndFree while the base exists uses nothing that is freed.
LEMMA DetachFacts ==
  ASSUME NEW x \in TimerWatcher, x.event => x.attached, x.added => x.event
  PROVE  /\ Detach(x, TRUE) \in TimerWatcher
         /\ ~Detach(x, TRUE).event /\ ~Detach(x, TRUE).added
         /\ Detach(x, TRUE).freedUse = x.freedUse
BY Zenon DEF TimerWatcher, Detach

\* The destructor of the watcher, likewise.
LEMMA DestroyedFacts ==
  ASSUME NEW x \in TimerWatcher, x.event => x.attached, x.added => x.event
  PROVE  /\ Destroyed(x, TRUE) \in TimerWatcher
         /\ ~Destroyed(x, TRUE).event /\ ~Destroyed(x, TRUE).added
         /\ Destroyed(x, TRUE).freedUse = x.freedUse
<1> DEFINE y == DoTerminate(x)
<1>1. y \in TimerWatcher /\ y.event = x.event /\ y.attached = x.attached /\ y.added = x.added /\ y.freedUse = x.freedUse
  BY Zenon DEF TimerWatcher, DoTerminate, NoFds
<1> QED
  BY <1>1, DetachFacts, Zenon DEF Destroyed

\* What a step of the timer starts from, once start has run.
TimerRuns == TimerInv /\ HeldInv /\ QueueInv /\ CountInv /\ fault = "no" /\ cyclic' = cyclic

\* The closure of start.
LEMMA TimerRunStart ==
  ASSUME TimerInv, fault = "no", cyclic' = cyclic, RunStart
  PROVE  TimerInv'
<1>0. TimerType /\ FaultsNeedMisuse /\ (Unstarted \/ (HeldInv /\ QueueInv /\ CountInv))
  BY Zenon DEF TimerInv
<1>1. Unstarted
  <2>1. queue # <<>> /\ Head(queue) = "start" /\ queue \in Seq(Closures) /\ Gone \in BOOLEAN
    BY <1>0, Zenon DEF RunStart, TimerType, Closures, Gone
  <2> QED
    BY <1>0, <2>1, CallsTail, Zenon DEF QueueInv
<1>2. /\ watcher' \in TimerWatcher /\ watcher'.event /\ watcher'.added /\ watcher'.attached /\ ~watcher'.freedUse
  <2> DEFINE y == DoInit(watcher, TRUE)
  <2>1. y \in TimerWatcher /\ y.event /\ ~y.freedUse
    BY <1>1, Zenon DEF Unstarted, NewWatcher, NoFds, NewFds, DoInit, TimerWatcher
  <2> QED
    BY <2>1, WatcherFacts, Zenon DEF RunStart
<1>3. queue' = <<>> /\ queue' \in Seq(Closures) /\ Len(queue') = 0
  BY <1>1 DEF RunStart, Unstarted, Closures
<1>4. /\ member' /\ UNCHANGED <<self, held, persist, fn, cancelfn, inside, user, fired, cancelled, late, inner, fault>>
      /\ self /\ fn /\ cancelfn /\ persist = cyclic /\ ~inside /\ fired = 0 /\ cancelled = 0 /\ ~late /\ ~inner
  BY <1>1, Zenon DEF RunStart, Unstarted, counts
<1>5. TimerType'
  BY <1>0, <1>2, <1>3, <1>4, Zenon DEF TimerType, Closures
<1>6. HeldInv'
  BY <1>2, <1>4, Zenon DEF HeldInv
<1>7. QueueInv'
  <2>1. 1..0 = {}
    OBVIOUS
  <2> QED
    BY <1>3, <2>1, Zenon DEF QueueInv, Calls
<1>8. CountInv'
  BY <1>4 DEF CountInv
<1>9. FaultsNeedMisuse'
  BY <1>0, <1>2, <1>4, Zenon DEF FaultsNeedMisuse
<1> QED
  BY <1>5, <1>6, <1>7, <1>8, <1>9, Zenon DEF TimerInv

\* The event fires and calls onTimerTriggered.
LEMMA TimerTrigger ==
  ASSUME TimerRuns, Trigger
  PROVE  TimerInv'
<1>0. TimerType /\ FaultsNeedMisuse /\ HeldInv /\ QueueInv /\ CountInv /\ fault = "no" /\ cyclic' = cyclic
  BY Zenon DEF TimerRuns, TimerInv
<1>1. /\ watcher' \in TimerWatcher /\ ~watcher'.added /\ watcher'.event = watcher.event
      /\ watcher'.attached = watcher.attached /\ watcher'.freedUse = watcher.freedUse
  BY <1>0, WatcherFacts, Zenon DEF Trigger, TimerType
<1>2. /\ inside' /\ UNCHANGED <<member, self, held, persist, fn, cancelfn, queue, user, cancelled, late, inner, fault>>
      /\ watcher.added /\ watcher.event /\ member /\ self /\ fn /\ ~inside
  BY <1>0, Zenon DEF Trigger, HeldInv
<1>3. fired' = fired + 1 /\ fired \in Nat
  BY <1>0, <1>2, Zenon DEF Trigger, TimerType
<1>4. fired' \in Nat /\ fired' > 0
  BY <1>3
<1>5. TimerType'
  BY <1>0, <1>1, <1>2, <1>4, Zenon DEF TimerType
<1>6. HeldInv'
  BY <1>0, <1>1, <1>2, <1>4, Zenon DEF HeldInv
<1>7. QueueInv'
  <2>1. Gone => Gone'
    BY <1>0, <1>2, <1>4, Zenon DEF Gone
  <2> QED
    BY <1>0, <1>2, <2>1, Zenon DEF QueueInv, Calls
<1>8. CountInv'
  <2>1. fired \in Nat /\ cancelled \in Nat /\ cancelled' = cancelled
    BY <1>0, <1>2, Zenon DEF TimerType
  <2>2. ~cyclic /\ ~inner => fired + cancelled <= 1 /\ fired + cancelled # 1
    BY <1>0, <1>2, Zenon DEF CountInv
  <2>3. fired + cancelled <= 1 /\ fired + cancelled # 1 => fired' + cancelled' <= 1
    BY <1>3, <2>1
  <2> QED
    BY <1>0, <1>1, <1>2, <2>2, <2>3, Zenon DEF CountInv
<1>9. FaultsNeedMisuse'
  BY <1>0, <1>1, <1>2, Zenon DEF FaultsNeedMisuse
<1> QED
  BY <1>5, <1>6, <1>7, <1>8, <1>9, Zenon DEF TimerInv

\* The callback returned: a cycle is watched again, a one-shot timer is released.
LEMMA TimerAfterTrigger ==
  ASSUME TimerRuns, AfterTrigger
  PROVE  TimerInv'
<1>0. /\ TimerType /\ FaultsNeedMisuse /\ HeldInv /\ QueueInv /\ CountInv
      /\ fault = "no" /\ cyclic' = cyclic
  BY Zenon DEF TimerRuns, TimerInv
<1>1. /\ inside /\ ~inside' /\ inside' \in BOOLEAN /\ fired > 0 /\ ~watcher.added /\ (~self => inner)
      /\ UNCHANGED <<held, persist, queue, user, fired, cancelled, late, inner>>
  BY <1>0, Zenon DEF AfterTrigger, counts, HeldInv
<1>2. QueueInv'
  BY <1>0, <1>1, Zenon DEF QueueInv, Gone
<1>3. CASE ~Exists
  <2>1. /\ fault' = "freed" /\ UNCHANGED <<watcher, member, self, fn, cancelfn>>
        /\ inner /\ ~held
    BY <1>1, <1>3, Zenon DEF AfterTrigger, Exists
  <2>2. TimerType' /\ HeldInv' /\ CountInv'
    BY <1>0, <1>1, <2>1, Zenon DEF TimerType, HeldInv, Gone, CountInv
  <2>3. FaultsNeedMisuse'
    <3>1. "freed" # "null watcher" /\ "freed" # "null cancel"
      OBVIOUS
    <3> QED
      BY <1>0, <1>1, <2>1, <3>1, Zenon DEF FaultsNeedMisuse
  <2> QED
    BY <1>2, <2>2, <2>3, Zenon DEF TimerInv
<1>4. CASE Exists /\ persist
  <2>1. /\ member /\ watcher.event /\ cyclic
    BY <1>0, <1>4, Zenon DEF HeldInv, CountInv
  <2>2. /\ fault' = fault /\ watcher' = DoWatch(watcher, TRUE)
        /\ UNCHANGED <<member, self, fn, cancelfn>>
    BY <1>4, <2>1, Zenon DEF AfterTrigger
  <2>3. /\ watcher' \in TimerWatcher /\ watcher'.event /\ watcher'.added /\ watcher'.attached
        /\ watcher'.freedUse = watcher.freedUse
    BY <1>0, <2>1, <2>2, WatcherFacts, Zenon DEF TimerType
  <2>4. TimerType' /\ HeldInv'
    BY <1>0, <1>1, <2>1, <2>2, <2>3, Zenon DEF TimerType, HeldInv
  <2>5. CountInv'
    BY <1>0, <1>1, <2>1, <2>2, Zenon DEF CountInv
  <2>6. FaultsNeedMisuse'
    BY <1>0, <1>1, <2>2, <2>3, Zenon DEF FaultsNeedMisuse
  <2> QED
    BY <1>2, <2>4, <2>5, <2>6, Zenon DEF TimerInv
<1>5. CASE Exists /\ ~persist
  <2>1. /\ ~member' /\ ~self' /\ ~fn' /\ ~cancelfn' /\ fault' = fault
        /\ member' \in BOOLEAN /\ self' \in BOOLEAN /\ fn' \in BOOLEAN /\ cancelfn' \in BOOLEAN
        /\ watcher' = watcher \/ watcher' = Destroyed(watcher, TRUE)
    BY <1>5, Zenon DEF AfterTrigger
  <2>2. /\ watcher \in TimerWatcher /\ (watcher.event => watcher.attached)
    BY <1>0, Zenon DEF TimerType, HeldInv
  <2>3. /\ watcher' \in TimerWatcher /\ ~watcher'.added /\ watcher'.freedUse = watcher.freedUse
        /\ watcher'.event => watcher.event /\ watcher'.attached
    BY <1>1, <2>1, <2>2, DestroyedFacts, Zenon
  <2>4. TimerType'
    BY <1>0, <1>1, <2>1, <2>3, Zenon DEF TimerType
  <2>5. HeldInv'
    <3>1. Gone'
      BY <1>0, <1>1, <1>5, Zenon DEF CountInv, Gone
    <3> QED
      BY <1>0, <1>1, <1>5, <2>1, <2>3, <3>1, Zenon DEF HeldInv
  <2>6. CountInv'
    BY <1>0, <1>1, <2>1, <2>3, Zenon DEF CountInv
  <2>7. FaultsNeedMisuse'
    BY <1>0, <1>1, <2>1, <2>3, Zenon DEF FaultsNeedMisuse
  <2> QED
    BY <1>2, <2>4, <2>5, <2>6, <2>7, Zenon DEF TimerInv
<1> QED
  BY <1>3, <1>4, <1>5

\* The arithmetic of one more call of cancel_fn_.
LEMMA OneCall ==
  ASSUME NEW f \in Nat, NEW c \in Nat, c <= 1, NEW n \in {0, 1}, c = 0 \/ n = 0
  PROVE  /\ c + n \in Nat /\ c + n <= 1
         /\ f + c <= 1 /\ (f + c = 1 => n = 0) => f + (c + n) <= 1
OBVIOUS

\* doCancel outside the callback, or in it with inner set.
LEMMA TimerDoCancel ==
  ASSUME TimerRuns, DoCancel, inside' = inside, fired' = fired, fault' = fault,
         held' = held, user' = user, inner' = (inner \/ inside), QueueInv => QueueInv',
         queue' \in Seq({"start", "cancel", "null cancel"}), inner' \in BOOLEAN
  PROVE  TimerInv'
<1>0. /\ TimerType /\ FaultsNeedMisuse /\ HeldInv /\ QueueInv /\ CountInv
      /\ fault = "no" /\ cyclic' = cyclic
  BY Zenon DEF TimerRuns, TimerInv
<1>1. /\ watcher \in TimerWatcher /\ (watcher.event => watcher.attached)
      /\ watcher.added => watcher.event
  BY <1>0, Zenon DEF TimerType, HeldInv
<1>2. /\ watcher' \in TimerWatcher /\ ~watcher'.event /\ ~watcher'.added
      /\ watcher'.freedUse = watcher.freedUse /\ late' /\ late' \in BOOLEAN
  BY <1>1, DetachFacts, Zenon DEF DoCancel
<1>3. CASE watcher.event
  <2>1. /\ ~persist' /\ ~cancelfn' /\ ~fn' /\ ~member' /\ ~self'
        /\ persist' \in BOOLEAN /\ cancelfn' \in BOOLEAN /\ fn' \in BOOLEAN /\ member' \in BOOLEAN
        /\ self' \in BOOLEAN
    BY <1>3, Zenon DEF DoCancel, OnCancel
  <2>2. PICK n \in {0, 1} : cancelled' = cancelled + n /\ (cancelfn \/ n = 0)
    BY <1>3, Zenon DEF DoCancel, OnCancel
  <2>3. fired \in Nat /\ cancelled \in Nat /\ cancelled <= 1 /\ (cancelled = 0 \/ n = 0)
    BY <1>0, <2>2, Zenon DEF TimerType, CountInv
  <2>4. cancelled' \in Nat /\ cancelled' <= 1
    BY <2>2, <2>3, OneCall, Zenon
  <2>5. ~cyclic /\ ~inner' => fired + cancelled' <= 1
    <3>1. ~cyclic /\ ~inner' => fired + cancelled <= 1 /\ (fired + cancelled = 1 => n = 0)
      BY <1>0, <2>2, Zenon DEF CountInv
    <3> QED
      BY <2>2, <2>3, <3>1, OneCall, Zenon
  <2>6. TimerType'
    BY <1>0, <1>2, <2>1, <2>4, Zenon DEF TimerType
  <2>7. HeldInv'
    <3>1. inside => inner'
      BY Zenon
    <3> QED
      BY <1>0, <1>2, <2>1, <3>1, Zenon DEF HeldInv, Gone
  <2>8. CountInv'
    BY <1>0, <1>2, <2>1, <2>4, <2>5, Zenon DEF CountInv
  <2>9. FaultsNeedMisuse'
    BY <1>0, <1>2, Zenon DEF FaultsNeedMisuse
  <2> QED
    BY <1>0, <2>6, <2>7, <2>8, <2>9, Zenon DEF TimerInv
<1>4. CASE ~watcher.event
  <2>1. UNCHANGED <<persist, cancelled, cancelfn, fn, member, self>>
    BY <1>4, Zenon DEF DoCancel
  <2>2. TimerType'
    BY <1>0, <1>2, <2>1, Zenon DEF TimerType
  <2>3. HeldInv'
    BY <1>0, <1>2, <1>4, <2>1, Zenon DEF HeldInv, Gone
  <2>4. CountInv'
    <3>1. ~inner' => ~inner /\ ~inside
      BY Zenon
    <3> QED
      BY <1>0, <1>2, <2>1, <3>1, Zenon DEF CountInv
  <2>5. FaultsNeedMisuse'
    BY <1>0, <1>2, Zenon DEF FaultsNeedMisuse
  <2> QED
    BY <1>0, <2>2, <2>3, <2>4, <2>5, Zenon DEF TimerInv
<1> QED
  BY <1>3, <1>4, Zenon

\* A step that leaves the timer and its counts alone.
LEMMA TimerFrame ==
  ASSUME TimerRuns, fault' \in {fault, "null cancel"}, fault' = "null cancel" => Gone,
         UNCHANGED <<watcher, member, self, persist, fn, cancelfn, inside, fired, cancelled, late, inner>>,
         held' \in BOOLEAN, user' \in {"idle", "copy"}, queue' \in Seq(Closures), QueueInv => QueueInv'
  PROVE  TimerInv'
<1>0. /\ TimerType /\ FaultsNeedMisuse /\ HeldInv /\ QueueInv /\ CountInv
      /\ fault = "no" /\ cyclic' = cyclic
  BY Zenon DEF TimerRuns, TimerInv
<1>1. TimerType' /\ HeldInv' /\ CountInv'
  BY <1>0, Zenon DEF TimerType, HeldInv, CountInv, Gone, Closures
<1>2. "no" # "null watcher" /\ "no" # "freed" /\ "null cancel" # "null watcher" /\ "null cancel" # "freed"
      /\ "no" # "null cancel"
  BY Zenon
<1>3. FaultsNeedMisuse'
  BY <1>0, <1>2, Zenon DEF FaultsNeedMisuse, Gone
<1> QED
  BY <1>0, <1>1, <1>3, Zenon DEF TimerInv

\* The closure of cancel, with a watcher or without.
LEMMA TimerRunCancel ==
  ASSUME TimerRuns, RunCancel \/ RunNullCancel
  PROVE  TimerInv'
<1>0. /\ TimerType /\ HeldInv /\ QueueInv /\ cyclic' = cyclic /\ inner \in BOOLEAN /\ held \in BOOLEAN
      /\ user \in {"idle", "copy"} /\ queue \in Seq(Closures) /\ Gone \in BOOLEAN
  BY Zenon DEF TimerRuns, TimerInv, TimerType, Gone, Closures
<1>1. /\ queue # <<>> => Tail(queue) \in Seq(Closures) /\ Calls(Tail(queue), Gone)
      /\ queue # <<>> /\ Head(queue) = "null cancel" => Gone
  BY <1>0, CallsTail, Zenon DEF QueueInv
<1>2. CASE RunCancel
  <2>1. /\ DoCancel /\ ~inside /\ queue' = Tail(queue) /\ queue # <<>> /\ late'
        /\ UNCHANGED <<held, inside, user, fired, inner, fault>>
    BY <1>2, Zenon DEF RunCancel, DoCancel
  <2>2. queue' \in Seq(Closures) /\ QueueInv'
    BY <1>0, <1>1, <2>1, Zenon DEF QueueInv, Calls, Gone
  <2>3. inner' = (inner \/ inside)
    BY <1>0, <2>1, Zenon
  <2> QED
    BY <1>0, <2>1, <2>2, <2>3, TimerDoCancel, Zenon DEF Closures
<1>3. CASE RunNullCancel
  <2>1. /\ queue # <<>> /\ Head(queue) = "null cancel" /\ fault' = "null cancel" /\ queue' = queue
        /\ UNCHANGED <<watcher, member, self, persist, fn, cancelfn, inside, fired, cancelled, late, inner>>
        /\ held' = held /\ user' = user
    BY <1>3, Zenon DEF RunNullCancel, counts
  <2>2. QueueInv'
    BY <1>0, <2>1, Zenon DEF QueueInv, Gone
  <2> QED
    BY <1>0, <1>1, <2>1, <2>2, TimerFrame, Zenon
<1> QED
  BY <1>2, <1>3

\* The steps of the threads that cancel or drop the timer.
LEMMA TimerUser ==
  ASSUME TimerRuns, CancelInline \/ CancelTest \/ CancelCopy \/ Drop
  PROVE  TimerInv'
<1>0. /\ TimerType /\ HeldInv /\ QueueInv /\ CountInv /\ FaultsNeedMisuse
      /\ cyclic' = cyclic /\ inner \in BOOLEAN /\ held \in BOOLEAN /\ inside \in BOOLEAN
      /\ user \in {"idle", "copy"} /\ queue \in Seq(Closures) /\ Gone \in BOOLEAN /\ fault = "no"
  BY Zenon DEF TimerRuns, TimerInv, TimerType, Gone, Closures
<1>1. CASE CancelInline
  <2>1. /\ UNCHANGED <<held, queue, inside, user, fired, fault>> /\ inner' = (inner \/ inside)
        /\ inner' \in BOOLEAN
    BY <1>0, <1>1, Zenon DEF CancelInline
  <2>2. CASE member
    <3>1. DoCancel
      BY <1>1, <2>2, Zenon DEF CancelInline
    <3>2. QueueInv'
      BY <1>0, <2>1, <3>1, Zenon DEF QueueInv, Calls, Gone, DoCancel
    <3> QED
      BY <1>0, <2>1, <3>1, <3>2, TimerDoCancel, Zenon DEF Closures
  <2>3. CASE ~member
    <3>1. UNCHANGED <<watcher, late, persist, cancelled, cancelfn, fn, member, self>>
      BY <1>1, <2>3, Zenon DEF CancelInline
    <3>2. inner => inner'
      BY <2>1, Zenon
    <3>3. TimerType' /\ HeldInv' /\ QueueInv' /\ CountInv'
      BY <1>0, <2>1, <3>1, <3>2, Zenon DEF TimerType, HeldInv, QueueInv, CountInv, Gone
    <3>4. FaultsNeedMisuse'
      BY <1>0, <2>1, <3>1, <3>2, Zenon DEF FaultsNeedMisuse
    <3> QED
      BY <3>3, <3>4, Zenon DEF TimerInv
  <2> QED
    BY <2>2, <2>3
<1>2. CASE CancelTest \/ Drop
  <2>1. /\ UNCHANGED <<watcher, member, self, persist, fn, cancelfn, inside, fired, cancelled, late, inner>>
        /\ queue' = queue /\ fault' = fault
    BY <1>2, Zenon DEF CancelTest, Drop, counts
  <2>2. held' \in BOOLEAN /\ user' \in {"idle", "copy"}
    BY <1>0, <1>2, Zenon DEF CancelTest, Drop
  <2>3. QueueInv'
    BY <1>0, <2>1, Zenon DEF QueueInv, Gone
  <2>4. fault' # "null cancel"
    BY <1>0, <2>1
  <2> QED
    BY <1>0, <2>1, <2>2, <2>3, <2>4, TimerFrame, Zenon
<1>3. CASE CancelCopy
  <2>1. /\ UNCHANGED <<watcher, member, self, persist, fn, cancelfn, inside, fired, cancelled, late, inner>>
        /\ held' = held /\ fault' = fault /\ user' = "idle"
        /\ queue' = Append(queue, IF member THEN "cancel" ELSE "null cancel")
    BY <1>3, Zenon DEF CancelCopy, counts
  <2>2. PICK e \in Closures : queue' = Append(queue, e) /\ e # "start" /\ (e = "null cancel" => Gone)
    <3>1. "cancel" # "start" /\ "null cancel" # "start" /\ "cancel" # "null cancel"
      OBVIOUS
    <3>2. ~member => Gone
      BY <1>0, Zenon DEF HeldInv
    <3> QED
      BY <2>1, <3>1, <3>2, Zenon DEF Closures
  <2>3. queue' \in Seq(Closures) /\ Calls(queue', Gone)
    BY <1>0, <2>2, CallsAppend, Zenon DEF QueueInv
  <2>4. QueueInv'
    BY <1>0, <2>1, <2>3, Zenon DEF QueueInv, Gone
  <2>5. fault' # "null cancel"
    BY <1>0, <2>1, Zenon
  <2> QED
    BY <1>0, <2>1, <2>3, <2>4, <2>5, TimerFrame, Zenon
<1> QED
  BY <1>1, <1>2, <1>3

\* Every step before start's closure has run.
LEMMA TimerBefore ==
  ASSUME TimerInv, Unstarted, fault = "no", cyclic' = cyclic, TimerNext
  PROVE  TimerInv'
<1>0. /\ TimerType /\ FaultsNeedMisuse
      /\ queue = <<"start">> /\ user = "idle" /\ ~inside /\ ~member /\ ~inner
  BY Zenon DEF TimerInv, Unstarted
<1>1. ~watcher.added
  BY Zenon DEF Unstarted, NewWatcher
<1>2. Head(queue) = "start" /\ "start" # "cancel" /\ "start" # "null cancel" /\ "idle" # "copy"
  BY <1>0
<1>3. ~Trigger /\ ~AfterTrigger /\ ~RunCancel /\ ~RunNullCancel /\ ~CancelCopy
  BY <1>0, <1>1, <1>2, Zenon DEF Trigger, AfterTrigger, RunCancel, RunNullCancel, CancelCopy
<1>4. CASE RunStart
  BY <1>4, TimerRunStart, Zenon
<1>5. CASE CancelInline \/ CancelTest \/ Drop
  <2>1. /\ UNCHANGED <<watcher, member, self, persist, fn, cancelfn, inside, fired, cancelled, late, queue, fault>>
        /\ user' = "idle" /\ (inner' <=> inner) /\ inner' \in BOOLEAN /\ held' \in BOOLEAN
        /\ held' => held
    <3>1. user = "idle" /\ ~member /\ ~inside /\ inner \in BOOLEAN /\ held \in BOOLEAN
      BY <1>0, Zenon DEF TimerType, Unstarted
    <3>2. CASE CancelInline
      BY <3>1, <3>2, Zenon DEF CancelInline
    <3>3. CASE CancelTest
      BY <3>1, <3>3, Zenon DEF CancelTest
    <3>4. CASE Drop
      BY <3>1, <3>4, Zenon DEF Drop, counts
    <3> QED
      BY <1>5, <3>2, <3>3, <3>4, Zenon
  <2>2. TimerType' /\ Unstarted'
    BY <1>0, <2>1, Zenon DEF TimerType, Unstarted
  <2>3. FaultsNeedMisuse'
    BY <1>0, <2>1, Zenon DEF FaultsNeedMisuse
  <2> QED
    BY <2>2, <2>3, Zenon DEF TimerInv
<1> QED
  BY <1>3, <1>4, <1>5, Zenon DEF TimerNext

\* Every step of the timer keeps the invariant.
LEMMA TimerStep ==
  ASSUME TimerInv, [TimerNext]_tmr
  PROVE  TimerInv'
<1>1. CASE TimerNext
  <2>1. fault = "no" /\ cyclic' = cyclic
    BY <1>1, Zenon DEF TimerNext
  <2>2. CASE Unstarted
    BY <1>1, <2>1, <2>2, TimerBefore, Zenon
  <2>3. CASE HeldInv /\ QueueInv /\ CountInv
    <3>1. TimerRuns
      BY <2>1, <2>3, Zenon DEF TimerRuns
    <3>2. CASE RunStart
      BY <2>1, <3>2, TimerRunStart, Zenon
    <3> QED
      BY <1>1, <3>1, <3>2, TimerTrigger, TimerAfterTrigger, TimerRunCancel, TimerUser, Zenon DEF TimerNext
  <2> QED
    BY <2>2, <2>3, Zenon DEF TimerInv
<1>2. CASE UNCHANGED tmr
  <2>0. TimerType /\ FaultsNeedMisuse
    BY Zenon DEF TimerInv
  <2>1. TimerType' /\ FaultsNeedMisuse' /\ (Unstarted => Unstarted')
    <3>1. TimerType'
      BY <1>2, <2>0, ZenonT(40) DEF tmr, TimerType
    <3>2. FaultsNeedMisuse'
      BY <1>2, <2>0, Zenon DEF tmr, FaultsNeedMisuse
    <3>3. Unstarted => Unstarted'
      BY <1>2, Zenon DEF tmr, Unstarted
    <3> QED
      BY <3>1, <3>2, <3>3
  <2>2. HeldInv /\ QueueInv /\ CountInv => HeldInv' /\ QueueInv' /\ CountInv'
    BY <1>2, Zenon DEF tmr, HeldInv, QueueInv, CountInv, Gone
  <2> QED
    BY <2>1, <2>2, Zenon DEF TimerInv
<1> QED
  BY <1>1, <1>2

\* The initial states have it.
LEMMA TimerInitInv ==
  ASSUME TimerInit
  PROVE  TimerInv
<1>1. watcher \in TimerWatcher /\ ~watcher.freedUse /\ queue \in Seq(Closures)
      /\ 0 \in Nat
  BY DEF TimerInit, NewWatcher, NoFds, TimerWatcher, Closures
<1>2. TimerType /\ Unstarted
  BY <1>1, Zenon DEF TimerInit, TimerType, Unstarted, Closures
<1>3. FaultsNeedMisuse
  BY <1>1 DEF TimerInit, FaultsNeedMisuse
<1> QED
  BY <1>2, <1>3, Zenon DEF TimerInv

\* The inductive invariant of the timer.
THEOREM TimerCorrect == TimerSpec => []TimerInv
<1>1. TimerInit => TimerInv
  BY TimerInitInv
<1>2. TimerInv /\ [TimerNext]_tmr => TimerInv'
  BY TimerStep
<1> QED
  BY <1>1, <1>2, PTL DEF TimerSpec

\* A one-shot timer calls expires_fn_ or cancel_fn_, never both, and a timer or a
\* watcher that is gone is used only after a cancel in the callback, or by a cancel
\* of another thread that raced: for every number of triggers and cancels.
THEOREM TimerFaultsHolds == TimerSpec => []TimerFaults
<1>1. TimerInv => TimerFaults
  <2>1. Unstarted => FireOrCancel
    BY DEF Unstarted, FireOrCancel
  <2> QED
    BY <2>1, Zenon DEF TimerInv, CountInv, TimerFaults, FireOrCancel
<1> QED
  BY <1>1, TimerCorrect, PTL

\* No trigger calls the callback once a cancel has run.
THEOREM CancelIsFinalHolds == TimerSpec => CancelIsFinal
<1>1. TimerInv /\ [TimerNext]_tmr => [late => fired' = fired]_tmr
  <2> SUFFICES ASSUME TimerInv, TimerNext, late PROVE fired' = fired
    BY Zenon
  <2>1. ~watcher.event
    BY Zenon DEF TimerInv, Unstarted, HeldInv
  <2> QED
    BY <2>1, Zenon DEF TimerNext, RunStart, Trigger, AfterTrigger, RunCancel,
      RunNullCancel, CancelInline, CancelTest, CancelCopy, Drop, counts
<1> QED
  BY <1>1, TimerCorrect, PTL DEF TimerSpec, CancelIsFinal

-----------------------------------------------------------------------------
(* The watcher of a loop.                                                  *)

\* The record of a loop's watcher.
Watchers ==
  [kind : {"eventfd", "pipe"}, event : BOOLEAN, added : BOOLEAN, attached : BOOLEAN,
   fds : SUBSET Int, own : SUBSET Int, foreign : BOOLEAN, freedUse : BOOLEAN]

\* The stages of a loop, and those in which it can be notified.
Life == {"new", "init", "running", "left", "gone", "dropped", "aborted"}
Live == {"init", "running", "left"}

\* At each stage of the loop's life: the descriptors in the members are those the
\* watcher has open, the event is added as long as the base exists, and only the
\* destructor of a loop that was dispatched uses the freed base.
LifeInv ==
  /\ waker \in Watchers /\ base \in BOOLEAN /\ watched \in Life
  /\ watched = "new" => waker = NewWatcher(waker.kind)
  /\ watched \in Live => /\ waker.event /\ waker.added /\ waker.own = waker.fds /\ ~waker.foreign
                         /\ waker.attached <=> watched # "init"
  /\ watched = "aborted" => ~waker.attached /\ (waker.foreign => waker.kind = "pipe")
  /\ watched \in {"gone", "dropped"} => waker.own = {} /\ ~waker.foreign /\ ~waker.attached
  /\ waker.freedUse <=> watched = "gone"

\* The bytes in the pipe are the successful writes that were not handled; the
\* eventfd merges them.
TallyInv ==
  /\ count \in Nat /\ handled \in Nat /\ notified \in Nat /\ refused \in Nat
  /\ handled + (IF count > 0 THEN 1 ELSE 0) <= notified - refused
  /\ waker.kind = "pipe" => count <= Capacity /\ handled + count = notified - refused

\* The inductive invariant.
WatcherInv == LifeInv /\ TallyInv

\* The functions of EventWatcher, for the watcher of a loop.
LEMMA LoopWatcherFacts ==
  ASSUME NEW x \in Watchers
  PROVE  /\ Fired(x) \in Watchers /\ Fired(x).added /\ Fired(x).kind = x.kind
         /\ Fired(x).event = x.event /\ Fired(x).attached = x.attached
         /\ Fired(x).fds = x.fds /\ Fired(x).own = x.own
         /\ Fired(x).foreign = x.foreign /\ Fired(x).freedUse = x.freedUse
BY Zenon DEF Watchers, Fired

\* The members' descriptors, before doInit and after it.
LEMMA FdsFacts ==
  /\ \A k \in {"eventfd", "pipe"} : NoFds(k) \in SUBSET Int /\ NewFds(k) \in SUBSET Int
  /\ \A fd \in NoFds("eventfd") : ~(fd >= 0)
BY DEF NoFds, NewFds

\* Terminated(y, x): y is x after doTerminateImpl.
Terminated(y, x) ==
  /\ y \in Watchers /\ y.kind = x.kind /\ y.event = x.event /\ y.added = x.added
  /\ y.attached = x.attached /\ y.freedUse = x.freedUse
  /\ y.own = x.own \ x.fds /\ y.fds = NoFds(x.kind)
  /\ y.foreign <=> (x.foreign \/ \E fd \in x.fds : fd >= 0 /\ fd \notin x.own)

\* doTerminateImpl leaves the event alone.
LEMMA TerminateFacts ==
  ASSUME NEW x \in Watchers
  PROVE  Terminated(DoTerminate(x), x)
<1> DEFINE f == NoFds(x.kind)
           g == x.foreign \/ \E fd \in x.fds : fd >= 0 /\ fd \notin x.own
           o == x.own \ x.fds
<1>1. x.kind \in {"eventfd", "pipe"} /\ x.own \in SUBSET Int /\ x.foreign \in BOOLEAN
  BY DEF Watchers
<1>2. f \in SUBSET Int /\ g \in BOOLEAN /\ o \in SUBSET Int
  BY <1>1, FdsFacts, Zenon
<1>3. DoTerminate(x) = [x EXCEPT !.own = o, !.fds = f, !.foreign = g]
  BY Zenon DEF DoTerminate
<1> HIDE DEF f, g, o
<1>4. PICK y : y = [x EXCEPT !.own = o, !.fds = f, !.foreign = g]
  BY Zenon
<1>5. /\ y \in Watchers /\ y.kind = x.kind /\ y.event = x.event /\ y.added = x.added
      /\ y.attached = x.attached /\ y.freedUse = x.freedUse
      /\ y.own = o /\ y.fds = f /\ y.foreign = g
  BY <1>2, <1>4, Zenon DEF Watchers
<1> QED
  BY <1>3, <1>4, <1>5, Zenon DEF Terminated, f, g, o

\* doInit on a new watcher: a failed one terminates twice, and closes 0 if it is a pipe's.
LEMMA ConstructFacts ==
  ASSUME NEW x \in Watchers, x = NewWatcher(x.kind), NEW y, NEW ok \in BOOLEAN, y = DoInit(x, ok)
  PROVE  /\ y \in Watchers /\ y.kind = x.kind /\ y.event /\ ~y.attached /\ ~y.freedUse
         /\ ok => y.added /\ y.own = y.fds /\ ~y.foreign
         /\ y.foreign => y.kind = "pipe"
<1>1. /\ x.event /\ ~x.added /\ ~x.attached /\ x.own = {} /\ ~x.foreign /\ ~x.freedUse
      /\ x.kind \in {"eventfd", "pipe"} /\ x.fds = NoFds(x.kind)
  BY DEF Watchers, NewWatcher
<1>2. CASE ok
  <2> DEFINE f == NewFds(x.kind)
  <2>1. f \in SUBSET Int /\ x.kind # "timer"
    BY Zenon, <1>1, FdsFacts
  <2>2. y = [x EXCEPT !.fds = f, !.own = f, !.added = x.kind # "timer"]
    BY <1>2, Zenon DEF DoInit
  <2> HIDE DEF f
  <2> QED
    BY <1>1, <2>1, <2>2, Zenon DEF Watchers
<1>3. CASE ~ok
  <2>1. PICK u : u = DoTerminate(x) /\ Terminated(u, x)
    BY TerminateFacts, Zenon
  <2>2. u \in Watchers
    BY <2>1, Zenon DEF Terminated
  <2>3. y = DoTerminate(u) /\ Terminated(y, u)
    BY <1>3, <2>1, <2>2, TerminateFacts, Zenon DEF DoInit
  <2>4. u.own = {} /\ u.fds = NoFds(x.kind) /\ u.kind = x.kind
    BY <1>1, <2>1, Zenon DEF Terminated
  <2>5. x.kind = "eventfd" => ~u.foreign
    BY <1>1, <2>1, FdsFacts, Zenon DEF Terminated
  <2>6. x.kind = "eventfd" => ~y.foreign
    BY <2>3, <2>4, <2>5, FdsFacts, Zenon DEF Terminated
  <2> QED
    BY <1>1, <1>3, <2>1, <2>3, <2>4, <2>6, Zenon DEF Terminated
<1> QED
  BY Zenon, <1>2, <1>3

\* Dispatched(y, x, ok): y is x after doWatch, for an event that was not attached.
Dispatched(y, x, ok) ==
  /\ y \in Watchers /\ y.kind = x.kind /\ y.event /\ y.added /\ (y.attached <=> ok)
  /\ y.own = x.own /\ y.fds = x.fds /\ y.foreign = x.foreign /\ y.freedUse = x.freedUse

\* doWatch adds the event once more.
LEMMA DispatchFacts ==
  ASSUME NEW x \in Watchers, x.event, x.added, ~x.attached, NEW ok \in BOOLEAN
  PROVE  Dispatched(DoWatch(x, ok), x, ok)
BY Zenon DEF Watchers, DoWatch, Dispatched

\* Destructed(y, x): y is x after the destructor of a loop freed the base under it.
Destructed(y, x) ==
  /\ y \in Watchers /\ y.kind = x.kind /\ y.own = {} /\ ~y.foreign /\ ~y.attached
  /\ y.freedUse <=> x.attached

\* ~EventLoop closes what the watcher opened, and uses the base if it was attached.
LEMMA DestroyFacts ==
  ASSUME NEW x \in Watchers, x.event, x.own = x.fds, ~x.foreign, ~x.freedUse, NEW y,
         y = Destroyed([x EXCEPT !.added = FALSE], FALSE)
  PROVE  Destructed(y, x)
<1> DEFINE u == [x EXCEPT !.added = FALSE]
           v == DoTerminate(u)
<1>1. /\ u \in Watchers /\ u.kind = x.kind /\ u.event /\ u.own = u.fds /\ ~u.foreign /\ ~u.freedUse
      /\ ~u.added /\ u.attached = x.attached
  BY Zenon DEF Watchers
<1> HIDE DEF u
<1>2. Terminated(v, u)
  BY <1>1, TerminateFacts, Zenon
<1>3. y = Detach(v, FALSE)
  BY Zenon DEF Destroyed, u, v
<1> HIDE DEF v
<1>4. /\ v \in Watchers /\ v.kind = x.kind /\ v.event /\ v.own = {} /\ ~v.foreign /\ ~v.freedUse
      /\ ~v.added /\ v.attached = x.attached
  BY <1>1, <1>2, Zenon DEF Terminated
<1>5. y = [v EXCEPT !.event = FALSE, !.added = FALSE, !.attached = FALSE, !.freedUse = v.attached]
  <2>1. y = [v EXCEPT !.event = FALSE, !.added = v.added /\ ~v.attached, !.attached = FALSE,
                      !.freedUse = v.freedUse \/ (v.attached /\ ~FALSE) \/ (v.added /\ ~v.attached)]
    BY <1>3, <1>4, Zenon DEF Detach
  <2>2. v.attached \in BOOLEAN
    BY <1>4 DEF Watchers
  <2>3. (v.added /\ ~v.attached) = FALSE
    BY <1>4, Zenon
  <2>4. (v.freedUse \/ (v.attached /\ ~FALSE) \/ (v.added /\ ~v.attached)) = v.attached
    BY <1>4, <2>2, Zenon
  <2> QED
    BY <2>1, <2>3, <2>4, Zenon
<1>6. y \in Watchers /\ y.kind = v.kind /\ y.own = v.own /\ y.foreign = v.foreign
  BY <1>4, <1>5, ZenonT(40) DEF Watchers
<1>7. ~y.attached /\ y.freedUse = v.attached
  BY <1>4, <1>5, Zenon DEF Watchers
<1> QED
  BY <1>4, <1>6, <1>7, Zenon DEF Destructed

\* EventLoop's constructor.
LEMMA WatcherConstruct ==
  ASSUME LifeInv, NEW ok \in BOOLEAN, Construct(ok)
  PROVE  LifeInv' /\ waker'.kind = waker.kind
<1>1. waker \in Watchers /\ waker = NewWatcher(waker.kind) /\ waker' = DoInit(waker, ok)
  BY Zenon DEF LifeInv, Construct
<1>2. /\ waker' \in Watchers /\ waker'.kind = waker.kind /\ waker'.event /\ ~waker'.attached /\ ~waker'.freedUse
      /\ ok => waker'.added /\ waker'.own = waker'.fds /\ ~waker'.foreign
      /\ waker'.foreign => waker'.kind = "pipe"
  BY <1>1, ConstructFacts, Zenon
<1>3. watched' = (IF ok THEN "init" ELSE "aborted") /\ base' = base /\ base \in BOOLEAN
  BY Zenon DEF LifeInv, Construct
<1>4. CASE ok
  <2>1. watched' = "init" /\ "init" \in Life /\ "init" \notin {"new", "aborted", "gone", "dropped"}
    BY <1>3, <1>4 DEF Life
  <2> QED
    BY <1>2, <1>3, <1>4, <2>1, Zenon DEF LifeInv
<1>5. CASE ~ok
  <2>1. watched' = "aborted" /\ "aborted" \in Life /\ "aborted" \notin Live \cup {"new", "gone", "dropped"}
    BY <1>3, <1>5 DEF Life, Live
  <2> QED
    BY <1>2, <1>3, <2>1, Zenon DEF LifeInv
<1> QED
  BY <1>4, <1>5, Zenon

\* dispatch.
LEMMA WatcherDispatch ==
  ASSUME LifeInv, NEW ok \in BOOLEAN, Dispatch(ok)
  PROVE  LifeInv' /\ waker'.kind = waker.kind
<1>1. watched = "init" /\ "init" \in Live /\ "init" # "gone"
  BY DEF Dispatch, Live
<1>2. /\ waker \in Watchers /\ waker.event /\ waker.added /\ ~waker.attached /\ waker.own = waker.fds /\ ~waker.foreign
      /\ ~waker.freedUse /\ waker' = DoWatch(waker, ok)
  BY <1>1, Zenon DEF LifeInv, Dispatch
<1>3. Dispatched(waker', waker, ok)
  BY <1>2, DispatchFacts, Zenon
<1>4. watched' = (IF ok THEN "running" ELSE "aborted") /\ base' = base /\ base \in BOOLEAN
  BY Zenon DEF LifeInv, Dispatch
<1>5. CASE ok
  <2>1. /\ watched' = "running" /\ "running" \in Life
        /\ "running" \notin {"new", "init", "aborted", "gone", "dropped"}
    BY <1>4, <1>5 DEF Life
  <2> QED
    BY <1>2, <1>3, <1>4, <1>5, <2>1, Zenon DEF LifeInv, Dispatched
<1>6. CASE ~ok
  <2>1. watched' = "aborted" /\ "aborted" \in Life /\ "aborted" \notin Live \cup {"new", "gone", "dropped"}
    BY <1>4, <1>6 DEF Life, Live
  <2> QED
    BY <1>2, <1>3, <1>4, <1>6, <2>1, Zenon DEF LifeInv, Dispatched
<1> QED
  BY <1>3, <1>5, <1>6, Zenon DEF Dispatched

\* The handler runs: the event persists.
LEMMA WatcherHandle ==
  ASSUME LifeInv, Handle
  PROVE  LifeInv' /\ waker'.kind = waker.kind
<1>1. /\ watched = "running" /\ watched' = watched /\ base' = base /\ waker \in Watchers
      /\ waker' = Fired(waker)
  BY Zenon DEF LifeInv, Handle
<1>2. "running" \in Live /\ "running" \notin {"new", "init", "aborted", "gone", "dropped"}
  BY DEF Live
<1>3. /\ waker' \in Watchers /\ waker'.added /\ waker'.kind = waker.kind /\ waker'.event = waker.event
      /\ waker'.attached = waker.attached /\ waker'.fds = waker.fds /\ waker'.own = waker.own
      /\ waker'.foreign = waker.foreign /\ waker'.freedUse = waker.freedUse
  BY <1>1, LoopWatcherFacts, Zenon
<1> QED
  BY <1>1, <1>2, <1>3, Zenon DEF LifeInv

\* dispatch returns.
LEMMA WatcherLeave ==
  ASSUME LifeInv, LeaveDispatch
  PROVE  LifeInv'
<1>1. watched = "running" /\ watched' = "left" /\ base' = base /\ waker' = waker
  BY Zenon DEF LeaveDispatch
<1>2. /\ "running" \in Live /\ "running" \notin {"init", "gone"} /\ "left" \in Life
      /\ "left" \notin {"new", "init", "aborted", "gone", "dropped"}
  BY DEF Live, Life
<1> QED
  BY <1>1, <1>2, Zenon DEF LifeInv

\* ~EventLoop.
LEMMA WatcherDestroy ==
  ASSUME LifeInv, DestroyLoop
  PROVE  LifeInv' /\ waker'.kind = waker.kind
<1>1. watched \in {"init", "left"} /\ {"init", "left"} \subseteq Live /\ "gone" \notin {"init", "left"}
  BY DEF DestroyLoop, Live
<1>2. /\ waker \in Watchers /\ waker.event /\ waker.own = waker.fds /\ ~waker.foreign /\ ~waker.freedUse
      /\ waker.attached <=> watched # "init"
      /\ waker' = Destroyed([waker EXCEPT !.added = FALSE], FALSE)
  BY <1>1, Zenon DEF LifeInv, DestroyLoop
<1>3. Destructed(waker', waker)
  BY <1>2, DestroyFacts, Zenon
<1>4. watched' = (IF watched = "init" THEN "dropped" ELSE "gone") /\ base' = FALSE
  BY Zenon DEF DestroyLoop
<1>5. /\ {"gone", "dropped"} \subseteq Life /\ "gone" # "dropped"
      /\ {"gone", "dropped"} \cap (Live \cup {"new", "aborted"}) = {}
  BY DEF Life, Live
<1> QED
  BY <1>2, <1>3, <1>4, <1>5, Zenon DEF LifeInv, Destructed

\* The counters, one lemma of arithmetic for each step that changes them.
Tally(c, h, n, r, pipe) ==
  /\ c \in Nat /\ h \in Nat /\ n \in Nat /\ r \in Nat
  /\ h + (IF c > 0 THEN 1 ELSE 0) <= n - r
  /\ pipe = 1 => c <= Capacity /\ h + c = n - r

\* A write that is taken, or refused by a full pipe.
LEMMA TallyNotify ==
  ASSUME NEW c, NEW h, NEW n, NEW r, NEW pipe \in {0, 1}, Tally(c, h, n, r, pipe), NEW c2, NEW r2,
         c2 = IF pipe = 0 THEN 1 ELSE IF c < Capacity THEN c + 1 ELSE c,
         r2 = IF pipe = 1 /\ c = Capacity THEN r + 1 ELSE r
  PROVE  Tally(c2, h, n + 1, r2, pipe)
BY CapacityAssumption DEF Tally

\* A read of the counter, or of one byte.
LEMMA TallyHandle ==
  ASSUME NEW c, NEW h, NEW n, NEW r, NEW pipe \in {0, 1}, Tally(c, h, n, r, pipe), c > 0, NEW c2,
         c2 = IF pipe = 0 THEN 0 ELSE c - 1
  PROVE  Tally(c2, h + 1, n, r, pipe)
BY CapacityAssumption DEF Tally

\* TallyInv is Tally for the kind of the watcher.
LEMMA TallySame ==
  /\ waker.kind = "pipe" => (TallyInv <=> Tally(count, handled, notified, refused, 1))
  /\ waker.kind # "pipe" => (TallyInv <=> Tally(count, handled, notified, refused, 0))
<1>1. 0 # 1
  OBVIOUS
<1> QED
  BY <1>1, Zenon DEF TallyInv, Tally

\* The same after a step.
LEMMA TallySamePrimed ==
  /\ waker'.kind = "pipe" => (TallyInv' <=> Tally(count', handled', notified', refused', 1))
  /\ waker'.kind # "pipe" => (TallyInv' <=> Tally(count', handled', notified', refused', 0))
<1>1. 0 # 1
  OBVIOUS
<1> QED
  BY <1>1, Zenon DEF TallyInv, Tally

\* The two steps that change the counters.
LEMMA WatcherTally ==
  ASSUME LifeInv, TallyInv, waker'.kind = waker.kind, Notify \/ Handle
  PROVE  TallyInv'
<1>1. PICK p \in {0, 1} : p = IF waker.kind = "pipe" THEN 1 ELSE 0
  OBVIOUS
<1>2. /\ waker.kind \in {"eventfd", "pipe"} /\ 0 # 1 /\ "eventfd" # "pipe"
  BY DEF LifeInv, Watchers
<1>3. (p = 1 <=> waker.kind = "pipe") /\ (p = 0 <=> waker.kind = "eventfd")
  BY <1>1, <1>2
<1>4. Tally(count, handled, notified, refused, p)
  BY <1>2, <1>3, TallySame, Zenon
<1>5. CASE Notify
  <2>1. /\ notified' = notified + 1 /\ handled' = handled
        /\ count' = IF p = 0 THEN 1 ELSE IF count < Capacity THEN count + 1 ELSE count
        /\ refused' = IF p = 1 /\ count = Capacity THEN refused + 1 ELSE refused
    BY <1>3, <1>5, Zenon DEF Notify, Written
  <2>2. Tally(count', handled', notified', refused', p)
    BY <1>4, <2>1, TallyNotify, Zenon
  <2> QED
    BY <1>2, <1>3, <2>2, TallySamePrimed, Zenon
<1>6. CASE Handle
  <2>1. /\ notified' = notified /\ handled' = handled + 1 /\ refused' = refused /\ count > 0
        /\ count' = IF p = 0 THEN 0 ELSE count - 1
    BY <1>3, <1>6, Zenon DEF Handle
  <2>2. Tally(count', handled', notified', refused', p)
    BY <1>4, <2>1, TallyHandle, Zenon
  <2> QED
    BY <1>2, <1>3, <2>2, TallySamePrimed, Zenon
<1> QED
  BY <1>5, <1>6, Zenon

\* The steps that do not.
LEMMA WatcherFrame ==
  ASSUME TallyInv, waker'.kind = waker.kind, UNCHANGED <<count, notified, refused, handled>>
  PROVE  TallyInv'
<1>1. count' = count /\ notified' = notified /\ refused' = refused /\ handled' = handled
  BY Zenon
<1> QED
  BY <1>1, Zenon DEF TallyInv

\* Every step of the watcher keeps the invariant.
LEMMA WatcherStep ==
  ASSUME WatcherInv, [WatcherNext]_(wat)
  PROVE  WatcherInv'
<1> USE DEF WatcherInv
<1>1. ASSUME NEW ok \in BOOLEAN, Construct(ok)
      PROVE  WatcherInv'
  <2>1. UNCHANGED <<count, notified, refused, handled>>
    BY <1>1, Zenon DEF Construct, tallies
  <2> QED
    BY <1>1, <2>1, WatcherConstruct, WatcherFrame, Zenon
<1>2. ASSUME NEW ok \in BOOLEAN, Dispatch(ok)
      PROVE  WatcherInv'
  <2>1. UNCHANGED <<count, notified, refused, handled>>
    BY <1>2, Zenon DEF Dispatch, tallies
  <2> QED
    BY <1>2, <2>1, WatcherDispatch, WatcherFrame, Zenon
<1>3. CASE Notify
  <2>1. waker' = waker /\ watched' = watched /\ base' = base
    BY <1>3, Zenon DEF Notify
  <2>2. LifeInv'
    BY <2>1, Zenon DEF LifeInv
  <2> QED
    BY <1>3, <2>1, <2>2, WatcherTally, Zenon
<1>4. CASE Handle
  BY <1>4, WatcherHandle, WatcherTally, Zenon
<1>5. CASE LeaveDispatch
  <2>1. waker' = waker /\ UNCHANGED <<count, notified, refused, handled>>
    BY <1>5, Zenon DEF LeaveDispatch, tallies
  <2> QED
    BY <1>5, <2>1, WatcherLeave, WatcherFrame, Zenon
<1>6. CASE DestroyLoop
  <2>1. UNCHANGED <<count, notified, refused, handled>>
    BY <1>6, Zenon DEF DestroyLoop, tallies
  <2> QED
    BY <1>6, <2>1, WatcherDestroy, WatcherFrame, Zenon
<1>7. CASE UNCHANGED wat
  <2>1. /\ waker' = waker /\ watched' = watched /\ base' = base
        /\ UNCHANGED <<count, notified, refused, handled>>
    BY <1>7, Zenon DEF wat
  <2>2. LifeInv'
    BY <2>1, Zenon DEF LifeInv
  <2> QED
    BY <2>1, <2>2, WatcherFrame, Zenon
<1> QED
  BY <1>1, <1>2, <1>3, <1>4, <1>5, <1>6, <1>7, Zenon DEF WatcherNext

\* The initial states have it.
LEMMA WatcherInitInv ==
  WatcherInit => WatcherInv
<1> SUFFICES ASSUME WatcherInit PROVE WatcherInv
  OBVIOUS
<1>1. PICK k \in {"eventfd", "pipe"} : waker = NewWatcher(k)
  BY Zenon DEF WatcherInit
<1>2. /\ waker \in Watchers /\ waker.kind = k /\ ~waker.freedUse
  BY Zenon, <1>1, FdsFacts DEF NewWatcher, Watchers
<1>3. watched = "new" /\ base = TRUE
  BY Zenon DEF WatcherInit
<1>4. "new" \in Life /\ "new" \notin Live \cup {"aborted", "gone", "dropped"}
  BY DEF Life, Live
<1>5. LifeInv
  BY <1>1, <1>2, <1>3, <1>4, Zenon DEF LifeInv
<1>6. count = 0 /\ notified = 0 /\ refused = 0 /\ handled = 0
  BY Zenon DEF WatcherInit
<1>7. TallyInv
  BY <1>6, CapacityAssumption DEF TallyInv
<1> QED
  BY <1>5, <1>7, Zenon DEF WatcherInv

\* The inductive invariant of the loop's watcher, for either kind and any pipe.
THEOREM WatcherCorrect ==
  WatcherSpec => []WatcherInv
<1>1. WatcherInit => WatcherInv
  BY WatcherInitInv
<1>2. WatcherInv /\ [WatcherNext]_(wat) => WatcherInv'
  BY WatcherStep
<1> QED
  BY <1>1, <1>2, PTL DEF WatcherSpec

\* The invariant says more than the property.
LEMMA WatcherImplies ==
  WatcherInv => WatcherIsSound
<1> SUFFICES ASSUME WatcherInv PROVE WatcherIsSound
  OBVIOUS
<1>1. HandledOnce
  BY Zenon DEF WatcherInv, TallyInv, HandledOnce
<1>2. watched \in Life /\ "running" \in Live /\ "running" # "init"
  BY Zenon DEF WatcherInv, LifeInv, Live
<1>3. Life = Live \cup {"new", "gone", "dropped", "aborted"}
  BY DEF Life, Live
<1>4. watched = "new" => ~waker.attached /\ ~waker.foreign
  <2>1. watched = "new" => waker = NewWatcher(waker.kind)
    BY Zenon DEF WatcherInv, LifeInv
  <2> QED
    BY <2>1 DEF NewWatcher
<1>5. AttachedIsAdded
  BY <1>2, <1>3, <1>4, Zenon DEF WatcherInv, LifeInv, AttachedIsAdded
<1>6. ClosesItsOwn /\ FreedUseAfterDispatch
  BY <1>2, <1>3, <1>4, Zenon DEF WatcherInv, LifeInv, ClosesItsOwn, FreedUseAfterDispatch
<1> QED
  BY <1>1, <1>5, <1>6, Zenon DEF WatcherIsSound

\* The handler runs for a notification only, once for each byte of the pipe; the event
\* is added while the loop lives; descriptors are closed once, by the watcher that
\* opened them; and ~EventLoop uses its freed event_base_ exactly when the loop was
\* dispatched: for every capacity of the pipe and any number of notifications.
THEOREM WatcherIsSoundHolds ==
  WatcherSpec => []WatcherIsSound
<1> QED
  BY WatcherCorrect, WatcherImplies, PTL

-----------------------------------------------------------------------------
(* The dynamic thread pool.  NoStrandedTask and DestroyedClean need a        *)
(* resident worker: a pool made with core_threads 0 can strand a task.       *)

\* Some thread of a pool that is not shut down has not decided to leave: a worker
\* retires only when another one is waiting.
LiveInv == ~shutdown => \E w \in Workers : th[w] \in {"lock", "blocked", "woken", "run"}

\* An added task is queued, running or done.
TasksInv ==
  /\ \A w \in Workers : th[w] = "run" => task[w] \in added
  /\ done \subseteq added
  /\ Elems(callbacks) \subseteq added
  /\ \A k \in added : \/ k \in Elems(callbacks) \/ k \in done
                      \/ \E w \in Workers : th[w] = "run" /\ task[w] = k

DtorInv ==
  /\ shutdown <=> dtor # "none"
  /\ dtor = "done" => \A w \in Workers : th[w] \in {"none", "joined"}

\* A worker that runs a task has one.
Running == \A w \in Workers : th[w] = "run" => task[w] \in Tasks

PoolCountInv == TypeOK /\ CountersAgree /\ Running
TaskInv  == LiveInv /\ NoStrandedTask /\ TasksInv /\ DtorInv

-----------------------------------------------------------------------------
LEMMA CountsFinite == IsFiniteSet(Waiting) /\ IsFiniteSet(Current)
<1>1. Waiting \in SUBSET Workers /\ Current \in SUBSET Workers
  BY DEF Waiting, Current
<1> QED
  BY <1>1, PoolAssumption, FS_Subset

\* Moving x into or out of a finite set.
LEMMA CardMove ==
  ASSUME NEW S, IsFiniteSet(S), NEW T, NEW x,
         \A y : y # x => (y \in S <=> y \in T)
  PROVE  /\ Cardinality(S) \in Nat /\ Cardinality(T) \in Nat
         /\ x \in S /\ x \in T       => Cardinality(T) = Cardinality(S)
         /\ x \notin S /\ x \notin T => Cardinality(T) = Cardinality(S)
         /\ x \notin S /\ x \in T    => Cardinality(T) = Cardinality(S) + 1
         /\ x \in S /\ x \notin T    => Cardinality(T) = Cardinality(S) - 1
<1>1. CASE x \in T
  <2>1. T = S \cup {x}
    BY <1>1
  <2> QED
    BY <1>1, <2>1, FS_AddElement, FS_CardinalityType
<1>2. CASE x \notin T
  <2>1. T = S \ {x}
    BY <1>2
  <2> QED
    BY <1>2, <2>1, FS_RemoveElement, FS_CardinalityType
<1> QED
  BY <1>1, <1>2

Idle(l)  == l \in {"blocked", "woken"}
Alive(l) == l \notin {"none", "dead", "joined"}

\* What moving one worker does to the two counts.
LEMMA MoveCounts ==
  ASSUME th \in [Workers -> ThStates], NEW w \in Workers, NEW l \in ThStates,
         th' = [th EXCEPT ![w] = l]
  PROVE  /\ th' \in [Workers -> ThStates]
         /\ Cardinality(Waiting) \in Nat /\ Cardinality(Waiting') \in Nat
         /\ Cardinality(Current) \in Nat /\ Cardinality(Current') \in Nat
         /\ (Idle(l) <=> Idle(th[w])) => Cardinality(Waiting') = Cardinality(Waiting)
         /\ Idle(l) /\ ~Idle(th[w]) => Cardinality(Waiting') = Cardinality(Waiting) + 1
         /\ ~Idle(l) /\ Idle(th[w]) => Cardinality(Waiting') = Cardinality(Waiting) - 1
         /\ (Alive(l) <=> Alive(th[w])) => Cardinality(Current') = Cardinality(Current)
         /\ Alive(l) /\ ~Alive(th[w]) => Cardinality(Current') = Cardinality(Current) + 1
         /\ ~Alive(l) /\ Alive(th[w]) => Cardinality(Current') = Cardinality(Current) - 1
<1>1. th' \in [Workers -> ThStates] /\ th'[w] = l /\ \A v \in Workers : v # w => th'[v] = th[v]
  OBVIOUS
<1>2. /\ \A y : y # w => (y \in Waiting <=> y \in Waiting')
      /\ \A y : y # w => (y \in Current <=> y \in Current')
  BY Zenon, <1>1 DEF Waiting, Current
<1>3. /\ w \in Waiting <=> Idle(th[w])
      /\ w \in Waiting' <=> Idle(l)
      /\ w \in Current <=> Alive(th[w])
      /\ w \in Current' <=> Alive(l)
  BY Zenon, <1>1 DEF Waiting, Current, Idle, Alive
<1>4. /\ Cardinality(Waiting) \in Nat /\ Cardinality(Waiting') \in Nat
      /\ (Idle(l) <=> Idle(th[w])) => Cardinality(Waiting') = Cardinality(Waiting)
      /\ Idle(l) /\ ~Idle(th[w]) => Cardinality(Waiting') = Cardinality(Waiting) + 1
      /\ ~Idle(l) /\ Idle(th[w]) => Cardinality(Waiting') = Cardinality(Waiting) - 1
  BY Zenon, <1>2, <1>3, CountsFinite, CardMove
<1>5. /\ Cardinality(Current) \in Nat /\ Cardinality(Current') \in Nat
      /\ (Alive(l) <=> Alive(th[w])) => Cardinality(Current') = Cardinality(Current)
      /\ Alive(l) /\ ~Alive(th[w]) => Cardinality(Current') = Cardinality(Current) + 1
      /\ ~Alive(l) /\ Alive(th[w]) => Cardinality(Current') = Cardinality(Current) - 1
  BY Zenon, <1>2, <1>3, CountsFinite, CardMove
<1> QED
  BY <1>1, <1>4, <1>5

-----------------------------------------------------------------------------
LEMMA InitCount == Init => PoolCountInv
<1> SUFFICES ASSUME Init PROVE PoolCountInv
  OBVIOUS
<1>1. PICK C \in SUBSET Workers :
        /\ Cardinality(C) = CoreThreads
        /\ th = [w \in Workers |-> IF w \in C THEN "lock" ELSE "none"]
  BY Zenon DEF Init
<1>2. Waiting = {} /\ Current = C
  BY Zenon, <1>1 DEF Waiting, Current
<1>3. waiting_threads = 0 /\ current_threads = CoreThreads
  BY Zenon DEF Init
<1>4. CountersAgree
  BY Zenon, <1>1, <1>2, <1>3, FS_EmptySet DEF CountersAgree
<1>5. waiting_threads \in Nat /\ current_threads \in Nat
  <2>1. Cardinality(Workers) \in Nat
    BY PoolAssumption, FS_CardinalityType
  <2> QED
    BY <1>3, <2>1, PoolAssumption
<1>6. callbacks \in Seq(Tasks)
  BY Zenon, EmptySeq DEF Init
<1>7. shutdown \in BOOLEAN /\ dtor \in DtorStates /\ task \in [Workers -> Tasks \cup {NoTask}]
  BY Zenon DEF Init, DtorStates
<1>8. th \in [Workers -> ThStates]
  BY Zenon, <1>1 DEF ThStates
<1>9. added \in SUBSET Tasks /\ done \in SUBSET Tasks
  BY Zenon DEF Init
<1>10. Running
  BY Zenon, <1>1 DEF Running
<1> QED
  BY Zenon, <1>4, <1>5, <1>6, <1>7, <1>8, <1>9, <1>10 DEF PoolCountInv, TypeOK

\* A step that keeps the counters' meaning keeps TypeOK, given the rest of it.
LEMMA CountFrame ==
  ASSUME CountersAgree', Running',
         shutdown' \in BOOLEAN, callbacks' \in Seq(Tasks),
         th' \in [Workers -> ThStates], task' \in [Workers -> Tasks \cup {NoTask}],
         dtor' \in DtorStates, added' \in SUBSET Tasks, done' \in SUBSET Tasks
  PROVE  PoolCountInv'
<1>1. Cardinality(Waiting') \in Nat /\ Cardinality(Current') \in Nat
  <2>1. Waiting' \in SUBSET Workers /\ Current' \in SUBSET Workers
    BY Zenon DEF Waiting, Current
  <2> QED
    BY Zenon, <2>1, PoolAssumption, FS_Subset, FS_CardinalityType
<1>2. waiting_threads' \in Nat /\ current_threads' \in Nat
  BY Zenon, <1>1 DEF CountersAgree
<1> QED
  BY Zenon, <1>2 DEF PoolCountInv, TypeOK

\* add: a new thread, a woken one, or neither.
LEMMA AddCount ==
  ASSUME PoolCountInv, NEW k \in Tasks, Add(k)
  PROVE  PoolCountInv'
<1>0. /\ th \in [Workers -> ThStates] /\ waiting_threads = Cardinality(Waiting)
      /\ current_threads = Cardinality(Current)
  BY Zenon DEF PoolCountInv, TypeOK, CountersAgree
<1>1. th' \in [Workers -> ThStates] /\ CountersAgree' /\ dtor' \in DtorStates
  <2>1. CASE th' = th /\ UNCHANGED current_threads /\ dtor' \in {dtor, "woken"}
    <3>1. Waiting' = Waiting /\ Current' = Current
      BY Zenon, <2>1 DEF Waiting, Current
    <3>2. waiting_threads' = waiting_threads
      BY Zenon DEF Add
    <3> QED
      BY Zenon, <1>0, <2>1, <3>1, <3>2 DEF CountersAgree, PoolCountInv, TypeOK, DtorStates
  <2>2. CASE NewThread /\ UNCHANGED dtor
    <3>1. PICK w \in Workers : th[w] = "none" /\ th' = [th EXCEPT ![w] = "lock"]
      BY Zenon, <2>2 DEF NewThread
    <3>2. /\ "lock" \in ThStates /\ ~Idle("lock") /\ ~Idle(th[w])
          /\ Alive("lock") /\ ~Alive(th[w])
      BY <3>1 DEF Idle, Alive, ThStates
    <3>3. /\ th' \in [Workers -> ThStates]
          /\ Cardinality(Waiting') = Cardinality(Waiting)
          /\ Cardinality(Current') = Cardinality(Current) + 1
      BY Zenon, <1>0, <3>1, <3>2, MoveCounts
    <3>4. waiting_threads' = waiting_threads /\ current_threads' = current_threads + 1
      BY Zenon, <2>2 DEF Add, NewThread
    <3> QED
      BY Zenon, <1>0, <2>2, <3>3, <3>4 DEF CountersAgree, PoolCountInv, TypeOK
  <2>3. CASE UNCHANGED <<current_threads, dtor>> /\ \E w \in Blocked : th' = [th EXCEPT ![w] = "woken"]
    <3>1. PICK w \in Workers : th[w] = "blocked" /\ th' = [th EXCEPT ![w] = "woken"]
      BY Zenon, <2>3 DEF Blocked
    <3>2. /\ "woken" \in ThStates /\ Idle("woken") /\ Idle(th[w])
          /\ Alive("woken") /\ Alive(th[w])
      BY <3>1 DEF Idle, Alive, ThStates
    <3>3. /\ th' \in [Workers -> ThStates]
          /\ Cardinality(Waiting') = Cardinality(Waiting)
          /\ Cardinality(Current') = Cardinality(Current)
      BY Zenon, <1>0, <3>1, <3>2, MoveCounts
    <3>4. waiting_threads' = waiting_threads
      BY Zenon DEF Add
    <3> QED
      BY Zenon, <1>0, <2>3, <3>3, <3>4 DEF CountersAgree, PoolCountInv, TypeOK
  <2> QED
    BY Zenon, <2>1, <2>2, <2>3 DEF Add, NotifyOne
<1>2. callbacks' \in Seq(Tasks)
  BY Zenon, AppendProperties DEF Add, PoolCountInv, TypeOK
<1>3. \A w \in Workers : th'[w] = "run" => th[w] = "run"
  BY Zenon, <1>0 DEF Add, NewThread, NotifyOne
<1>4. Running'
  BY Zenon, <1>3 DEF Add, PoolCountInv, Running
<1> QED
  BY Zenon, <1>1, <1>2, <1>4, CountFrame DEF Add, PoolCountInv, TypeOK

\* The critical sections of a worker: each moves it and its share of the counters.
LEMMA WorkerCount ==
  ASSUME PoolCountInv, NEW w \in Workers, Worker(w) \/ SpuriousWake(w)
  PROVE  PoolCountInv'
<1>0. /\ th \in [Workers -> ThStates] /\ waiting_threads = Cardinality(Waiting)
      /\ current_threads = Cardinality(Current)
  BY Zenon DEF PoolCountInv, TypeOK, CountersAgree
<1>1. th' \in [Workers -> ThStates] /\ CountersAgree'
  <2> USE DEF Idle, Alive, ThStates
  <2>1. CASE th[w] = "lock" /\ Goto(w, "blocked") /\ UNCHANGED current_threads
             /\ waiting_threads' = waiting_threads + 1
    BY Zenon, <1>0, <2>1, MoveCounts DEF Goto, CountersAgree
  <2>2. CASE UNCHANGED <<waiting_threads, current_threads>> /\
             \/ th[w] = "lock" /\ Goto(w, "run")
             \/ th[w] = "lock" /\ Goto(w, "leaving")
             \/ th[w] = "run" /\ Goto(w, "lock")
    BY Zenon, <1>0, <2>2, MoveCounts DEF Goto, CountersAgree
  <2>3. CASE th[w] = "blocked" /\ Goto(w, "woken") /\ UNCHANGED <<waiting_threads, current_threads>>
    BY Zenon, <1>0, <2>3, MoveCounts DEF Goto, CountersAgree
  <2>4. CASE th[w] = "woken" /\ waiting_threads' = waiting_threads - 1 /\ UNCHANGED current_threads
             /\ \E l \in {"run", "lock", "leaving"} : Goto(w, l)
    BY Zenon, <1>0, <2>4, MoveCounts DEF Goto, CountersAgree
  <2>5. CASE th[w] = "leaving" /\ Goto(w, "dead") /\ UNCHANGED waiting_threads
             /\ current_threads' = current_threads - 1
    BY Zenon, <1>0, <2>5, MoveCounts DEF Goto, CountersAgree
  <2>6. CASE Wait(w)
    BY Zenon, <2>1, <2>6 DEF Wait
  <2>7. CASE Retire(w) \/ FinishTask(w)
    BY Zenon, <2>2, <2>7 DEF Retire, FinishTask
  <2>8. CASE TakeTask(w) \/ GoRound(w) \/ Break(w)
    BY Zenon, <2>2, <2>4, <2>8 DEF TakeTask, GoRound, Break, Resumed
  <2>9. CASE Leave(w)
    BY Zenon, <2>5, <2>9 DEF Leave
  <2>10. CASE SpuriousWake(w)
    BY Zenon, <2>3, <2>10 DEF SpuriousWake
  <2> QED
    BY Zenon, <2>6, <2>7, <2>8, <2>9, <2>10 DEF Worker
<1>2. callbacks' \in Seq(Tasks) /\ task' \in [Workers -> Tasks \cup {NoTask}] /\ Running'
  <2>1. CASE TakeTask(w)
    <3>1. callbacks \in Seq(Tasks) /\ callbacks # <<>> /\ task \in [Workers -> Tasks \cup {NoTask}]
      BY Zenon, <2>1 DEF TakeTask, PoolCountInv, TypeOK
    <3>2. Head(callbacks) \in Tasks /\ Tail(callbacks) \in Seq(Tasks)
      BY <3>1, HeadTailProperties
    <3>3. task' \in [Workers -> Tasks \cup {NoTask}] /\ callbacks' \in Seq(Tasks)
      BY Zenon, <2>1, <3>1, <3>2 DEF TakeTask
    <3>4. Running'
      BY Zenon, <1>0, <2>1, <3>1, <3>2 DEF TakeTask, Goto, PoolCountInv, Running
    <3> QED
      BY <3>3, <3>4
  <2>2. CASE ~TakeTask(w)
    <3>1. callbacks' \in Seq(Tasks) /\ task' \in [Workers -> Tasks \cup {NoTask}]
      BY Zenon, <2>2 DEF PoolCountInv, TypeOK, Worker, Wait, Retire, FinishTask, GoRound, Break, Leave, SpuriousWake
    <3>2. \A v \in Workers : th'[v] = "run" => th[v] = "run" /\ task'[v] = task[v]
      <4>1. CASE FinishTask(w)
        BY Zenon, <1>0, <4>1 DEF FinishTask, Goto, PoolCountInv, TypeOK
      <4>2. CASE ~FinishTask(w)
        BY Zenon, <1>0, <2>2, <4>2 DEF Worker, Wait, Retire, GoRound, Break, Leave, SpuriousWake, Goto
      <4> QED
        BY <4>1, <4>2
    <3> QED
      BY Zenon, <3>1, <3>2 DEF PoolCountInv, Running
  <2> QED
    BY <2>1, <2>2
<1>3. added' \in SUBSET Tasks /\ done' \in SUBSET Tasks
  BY Zenon DEF PoolCountInv, TypeOK, Running, Worker, Wait, Retire, TakeTask, FinishTask, GoRound, Break, Leave, SpuriousWake
<1>4. shutdown' \in BOOLEAN /\ dtor' \in DtorStates
  BY Zenon DEF PoolCountInv, TypeOK, DtorStates, Worker, Wait, Retire, TakeTask, FinishTask, GoRound, Break,
               Leave, SpuriousWake
<1> QED
  BY Zenon, <1>1, <1>2, <1>3, <1>4, CountFrame

\* The destructor wakes blocked workers and joins dead ones: no count changes.
LEMMA DestroyMoves ==
  ASSUME th \in [Workers -> ThStates], dtor \in DtorStates, Destroy \/ DestroyWoken \/ DestroySpurious
  PROVE  /\ th' \in [Workers -> ThStates]
         /\ \A w \in Workers :
              \/ th'[w] = th[w]
              \/ th[w] = "blocked" /\ th'[w] = "woken"
              \/ th[w] = "dead" /\ th'[w] = "joined"
         /\ dtor' \in DtorStates /\ dtor' # "none"
<1>1. dtor' \in DtorStates /\ dtor' # "none"
  BY DEF Destroy, DestroyWoken, DestroySpurious, WaitOrReap, DtorStates
<1>2. CASE Destroy
  BY <1>1, <1>2 DEF Destroy, WaitOrReap, Reaped, ThStates
<1>3. CASE DestroyWoken
  BY <1>1, <1>3 DEF DestroyWoken, WaitOrReap, Reaped, ThStates
<1> QED
  BY <1>1, <1>2, <1>3 DEF DestroySpurious

LEMMA DestroyCount ==
  ASSUME PoolCountInv, Destroy \/ DestroyWoken \/ DestroySpurious
  PROVE  PoolCountInv'
<1>0. th \in [Workers -> ThStates] /\ dtor \in DtorStates
  BY Zenon DEF PoolCountInv, TypeOK
<1>1. /\ UNCHANGED <<callbacks, waiting_threads, current_threads, task, added, done>>
      /\ shutdown' \in {shutdown, TRUE}
  BY Zenon DEF Destroy, DestroyWoken, DestroySpurious
<1>2. Waiting' = Waiting /\ Current' = Current
  BY Zenon, <1>0, DestroyMoves DEF Waiting, Current
<1>3. CountersAgree'
  BY Zenon, <1>1, <1>2 DEF PoolCountInv, CountersAgree
<1>4. Running'
  BY Zenon, <1>0, <1>1, DestroyMoves DEF PoolCountInv, Running
<1> QED
  BY Zenon, <1>0, <1>1, <1>3, <1>4, DestroyMoves, CountFrame DEF PoolCountInv, TypeOK

LEMMA CountStep ==
  ASSUME PoolCountInv, [Next]_vars
  PROVE  PoolCountInv'
<1>1. CASE UNCHANGED vars
  BY Zenon, <1>1 DEF vars, PoolCountInv, TypeOK, CountersAgree, Running, Waiting, Current
<1>2. CASE Next
  BY Zenon, <1>2, AddCount, WorkerCount, DestroyCount DEF Next
<1> QED
  BY <1>1, <1>2

\* The size_t counters of the pool never underflow and always count the threads
\* they stand for, for any number of threads, tasks and spurious wake-ups.
THEOREM CountersCorrect == Spec => [](TypeOK /\ CountersAgree)
<1>1. PoolCountInv => TypeOK /\ CountersAgree
  BY DEF PoolCountInv
<1> QED
  BY <1>1, InitCount, CountStep, PTL DEF Spec

LEMMA LimitsStep ==
  ASSUME PoolCountInv, WithinLimits, [Next]_vars
  PROVE  WithinLimits'
<1> USE PoolAssumption
<1>0. /\ waiting_threads \in Nat /\ current_threads \in Nat
      /\ CoreThreads \in Nat /\ MaxThreads \in Nat
  <2>1. Cardinality(Workers) \in Nat
    BY FS_CardinalityType
  <2> QED
    BY <2>1 DEF PoolCountInv, TypeOK
<1>1. \/ waiting_threads' = waiting_threads \/ waiting_threads' = waiting_threads - 1
      \/ waiting_threads < CoreThreads /\ waiting_threads' = waiting_threads + 1
  BY Zenon DEF Next, Add, Worker, SpuriousWake, Wait, Retire, TakeTask, FinishTask, GoRound, Break,
               Leave, Resumed, Destroy, DestroyWoken, DestroySpurious, vars
<1>2. \/ current_threads' = current_threads \/ current_threads' = current_threads - 1
      \/ current_threads < MaxThreads /\ current_threads' = current_threads + 1
  BY Zenon DEF Next, Add, NewThread, Worker, SpuriousWake, Wait, Retire, TakeTask, FinishTask, GoRound,
               Break, Leave, Destroy, DestroyWoken, DestroySpurious, vars
<1> QED
  BY <1>0, <1>1, <1>2 DEF WithinLimits

\* At most core_threads_ workers are idle and at most max_threads_ exist beyond the
\* ones the constructor made.
THEOREM LimitsHold == Spec => []WithinLimits
<1>1. Init => WithinLimits
  <2>1. Cardinality(Workers) \in Nat
    BY PoolAssumption, FS_CardinalityType
  <2> QED
    BY <2>1, PoolAssumption DEF Init, WithinLimits
<1> QED
  BY <1>1, InitCount, CountStep, LimitsStep, PTL DEF Spec

-----------------------------------------------------------------------------
LEMMA ZeroCounts ==
  ASSUME PoolCountInv
  PROVE  /\ waiting_threads = 0 <=> Waiting = {}
         /\ current_threads = 0 <=> Current = {}
BY Zenon, CountsFinite, FS_EmptySet DEF PoolCountInv, CountersAgree

LEMMA AddQueue ==
  ASSUME PoolCountInv, TaskInv, NEW k \in Tasks, Add(k)
  PROVE  LiveInv' /\ NoStrandedTask'
<1>0. th \in [Workers -> ThStates] /\ shutdown' = shutdown
  BY Zenon DEF PoolCountInv, TypeOK, Add
<1>1. CASE th' = th
  <2>1. LiveInv'
    BY Zenon, <1>0, <1>1 DEF TaskInv, LiveInv
  <2>2. CASE shutdown
    BY Zenon, <1>1, <2>1, <2>2 DEF Add, CanAdd, TaskInv, DtorInv, NoStrandedTask
  <2>3. CASE ~shutdown /\ waiting_threads = 0
    BY Zenon, <1>1, <2>1, <2>3, ZeroCounts DEF Waiting, TaskInv, LiveInv, NoStrandedTask
  <2>4. CASE ~shutdown /\ waiting_threads # 0
    <3>1. Blocked = {}
      BY Zenon, <1>0, <1>1, <2>4 DEF Add, NotifyOne, Blocked, TaskInv, DtorInv
    <3> QED
      BY Zenon, <1>1, <2>1, <2>4, <3>1, ZeroCounts DEF Waiting, Blocked, NoStrandedTask
  <2> QED
    BY Zenon, <2>2, <2>3, <2>4
<1>2. CASE \E w \in Workers : \E l \in {"lock", "woken"} : th' = [th EXCEPT ![w] = l]
  BY Zenon, <1>0, <1>2 DEF LiveInv, NoStrandedTask
<1> QED
  BY Zenon, <1>1, <1>2 DEF Add, NewThread, NotifyOne, Blocked

LEMMA WorkerQueue ==
  ASSUME CoreThreads >= 1, PoolCountInv, TaskInv, NEW w \in Workers, Worker(w) \/ SpuriousWake(w)
  PROVE  LiveInv' /\ NoStrandedTask'
<1>0. th \in [Workers -> ThStates] /\ shutdown' = shutdown
  BY Zenon DEF PoolCountInv, TypeOK, Worker, SpuriousWake, Wait, Retire, TakeTask, FinishTask, GoRound, Break,
               Leave
<1>1. CASE \E l \in {"lock", "woken", "run"} : th' = [th EXCEPT ![w] = l]
  BY Zenon, <1>0, <1>1 DEF LiveInv, NoStrandedTask
<1>2. CASE Wait(w)
  BY Zenon, <1>0, <1>2 DEF Wait, Goto, LiveInv, NoStrandedTask
<1>3. CASE Retire(w)
  <2>1. waiting_threads # 0
    <3>1. Cardinality(Workers) \in Nat
      BY PoolAssumption, FS_CardinalityType
    <3> QED
      BY <1>3, <3>1, PoolAssumption DEF Retire
  <2>2. PICK v \in Workers : th[v] \in {"blocked", "woken"}
    BY Zenon, <2>1, ZeroCounts DEF Waiting
  <2>3. v # w
    BY <1>3, <2>2 DEF Retire
  <2>4. th'[v] = th[v] /\ callbacks' = <<>>
    BY Zenon, <1>0, <1>3, <2>3 DEF Retire, Goto
  <2> QED
    BY Zenon, <2>2, <2>4 DEF LiveInv, NoStrandedTask
<1>4. CASE Break(w)
  <2>1. shutdown' /\ callbacks' = <<>>
    BY <1>0, <1>4 DEF Break
  <2> QED
    BY Zenon, <2>1 DEF LiveInv, NoStrandedTask
<1>5. CASE Leave(w)
  <2>1. th' = [th EXCEPT ![w] = "dead"] /\ th[w] = "leaving" /\ callbacks' = callbacks
    BY Zenon, <1>5 DEF Leave, Goto
  <2>2. \A v \in Workers : th[v] \in {"lock", "blocked", "woken", "run"} => th'[v] = th[v]
    BY Zenon, <1>0, <2>1
  <2> QED
    BY Zenon, <1>0, <2>1, <2>2 DEF TaskInv, LiveInv, NoStrandedTask
<1> QED
  BY Zenon, <1>1, <1>2, <1>3, <1>4, <1>5
     DEF Worker, SpuriousWake, TakeTask, FinishTask, GoRound, Goto

LEMMA DestroyQueue ==
  ASSUME PoolCountInv, TaskInv, Destroy \/ DestroyWoken \/ DestroySpurious
  PROVE  LiveInv' /\ NoStrandedTask'
<1>0. th \in [Workers -> ThStates] /\ dtor \in DtorStates
  BY Zenon DEF PoolCountInv, TypeOK
<1>1. shutdown' /\ callbacks' = callbacks
  BY Zenon DEF Destroy, DestroyWoken, DestroySpurious, TaskInv, DtorInv
<1>2. \A w \in Workers : th[w] \in {"lock", "woken", "run"} => th'[w] \in {"lock", "woken", "run"}
  BY Zenon, <1>0, DestroyMoves
<1> QED
  BY Zenon, <1>1, <1>2 DEF LiveInv, NoStrandedTask, TaskInv

-----------------------------------------------------------------------------
LEMMA ElemsAppend ==
  ASSUME NEW S, NEW s \in Seq(S), NEW x \in S
  PROVE  Elems(Append(s, x)) = Elems(s) \cup {x}
<1>1. /\ Append(s, x) \in Seq(S) /\ Len(Append(s, x)) = Len(s) + 1 /\ Len(s) \in Nat
      /\ \A i \in 1..Len(s) : Append(s, x)[i] = s[i]
      /\ Append(s, x)[Len(s) + 1] = x
  BY AppendProperties, LenProperties
<1> QED
  BY <1>1 DEF Elems

LEMMA ElemsTail ==
  ASSUME NEW S, NEW s \in Seq(S), s # <<>>
  PROVE  Elems(s) = {Head(s)} \cup Elems(Tail(s))
<1>1. /\ Len(s) \in Nat /\ Len(s) > 0 /\ Head(s) = s[1]
      /\ Len(Tail(s)) = Len(s) - 1
      /\ \A i \in 1..(Len(s) - 1) : Tail(s)[i] = s[i + 1]
  BY HeadTailProperties, LenProperties
<1>2. ASSUME NEW i \in 1..Len(s) PROVE s[i] \in {Head(s)} \cup Elems(Tail(s))
  <2>1. CASE i = 1
    BY <1>1, <2>1
  <2>2. CASE i # 1
    <3>1. i - 1 \in 1..Len(Tail(s)) /\ Tail(s)[i - 1] = s[i]
      BY <1>1, <2>2
    <3> QED
      BY <3>1 DEF Elems
  <2> QED
    BY <2>1, <2>2
<1>3. ASSUME NEW i \in 1..Len(Tail(s)) PROVE Tail(s)[i] \in Elems(s)
  BY <1>1, <1>3 DEF Elems
<1>4. Head(s) \in Elems(s)
  BY <1>1 DEF Elems
<1> QED
  BY Zenon, <1>2, <1>3, <1>4 DEF Elems

LEMMA AddTasks ==
  ASSUME PoolCountInv, TaskInv, NEW k \in Tasks, Add(k)
  PROVE  TasksInv'
<1>0. th \in [Workers -> ThStates]
  BY Zenon DEF PoolCountInv, TypeOK
<1>1. \A w \in Workers : th[w] = "run" <=> th'[w] = "run"
  BY Zenon, <1>0 DEF Add, NewThread, NotifyOne, Blocked
<1>2. /\ Elems(callbacks') = Elems(callbacks) \cup {k}
      /\ added' = added \cup {k} /\ UNCHANGED <<task, done>>
  BY ElemsAppend DEF Add, PoolCountInv, TypeOK
<1> QED
  BY Zenon, <1>1, <1>2 DEF TaskInv, TasksInv

LEMMA WorkerTasks ==
  ASSUME PoolCountInv, TaskInv, NEW w \in Workers, Worker(w) \/ SpuriousWake(w)
  PROVE  TasksInv'
<1>0. /\ th \in [Workers -> ThStates] /\ callbacks \in Seq(Tasks)
      /\ task \in [Workers -> Tasks \cup {NoTask}]
  BY Zenon DEF PoolCountInv, TypeOK
<1>1. CASE TakeTask(w)
  <2>1. Elems(callbacks) = {Head(callbacks)} \cup Elems(callbacks')
    BY Zenon, <1>0, <1>1, ElemsTail DEF TakeTask
  <2>2. /\ th'[w] = "run" /\ task'[w] = Head(callbacks) /\ UNCHANGED <<added, done>>
        /\ \A v \in Workers : v # w => th'[v] = th[v] /\ task'[v] = task[v]
        /\ th[w] # "run"
    BY Zenon, <1>0, <1>1 DEF TakeTask, Goto
  <2> QED
    BY <2>1, <2>2 DEF TaskInv, TasksInv
<1>2. CASE FinishTask(w)
  <2>1. /\ done' = done \cup {task[w]} /\ UNCHANGED <<added, callbacks>>
        /\ \A v \in Workers : v # w => th'[v] = th[v] /\ task'[v] = task[v]
        /\ th'[w] = "lock"
    BY Zenon, <1>0, <1>2 DEF FinishTask, Goto
  <2>2. task[w] \in added
    BY Zenon, <1>2 DEF FinishTask, TaskInv, TasksInv
  <2> QED
    BY <2>1, <2>2 DEF TaskInv, TasksInv
<1>3. CASE ~TakeTask(w) /\ ~FinishTask(w)
  <2>1. /\ UNCHANGED <<added, callbacks, done, task>>
        /\ \A v \in Workers : th[v] = "run" <=> th'[v] = "run"
    BY Zenon, <1>0, <1>3 DEF Worker, SpuriousWake, Wait, Retire, GoRound, Break, Leave, Goto
  <2> QED
    BY Zenon, <2>1 DEF TaskInv, TasksInv
<1> QED
  BY <1>1, <1>2, <1>3

LEMMA DestroyTasks ==
  ASSUME PoolCountInv, TaskInv, Destroy \/ DestroyWoken \/ DestroySpurious
  PROVE  TasksInv'
<1>0. th \in [Workers -> ThStates] /\ dtor \in DtorStates
  BY Zenon DEF PoolCountInv, TypeOK
<1>1. UNCHANGED <<callbacks, task, added, done>>
  BY Zenon DEF Destroy, DestroyWoken, DestroySpurious
<1>2. \A w \in Workers : th[w] = "run" <=> th'[w] = "run"
  BY Zenon, <1>0, DestroyMoves
<1> QED
  BY Zenon, <1>1, <1>2 DEF TaskInv, TasksInv

LEMMA DtorStep ==
  ASSUME PoolCountInv, TaskInv, [Next]_vars
  PROVE  DtorInv'
<1>0. th \in [Workers -> ThStates] /\ dtor \in DtorStates /\ shutdown \in BOOLEAN
  BY Zenon DEF PoolCountInv, TypeOK
<1>1. ASSUME NEW k \in Tasks, Add(k) PROVE DtorInv'
  <2>1. shutdown' = shutdown /\ dtor' \in {dtor, "woken"} /\ (dtor' # dtor => dtor = "blocked")
    BY Zenon, <1>1 DEF Add, NotifyOne
  <2>2. dtor # "done"
    BY Zenon, <1>1 DEF Add, CanAdd, TaskInv, DtorInv
  <2>3. dtor' # "done" /\ (dtor' = "none" <=> dtor = "none")
    BY <2>1, <2>2
  <2> QED
    BY Zenon, <2>1, <2>3 DEF TaskInv, DtorInv
<1>2. ASSUME NEW w \in Workers, Worker(w) \/ SpuriousWake(w) PROVE DtorInv'
  <2>1. th[w] \notin {"none", "joined"}
    BY Zenon, <1>2 DEF Worker, SpuriousWake, Wait, Retire, TakeTask, FinishTask, GoRound, Break, Leave
  <2>2. dtor # "done"
    BY Zenon, <2>1 DEF TaskInv, DtorInv
  <2>3. shutdown' = shutdown /\ dtor' \in {dtor, "woken"} /\ (dtor' # dtor => dtor = "blocked")
    BY Zenon, <1>2 DEF Worker, SpuriousWake, Wait, Retire, TakeTask, FinishTask, GoRound, Break, Leave
  <2>4. dtor' # "done" /\ (dtor' = "none" <=> dtor = "none")
    BY <2>2, <2>3
  <2> QED
    BY Zenon, <2>3, <2>4 DEF TaskInv, DtorInv
<1>3. CASE Destroy \/ DestroyWoken \/ DestroySpurious
  <2>1. shutdown'
    BY Zenon, <1>3 DEF Destroy, DestroyWoken, DestroySpurious, TaskInv, DtorInv
  <2>2. dtor' # "none"
    BY Zenon, <1>0, <1>3, DestroyMoves
  <2>3. ASSUME dtor' = "done", NEW w \in Workers PROVE th'[w] \in {"none", "joined"}
    <3>1. current_threads = 0
      BY <1>3, <2>3 DEF Destroy, DestroyWoken, DestroySpurious, WaitOrReap
    <3>2. th[w] \in {"none", "dead", "joined"}
      BY Zenon, <1>0, <3>1, ZeroCounts DEF Current
    <3> DEFINE f == [v \in Workers |-> IF th[v] = "blocked" THEN "woken" ELSE th[v]]
    <3>3. th' = Reaped(th) \/ th' = Reaped(f)
      BY <1>3, <2>3, <3>1 DEF Destroy, DestroyWoken, DestroySpurious, WaitOrReap
    <3> QED
      BY <3>2, <3>3 DEF Reaped
  <2> QED
    BY Zenon, <2>1, <2>2, <2>3 DEF DtorInv
<1>4. CASE UNCHANGED vars
  BY <1>4 DEF vars, TaskInv, DtorInv
<1> QED
  BY Zenon, <1>1, <1>2, <1>3, <1>4 DEF Next

LEMMA InitTask ==
  ASSUME CoreThreads >= 1, Init
  PROVE  TaskInv
<1>1. PICK C \in SUBSET Workers :
        /\ Cardinality(C) = CoreThreads
        /\ th = [w \in Workers |-> IF w \in C THEN "lock" ELSE "none"]
  BY Zenon DEF Init
<1>2. C # {}
  BY <1>1, FS_EmptySet
<1>3. LiveInv
  BY Zenon, <1>1, <1>2 DEF LiveInv
<1>4. NoStrandedTask /\ DtorInv
  BY DEF Init, NoStrandedTask, DtorInv
<1>5. Elems(callbacks) = {}
  <2>1. callbacks = <<>> /\ 1..Len(callbacks) = {}
    BY DEF Init
  <2> QED
    BY Zenon, <2>1 DEF Elems
<1>6. TasksInv
  BY Zenon, <1>1, <1>5 DEF TasksInv, Init
<1> QED
  BY Zenon, <1>3, <1>4, <1>6 DEF TaskInv

LEMMA TaskStep ==
  ASSUME CoreThreads >= 1, PoolCountInv, TaskInv, [Next]_vars
  PROVE  TaskInv'
<1>1. CASE UNCHANGED vars
  BY Zenon, <1>1 DEF vars, TaskInv, LiveInv, NoStrandedTask, TasksInv, DtorInv
<1>2. CASE Next
  <2>1. LiveInv' /\ NoStrandedTask'
    BY Zenon, <1>2, AddQueue, WorkerQueue, DestroyQueue DEF Next
  <2>2. TasksInv'
    BY Zenon, <1>2, AddTasks, WorkerTasks, DestroyTasks DEF Next
  <2> QED
    BY Zenon, <2>1, <2>2, DtorStep DEF TaskInv
<1> QED
  BY <1>1, <1>2

\* A pool with a resident worker never leaves a queued task without a worker on
\* its way to the queue, whatever the interleaving of add, retirement and shutdown.
THEOREM NoTaskStranded ==
  ASSUME CoreThreads >= 1
  PROVE  Spec => []NoStrandedTask
<1>1. TaskInv => NoStrandedTask
  BY DEF TaskInv
<1> QED
  BY <1>1, InitCount, InitTask, CountStep, TaskStep, PTL DEF Spec

\* When the destructor of such a pool returns, every added task has run to its end
\* and every thread has been joined.
THEOREM DestroyIsClean ==
  ASSUME CoreThreads >= 1
  PROVE  Spec => []DestroyedClean
<1>1. PoolCountInv /\ TaskInv => DestroyedClean
  <2> SUFFICES ASSUME PoolCountInv, TaskInv, dtor = "done" PROVE added = done /\ \A w \in Workers : th[w] \in {"none", "joined"}
    BY DEF DestroyedClean
  <2>1. \A w \in Workers : th[w] \in {"none", "joined"}
    BY Zenon DEF TaskInv, DtorInv
  <2>2. callbacks = <<>>
    BY Zenon, <2>1 DEF TaskInv, NoStrandedTask
  <2>3. Elems(callbacks) = {}
    <3>1. 1..Len(callbacks) = {}
      BY <2>2
    <3> QED
      BY Zenon, <3>1 DEF Elems
  <2>4. added = done
    BY Zenon, <2>1, <2>3 DEF TaskInv, TasksInv
  <2> QED
    BY <2>1, <2>4
<1> QED
  BY <1>1, InitCount, InitTask, CountStep, TaskStep, PTL DEF Spec
=============================================================================
