----------------------------- MODULE TimingWheel -----------------------------
(***************************************************************************)
(* The timing wheel (src/net/atp_timing_wheel.hpp, atp_ring_buffer.hpp) as *)
(* Server uses it: a ring of buckets of shared Entry pointers, a new       *)
(* bucket on every trigger of a persistent timer of the control loop, and  *)
(* an insert into the last bucket, by the connection's loop, for every new *)
(* connection and every message.  An Entry closes its connection when its  *)
(* last reference goes.  The reader of messages follows                    *)
(* examples/atp_tcp_benchmark.cpp, which keeps a weak reference.           *)
(***************************************************************************)
EXTENDS Integers, Sequences, FiniteSets

CONSTANTS
  WheelConns,
  Slots,      \* CONN_READ_WRITE_EXPIRES, the size of the ring
  MaxMsg      \* bound: messages of a connection

\* The ring has a bucket (CONN_READ_WRITE_EXPIRES is 10).
ASSUME SlotsAssumption == Slots \in Nat \ {0}

VARIABLES
  locked, \* server_mode_ is 0: the wheel is used under lock_
  single, \* thread_num_ is 0: the connections live on the control loop
  wheel,  \* cycle_buckets_: a sequence of sets of entries, an entry is its connection
  wheelConn,   \* "none", "open", "closing" (close is queued) or "closed"
  wheelIo,     \* the handler of a connection: "idle", "insert" or "inserting"
  alive,  \* the connections whose Entry exists
  wheelCtl,    \* the control loop: "idle" or "pushing"
  lock,   \* lock_ is held
  age,    \* history: buckets pushed since the last insert of the entry
  msgs,   \* messages received
  crash   \* back() of an empty list was used

whl == <<locked, single, wheel, wheelConn, wheelIo, alive, wheelCtl, lock, age, msgs, crash>>

WheelInit ==
  /\ locked \in BOOLEAN /\ single \in BOOLEAN
  /\ wheel = <<>> /\ crash = FALSE
  /\ wheelConn = [c \in WheelConns |-> "none"] /\ wheelIo = [c \in WheelConns |-> "idle"]
  /\ alive = {} /\ wheelCtl = "idle" /\ lock = FALSE
  /\ age = [c \in WheelConns |-> 0] /\ msgs = [c \in WheelConns |-> 0]

\* RingBuffer::push_back: the oldest element makes room.
PushBack_OneMore(ring, elem) ==
  IF Len(ring) = Slots + 1 THEN Append(Tail(ring), elem) ELSE Append(ring, elem)
PushBack(ring, elem) ==
  IF Len(ring) = Slots THEN Append(Tail(ring), elem) ELSE Append(ring, elem)

Back(ring) == ring[Len(ring)]
In(ring) == UNION {ring[i] : i \in DOMAIN ring}
Holders == {c \in WheelConns : wheelIo[c] # "idle"}

\* On one thread handlers do not interleave.
Turn(c) == single => wheelCtl = "idle" /\ Holders \subseteq {c}

\* std::lock_guard, in mode 0 only.
Acquire_Skip == UNCHANGED lock
Acquire == IF locked THEN ~lock /\ lock' = TRUE ELSE UNCHANGED lock
Release == lock' = FALSE

\* A connection is attached: conn_fn_ makes its Entry.
OnConnection(c) ==
  /\ wheelConn[c] = "none" /\ Turn(c)
  /\ wheelConn' = [wheelConn EXCEPT ![c] = "open"]
  /\ alive' = alive \cup {c} /\ wheelIo' = [wheelIo EXCEPT ![c] = "insert"]
  /\ UNCHANGED <<wheel, wheelCtl, lock, age, msgs, crash>>

\* message_fn_ inserts the Entry again, if it can still be locked.
Lockable(c) == c \in alive
OnMessage(c) ==
  /\ wheelConn[c] \in {"open", "closing"} /\ wheelIo[c] = "idle" /\ Turn(c)
  /\ msgs[c] < MaxMsg
  /\ msgs' = [msgs EXCEPT ![c] = @ + 1]
  /\ wheelIo' = IF Lockable(c) THEN [wheelIo EXCEPT ![c] = "insert"] ELSE wheelIo
  /\ alive' = IF Lockable(c) THEN alive \cup {c} ELSE alive
  /\ UNCHANGED <<wheel, wheelConn, wheelCtl, lock, age, crash>>

\* timingWheelInsert, in two steps: the body runs between them.
BeginInsert(c) ==
  /\ wheelIo[c] = "insert" /\ Acquire /\ (single => wheelCtl = "idle")
  /\ wheelIo' = [wheelIo EXCEPT ![c] = "inserting"]
  /\ UNCHANGED <<wheel, wheelConn, alive, wheelCtl, age, msgs, crash>>

EndInsert(c) ==
  /\ wheelIo[c] = "inserting" /\ Release
  /\ wheelIo' = [wheelIo EXCEPT ![c] = "idle"]
  /\ IF wheel = <<>> THEN crash' = TRUE /\ UNCHANGED <<wheel, age>>
     ELSE /\ wheel' = [wheel EXCEPT ![Len(wheel)] = @ \cup {c}]
          /\ age' = [age EXCEPT ![c] = 0]
          /\ UNCHANGED crash
  /\ UNCHANGED <<wheelConn, alive, wheelCtl, msgs>>

\* The timer of Server::start: push_bucket, and ~Entry for what fell out.
BeginTick ==
  /\ wheelCtl = "idle" /\ Acquire /\ (single => Holders = {})
  /\ wheelCtl' = "pushing"
  /\ UNCHANGED <<wheel, wheelConn, wheelIo, alive, age, msgs, crash>>

\* ~Entry: close on a connection that still exists, which its loop runs later.
Expire(dead) == [c \in WheelConns |-> IF c \in dead /\ wheelConn[c] = "open" THEN "closing" ELSE wheelConn[c]]

\* The entries that still have a reference once the ring is new.
Referenced_WheelOnly(ring) == In(ring)
Referenced(ring) == In(ring) \cup Holders

EndTick ==
  /\ wheelCtl = "pushing" /\ Release
  /\ wheelCtl' = "idle"
  /\ wheel' = PushBack(wheel, {})
  /\ alive' = alive \cap Referenced(wheel')
  /\ wheelConn' = Expire(alive \ alive')
  /\ age' = [c \in WheelConns |-> IF c \in alive /\ age[c] < Slots THEN age[c] + 1 ELSE age[c]]
  /\ UNCHANGED <<wheelIo, msgs, crash>>

RunClose(c) ==
  /\ wheelConn[c] = "closing" /\ wheelIo[c] = "idle" /\ Turn(c)
  /\ wheelConn' = [wheelConn EXCEPT ![c] = "closed"]
  /\ UNCHANGED <<wheel, wheelIo, alive, wheelCtl, lock, age, msgs, crash>>

\* The peer closes first.
PeerClose(c) ==
  /\ wheelConn[c] = "open" /\ wheelIo[c] = "idle" /\ Turn(c)
  /\ wheelConn' = [wheelConn EXCEPT ![c] = "closed"]
  /\ UNCHANGED <<wheel, wheelIo, alive, wheelCtl, lock, age, msgs, crash>>

WheelNext ==
  /\ ~crash /\ UNCHANGED <<locked, single>>
  /\ \/ \E c \in WheelConns : \/ OnConnection(c) \/ OnMessage(c) \/ BeginInsert(c) \/ EndInsert(c)
                         \/ RunClose(c) \/ PeerClose(c)
     \/ BeginTick \/ EndTick

WheelSpec == WheelInit /\ [][WheelNext]_whl

\* The timer is persistent, handlers finish, and between ticks loops reach their
\* handlers and queued closes: strong fairness, because the timer, which shares the
\* mutex or the thread with them, comes again and again.
WheelWorks(A) == ~crash /\ UNCHANGED <<locked, single>> /\ A
BeginInsertOrClose == \E c \in WheelConns : BeginInsert(c) \/ RunClose(c)
WheelFairness ==
  /\ WF_whl(WheelWorks(BeginTick)) /\ WF_whl(WheelWorks(EndTick))
  /\ SF_whl(WheelWorks(BeginInsertOrClose))
  /\ \A c \in WheelConns : WF_whl(WheelWorks(EndInsert(c)))
WheelFairSpec == WheelSpec /\ WheelFairness

-----------------------------------------------------------------------------
(* Properties.                                                             *)

\* Two threads are inside the wheel at once only in mode 1 with IO threads, where it
\* is used without "The timing wheel lock." (tcp_server.h:136).
Race ==
  \/ wheelCtl = "pushing" /\ \E c \in WheelConns : wheelIo[c] = "inserting"
  \/ \E c, d \in WheelConns : c # d /\ wheelIo[c] = "inserting" /\ wheelIo[d] = "inserting"
RaceNeedsMode1 == Race => ~locked /\ ~single

\* The wheel expires an entry after exactly Slots buckets without an insert: never
\* sooner, whatever messages and ticks interleave, and never later unless a message
\* handler holds the entry and is about to insert it.
ExpiresOnTime ==
  \A c \in WheelConns :
    /\ wheelConn[c] = "closing" => c \notin alive /\ age[c] = Slots
    /\ ~crash /\ c \in alive /\ wheelIo[c] = "idle" => c \in In(wheel) /\ age[c] < Slots

\* Every connection that stops receiving messages is closed in the end.
IdleIsClosed == \A c \in WheelConns : wheelConn[c] = "open" ~> (wheelConn[c] = "closed" \/ crash)

\* A message that found its entry keeps its connection open: once a handler holds
\* the entry only the peer closes the connection, until Slots further ticks.
HeldIsNotClosed ==
  [][\A c \in WheelConns : wheelIo[c] # "idle" /\ wheelConn[c] = "open" => wheelConn'[c] = "open"]_whl

\* An insert finds no bucket, and uses back() of an empty list, only for a connection
\* accepted before the first tick; from then on the ring is never empty again.
EmptyNeedsFirst == crash => wheel = <<>> /\ \A c \in WheelConns : age[c] = 0 /\ wheelConn[c] # "closing"

\* Threads meet in the wheel only in mode 1 with IO threads, and it has no bucket only
\* for an insert before the first tick.
WheelFaults == RaceNeedsMode1 /\ EmptyNeedsFirst

\* Every connection without messages is closed in the end, and none whose message is
\* being handled.
WheelCloses == HeldIsNotClosed /\ IdleIsClosed
=============================================================================
