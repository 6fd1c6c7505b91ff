---------------------------- MODULE EventLoopPool ----------------------------
(***************************************************************************)
(* EventLoopPool and its EventLoopThreads                                  *)
(* (src/net/atp_event_loop_thread_pool.cpp).  One owner thread calls       *)
(* autoStart, autoStop, autoJoin and the destructor; while the pool runs,  *)
(* any thread may call getIOEventLoop.  Of each EventLoop only what the    *)
(* EventLoop module shows matters here: a stop that reaches a loop makes   *)
(* it leave dispatch, and a stop called before dispatch has stored the     *)
(* thread id runs on the owner's thread, where a loop that has meanwhile   *)
(* blocked misses it.                                                      *)
(***************************************************************************)
EXTENDS Integers, Sequences

CONSTANTS
  N,          \* threads_num_
  IntBits,    \* width of current_index_ (std::atomic<int>)
  SizeBits    \* width of size_t

ASSUME PoolAssumption ==
  /\ N \in Nat \ {0}
  /\ IntBits \in Nat \ {0} /\ SizeBits \in Nat
  /\ IntBits <= SizeBits /\ N <= 2^(IntBits - 1)

\* What the widths make of the two ranges, for provers that know no powers.
ASSUME WidthAssumption ==
  /\ 2^(IntBits - 1) \in Nat /\ 2^SizeBits \in Nat
  /\ 2^(IntBits - 1) + 2^(IntBits - 1) <= 2^SizeBits

VARIABLES
  state,          \* EventLoopPool::state_
  tstate,         \* per thread: EventLoopThread::state_
  at,             \* per thread: where its executer is
  exitreq,        \* per thread: its loop has a stop it will act on
  opc, i,         \* the owner: next step, thread it is working on
  current_index,  \* current_index_
  recent,         \* history: the loops handed out last, at most N
  early           \* history: stopped before every loop had stored its thread id

vars == <<state, tstate, at, exitreq, opc, i, current_index, recent, early>>

Ids       == 1..N
States    == {"NULL", "INIT", "RUNNING", "STOPPING", "STOPPED"}
Places    == {"none", "spawned", "running", "loop", "left", "finished"}
OwnerSteps == {"new", "spawn", "await", "run", "stop", "inline", "store", "check", "failed", "stopped",
               "join", "joined", "destroy", "destroyed", "terminated"}

Init ==
  /\ state = "NULL"
  /\ tstate = [t \in Ids |-> "NULL"]
  /\ at = [t \in Ids |-> "none"]
  /\ exitreq = [t \in Ids |-> FALSE]
  /\ opc = "new" /\ i = 1
  /\ current_index = -1
  /\ recent = <<>> /\ early = FALSE

-----------------------------------------------------------------------------
(* The owner: autoStart.                                                   *)

AutoStart ==
  /\ opc = "new"
  /\ state' = "INIT"
  /\ opc' = "spawn"
  /\ UNCHANGED <<tstate, at, exitreq, i, current_index, recent, early>>

Spawn ==
  /\ opc = "spawn"
  /\ tstate' = [tstate EXCEPT ![i] = "INIT"]
  /\ at' = [at EXCEPT ![i] = "spawned"]
  /\ opc' = "await"
  /\ UNCHANGED <<state, exitreq, i, current_index, recent, early>>

\* Mutation of AwaitRunning: autoStart does not wait for the thread.
AwaitRunning_NoWait ==
  /\ opc = "await"
  /\ IF i < N THEN opc' = "spawn" /\ i' = i + 1 /\ UNCHANGED state
              ELSE opc' = "run" /\ i' = 1 /\ state' = "RUNNING"
  /\ UNCHANGED <<tstate, at, exitreq, current_index, recent, early>>

\* The polling loop ends; the last thread completes autoStart.
AwaitRunning ==
  /\ opc = "await"
  /\ tstate[i] = "RUNNING"
  /\ IF i < N THEN opc' = "spawn" /\ i' = i + 1 /\ UNCHANGED state
              ELSE opc' = "run" /\ i' = 1 /\ state' = "RUNNING"
  /\ UNCHANGED <<tstate, at, exitreq, current_index, recent, early>>

-----------------------------------------------------------------------------
(* executer of thread t, with the part of dispatch it depends on.          *)

StoreRunning(t) ==
  /\ at[t] = "spawned"
  /\ tstate' = [tstate EXCEPT ![t] = "RUNNING"]
  /\ at' = [at EXCEPT ![t] = "running"]
  /\ UNCHANGED <<state, exitreq, opc, i, current_index, recent, early>>

\* dispatch stores its thread id and polls.
EnterLoop(t) ==
  /\ at[t] = "running"
  /\ at' = [at EXCEPT ![t] = "loop"]
  /\ UNCHANGED <<state, tstate, exitreq, opc, i, current_index, recent, early>>

LeaveLoop(t) ==
  /\ at[t] = "loop" /\ exitreq[t]
  /\ at' = [at EXCEPT ![t] = "left"]
  /\ UNCHANGED <<state, tstate, exitreq, opc, i, current_index, recent, early>>

StoreStopped(t) ==
  /\ at[t] = "left"
  /\ tstate' = [tstate EXCEPT ![t] = "STOPPED"]
  /\ at' = [at EXCEPT ![t] = "finished"]
  /\ UNCHANGED <<state, exitreq, opc, i, current_index, recent, early>>

-----------------------------------------------------------------------------
(* getIOEventLoop.                                                         *)

\* fetch_add on an int wraps; the modulo is taken of the value as a size_t.
Succ(c)  == IF c = 2^(IntBits - 1) - 1 THEN -(2^(IntBits - 1)) ELSE c + 1

\* Mutation of Index: the modulo of a signed value, truncated towards zero.
Index_Signed(c) == IF c < 0 THEN -((-c) % N) ELSE c % N

Index(c) == (IF c < 0 THEN c + 2^SizeBits ELSE c) % N

Last(s) == IF Len(s) > N THEN Tail(s) ELSE s

GetIOEventLoop ==
  /\ state = "RUNNING"
  /\ current_index' = Succ(current_index)
  /\ recent' = Last(Append(recent, Index(current_index)))
  /\ UNCHANGED <<state, tstate, at, exitreq, opc, i, early>>

-----------------------------------------------------------------------------
(* The owner: autoStop, autoJoin and the destructors.                      *)

AutoStop ==
  /\ opc = "run"
  /\ early' = (\E t \in Ids : at[t] # "loop")
  /\ state' = "STOPPING"
  /\ opc' = "stop"
  /\ UNCHANGED <<tstate, at, exitreq, i, current_index, recent>>

\* Mutation of StopLoop: EventLoopThread::stop only changes its state.
StopLoop_Missing ==
  /\ opc = "stop"
  /\ opc' = "store"
  /\ UNCHANGED <<state, tstate, at, exitreq, i, current_index, recent, early>>

\* event_loop_->stop(): queued for a loop that has its own thread id.
StopLoop ==
  /\ opc = "stop"
  /\ IF at[i] \in {"spawned", "running"}
     THEN opc' = "inline" /\ UNCHANGED exitreq
     ELSE opc' = "store" /\ exitreq' = [exitreq EXCEPT ![i] = TRUE]
  /\ UNCHANGED <<state, tstate, at, i, current_index, recent, early>>

\* Run by the owner itself: seen by a loop that has not polled yet.
StopInline ==
  /\ opc = "inline"
  /\ \E seen \in IF at[i] \in {"spawned", "running"} THEN {TRUE} ELSE BOOLEAN :
       exitreq' = [exitreq EXCEPT ![i] = seen]
  /\ opc' = "store"
  /\ UNCHANGED <<state, tstate, at, i, current_index, recent, early>>

\* EventLoopThread::stop stores STOPPED itself.
ThreadStopped ==
  /\ opc = "store"
  /\ tstate' = [tstate EXCEPT ![i] = "STOPPED"]
  /\ IF i < N THEN opc' = "stop" /\ i' = i + 1
              ELSE opc' = "check" /\ i' = 1
  /\ UNCHANGED <<state, at, exitreq, current_index, recent, early>>

\* while (!stop_fn()): sleep and look again, up to fifteen times.
StopCheck ==
  /\ opc = "check"
  /\ IF \A t \in Ids : tstate[t] = "STOPPED"
     THEN state' = "STOPPED" /\ opc' = "stopped"
     ELSE opc' \in {"check", "failed"} /\ UNCHANGED state
  /\ UNCHANGED <<tstate, at, exitreq, i, current_index, recent, early>>

AutoJoin ==
  /\ opc = "stopped"
  /\ opc' = "join"
  /\ UNCHANGED <<state, tstate, at, exitreq, i, current_index, recent, early>>

\* thread_->join() of thread i, then of the next one.
Join(last) ==
  /\ at[i] = "finished"
  /\ IF i < N THEN i' = i + 1 /\ UNCHANGED opc
              ELSE i' = 1 /\ opc' = last

JoinThread ==
  /\ opc = "join"
  /\ Join("joined")
  /\ UNCHANGED <<state, tstate, at, exitreq, current_index, recent, early>>

\* ~EventLoopPool: of a running pool, or after autoStop, with or without autoJoin.
Destroy ==
  /\ opc \in {"run", "stopped", "joined"}
  /\ state' = "STOPPED"
  /\ opc' = "destroy"
  /\ UNCHANGED <<tstate, at, exitreq, i, current_index, recent, early>>

\* ~EventLoopThread joins a STOPPED thread and stores NULL; a thread that is not joined
\* is destroyed with it, which terminates the program.
DestroyThread ==
  /\ opc = "destroy"
  /\ \/ /\ tstate[i] = "STOPPED"
        /\ Join("destroyed")
        /\ tstate' = [tstate EXCEPT ![i] = "NULL"]
     \/ /\ tstate[i] # "STOPPED"
        /\ opc' = "terminated"
        /\ UNCHANGED <<tstate, i>>
  /\ UNCHANGED <<state, at, exitreq, current_index, recent, early>>

-----------------------------------------------------------------------------
Owner == \/ AutoStart \/ Spawn \/ AwaitRunning \/ StopLoop \/ StopInline \/ ThreadStopped
         \/ StopCheck \/ JoinThread \/ DestroyThread

Thread(t) ==
  opc # "terminated" /\ (StoreRunning(t) \/ EnterLoop(t) \/ LeaveLoop(t) \/ StoreStopped(t))

Next == Owner \/ AutoStop \/ AutoJoin \/ Destroy \/ GetIOEventLoop \/ \E t \in Ids : Thread(t)

Spec == Init /\ [][Next]_vars

\* Every thread keeps running; when the owner stops the pool is its own affair.
Fairness == WF_vars(Owner) /\ \A t \in Ids : WF_vars(Thread(t))

FairSpec == Spec /\ Fairness

-----------------------------------------------------------------------------
TypeOK ==
  /\ state \in States
  /\ tstate \in [Ids -> States]
  /\ at \in [Ids -> Places]
  /\ exitreq \in [Ids -> BOOLEAN]
  /\ opc \in OwnerSteps /\ i \in Ids
  /\ current_index \in -(2^(IntBits - 1))..(2^(IntBits - 1) - 1)
  /\ recent \in Seq(0..(N - 1)) /\ Len(recent) <= N

\* getIOEventLoop deals the loops out in turn, also while the counter is negative:
\* any N picks in a row are all different, except across the two places where the
\* size_t value of current_index_ jumps (-1 to 0, and the overflow); even there no
\* loop is picked more than twice in N calls.
RoundRobin ==
  LET Times(l) == {k \in 1..Len(recent) : recent[k] = l}
      smooth   == \/ current_index >= Len(recent)
                  \/ current_index \in (Len(recent) - 2^(IntBits - 1))..0
  IN  /\ smooth => \A j, k \in 1..Len(recent) : recent[j] = recent[k] => j = k
      /\ \A l \in 0..(N - 1) : \A j, k, m \in Times(l) : j = k \/ k = m \/ j = m

\* getIOEventLoop deals out the loops in turn through every overflow of
\* current_index_, which stays an index.
PoolIndex == TypeOK /\ RoundRobin

\* The STOPPED that EventLoopThread::stop stores is never overwritten by the
\* thread's own RUNNING, so autoStop does not time out and autoJoin's assertion
\* (STATE_STOPPED) holds, however early the owner stops.
StopSucceeds ==
  /\ opc # "failed"
  /\ opc \in {"stopped", "join", "joined", "destroy", "destroyed"} => state = "STOPPED"

\* After autoJoin or the destructor no thread is left running.
NoThreadLeft == opc \in {"joined", "destroyed"} => \A t \in Ids : at[t] = "finished"

\* The destructor destroys a std::thread that was not joined, and so terminates the
\* program, only if no thread was told to stop: autoStop had not been called.
TerminatesUnstopped == opc = "terminated" => \A t \in Ids : tstate[t] = "RUNNING" /\ ~exitreq[t]

\* autoStop does not time out, no thread outlives autoJoin or the destructor, and the
\* destructor terminates the program only if the pool was not stopped.
PoolStops == StopSucceeds /\ NoThreadLeft /\ TerminatesUnstopped

\* "If the thread not change state to STATE_STOPPED after 15s, then thread pool stop
\* failed" (line 150): when autoStop returns true the threads have stopped.
StopMeansStopped == opc = "stopped" => \A t \in Ids : at[t] \in {"left", "finished"}

\* autoJoin and the destructor return, unless the pool was stopped before every loop
\* had begun to poll (then a stop may run on the owner's thread and be missed).
JoinReturns == opc \in {"join", "destroy"} ~> opc \in {"joined", "destroyed", "terminated"} \/ early
=============================================================================
