------------------------------ MODULE EventLoop ------------------------------
(***************************************************************************)
(* One EventLoop (src/net/atp_event_loop.cpp), its task queue and its wake-up *)
(* descriptor, used by the thread that dispatches it (Loop) and by Others. *)
(* A thread that is not mid-call is at an application point: "idle" for    *)
(* the Others; "init" (before dispatch), "pre" and "io" (in the handler of *)
(* another event) for Loop.  From there it may call sendToQueue or stop.  Every label of pc   *)
(* is one access of shared state, so all interleavings of those accesses   *)
(* are behaviours.  libevent is external: the base polls, runs what is     *)
(* active and leaves once a loopexit callback has run.                     *)
(***************************************************************************)
EXTENDS Integers, Sequences

CONSTANTS
  Loop,       \* the thread that calls dispatch
  Others,     \* the other threads that use the loop
  Creator,    \* the thread that constructed the EventLoop
  Tasks,      \* the tasks passed to sendToQueue, each at most once
  Stop,       \* the queue item bound to stopHandle
  NoItem,     \* the argument of a thread that is not in a call
  MaxStops    \* bound on the calls of stop

ASSUME ConstantsAssumption ==
  /\ Loop \notin Others
  /\ Creator \in Others \cup {Loop}
  /\ Stop \notin Tasks
  /\ NoItem \notin Tasks \cup {Stop}
  /\ MaxStops \in Nat

VARIABLES
  thread_id,      \* thread_id_, a plain std::thread::id
  state,          \* state_
  pending,        \* *pending_tasks_, guarded by mutex_ except in stopHandle
  pending_size,   \* pending_tasks_size_
  notified,       \* notified_
  eventfd,        \* the event_watcher_ descriptor is readable
  loopexit,       \* a loopexit callback is active in the event base
  pc, arg, ret,   \* per thread: next access, argument, where the call returns
  stack,          \* per thread: the tmp_pending_tasks of nested doPendingTasks
  unsent, stops,  \* what the application may still do
  pushed,         \* history: items in the order they entered pending
  executed,       \* history: tasks run, with the thread that ran them
  discarded,      \* history: items dropped by stopHandle
  owed            \* history: tasks pushed before stopHandle saw an empty queue

vars == <<thread_id, state, pending, pending_size, notified, eventfd, loopexit,
          pc, arg, ret, stack, unsent, stops, pushed, executed, discarded, owed>>

tasks == <<pending, pending_size>>
wake  == <<notified, eventfd, loopexit>>
call  == <<arg, ret, stack>>
hist  == <<unsent, stops, pushed, executed, discarded, owed>>

Threads == Others \cup {Loop}
Items   == Tasks \cup {Stop}
Executions == [task : Tasks, by : Threads]
States  == {"INIT", "RUNNING", "STOPPING", "STOPPED"}

AppPoints   == {"idle", "init", "pre", "io"}
SendLabels  == {"check", "inline", "push", "count", "store", "notify"}
DrainLabels == {"swap", "batch"}
StopLabels  == {"stop_check", "loopexit", "stop_clear", "stop_done"}
LoopLabels  == {"setid", "poll", "blocked", "read", "exited"}
Labels == AppPoints \cup SendLabels \cup DrainLabels \cup StopLabels \cup LoopLabels

Elems(s) == {s[i] : i \in 1..Len(s)}
Executed == {e.task : e \in Elems(executed)}

-----------------------------------------------------------------------------
(* Control helpers.                                                        *)

Goto(t, l) == pc' = [pc EXCEPT ![t] = l]

\* The call made at an application point (or by the eventfd callback) ends.
Return(t) ==
  /\ pc'  = [pc EXCEPT ![t] = ret[t]]
  /\ arg' = [arg EXCEPT ![t] = NoItem]

Depth(t) == Len(stack[t])
Top(t)   == stack[t][Depth(t)]
Pop(t)   == stack' = [stack EXCEPT ![t] = SubSeq(@, 1, Len(@) - 1)]

\* The running item of the innermost batch is finished: -- pending_tasks_size_.
FinishItem(t) ==
  /\ stack' = [stack EXCEPT ![t][Depth(t)] = Tail(@)]
  /\ pending_size' = pending_size - 1

Run(t, k) == executed' = Append(executed, [task |-> k, by |-> t])

-----------------------------------------------------------------------------
Init ==
  /\ thread_id = Creator
  /\ state = "INIT"
  /\ pending = <<>> /\ pending_size = 0
  /\ notified = FALSE /\ eventfd = FALSE /\ loopexit = FALSE
  /\ pc  = [t \in Threads |-> IF t = Loop THEN "init" ELSE "idle"]
  /\ arg = [t \in Threads |-> NoItem]
  /\ ret = [t \in Threads |-> IF t = Loop THEN "init" ELSE "idle"]
  /\ stack = [t \in Threads |-> <<>>]
  /\ unsent = Tasks /\ stops = 0
  /\ pushed = <<>> /\ executed = <<>> /\ discarded = <<>> /\ owed = {}

-----------------------------------------------------------------------------
(* sendToQueue and stop, called by any thread at an application point.     *)

Call(t, item) ==
  /\ pc[t] \in AppPoints
  /\ ret' = [ret EXCEPT ![t] = pc[t]]
  /\ arg' = [arg EXCEPT ![t] = item]
  /\ Goto(t, "check")

SendToQueue(t, k) ==
  /\ k \in unsent
  /\ unsent' = unsent \ {k}
  /\ Call(t, k)
  /\ UNCHANGED <<thread_id, state, tasks, wake, stack, stops, pushed, executed, discarded, owed>>

CallStop(t) ==
  /\ stops < MaxStops
  /\ stops' = stops + 1
  /\ state' = "STOPPING"
  /\ Call(t, Stop)
  /\ UNCHANGED <<thread_id, tasks, wake, stack, unsent, pushed, executed, discarded, owed>>

\* Mutation of ThreadSafety: the caller's thread is not compared.
ThreadSafety_AnyThread(t) ==
  /\ pc[t] = "check"
  /\ Goto(t, "inline")
  /\ UNCHANGED <<thread_id, state, tasks, wake, call, hist>>

ThreadSafety(t) ==
  /\ pc[t] = "check"
  /\ Goto(t, IF thread_id = t THEN "inline" ELSE "push")
  /\ UNCHANGED <<thread_id, state, tasks, wake, call, hist>>

RunInline(t) ==
  /\ pc[t] = "inline"
  /\ \/ /\ arg[t] = Stop
        /\ Goto(t, "stop_check")
        /\ UNCHANGED <<arg, executed>>
     \/ /\ arg[t] # Stop
        /\ Run(t, arg[t])
        /\ Return(t)
  /\ UNCHANGED <<thread_id, state, tasks, wake, ret, stack, unsent, stops, pushed, discarded, owed>>

\* Mutation of Push: the task goes to the front of the vector.
Push_Front(t) ==
  /\ pc[t] = "push"
  /\ pending' = <<arg[t]>> \o pending
  /\ pushed' = Append(pushed, arg[t])
  /\ Goto(t, "count")
  /\ UNCHANGED <<thread_id, state, pending_size, wake, call, unsent, stops,
                 executed, discarded, owed>>

Push(t) ==
  /\ pc[t] = "push"
  /\ pending' = Append(pending, arg[t])
  /\ pushed' = Append(pushed, arg[t])
  /\ Goto(t, "count")
  /\ UNCHANGED <<thread_id, state, pending_size, wake, call, unsent, stops, executed, discarded, owed>>

CountAndLoad(t) ==
  /\ pc[t] = "count"
  /\ pending_size' = pending_size + 1
  /\ \/ notified /\ Return(t)
     \/ ~notified /\ Goto(t, "store") /\ UNCHANGED arg
  /\ UNCHANGED <<thread_id, state, pending, wake, ret, stack, hist>>

StoreNotified(t) ==
  /\ pc[t] = "store"
  /\ notified' = TRUE
  /\ Goto(t, "notify")
  /\ UNCHANGED <<thread_id, state, tasks, eventfd, loopexit, call, hist>>

\* Mutation of EventNotify: the write fails and nobody retries it.
EventNotify_Lost(t) ==
  /\ pc[t] = "notify"
  /\ Return(t)
  /\ UNCHANGED <<thread_id, state, tasks, wake, ret, stack, hist>>

EventNotify(t) ==
  /\ pc[t] = "notify"
  /\ eventfd' = TRUE
  /\ Return(t)
  /\ UNCHANGED <<thread_id, state, tasks, notified, loopexit, ret, stack, hist>>

-----------------------------------------------------------------------------
(* doPendingTasks, entered from the eventfd callback or from stopHandle.   *)

\* Mutation of Swap: notified_ is not reset.
Swap_KeepsNotified(t) ==
  /\ pc[t] = "swap"
  /\ stack' = [stack EXCEPT ![t] = Append(@, pending)]
  /\ pending' = <<>>
  /\ Goto(t, "batch")
  /\ UNCHANGED <<thread_id, state, pending_size, wake, arg, ret, hist>>

\* Mutation of Swap: the vector is copied, not swapped.
Swap_Copies(t) ==
  /\ pc[t] = "swap"
  /\ notified' = FALSE
  /\ stack' = [stack EXCEPT ![t] = Append(@, pending)]
  /\ Goto(t, "batch")
  /\ UNCHANGED <<thread_id, state, tasks, eventfd, loopexit, arg, ret, hist>>

Swap(t) ==
  /\ pc[t] = "swap"
  /\ notified' = FALSE
  /\ stack' = [stack EXCEPT ![t] = Append(@, pending)]
  /\ pending' = <<>>
  /\ Goto(t, "batch")
  /\ UNCHANGED <<thread_id, state, pending_size, eventfd, loopexit, arg, ret, hist>>

RunTask(t) ==
  /\ pc[t] = "batch"
  /\ Top(t) # <<>> /\ Head(Top(t)) # Stop
  /\ Run(t, Head(Top(t)))
  /\ FinishItem(t)
  /\ UNCHANGED <<thread_id, state, pending, wake, pc, arg, ret, unsent, stops, pushed, discarded, owed>>

\* The item stays at the head of its batch while stopHandle runs.
RunStop(t) ==
  /\ pc[t] = "batch"
  /\ Top(t) # <<>> /\ Head(Top(t)) = Stop
  /\ Goto(t, "stop_check")
  /\ UNCHANGED <<thread_id, state, tasks, wake, call, hist>>

\* The batch is done: back to the eventfd callback, or to stopHandle's loop
\* when stopHandle called doPendingTasks (nested, or inline with arg = Stop).
BatchDone(t) ==
  /\ pc[t] = "batch"
  /\ Top(t) = <<>>
  /\ Pop(t)
  /\ \/ Depth(t) = 1 /\ arg[t] = NoItem /\ Return(t)
     \/ ~(Depth(t) = 1 /\ arg[t] = NoItem) /\ Goto(t, "stop_check") /\ UNCHANGED arg
  /\ UNCHANGED <<thread_id, state, tasks, wake, ret, hist>>

-----------------------------------------------------------------------------
(* stopHandle: its accesses of pending take no lock.                       *)

\* Mutation of StopCheck: stopHandle does not drain the queue.
StopCheck_NoDrain(t) ==
  /\ pc[t] = "stop_check"
  /\ Goto(t, "loopexit")
  /\ owed' = Elems(pushed) \ (Elems(discarded) \cup {Stop})
  /\ UNCHANGED <<thread_id, state, tasks, wake, call, unsent, stops, pushed,
                 executed, discarded>>

StopCheck(t) ==
  /\ pc[t] = "stop_check"
  /\ \/ /\ pending # <<>>
        /\ Goto(t, "swap")
        /\ UNCHANGED owed
     \/ /\ pending = <<>>
        /\ Goto(t, "loopexit")
        /\ owed' = Elems(pushed) \ (Elems(discarded) \cup {Stop})
  /\ UNCHANGED <<thread_id, state, tasks, wake, call, unsent, stops, pushed, executed, discarded>>

\* Mutation of LoopExit: the loopexit call is forgotten.
LoopExit_Missing(t) ==
  /\ pc[t] = "loopexit"
  /\ Goto(t, "stop_clear")
  /\ UNCHANGED <<thread_id, state, tasks, wake, call, hist>>

LoopExit(t) ==
  /\ pc[t] = "loopexit"
  /\ loopexit' = TRUE
  /\ Goto(t, "stop_clear")
  /\ UNCHANGED <<thread_id, state, tasks, notified, eventfd, call, hist>>

StopClear(t) ==
  /\ pc[t] = "stop_clear"
  /\ discarded' = discarded \o pending
  /\ pending' = <<>>
  /\ Goto(t, "stop_done")
  /\ UNCHANGED <<thread_id, state, pending_size, wake, call, unsent, stops, pushed, executed, owed>>

StopDone(t) ==
  /\ pc[t] = "stop_done"
  /\ state' = "STOPPED"
  /\ \/ Depth(t) = 0 /\ Return(t) /\ UNCHANGED <<stack, pending_size>>
     \/ Depth(t) > 0 /\ FinishItem(t) /\ Goto(t, "batch") /\ UNCHANGED arg
  /\ UNCHANGED <<thread_id, pending, wake, ret, hist>>

-----------------------------------------------------------------------------
(* dispatch and the event base.                                            *)

Dispatch ==
  /\ pc[Loop] = "init"
  /\ state' = "RUNNING"
  /\ Goto(Loop, "setid")
  /\ UNCHANGED <<thread_id, tasks, wake, call, hist>>

SetThreadId ==
  /\ pc[Loop] = "setid"
  /\ thread_id' = Loop
  /\ Goto(Loop, "poll")
  /\ UNCHANGED <<state, tasks, wake, call, hist>>

\* The callbacks of one pass: those before the eventfd callback ("pre"), that
\* callback if the descriptor was ready, those after it ("io").
FirstOfPass == IF eventfd THEN {"pre", "read"} ELSE {"io"}

\* With an active loopexit callback the poll does not block; otherwise
\* epoll_wait sleeps.
Poll ==
  /\ pc[Loop] = "poll"
  /\ \E l \in IF loopexit THEN FirstOfPass ELSE {"blocked"} : Goto(Loop, l)
  /\ UNCHANGED <<thread_id, state, tasks, wake, call, hist>>

\* Only a ready descriptor ends epoll_wait; an activated callback does not.
Wake ==
  /\ pc[Loop] = "blocked"
  /\ eventfd
  /\ \E l \in FirstOfPass : Goto(Loop, l)
  /\ UNCHANGED <<thread_id, state, tasks, wake, call, hist>>

\* A channel or a timer of the loop is ready.
IoEvent ==
  /\ pc[Loop] = "blocked"
  /\ ~eventfd
  /\ Goto(Loop, "io")
  /\ UNCHANGED <<thread_id, state, tasks, wake, call, hist>>

PreDone ==
  /\ pc[Loop] = "pre"
  /\ Goto(Loop, "read")
  /\ UNCHANGED <<thread_id, state, tasks, wake, call, hist>>

EventfdNotifyHandle ==
  /\ pc[Loop] = "read"
  /\ eventfd' = FALSE
  /\ ret' = [ret EXCEPT ![Loop] = "io"]
  /\ Goto(Loop, "swap")
  /\ UNCHANGED <<thread_id, state, tasks, notified, loopexit, arg, stack, hist>>

\* The active callbacks of this pass, loopexit included, have run.
EndPass ==
  /\ pc[Loop] = "io"
  /\ Goto(Loop, IF loopexit THEN "exited" ELSE "poll")
  /\ UNCHANGED <<thread_id, state, tasks, wake, call, hist>>

-----------------------------------------------------------------------------
InCall(t) ==
  \/ ThreadSafety(t) \/ RunInline(t) \/ Push(t) \/ CountAndLoad(t)
  \/ StoreNotified(t) \/ EventNotify(t)
  \/ Swap(t) \/ RunTask(t) \/ RunStop(t) \/ BatchDone(t)
  \/ StopCheck(t) \/ LoopExit(t) \/ StopClear(t) \/ StopDone(t)

Base == Dispatch \/ SetThreadId \/ Poll \/ Wake \/ PreDone \/ EventfdNotifyHandle \/ EndPass

Next ==
  \/ \E t \in Threads : InCall(t) \/ CallStop(t) \/ \E k \in Tasks : SendToQueue(t, k)
  \/ Base
  \/ IoEvent

Spec == Init /\ [][Next]_vars

\* Threads inside the library keep running and the base keeps polling; whether
\* the application calls anything, and whether a descriptor gets ready, is open.
Fairness == (\A t \in Threads : WF_vars(InCall(t))) /\ WF_vars(Base)
FairSpec == Spec /\ Fairness

-----------------------------------------------------------------------------
(* Properties.                                                             *)

TypeOK ==
  /\ thread_id \in Threads
  /\ state \in States
  /\ pending \in Seq(Items)
  /\ pending_size \in Int
  /\ notified \in BOOLEAN /\ eventfd \in BOOLEAN /\ loopexit \in BOOLEAN
  /\ pc \in [Threads -> Labels]
  /\ arg \in [Threads -> Items \cup {NoItem}]
  /\ ret \in [Threads -> AppPoints]
  /\ stack \in [Threads -> Seq(Seq(Items))]
  /\ unsent \in SUBSET Tasks
  /\ stops \in 0..MaxStops
  /\ pushed \in Seq(Items)
  /\ executed \in Seq(Executions)
  /\ discarded \in Seq(Items)
  /\ owed \in SUBSET Tasks

\* A task handed to sendToQueue is run by the thread that dispatches the loop
\* and by no other (the comment at line 34 relies on it to use a lock-free base).
Affinity == \A e \in Elems(executed) : e.by = Loop

\* "Each event_base executes in a single thread" (lines 34-35): while the loop
\* polls or handles events no other thread runs its tasks or touches its base.
SingleThreaded ==
  \A t \in Others : pc[t] \in {"inline"} \cup DrainLabels \cup StopLabels
                    => pc[Loop] \notin {"poll", "blocked", "pre", "read", "io"}

\* Thread t has pushed and not yet decided on, or done, the write to the
\* descriptor, or is about to take the queue.
Serving(t) == pc[t] \in {"count", "store", "notify", "swap"}

\* The loop never sleeps on a non-empty queue: if it is blocked in epoll_wait and
\* no thread is serving the queue, the descriptor is readable.  A sender skips
\* the write when notified_ is set, so this rests on the order of the stores in
\* sendToQueue and doPendingTasks.
NoLostWakeup ==
  pc[Loop] = "blocked" /\ pending # <<>> /\ (\A t \in Threads : ~Serving(t)) => eventfd

StopBegun ==
  \/ loopexit
  \/ \E t \in Threads : \/ pc[t] \in StopLabels
                        \/ Depth(t) > 1
                        \/ pc[t] = "swap" /\ Depth(t) > 0
                        \/ pc[t] \in DrainLabels /\ arg[t] = Stop

\* Until a stopHandle begins, queued tasks run in the order they were pushed.
\* Holding in every state, this is an order on the executions.
FifoOrder ==
  ~StopBegun => \A i, j \in 1..Len(pushed) :
                  i < j /\ pushed[j] \in Executed /\ pushed[i] # Stop => pushed[i] \in Executed

InBatch == UNION {UNION {Elems(stack[t][d]) : d \in 1..Depth(t)} : t \in Threads}

\* No task runs twice, and a pushed task is always in exactly one place: still
\* queued, in a batch being run, run, or discarded by stopHandle.
ExactlyOnce ==
  /\ \A i, j \in 1..Len(executed) : executed[i].task = executed[j].task => i = j
  /\ \A k \in Elems(pushed) \ {Stop} :
       LET places == <<Elems(pending), InBatch, Executed, Elems(discarded)>>
       IN  \E p \in 1..4 : \A q \in 1..4 : k \in places[q] <=> q = p

\* pending_tasks_size_ is incremented after the push and decremented after the
\* run, so it can lag and go negative; at rest, with nothing discarded, it is 0.
QuiescentSize ==
  (/\ pc[Loop] = "blocked" /\ ~eventfd /\ discarded = <<>>
   /\ \A t \in Others : pc[t] = "idle")
  => pending_size = 0

\* Queued tasks run in the order they were pushed, and the counter of pending tasks,
\* which lags behind the queue in both directions, settles at 0 (lines 100-180).
QueueIsFaithful == FifoOrder /\ QuiescentSize

\* Every task pushed before stopHandle saw the queue empty has run when the loop
\* is left, also those in the batches that stopHandle interrupted.
DrainedBeforeExit == pc[Loop] = "exited" => owed \subseteq Executed

\* Every task passed to sendToQueue is eventually run, unless stop is called.
Delivered == \A k \in Tasks : k \notin unsent ~> k \in Executed \/ stops > 0

\* A call of stop makes the loop exit (the comment at lines 182-183).
StopExits == stops > 0 ~> pc[Loop] = "exited"
=============================================================================
