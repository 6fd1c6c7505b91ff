-------------------------- MODULE DynamicThreadPool --------------------------
(***************************************************************************)
(* DynamicThreadPool (src/net/atp_dynamic_thread_pool.cpp): a task queue   *)
(* served by core_threads_ resident workers and by extra ones created on   *)
(* demand.  Everything but the task itself runs under lock_, so one action *)
(* is one critical section; cond_var_.wait splits a section in two.  A     *)
(* waiter may wake without a notification (std::condition_variable).       *)
(***************************************************************************)
EXTENDS Integers, Sequences, FiniteSets

CONSTANTS
  Workers,      \* DynamicThread objects: bounds the threads ever created
  Tasks,        \* the callbacks passed to add, each at most once
  NoTask,
  CoreThreads,  \* core_threads_
  MaxThreads    \* max_threads_ (THREAD_POOL_MAX_THREADS)

ASSUME PoolAssumption ==
  /\ IsFiniteSet(Workers)
  /\ NoTask \notin Tasks
  /\ CoreThreads \in 0..Cardinality(Workers)
  /\ MaxThreads \in Nat \ {0}

VARIABLES
  shutdown,         \* shutdown_
  callbacks,        \* callbacks_
  waiting_threads,  \* waiting_threads_
  current_threads,  \* current_threads_
  th,               \* per worker: where it is
  task,             \* per worker: the task it runs
  dtor,             \* the thread in ~DynamicThreadPool
  added, done       \* history: tasks added, tasks that have returned

vars == <<shutdown, callbacks, waiting_threads, current_threads, th, task, dtor, added, done>>

\* "lock": about to take lock_ in executerImpl; "blocked" and "woken": in
\* cond_var_.wait; "leaving": returned from executerImpl; "dead": in
\* dead_threads_; "joined": deleted by reaper.
ThStates   == {"none", "lock", "blocked", "woken", "run", "leaving", "dead", "joined"}
DtorStates == {"none", "blocked", "woken", "done"}

Elems(s) == {s[i] : i \in 1..Len(s)}
Blocked  == {w \in Workers : th[w] = "blocked"}
Waiting  == {w \in Workers : th[w] \in {"blocked", "woken"}}
Current  == {w \in Workers : th[w] \notin {"none", "dead", "joined"}}

Init ==
  /\ shutdown = FALSE
  /\ callbacks = <<>>
  /\ waiting_threads = 0
  /\ current_threads = CoreThreads
  /\ \E C \in SUBSET Workers :
       /\ Cardinality(C) = CoreThreads
       /\ th = [w \in Workers |-> IF w \in C THEN "lock" ELSE "none"]
  /\ task = [w \in Workers |-> NoTask]
  /\ dtor = "none"
  /\ added = {} /\ done = {}

-----------------------------------------------------------------------------
(* add.  Its callers are the application, until it destroys the pool, and  *)
(* running tasks.                                                          *)

CanAdd == dtor = "none" \/ \E w \in Workers : th[w] = "run"

NotifyOne ==
  \/ /\ \E w \in Blocked : th' = [th EXCEPT ![w] = "woken"]
     /\ UNCHANGED dtor
  \/ /\ dtor = "blocked"
     /\ dtor' = "woken"
     /\ UNCHANGED th
  \/ /\ Blocked = {} /\ dtor # "blocked"
     /\ UNCHANGED <<th, dtor>>

NewThread ==
  /\ current_threads' = current_threads + 1
  /\ \E w \in Workers : th[w] = "none" /\ th' = [th EXCEPT ![w] = "lock"]

\* Mutation of Add: notify_one is forgotten.
Add_NoNotify(k) ==
  /\ CanAdd
  /\ k \in Tasks \ added
  /\ added' = added \cup {k}
  /\ callbacks' = Append(callbacks, k)
  /\ \/ /\ waiting_threads = 0 /\ current_threads < MaxThreads
        /\ NewThread
     \/ /\ waiting_threads # 0 \/ current_threads >= MaxThreads
        /\ UNCHANGED <<current_threads, th>>
  /\ UNCHANGED <<shutdown, waiting_threads, task, dtor, done>>

\* Mutation of Add: max_threads_ is compared with >.
Add_OverMax(k) ==
  /\ CanAdd
  /\ k \in Tasks \ added
  /\ added' = added \cup {k}
  /\ callbacks' = Append(callbacks, k)
  /\ \/ /\ waiting_threads = 0 /\ current_threads <= MaxThreads
        /\ NewThread
        /\ UNCHANGED dtor
     \/ /\ waiting_threads # 0
        /\ NotifyOne
        /\ UNCHANGED current_threads
  /\ UNCHANGED <<shutdown, waiting_threads, task, done>>

Add(k) ==
  /\ CanAdd
  /\ k \in Tasks \ added
  /\ added' = added \cup {k}
  /\ callbacks' = Append(callbacks, k)
  /\ \/ /\ waiting_threads = 0 /\ current_threads >= MaxThreads
        /\ UNCHANGED <<current_threads, th, dtor>>
     \/ /\ waiting_threads = 0 /\ current_threads < MaxThreads
        /\ NewThread
        /\ UNCHANGED dtor
     \/ /\ waiting_threads # 0
        /\ NotifyOne
        /\ UNCHANGED current_threads
  /\ UNCHANGED <<shutdown, waiting_threads, task, done>>

-----------------------------------------------------------------------------
(* executerImpl and executer of worker w.                                  *)

Goto(w, l) == th' = [th EXCEPT ![w] = l]

\* Mutation of Resumed: waiting_threads_ is not restored after the wait.
Resumed_Never(w) == waiting_threads' = waiting_threads

\* -- waiting_threads_ for a worker that comes back from wait.
Resumed(w) ==
  waiting_threads' = IF th[w] = "woken" THEN waiting_threads - 1 ELSE waiting_threads

Wait(w) ==
  /\ th[w] = "lock" /\ ~shutdown /\ callbacks = <<>>
  /\ waiting_threads < CoreThreads
  /\ waiting_threads' = waiting_threads + 1
  /\ Goto(w, "blocked")
  /\ UNCHANGED <<shutdown, callbacks, current_threads, task, dtor, added, done>>

Retire(w) ==
  /\ th[w] = "lock" /\ ~shutdown /\ callbacks = <<>>
  /\ waiting_threads >= CoreThreads
  /\ Goto(w, "leaving")
  /\ UNCHANGED <<shutdown, callbacks, waiting_threads, current_threads, task, dtor, added, done>>

\* A wait may end without a notification.
SpuriousWake(w) ==
  /\ th[w] = "blocked"
  /\ Goto(w, "woken")
  /\ UNCHANGED <<shutdown, callbacks, waiting_threads, current_threads, task, dtor, added, done>>

TakeTask(w) ==
  /\ th[w] \in {"lock", "woken"} /\ callbacks # <<>>
  /\ Resumed(w)
  /\ task' = [task EXCEPT ![w] = Head(callbacks)]
  /\ callbacks' = Tail(callbacks)
  /\ Goto(w, "run")
  /\ UNCHANGED <<shutdown, current_threads, dtor, added, done>>

FinishTask(w) ==
  /\ th[w] = "run"
  /\ done' = done \cup {task[w]}
  /\ task' = [task EXCEPT ![w] = NoTask]
  /\ Goto(w, "lock")
  /\ UNCHANGED <<shutdown, callbacks, waiting_threads, current_threads, dtor, added>>

\* Woken for nothing: neither branch is taken and the loop goes round.
GoRound(w) ==
  /\ th[w] = "woken" /\ ~shutdown /\ callbacks = <<>>
  /\ Resumed(w)
  /\ Goto(w, "lock")
  /\ UNCHANGED <<shutdown, callbacks, current_threads, task, dtor, added, done>>

Break(w) ==
  /\ th[w] \in {"lock", "woken"} /\ shutdown /\ callbacks = <<>>
  /\ Resumed(w)
  /\ Goto(w, "leaving")
  /\ UNCHANGED <<shutdown, callbacks, current_threads, task, dtor, added, done>>

\* Mutation of Leave: the last thread notifies before it is counted out.
Leave_EarlyNotify(w) ==
  /\ th[w] = "leaving"
  /\ current_threads' = current_threads - 1
  /\ Goto(w, "dead")
  /\ dtor' = IF shutdown /\ current_threads = 0 /\ dtor = "blocked" THEN "woken" ELSE dtor
  /\ UNCHANGED <<shutdown, callbacks, waiting_threads, task, added, done>>

\* The last thread's notify_one finds no waiter but the destructor.
Leave(w) ==
  /\ th[w] = "leaving"
  /\ current_threads' = current_threads - 1
  /\ Goto(w, "dead")
  /\ dtor' = IF shutdown /\ current_threads' = 0 /\ dtor = "blocked" THEN "woken" ELSE dtor
  /\ UNCHANGED <<shutdown, callbacks, waiting_threads, task, added, done>>

-----------------------------------------------------------------------------
(* ~DynamicThreadPool, called once by the application.                     *)

Reaped(f) == [w \in Workers |-> IF f[w] = "dead" THEN "joined" ELSE f[w]]

\* while (current_threads_ != 0) wait; then reaper, under the same lock.
WaitOrReap(f) ==
  IF current_threads # 0 THEN dtor' = "blocked" /\ th' = f
                         ELSE dtor' = "done" /\ th' = Reaped(f)

Destroy ==
  /\ dtor = "none"
  /\ shutdown' = TRUE
  /\ WaitOrReap([w \in Workers |-> IF th[w] = "blocked" THEN "woken" ELSE th[w]])
  /\ UNCHANGED <<callbacks, waiting_threads, current_threads, task, added, done>>

\* Mutation of DestroyWoken: if instead of while, no second look at the count.
DestroyWoken_If ==
  /\ dtor = "woken"
  /\ dtor' = "done" /\ th' = Reaped(th)
  /\ UNCHANGED <<shutdown, callbacks, waiting_threads, current_threads, task, added, done>>

DestroyWoken ==
  /\ dtor = "woken"
  /\ WaitOrReap(th)
  /\ UNCHANGED <<shutdown, callbacks, waiting_threads, current_threads, task, added, done>>

DestroySpurious ==
  /\ dtor = "blocked"
  /\ dtor' = "woken"
  /\ UNCHANGED <<shutdown, callbacks, waiting_threads, current_threads, th, task, added, done>>

-----------------------------------------------------------------------------
Worker(w) ==
  \/ Wait(w) \/ Retire(w) \/ TakeTask(w) \/ FinishTask(w) \/ GoRound(w) \/ Break(w) \/ Leave(w)

Next ==
  \/ \E k \in Tasks : Add(k)
  \/ \E w \in Workers : Worker(w) \/ SpuriousWake(w)
  \/ Destroy \/ DestroyWoken \/ DestroySpurious

Spec == Init /\ [][Next]_vars

\* The scheduler and lock_ are fair to every thread, and tasks return.
Fairness == (\A w \in Workers : WF_vars(Worker(w))) /\ WF_vars(DestroyWoken)

FairSpec == Spec /\ Fairness

-----------------------------------------------------------------------------
TypeOK ==
  /\ shutdown \in BOOLEAN
  /\ callbacks \in Seq(Tasks)
  /\ waiting_threads \in Nat /\ current_threads \in Nat
  /\ th \in [Workers -> ThStates]
  /\ task \in [Workers -> Tasks \cup {NoTask}]
  /\ dtor \in DtorStates
  /\ added \in SUBSET Tasks /\ done \in SUBSET Tasks

\* add either creates a thread, notifies a waiter or leaves the task to a busy
\* thread.  Whichever it is, a queued task always has a worker on its way to the
\* queue: none is left behind by a notification that hit no waiter, a worker that
\* decided to retire meanwhile, or a shutdown.
NoStrandedTask ==
  callbacks # <<>> => \E w \in Workers : th[w] \in {"lock", "woken", "run"}

\* The counters under which add and the destructor decide agree with the threads:
\* waiting_threads_ counts those inside wait (a notified one until it runs again),
\* current_threads_ those that have not put themselves in dead_threads_.
CountersAgree ==
  /\ waiting_threads = Cardinality(Waiting)
  /\ current_threads = Cardinality(Current)

\* The pool stays within its limits: at most core_threads_ idle threads, and
\* max_threads_ threads in all (unless the constructor was asked for more).
WithinLimits ==
  /\ waiting_threads <= CoreThreads
  /\ current_threads <= MaxThreads \/ current_threads <= CoreThreads

\* When ~DynamicThreadPool has returned, every task ever added has run to its end
\* and every thread ever created has been joined.
DestroyedClean ==
  dtor = "done" => added = done /\ \A w \in Workers : th[w] \in {"none", "joined"}

\* Every task passed to add is run, whatever the pool's threads were doing.
TasksRun == \A k \in Tasks : k \in added ~> k \in done

\* ~DynamicThreadPool returns: the last thread's notification is never missed.
DestroyReturns == dtor # "none" ~> dtor = "done"
=============================================================================
