----------------------------- MODULE LoopWatcher -----------------------------
(***************************************************************************)
(* The watcher by which other threads wake an EventLoop, over the life of  *)
(* the loop: its constructor (event_loop.cpp, doInitEventWatcher),         *)
(* dispatch, notifications and the eventfd or pipe they go through, and    *)
(* ~EventLoop, which frees event_base_ before the watcher.                 *)
(***************************************************************************)
EXTENDS EventWatcher

CONSTANTS
  Capacity,   \* what the pipe holds before write fails
  MaxNotify   \* bound: notifications

ASSUME CapacityAssumption == Capacity \in Nat

VARIABLES
  waker,     \* event_watcher_
  watched,   \* "new", "init", "running", "left", "gone",
             \* "dropped" (gone without a dispatch) or "aborted"
  base,      \* event_base_ is allocated
  count,     \* the eventfd's counter is positive, or the bytes in the pipe
  notified,  \* history: calls of eventNotify
  refused,   \* history: calls whose write failed
  handled    \* history: calls of do_tasks_handle

wat == <<waker, watched, base, count, notified, refused, handled>>

WatcherInit ==
  /\ waker \in {NewWatcher("eventfd"), NewWatcher("pipe")} /\ watched = "new" /\ base = TRUE
  /\ count = 0 /\ notified = 0 /\ refused = 0 /\ handled = 0

tallies == <<count, notified, refused, handled>>

\* EventLoop's constructor asserts that doInit succeeds.
Construct(ok) ==
  /\ watched = "new"
  /\ waker' = DoInit(waker, ok)
  /\ watched' = IF ok THEN "init" ELSE "aborted"
  /\ UNCHANGED <<base, tallies>>

\* dispatch asserts that asyncWait succeeds.
Dispatch(ok) ==
  /\ watched = "init"
  /\ waker' = DoWatch(waker, ok)
  /\ watched' = IF ok THEN "running" ELSE "aborted"
  /\ UNCHANGED <<base, tallies>>

\* eventNotify, from any thread: the eventfd sums, the pipe fills.
Written == IF waker.kind = "eventfd" THEN 1 ELSE IF count < Capacity THEN count + 1 ELSE count
Notify ==
  /\ watched \in {"init", "running", "left"} /\ notified < MaxNotify
  /\ notified' = notified + 1
  /\ count' = Written
  /\ refused' = IF waker.kind = "pipe" /\ count = Capacity THEN refused + 1 ELSE refused
  /\ UNCHANGED <<waker, watched, base, handled>>

\* The notify handler reads the whole counter, or one byte.
Handle ==
  /\ watched = "running" /\ waker.added /\ count > 0
  /\ count' = IF waker.kind = "eventfd" THEN 0 ELSE count - 1
  /\ handled' = handled + 1
  /\ waker' = Fired(waker)
  /\ UNCHANGED <<watched, base, notified, refused>>

LeaveDispatch ==
  /\ watched = "running" /\ watched' = "left"
  /\ UNCHANGED <<waker, base, tallies>>

\* ~EventLoop: event_base_free drops the events it holds, then the members go.
DestroyLoop ==
  /\ watched \in {"init", "left"} /\ watched' = IF watched = "init" THEN "dropped" ELSE "gone"
  /\ base' = FALSE
  /\ waker' = Destroyed([waker EXCEPT !.added = FALSE], FALSE)
  /\ UNCHANGED tallies

WatcherNext ==
  \/ \E ok \in BOOLEAN : Construct(ok) \/ Dispatch(ok)
  \/ Notify \/ Handle \/ LeaveDispatch \/ DestroyLoop

WatcherSpec == WatcherInit /\ [][WatcherNext]_wat

\* The loop's thread handles the events it is told of.
WatcherFairness == WF_wat(Handle)
WatcherFairSpec == WatcherSpec /\ WatcherFairness

-----------------------------------------------------------------------------
(* Properties.                                                             *)

\* While the loop lives its event is allocated and "If attached_ is true, the event_
\* is already attached to event_base_." (event_watcher.h:78); a running loop holds it.
AttachedIsAdded ==
  /\ waker.attached /\ base => waker.added /\ waker.event
  /\ watched = "running" => waker.attached

\* No notification of a live loop is lost, those before dispatch included: each one
\* the kernel took leads to a later call of the handler, on its own or merged.
Woken == count > 0 /\ watched = "running" ~> count = 0 \/ watched # "running"

\* The handler never runs without a notification of its own: at most once for each
\* write that succeeded, and exactly once for each in the case of the pipe.
HandledOnce ==
  /\ handled + (IF count > 0 THEN 1 ELSE 0) <= notified - refused
  /\ waker.kind = "pipe" => handled + count = notified - refused

\* Destructors and error paths close only descriptors the watcher opened, and each
\* once; the exception is a pipe watcher whose doInit failed, which closes 0.
ClosesItsOwn ==
  /\ waker.foreign => waker.kind = "pipe" /\ watched = "aborted"
  /\ watched \in {"gone", "dropped"} => waker.own = {}

\* ~EventLoop uses its freed event_base_, in event_del, exactly when the loop was
\* dispatched: a loop that never ran is destroyed cleanly.
FreedUseAfterDispatch == waker.freedUse <=> watched = "gone"

\* The handler runs once for a notification and for nothing else, the event is added
\* while the loop lives, and descriptors and event are released once, except that a
\* loop which was dispatched uses its freed event_base_.
WatcherIsSound == HandledOnce /\ AttachedIsAdded /\ ClosesItsOwn /\ FreedUseAfterDispatch
=============================================================================
