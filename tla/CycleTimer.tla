------------------------------ MODULE CycleTimer ------------------------------
(***************************************************************************)
(* CycleTimer (src/net/atp_cycle_timer.cpp): a one-shot or persistent timer*)
(* of an event loop that keeps itself alive through self_.  It is started  *)
(* and cancelled by a user on the loop's thread or on another one, or from *)
(* its own callback; the user's shared pointer may be dropped at any time. *)
(***************************************************************************)
EXTENDS EventWatcher, Sequences

CONSTANTS
  MaxFire,   \* bound: triggers
  MaxCancel  \* bound: calls of cancel

VARIABLES
  watcher,   \* the TimerEventWatcher
  member,    \* timer_watcher_ points to it
  self,      \* self_ is set
  held,      \* the user holds a pointer to the timer
  persist,   \* persist_
  fn,        \* expires_fn_ is set
  cancelfn,  \* cancel_fn_ is set
  queue,     \* closures queued to the loop: "start", "cancel", "null cancel"
  inside,    \* the loop is in the user's callback
  user,      \* the user's thread: "idle", or "copy" between test and copy in cancel
  fired, cancels, cancelled,  \* history: triggers, calls of cancel, calls of cancel_fn_
  late,      \* history: a cancel has run
  cyclic,    \* history: persist_ as the timer was made
  inner,     \* history: the callback has cancelled its own timer
  fault      \* "no", or what went wrong

tmr == <<watcher, member, self, held, persist, fn, cancelfn, queue, inside, user,
          fired, cancels, cancelled, late, cyclic, inner, fault>>

\* addCycleTask made the timer and queued the closure of start.
TimerInit ==
  /\ watcher = NewWatcher("timer") /\ member = FALSE
  /\ self = TRUE /\ held = TRUE /\ cyclic \in BOOLEAN /\ persist = cyclic /\ fn = TRUE /\ cancelfn = TRUE
  /\ queue = <<"start">> /\ inside = FALSE /\ user = "idle"
  /\ fired = 0 /\ cancels = 0 /\ cancelled = 0 /\ late = FALSE /\ inner = FALSE /\ fault = "no"

\* A queued cancel refers to the watcher, which refers to the timer.
Queued == \E i \in DOMAIN queue : queue[i] = "cancel"

\* The object exists while someone refers to it: the user, self_, or the bound
\* callbacks of a watcher the timer still points to.
Exists == held \/ self \/ member \/ Queued

counts == <<fired, cancels, cancelled, late, inner>>

\* The closure of start.
RunStart ==
  /\ ~inside /\ queue # <<>> /\ Head(queue) = "start"
  /\ queue' = Tail(queue)
  /\ member' = TRUE
  /\ watcher' = DoWatch(DoInit(watcher, TRUE), TRUE)
  /\ UNCHANGED <<self, held, persist, fn, cancelfn, inside, user, counts, fault>>

\* onTrigger up to the callback.
Trigger ==
  /\ ~inside /\ watcher.event /\ watcher.added /\ fired < MaxFire
  /\ watcher' = Fired(watcher)
  /\ inside' = TRUE /\ fired' = fired + (IF fn THEN 1 ELSE 0)
  /\ UNCHANGED <<member, self, held, persist, fn, cancelfn, queue, user, cancels, cancelled, late, inner, fault>>

\* onTrigger after the callback: wait again, or let go of everything.
AfterTrigger_KeepsCancelFn ==
  /\ inside /\ inside' = FALSE
  /\ member' = persist /\ self' = persist
  /\ watcher' = IF persist THEN DoWatch(watcher, TRUE) ELSE watcher
  /\ UNCHANGED <<fn, cancelfn, fault, held, persist, queue, user, counts>>
AfterTrigger ==
  /\ inside /\ inside' = FALSE
  /\ IF ~Exists
     THEN /\ fault' = "freed"
          /\ UNCHANGED <<watcher, member, self, fn, cancelfn>>
     ELSE IF persist
     THEN /\ fault' = IF member THEN fault ELSE "null watcher"
          /\ watcher' = IF member THEN DoWatch(watcher, TRUE) ELSE watcher
          /\ UNCHANGED <<member, self, fn, cancelfn>>
     ELSE /\ member' = FALSE /\ self' = FALSE /\ fn' = FALSE /\ cancelfn' = FALSE
          /\ watcher' = IF Queued THEN watcher ELSE Destroyed(watcher, TRUE)
          /\ UNCHANGED fault
  /\ UNCHANGED <<held, persist, queue, user, counts>>

\* doCancel and onCancel, once for a watcher.
OnCancel ==
  /\ persist' = FALSE
  /\ cancelled' = cancelled + (IF cancelfn THEN 1 ELSE 0)
  /\ cancelfn' = FALSE /\ fn' = FALSE /\ member' = FALSE /\ self' = FALSE

DoCancel_Ignored ==
  /\ late' = TRUE
  /\ UNCHANGED <<watcher, persist, cancelled, cancelfn, fn, member, self>>
DoCancel ==
  /\ watcher' = Detach(watcher, TRUE)
  /\ late' = TRUE
  /\ IF watcher.event THEN OnCancel
     ELSE UNCHANGED <<persist, cancelled, cancelfn, fn, member, self>>

RunCancel ==
  /\ ~inside /\ queue # <<>> /\ Head(queue) = "cancel"
  /\ queue' = Tail(queue)
  /\ DoCancel
  /\ UNCHANGED <<held, inside, user, fired, cancels, inner, fault>>

RunNullCancel ==
  /\ ~inside /\ queue # <<>> /\ Head(queue) = "null cancel"
  /\ fault' = "null cancel"
  /\ UNCHANGED <<watcher, member, self, held, persist, fn, cancelfn, queue, inside, user, counts>>

-----------------------------------------------------------------------------
(* The user.                                                               *)

\* cancel on the loop's thread runs doCancel inline, in the callback or not.
CancelInline ==
  /\ held /\ cancels < MaxCancel
  /\ cancels' = cancels + 1
  /\ inner' = (inner \/ inside)
  /\ IF member THEN DoCancel
     ELSE UNCHANGED <<watcher, late, persist, cancelled, cancelfn, fn, member, self>>
  /\ UNCHANGED <<held, queue, inside, user, fired, fault>>

\* cancel on another thread tests timer_watcher_, then copies it into the closure.
CancelTest ==
  /\ held /\ user = "idle" /\ cancels < MaxCancel
  /\ cancels' = cancels + 1
  /\ user' = IF member THEN "copy" ELSE "idle"
  /\ UNCHANGED <<watcher, member, self, held, persist, fn, cancelfn, queue, inside, fired, cancelled, late, inner, fault>>

CancelCopy ==
  /\ user = "copy" /\ user' = "idle"
  /\ queue' = Append(queue, IF member THEN "cancel" ELSE "null cancel")
  /\ UNCHANGED <<watcher, member, self, held, persist, fn, cancelfn, inside, counts, fault>>

Drop ==
  /\ held /\ user = "idle"
  /\ held' = FALSE
  /\ UNCHANGED <<watcher, member, self, persist, fn, cancelfn, queue, inside, user, counts, fault>>

TimerNext ==
  /\ fault = "no" /\ UNCHANGED cyclic
  /\ \/ RunStart \/ Trigger \/ AfterTrigger \/ RunCancel \/ RunNullCancel
     \/ CancelInline \/ CancelTest \/ CancelCopy \/ Drop

TimerSpec == TimerInit /\ [][TimerNext]_tmr

\* The loop runs what is queued and returns from callbacks; a call of cancel ends.
TimerWorks(A) == fault = "no" /\ UNCHANGED cyclic /\ A
RunLoop == RunStart \/ RunCancel \/ RunNullCancel \/ AfterTrigger
TimerFairness == /\ WF_tmr(TimerWorks(RunLoop))
            /\ WF_tmr(TimerWorks(CancelCopy))
TimerFairSpec == TimerSpec /\ TimerFairness

-----------------------------------------------------------------------------
(* Properties.                                                             *)

\* Once a cancel has run the callback is never called again, even if the timer had
\* expired in the same turn of the loop.
CancelIsFinal == [][late => fired' = fired]_tmr

\* A one-shot timer calls its callback or its cancel callback, never both, when it
\* is not cancelled from the callback: a cancel queued before the trigger and run
\* after it finds cancel_fn_ cleared.
FireOrCancel == ~cyclic /\ ~inner => fired + cancelled <= 1

\* self_ and the watcher, which refer to each other, are let go of when a one-shot
\* timer has fired or any timer is cancelled: no timer keeps itself alive for ever.
Released == late \/ (fired > 0 /\ ~cyclic) ~> (~self /\ ~member) \/ fault # "no"

\* A cancel that saw the watcher takes effect.
CancelTakesEffect == user = "copy" ~> late \/ fault # "no"

\* onTrigger never waits on a watcher that is gone; it uses a timer that is gone
\* only if the callback cancelled the timer and its last pointer was dropped; and
\* a closure without a watcher is queued only by a cancel that raced another cancel
\* or the trigger of a one-shot timer.
FaultsNeedMisuse ==
  /\ fault # "null watcher" /\ ~watcher.freedUse
  /\ fault = "freed" => inner /\ ~held
  /\ fault = "null cancel" => late \/ (fired > 0 /\ ~cyclic)

\* A one-shot timer fires or is cancelled, never both, and a timer or a watcher that is
\* gone is used only after the misuse FaultsNeedMisuse names.
TimerFaults == FireOrCancel /\ FaultsNeedMisuse

\* A cancel that saw the watcher takes effect, no callback runs after it, and a timer
\* that is done lets go of itself.
CancelWorks == CancelIsFinal /\ CancelTakesEffect /\ Released
=============================================================================
