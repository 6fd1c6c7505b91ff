----------------------------- MODULE EventWatcher -----------------------------
(***************************************************************************)
(* EventWatcher and its three kinds (src/net/atp_event_watcher.cpp) as     *)
(* functions of the watcher's record.  event_ is allocated or not; added   *)
(* says that libevent holds the event; attached is attached_; fds are the  *)
(* descriptors in the members, own those the watcher has open; foreign and *)
(* freedUse record a close of someone else's descriptor, an event deleted  *)
(* while libevent holds it or a null event passed to libevent.             *)
(***************************************************************************)
EXTENDS Integers

NoFds(kind) == CASE kind = "eventfd" -> {-1} [] kind = "pipe" -> {0} [] kind = "timer" -> {}
NewFds(kind) == CASE kind = "eventfd" -> {7} [] kind = "pipe" -> {7, 8} [] kind = "timer" -> {}

NewWatcher(kind) ==
  [kind |-> kind, event |-> TRUE, added |-> FALSE, attached |-> FALSE, fds |-> NoFds(kind),
   own |-> {}, foreign |-> FALSE, freedUse |-> FALSE]

\* doTerminateImpl: close the members' descriptors, whatever they hold.
DoTerminate(w) ==
  [w EXCEPT !.own = @ \ w.fds, !.fds = NoFds(w.kind),
            !.foreign = @ \/ \E fd \in w.fds : fd >= 0 /\ fd \notin w.own]

\* doInit adds the event (one without descriptor or timeout is not kept by
\* libevent); a failed doInitImpl terminates, and doInit terminates again.
DoInit(w, ok) ==
  IF ok THEN [w EXCEPT !.fds = NewFds(w.kind), !.own = NewFds(w.kind), !.added = w.kind # "timer"]
  ELSE DoTerminate(DoTerminate(w))

\* doWatch: delete an attached event, add it (with the timer's timeout).
DoWatch_DelOnly(w, ok) == [w EXCEPT !.added = FALSE, !.attached = ok]
DoWatch(w, ok) ==
  IF ~w.event THEN [w EXCEPT !.freedUse = TRUE]
  ELSE [w EXCEPT !.added = ok \/ (@ /\ ~w.attached), !.attached = ok]

\* A persistent event stays added when it fires, a timer does not.
Fired(w) == [w EXCEPT !.added = w.kind # "timer"]

\* detachEventAndFree; base says that the event_base is still there.
Detach(w, base) ==
  IF ~w.event THEN w
  ELSE [w EXCEPT !.event = FALSE, !.added = @ /\ ~w.attached, !.attached = FALSE,
                 !.freedUse = @ \/ (w.attached /\ ~base) \/ (w.added /\ ~w.attached)]

\* The destructors: the kind's terminates, the base class's detaches.
Destroyed(w, base) == Detach(DoTerminate(w), base)
=============================================================================
