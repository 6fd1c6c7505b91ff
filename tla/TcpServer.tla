------------------------------ MODULE TcpServer ------------------------------
(***************************************************************************)
(* Server (src/net/atp_tcp_server.cpp) with its Listener, the control loop *)
(* and the IO loops of its pool, from start to destruction.  Main runs     *)
(* start; in mode 0 it then dispatches the control loop itself, in mode 1  *)
(* the control loop is one that another thread dispatches already.  The    *)
(* loops are their task queues (EventLoop shows that these are FIFO and    *)
(* drained before a stop takes effect); a connection is its stage of life  *)
(* (Connection has the detail) and whether the application holds a pointer *)
(* to it; a loop index 0 stands for the control loop.                      *)
(***************************************************************************)
EXTENDS Integers, Sequences, FiniteSets

CONSTANTS
  Conns,         \* the connections clients will make
  MaxThreadNum   \* bound: thread_num_

VARIABLES
  mode,      \* server_mode_
  num,       \* thread_num_: the number of IO loops
  pc,        \* Main's place in start, then "up", and in ~Server "joining", "gone"
  serverState,     \* state_
  stopping,  \* the control loop's thread is inside stop
  earlyStop, \* history: stop was called before start had stored RUNNING
  listener,  \* the listen channel: "none", "listening", "attached", "closed"
  ctlq,      \* tasks queued to the control loop
  ctl,       \* the control loop is being dispatched
  conn,      \* stage of each connection
  loop,      \* the loop a connection was given to
  table,     \* conns_table_
  holding,   \* the connections the application holds a ConnectionPtr of
  ioq,       \* tasks queued to each IO loop
  io,        \* "idle", "starting", "running" or "stopped", for each IO loop
  touched,   \* history: the loops whose thread changed conns_table_
  aborted    \* the assertion that failed, or "no"

srv == <<mode, num, pc, serverState, stopping, earlyStop, listener, ctlq, ctl, conn, loop, table,
         holding, ioq, io, touched, aborted>>

Loops == 1..num

ServerInit ==
  /\ mode \in {0, 1} /\ num \in 0..MaxThreadNum
  /\ pc = "listen" /\ serverState = "INIT" /\ stopping = FALSE /\ earlyStop = FALSE
  /\ listener = "none"
  /\ ctlq = <<>> /\ ctl = (mode = 1)
  /\ conn = [c \in Conns |-> "client"] /\ loop = [c \in Conns |-> 0]
  /\ table = {} /\ holding = {}
  /\ ioq = [l \in Loops |-> <<>>] /\ io = [l \in Loops |-> "idle"]
  /\ touched = {} /\ aborted = "no"

Task(op, c) == [op |-> op, conn |-> c]
net == <<conn, loop, table, holding, ioq, touched>>
life == <<serverState, stopping, earlyStop>>

-----------------------------------------------------------------------------
(* Main: Server::start.                                                    *)

Step(from, to) == pc = from /\ pc' = to

\* Listener::listen: socket, bind and listen, each asserted to succeed.
Listen ==
  /\ Step("listen", "pool")
  /\ listener' = "listening"
  /\ UNCHANGED <<life, ctlq, ctl, net, io, aborted>>

StartPool ==
  /\ Step("pool", "accept")
  /\ io' = [l \in Loops |-> "starting"]
  /\ UNCHANGED <<life, listener, ctlq, ctl, net, aborted>>

\* The loop's thread enters dispatch, which makes it the loop's thread.
EnterIOLoop(l) ==
  /\ io[l] = "starting"
  /\ io' = [io EXCEPT ![l] = "running"]
  /\ UNCHANGED <<pc, life, listener, ctlq, ctl, net, aborted>>

\* Listener::accept: attaches the channel at once on the loop's own thread,
\* through the queue from another one.
Accept ==
  /\ Step("accept", "running")
  /\ IF mode = 0 THEN listener' = "attached" /\ UNCHANGED ctlq
                 ELSE ctlq' = Append(ctlq, Task("listener", 0)) /\ UNCHANGED listener
  /\ UNCHANGED <<life, ctl, net, io, aborted>>

\* Also over the STOPPED of a stop that came first.
SetRunning ==
  /\ Step("running", IF mode = 0 THEN "dispatch" ELSE "up")
  /\ serverState' = "RUNNING"
  /\ UNCHANGED <<stopping, earlyStop, listener, ctlq, ctl, net, io, aborted>>

DispatchControl ==
  /\ Step("dispatch", "up")
  /\ ctl' = TRUE
  /\ UNCHANGED <<life, listener, ctlq, net, io, aborted>>

-----------------------------------------------------------------------------
(* Tasks: inline on the loop's own thread, else queued.                    *)

\* hashTableRemove, on the control loop's thread; ~Server has destroyed the table
\* when it joins the IO loops.
HashTableRemove(c) ==
  /\ table' = table \ {c} /\ touched' = touched \cup {0}
  /\ aborted' = IF pc = "joining" THEN "freed table" ELSE "no"

\* A closed connection leaves the table on the control loop's thread, thread
\* is the loop that calls handleCloseConnection.
HandleCloseConnection_OnItsLoop(c, thread) ==
  /\ table' = table \ {c} /\ touched' = touched \cup {thread}
  /\ UNCHANGED <<ctlq, aborted>>
HandleCloseConnection(c, thread) ==
  IF thread = 0
  THEN HashTableRemove(c) /\ UNCHANGED ctlq
  ELSE /\ ctlq' = Append(ctlq, Task("remove", c))
       /\ UNCHANGED <<table, touched, aborted>>

\* Any loop of the pool (EventLoopPool has the round robin), or the control loop.
IOLoopChoice == IF num = 0 THEN {0} ELSE Loops

\* threadSafety for the control loop's thread: until an IO loop is dispatched its
\* thread is the one that created it, which is Main.
Inline(l) == l = 0 \/ (mode = 0 /\ io[l] = "starting")

\* The control loop is dispatched and its thread is not inside stop.
Free == ctl /\ ~stopping

\* The thread that runs the handlers of loop l can run one.
Running(l) == IF Inline(l) THEN Free ELSE io[l] = "running"

\* conn_fn_ is given a ConnectionPtr, and the application keeps it or does not.
Keep(c, kept) == holding' = IF kept THEN holding \cup {c} ELSE holding

\* Listener::acceptHandle and Server::handleNewConnection: the table entry is
\* made before the connection is handed over.
AcceptHandle(c) ==
  /\ Free /\ listener = "attached" /\ conn[c] = "backlog"
  /\ IF serverState = "RUNNING"
     THEN \E l \in IOLoopChoice :
            /\ loop' = [loop EXCEPT ![c] = l]
            /\ table' = table \cup {c} /\ touched' = touched \cup {0}
            /\ conn' = [conn EXCEPT ![c] = IF Inline(l) THEN "open" ELSE "new"]
            /\ ioq' = IF Inline(l) THEN ioq
                      ELSE [ioq EXCEPT ![l] = Append(@, Task("attach", c))]
            /\ \E kept \in IF Inline(l) THEN BOOLEAN ELSE {FALSE} : Keep(c, kept)
            /\ UNCHANGED aborted
     ELSE aborted' = "not running" /\ UNCHANGED net
  /\ UNCHANGED <<pc, life, listener, ctlq, ctl, io>>

\* ::accept fails with EAGAIN or EINTR, or the client is gone: nothing changes
\* but the backlog.
AcceptFails(c) ==
  /\ Free /\ listener = "attached" /\ conn[c] = "backlog"
  /\ conn' = [conn EXCEPT ![c] = "client"]
  /\ UNCHANGED <<pc, life, listener, ctlq, ctl, loop, table, holding, ioq, io, touched, aborted>>

\* The listen socket is open until ~Listener, whatever became of its channel.
Connect(c) ==
  /\ conn[c] = "client" /\ listener # "none"
  /\ conn' = [conn EXCEPT ![c] = "backlog"]
  /\ UNCHANGED <<pc, life, listener, ctlq, ctl, loop, table, holding, ioq, io, touched, aborted>>

\* The control loop runs a queued task: the listener's attach, or a removal.
\* A channel that stop closed has no events, so its attach does nothing.
RunControl ==
  /\ Free /\ ctlq # <<>>
  /\ ctlq' = Tail(ctlq)
  /\ LET t == Head(ctlq) IN
     \/ /\ t.op = "listener"
        /\ listener' = IF listener = "listening" THEN "attached" ELSE listener
        /\ UNCHANGED <<table, touched, aborted>>
     \/ /\ t.op = "remove"
        /\ HashTableRemove(t.conn)
        /\ UNCHANGED listener
  /\ UNCHANGED <<pc, life, ctl, conn, loop, holding, ioq, io>>

\* Connection::attachToEventLoop, queued; conn_fn_ may close the connection.  The
\* task is the last owner of an open one that neither the table nor the
\* application holds: ~Channel then asserts that it is closed.
RunAttach(l) ==
  /\ io[l] = "running" /\ ioq[l] # <<>> /\ Head(ioq[l]).op = "attach"
  /\ ioq' = [ioq EXCEPT ![l] = Tail(@)]
  /\ LET c == Head(ioq[l]).conn IN
     \E kept \in BOOLEAN :
       /\ Keep(c, kept)
       /\ \/ /\ conn' = [conn EXCEPT ![c] = "open"]
             /\ aborted' = IF c \in table \/ kept THEN "no" ELSE "open channel"
             /\ UNCHANGED <<ctlq, table, touched>>
          \/ /\ conn' = [conn EXCEPT ![c] = "closed"]
             /\ HandleCloseConnection(c, l)
  /\ UNCHANGED <<pc, life, listener, ctl, loop, io>>

\* stopHandle, after all that was queued before it; nothing is queued later, the
\* listener being closed.
RunStop_NoDrain(l) ==
  /\ io[l] = "running" /\ \E i \in DOMAIN ioq[l] : ioq[l][i].op = "stop"
  /\ ioq' = [ioq EXCEPT ![l] = <<>>]
  /\ io' = [io EXCEPT ![l] = "stopped"]
  /\ UNCHANGED <<pc, life, listener, ctlq, ctl, conn, loop, table, holding, touched, aborted>>
RunStop(l) ==
  /\ io[l] = "running" /\ ioq[l] # <<>> /\ Head(ioq[l]).op = "stop"
  /\ ioq' = [ioq EXCEPT ![l] = Tail(@)]
  /\ io' = [io EXCEPT ![l] = "stopped"]
  /\ UNCHANGED <<pc, life, listener, ctlq, ctl, conn, loop, table, holding, touched, aborted>>

\* The peer, the application or the timing wheel closes an open connection.
CloseConn(c) ==
  /\ conn[c] = "open" /\ Running(loop[c])
  /\ conn' = [conn EXCEPT ![c] = "closed"]
  /\ HandleCloseConnection(c, IF Inline(loop[c]) THEN 0 ELSE loop[c])
  /\ UNCHANGED <<pc, life, listener, ctl, loop, holding, ioq, io>>

\* The application lets go of its pointer, which may be the last.
ReleaseConn(c) ==
  /\ c \in holding
  /\ holding' = holding \ {c}
  /\ aborted' = IF conn[c] = "open" /\ c \notin table THEN "open channel" ELSE "no"
  /\ UNCHANGED <<pc, life, listener, ctlq, ctl, conn, loop, table, ioq, io, touched>>

-----------------------------------------------------------------------------
(* Server::stop, on the control loop's thread as Listener::stop asserts,    *)
(* and ~Server.                                                             *)

\* channel_ is made by accept; once closed, closing it again changes nothing.
BeginStop_StillAttached ==
  /\ (ctl \/ pc = "listen") /\ ~stopping /\ pc # "joining"
  /\ serverState' = "STOPPING"
  /\ aborted' = IF pc \in {"listen", "pool", "accept"} THEN "null channel" ELSE "no"
  /\ stopping' = TRUE /\ earlyStop' = (earlyStop \/ pc = "running")
  /\ UNCHANGED <<pc, listener, ctlq, ctl, net, io>>
\* The listener is stopped, and autoStop finds its pool RUNNING the first time only.
BeginStop ==
  /\ (ctl \/ pc = "listen") /\ ~stopping /\ pc # "joining"
  /\ serverState' = "STOPPING" /\ stopping' = TRUE
  /\ earlyStop' = (earlyStop \/ pc = "running")
  /\ IF pc \in {"listen", "pool", "accept"}
     THEN aborted' = "null channel" /\ UNCHANGED listener
     ELSE /\ listener' = "closed"
          /\ aborted' = IF listener = "closed" /\ num > 0 THEN "pool stopped" ELSE "no"
  /\ UNCHANGED <<pc, ctlq, ctl, net, io>>

\* autoStop: a loop not yet dispatched takes the stop inline, and leaves at once
\* or misses it (EventLoopPool); then state_ is STOPPED.
StopPool ==
  /\ stopping /\ stopping' = FALSE /\ serverState' = "STOPPED"
  /\ \E missed \in SUBSET Loops :
       io' = [l \in Loops |-> IF Inline(l) /\ l \notin missed THEN "stopped" ELSE io[l]]
  /\ ioq' = [l \in Loops |-> IF Inline(l) THEN ioq[l] ELSE Append(ioq[l], Task("stop", 0))]
  /\ UNCHANGED <<pc, earlyStop, listener, ctlq, ctl, conn, loop, table, holding, touched, aborted>>

\* ~Server on Main's thread, in mode 0 never: start does not return.  conns_table_
\* goes first, and with it the connections that have no other owner.
DestroyServer ==
  /\ mode = 1 /\ Step("up", "joining")
  /\ aborted' = CASE serverState # "STOPPED" -> "not stopped"
                  [] serverState = "STOPPED" /\ (\E c \in table \ holding : conn[c] = "open") -> "open channel"
                  [] OTHER -> "no"
  /\ table' = {}
  /\ UNCHANGED <<life, listener, ctlq, ctl, conn, loop, holding, ioq, io, touched>>

\* ~EventLoopPool has joined the threads; listener_ and control_event_loop_ follow.
JoinLoops ==
  /\ Step("joining", "gone")
  /\ \A l \in Loops : io[l] = "stopped"
  /\ ctl' = FALSE
  /\ UNCHANGED <<life, listener, ctlq, net, io, aborted>>

ServerNext ==
  /\ aborted = "no" /\ pc # "gone" /\ UNCHANGED <<mode, num>>
  /\ \/ Listen \/ StartPool \/ Accept \/ SetRunning \/ DispatchControl
     \/ \E c \in Conns : \/ Connect(c) \/ AcceptHandle(c) \/ AcceptFails(c)
                         \/ CloseConn(c) \/ ReleaseConn(c)
     \/ RunControl \/ \E l \in Loops : EnterIOLoop(l) \/ RunAttach(l) \/ RunStop(l)
     \/ BeginStop \/ StopPool \/ DestroyServer \/ JoinLoops

ServerSpec == ServerInit /\ [][ServerNext]_srv

\* The control loop runs its queue, as every running IO loop does, and a stop or a
\* destructor that was begun goes on.
ServerWorks(A) == aborted = "no" /\ pc # "gone" /\ UNCHANGED <<mode, num>> /\ A
RunIOLoop(l) == l \in Loops /\ (EnterIOLoop(l) \/ RunAttach(l) \/ RunStop(l))
ServerFairness ==
  /\ WF_srv(ServerWorks(RunControl)) /\ WF_srv(ServerWorks(StopPool \/ JoinLoops))
  /\ \A l \in 1..MaxThreadNum : WF_srv(ServerWorks(RunIOLoop(l)))
ServerFairSpec == ServerSpec /\ ServerFairness

-----------------------------------------------------------------------------
(* Properties.                                                             *)

\* handleNewConnection's assertion (tcp_server.cpp:184): no connection is handed
\* to the server before it is RUNNING or after it was stopped.
AcceptedWhileRunning == aborted # "not running"

\* The assertion fails only in mode 1, while start has attached the listen channel to
\* a loop that is dispatched already and not yet stored RUNNING; never in mode 0,
\* and never after stop, however clients and stop interleave.
EarlyNeedsMode1 == aborted = "not running" => mode = 1 /\ pc = "running" /\ serverState = "INIT"

\* The destructor has destroyed conns_table_.
TableGone == pc \in {"joining", "gone"}

\* The table holds exactly the connections that are not closed, and closed ones
\* whose removal is on its way: none is forgotten in it, none drops out early.
TableIsAccurate ==
  ~TableGone =>
    \A c \in Conns :
      /\ conn[c] \in {"new", "open"} => c \in table
      /\ conn[c] = "closed" /\ c \in table =>
           \E i \in DOMAIN ctlq : ctlq[i] = Task("remove", c)

\* "We only have one container to store connections And want to reduce the lib lock"
\* (tcp_server.cpp:211): only the control loop's thread changes conns_table_.
TableHasOneThread == touched \subseteq {0}

Over == pc = "gone" \/ aborted # "no"

\* A stopped server takes no further connections, and stopping loses none that it
\* had accepted: each is still attached, since loops drain before they leave.
AcceptedIsAttached ==
  \A c \in Conns : conn[c] = "new" ~> conn[c] \in {"open", "closed"} \/ Over

\* Whatever loop it was on, a closed connection leaves the table.
ClosedLeavesTable == \A c \in Conns : conn[c] = "closed" ~> c \notin table \/ Over

\* The destructor does not wait for ever: every loop it joins was told to stop.
DestructorReturns == pc = "joining" ~> Over

\* ~Channel's "assert(event_ == NULL)" (atp_channel.cpp:55) guards the destructor: it
\* returns only with every accepted connection closed, or attached and held by the
\* application.  None is still waiting to be attached then, though stop closes no
\* connection and the loops attach what was queued after conns_table_ is gone.
DestroyNeedsClosed ==
  pc = "gone" /\ aborted = "no" =>
    \A c \in Conns : conn[c] # "new" /\ (conn[c] = "open" => c \in holding)

\* ~Server's own assertion (tcp_server.cpp:76) holds after stop has returned, unless
\* stop ran while start had not stored RUNNING yet, which then hides the STOPPED.
DestroyNeedsStop == aborted = "not stopped" /\ listener = "closed" => stopping \/ earlyStop

\* conns_table_ has the live connections, and closed ones about to leave it, and only
\* the control loop's thread changes it.
TableIsKept == TableIsAccurate /\ TableHasOneThread

\* handleNewConnection's assertion fails only while start runs in mode 1, ~Server's
\* only without a stop or for a stop that overlapped start, and the destructor returns
\* with no connection of its own that is not closed.
ServerAborts == EarlyNeedsMode1 /\ DestroyNeedsStop /\ DestroyNeedsClosed

\* An accepted connection is attached in the end, stop or no stop, a closed one
\* leaves the table, and the destructor returns.
ConnectionsSettle == AcceptedIsAttached /\ ClosedLeavesTable /\ DestructorReturns
=============================================================================
