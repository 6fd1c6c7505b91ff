---------------------------- MODULE ServerProofs ----------------------------
(* Theorems about EventLoopPool, for every number of threads and every width *)
(* of the two integer types, and about TcpServer, for every set of           *)
(* connections and every number of IO loops.                                 *)
EXTENDS EventLoopPool, TcpServer, TLAPS

-----------------------------------------------------------------------------
(* The server: its inductive invariant.                                    *)

Stages   == {"client", "backlog", "new", "open", "closed"}
IoTasks  == {Task("attach", c) : c \in Conns} \cup {Task("stop", 0)}
CtlTasks == {Task("remove", c) : c \in Conns} \cup {Task("listener", 0)}

TypeInv ==
  /\ mode \in {0, 1} /\ num \in Nat
  /\ ctl \in BOOLEAN /\ stopping \in BOOLEAN /\ earlyStop \in BOOLEAN
  /\ ctlq \in Seq(CtlTasks)
  /\ conn \in [Conns -> Stages] /\ loop \in [Conns -> 0..num]
  /\ table \subseteq Conns
  /\ ioq \in [Loops -> Seq(IoTasks)]
  /\ DOMAIN io = Loops

\* How far start and stop are: the control loop is dispatched in mode 0 only
\* after RUNNING is stored, the listen channel is attached after accept, it is
\* closed once stop has begun, and what stop leaves is a closed listener and STOPPED.
Early == pc \in {"listen", "pool", "accept"}
PhaseInv ==
  /\ pc \in {"listen", "pool", "accept", "running", "dispatch", "up", "joining", "gone"}
  /\ serverState \in {"INIT", "RUNNING", "STOPPING", "STOPPED"}
  /\ Early => serverState = "INIT" /\ listener \in {"none", "listening"} /\ ~stopping
  /\ serverState = "INIT" => Early \/ pc = "running"
  /\ mode = 0 => (ctl <=> pc = "up") /\ ~TableGone
  /\ pc = "dispatch" => mode = 0 /\ serverState = "RUNNING"
  /\ listener = "attached" => serverState \in {"INIT", "RUNNING"}
  /\ serverState \in {"STOPPING", "STOPPED"} => listener = "closed"
  /\ stopping => listener = "closed" /\ serverState # "STOPPED"
  /\ listener = "closed" /\ ~earlyStop => pc \in {"up", "joining", "gone"}
  /\ listener = "closed" /\ ~earlyStop /\ ~stopping => serverState = "STOPPED"
  /\ earlyStop => mode = 1
  /\ TableGone => serverState = "STOPPED"

\* The listen channel is attached through the control loop's queue in mode 1 only.
ListenerQueued == \A k \in 1..Len(ctlq) : ctlq[k].op = "listener" => mode = 1 /\ ~Early

\* Entry k of a loop's queue is task t, or attaches connection c, or stops the loop.
EntryAt(q, l, k, t)  == l \in Loops /\ k \in 1..Len(q[l]) /\ q[l][k] = t
AttachAt(q, l, k, c) == EntryAt(q, l, k, Task("attach", c))
StopAt(q, l, k)      == EntryAt(q, l, k, Task("stop", 0))
RemoveAt(q, k, c)    == k \in 1..Len(q) /\ q[k] = Task("remove", c)

\* A connection waits for at most one attach, and until it has run is neither
\* open nor closed: an attach never opens a closed connection again.
AttachInv ==
  /\ \A c \in Conns, l \in Loops, k \in Nat : AttachAt(ioq, l, k, c) => conn[c] = "new"
  /\ \A c \in Conns, l, m \in Loops, j, k \in Nat :
       AttachAt(ioq, l, j, c) /\ AttachAt(ioq, m, k, c) => l = m /\ j = k

\* Only a closed connection is removed, and every live one is in the table, until
\* the destructor has destroyed it.
RemoveInv ==
  \A c \in Conns :
    /\ \A k \in Nat : RemoveAt(ctlq, k, c) => conn[c] = "closed"
    /\ ~TableGone =>
         /\ conn[c] \in {"new", "open"} => c \in table
         /\ conn[c] = "closed" /\ c \in table => \E k \in Nat : RemoveAt(ctlq, k, c)

\* Nothing is queued behind a stop, which ends what stop began: a loop that a queued
\* stop made leave has attached every connection that was given to it.
StopPlace(l, k) == k = Len(ioq[l]) /\ listener = "closed" /\ ~stopping
QueueInv ==
  /\ \A c \in Conns : conn[c] = "new" => \E k \in Nat : AttachAt(ioq, loop[c], k, c)
  /\ \A l \in Loops, k \in Nat : StopAt(ioq, l, k) => StopPlace(l, k)
  /\ mode = 1 => \A l \in Loops : io[l] = "stopped" => ioq[l] = <<>> /\ listener = "closed" /\ ~stopping

\* After the table only the application owns open connections.
HeldInv == TableGone => table = {} /\ \A c \in Conns : conn[c] = "open" => c \in holding

\* A failed assertion ends the run: what it leaves half done does not count.
Sane == PhaseInv /\ ListenerQueued /\ QueueInv /\ HeldInv
Inv == TypeInv /\ AttachInv /\ RemoveInv /\ TableHasOneThread /\ (aborted = "no" => Sane)
Safe == Inv /\ ServerAborts

LEMMA InitInv == ServerInit => Safe
<1> SUFFICES ASSUME ServerInit PROVE Safe
  OBVIOUS
<1>1. TypeInv
  <2>1. num \in Nat /\ mode \in {0, 1} /\ ctlq \in Seq(CtlTasks) /\ table \subseteq Conns
    BY DEF ServerInit
  <2>2. /\ conn \in [Conns -> Stages] /\ loop \in [Conns -> 0..num]
        /\ ioq \in [Loops -> Seq(IoTasks)] /\ DOMAIN io = Loops
    BY <2>1 DEF ServerInit, Stages
  <2>3. ctl \in BOOLEAN /\ stopping \in BOOLEAN /\ earlyStop \in BOOLEAN
    BY Zenon DEF ServerInit
  <2> QED
    BY <2>1, <2>2, <2>3 DEF TypeInv
<1>2. ctlq = <<>> /\ Len(ctlq) = 0 /\ pc = "listen" /\ serverState = "INIT" /\ listener = "none" /\ ~stopping /\ ~earlyStop
  BY DEF ServerInit
<1>3. PhaseInv /\ ~TableGone
  <2>1. mode = 0 => ~ctl
    <3>1. mode = 0 => ~(mode = 1)
      OBVIOUS
    <3> QED
      BY <3>1, Zenon DEF ServerInit
  <2> QED
    BY <1>2, <2>1 DEF PhaseInv, Early, TableGone
<1>4. ListenerQueued
  BY <1>2 DEF ListenerQueued
<1>5. AttachInv
  BY DEF ServerInit, AttachInv, AttachAt, EntryAt
<1>6. RemoveInv
  BY DEF ServerInit, RemoveInv, RemoveAt
<1>7. QueueInv
  BY DEF ServerInit, QueueInv, StopAt, EntryAt
<1>8. HeldInv
  BY <1>3 DEF HeldInv
<1>9. TableHasOneThread /\ ServerAborts
  BY DEF ServerInit, TableHasOneThread, ServerAborts, EarlyNeedsMode1, DestroyNeedsStop, DestroyNeedsClosed
<1> QED
  BY Zenon, <1>1, <1>3, <1>4, <1>5, <1>6, <1>7, <1>8, <1>9 DEF Inv, Safe, Sane

\* What the head of a queue is.
LEMMA HeadTask ==
  ASSUME NEW T, NEW q \in Seq(T), q # <<>>
  PROVE  /\ Head(q) \in T /\ Head(q) = q[1] /\ Len(q) \in Nat \ {0}
         /\ Tail(q) \in Seq(T) /\ Len(Tail(q)) = Len(q) - 1
         /\ \A k \in 1..(Len(q) - 1) : Tail(q)[k] = q[k + 1]
OBVIOUS

\* What Append does to a queue.
LEMMA AppendTask ==
  ASSUME NEW T, NEW q \in Seq(T), NEW t \in T
  PROVE  /\ Append(q, t) \in Seq(T) /\ Len(Append(q, t)) = Len(q) + 1 /\ Len(q) \in Nat
         /\ Append(q, t)[Len(q) + 1] = t
         /\ \A k \in 1..Len(q) : Append(q, t)[k] = q[k]
OBVIOUS

\* handleCloseConnection removes the connection, or queues its removal.
LEMMA CloseQueues ==
  ASSUME TypeInv, NEW c \in Conns, NEW th, HandleCloseConnection(c, th)
  PROVE  /\ ctlq' \in Seq(CtlTasks) /\ table' \subseteq Conns
         /\ ctlq' = ctlq \/ ctlq' = Append(ctlq, Task("remove", c))
<1>1. ctlq \in Seq(CtlTasks) /\ table \subseteq Conns /\ Task("remove", c) \in CtlTasks
  BY DEF TypeInv, CtlTasks
<1>2. Append(ctlq, Task("remove", c)) \in Seq(CtlTasks)
  BY <1>1, AppendTask
<1> QED
  BY <1>1, <1>2, Zenon DEF HandleCloseConnection, HashTableRemove

\* The head of loop l's queue is the attach of a connection.
LEMMA HeadAttach ==
  ASSUME TypeInv, NEW l \in Loops, RunAttach(l)
  PROVE  Head(ioq[l]).conn \in Conns /\ AttachAt(ioq, l, 1, Head(ioq[l]).conn)
<1>1. ioq[l] \in Seq(IoTasks) /\ ioq[l] # <<>> /\ Head(ioq[l]).op = "attach"
  BY DEF TypeInv, RunAttach
<1>2. Head(ioq[l]) \in IoTasks /\ Head(ioq[l]) = ioq[l][1] /\ 1 \in 1..Len(ioq[l])
  BY <1>1, HeadTask
<1>3. Task("stop", 0).op # "attach"
  BY DEF Task
<1>4. PICK c \in Conns : Head(ioq[l]) = Task("attach", c)
  BY <1>1, <1>2, <1>3 DEF IoTasks
<1>5. Head(ioq[l]).conn = c
  BY <1>4 DEF Task
<1> QED
  BY <1>2, <1>4, <1>5 DEF AttachAt, EntryAt

LEMMA ServerTypeStep == Inv /\ [ServerNext]_srv => TypeInv'
<1> SUFFICES ASSUME Inv, [ServerNext]_srv PROVE TypeInv'
  OBVIOUS
<1> USE DEF net, life, Loops, Step
<1>0. TypeInv /\ UNCHANGED <<mode, num>>
  BY DEF Inv, ServerNext, srv
<1>1. CASE Listen \/ SetRunning \/ DispatchControl \/ JoinLoops
  BY <1>0, <1>1, Zenon DEF Listen, SetRunning, DispatchControl, JoinLoops, TypeInv
<1>2. CASE StartPool \/ (\E l \in Loops : EnterIOLoop(l))
  BY <1>0, <1>2 DEF StartPool, EnterIOLoop, TypeInv
<1>3. CASE Accept
  <2>1. Task("listener", 0) \in CtlTasks
    BY DEF CtlTasks
  <2>2. ctlq' \in Seq(CtlTasks)
    <3>1. ctlq \in Seq(CtlTasks)
      BY <1>0 DEF TypeInv
    <3>2. Append(ctlq, Task("listener", 0)) \in Seq(CtlTasks)
      BY <2>1, <3>1, AppendTask
    <3> QED
      BY <1>3, <3>1, <3>2, Zenon DEF Accept
  <2> QED
    BY <1>0, <1>3, <2>2 DEF Accept, TypeInv
<1>4. ASSUME NEW c \in Conns, Connect(c) \/ AcceptFails(c) PROVE TypeInv'
  BY <1>0, <1>4 DEF Connect, AcceptFails, TypeInv, Stages
<1>5. ASSUME NEW c \in Conns, AcceptHandle(c) PROVE TypeInv'
  <2>1. CASE serverState = "RUNNING"
    <3>1. PICK l \in IOLoopChoice :
            /\ loop' = [loop EXCEPT ![c] = l]
            /\ table' = table \cup {c}
            /\ conn' = [conn EXCEPT ![c] = IF Inline(l) THEN "open" ELSE "new"]
            /\ ioq' = IF Inline(l) THEN ioq
                      ELSE [ioq EXCEPT ![l] = Append(@, Task("attach", c))]
      BY <1>5, <2>1 DEF AcceptHandle
    <3>2. l \in 0..num
      BY <1>0 DEF IOLoopChoice, TypeInv
    <3>3. conn' \in [Conns -> Stages] /\ loop' \in [Conns -> 0..num]
      BY <1>0, <3>1, <3>2 DEF TypeInv, Stages
    <3>4. Task("attach", c) \in IoTasks
      BY DEF IoTasks
    <3>5. ioq' \in [Loops -> Seq(IoTasks)]
      BY <1>0, <3>1, <3>4, AppendTask, Zenon DEF TypeInv
    <3> QED
      BY Zenon, <1>0, <1>5, <3>1, <3>3, <3>5 DEF AcceptHandle, TypeInv
  <2>2. CASE serverState # "RUNNING"
    BY <1>0, <1>5, <2>2, Zenon DEF AcceptHandle, TypeInv
  <2> QED
    BY <2>1, <2>2
<1>6. ASSUME NEW c \in Conns, CloseConn(c) PROVE TypeInv'
  <2>1. ctlq' \in Seq(CtlTasks) /\ table' \subseteq Conns
    BY <1>0, <1>6, CloseQueues, Zenon DEF CloseConn
  <2>2. conn' \in [Conns -> Stages]
    BY <1>0, <1>6 DEF CloseConn, TypeInv, Stages
  <2> QED
    BY Zenon, <1>0, <1>6, <2>1, <2>2 DEF CloseConn, TypeInv
<1>7. CASE RunControl
  <2>1. ctlq' \in Seq(CtlTasks)
    BY <1>0, <1>7, HeadTask DEF RunControl, TypeInv
  <2>2. table' \subseteq Conns
    BY Zenon, <1>0, <1>7 DEF RunControl, HashTableRemove, TypeInv
  <2> QED
    BY Zenon, <1>0, <1>7, <2>1, <2>2 DEF RunControl, TypeInv
<1>8. ASSUME NEW l \in Loops, RunAttach(l) \/ RunStop(l) PROVE TypeInv'
  <2>1. ioq[l] \in Seq(IoTasks) /\ ioq[l] # <<>>
    BY <1>0, <1>8 DEF RunAttach, RunStop, TypeInv
  <2>2. ioq' \in [Loops -> Seq(IoTasks)]
    <3>1. Tail(ioq[l]) \in Seq(IoTasks)
      BY <2>1, HeadTask
    <3> QED
      BY <1>0, <1>8, <3>1, Zenon DEF RunAttach, RunStop, TypeInv
  <2>3. CASE RunStop(l)
    BY Zenon, <1>0, <2>2, <2>3 DEF RunStop, TypeInv
  <2>4. CASE RunAttach(l)
    <3>1. PICK h \in Conns : h = Head(ioq[l]).conn
      BY Zenon, <1>0, <2>4, HeadAttach
    <3>2. \/ HandleCloseConnection(h, l) /\ conn' = [conn EXCEPT ![h] = "closed"]
          \/ UNCHANGED <<ctlq, table>> /\ conn' = [conn EXCEPT ![h] = "open"]
      BY Zenon, <2>4, <3>1 DEF RunAttach
    <3>3. ctlq' \in Seq(CtlTasks) /\ table' \subseteq Conns
      BY <1>0, <3>2, CloseQueues, Zenon DEF TypeInv
    <3>4. conn' \in [Conns -> Stages]
      BY <1>0, <3>2, Zenon DEF TypeInv, Stages
    <3> QED
      BY Zenon, <1>0, <2>2, <2>4, <3>3, <3>4 DEF RunAttach, TypeInv
  <2> QED
    BY <1>8, <2>3, <2>4
<1>9. CASE StopPool
  <2>1. Task("stop", 0) \in IoTasks
    BY DEF IoTasks
  <2>2. ioq' \in [Loops -> Seq(IoTasks)]
    BY <1>0, <1>9, <2>1, AppendTask DEF StopPool, TypeInv
  <2>3. DOMAIN io' = Loops
    BY <1>9 DEF StopPool
  <2> QED
    BY Zenon, <1>0, <1>9, <2>2, <2>3 DEF StopPool, TypeInv
<1>10. CASE UNCHANGED srv
  BY <1>0, <1>10 DEF srv, TypeInv
<1>11. CASE BeginStop
  <2>1. earlyStop' \in BOOLEAN /\ stopping' \in BOOLEAN
    BY <1>11 DEF BeginStop
  <2> QED
    BY Zenon, <1>0, <1>11, <2>1 DEF BeginStop, TypeInv
<1>12. CASE DestroyServer
  BY Zenon, <1>0, <1>12 DEF DestroyServer, TypeInv
<1>13. ASSUME NEW c \in Conns, ReleaseConn(c) PROVE TypeInv'
  BY Zenon, <1>0, <1>13 DEF ReleaseConn, TypeInv
<1> QED
  BY Zenon, <1>1, <1>2, <1>3, <1>4, <1>5, <1>6, <1>7, <1>8, <1>9, <1>10, <1>11, <1>12, <1>13 DEF ServerNext

LEMMA PhaseStep ==
  ASSUME TypeInv, PhaseInv, ListenerQueued, ServerNext, aborted' = "no"
  PROVE  PhaseInv'
<1> USE DEF net, life, Step, Early, TableGone
<1>0. UNCHANGED <<mode, num>> /\ mode \in {0, 1} /\ ctl \in BOOLEAN /\ stopping \in BOOLEAN /\ earlyStop \in BOOLEAN
  BY DEF ServerNext, TypeInv
<1>1. ASSUME UNCHANGED <<pc, life, listener, ctl>> PROVE PhaseInv'
  BY Zenon, <1>0, <1>1 DEF PhaseInv
<1>2. CASE Listen \/ StartPool \/ DispatchControl \/ JoinLoops
  <2>1. CASE Listen
    BY <1>0, <2>1 DEF Listen, PhaseInv
  <2>2. CASE StartPool
    BY <1>0, <2>2 DEF StartPool, PhaseInv
  <2>3. CASE DispatchControl
    BY <1>0, <2>3 DEF DispatchControl, PhaseInv
  <2>4. CASE JoinLoops
    <3>1. pc = "joining" /\ pc' = "gone" /\ UNCHANGED <<life, listener>>
      BY Zenon, <2>4 DEF JoinLoops
    <3> QED
      BY <1>0, <3>1 DEF PhaseInv
  <2> QED
    BY <1>2, <2>1, <2>2, <2>3, <2>4
<1>3. CASE Accept
  BY <1>0, <1>3 DEF Accept, PhaseInv
<1>4. CASE SetRunning
  BY <1>0, <1>4 DEF SetRunning, PhaseInv
<1>5. CASE BeginStop
  <2>1. /\ ctl \/ pc = "listen"
        /\ ~stopping /\ pc # "joining" /\ ~Early
        /\ serverState' = "STOPPING" /\ stopping' = TRUE /\ listener' = "closed"
        /\ earlyStop' = (earlyStop \/ pc = "running")
        /\ UNCHANGED <<pc, ctl>>
    BY Zenon, <1>5 DEF BeginStop
  <2>2. pc # "gone"
    BY Zenon DEF ServerNext
  <2> QED
    BY <1>0, <2>1, <2>2 DEF PhaseInv
<1>6. CASE StopPool
  <2>1. stopping /\ stopping' = FALSE /\ serverState' = "STOPPED" /\ UNCHANGED <<pc, earlyStop, listener, ctl>>
    BY Zenon, <1>6 DEF StopPool
  <2> QED
    BY <1>0, <2>1 DEF PhaseInv
<1>7. CASE DestroyServer
  <2>1. mode = 1 /\ pc = "up" /\ pc' = "joining" /\ UNCHANGED <<life, listener, ctl>>
    BY Zenon, <1>7 DEF DestroyServer
  <2>2. serverState = "STOPPED"
    BY Zenon, <1>7 DEF DestroyServer
  <2> QED
    BY <1>0, <2>1, <2>2 DEF PhaseInv
<1>8. CASE RunControl
  <2>1. ctlq \in Seq(CtlTasks) /\ ctlq # <<>> /\ UNCHANGED <<pc, life, ctl>>
    BY <1>8, Zenon DEF RunControl, TypeInv
  <2>2. CASE Head(ctlq).op = "listener" /\ listener = "listening"
    <3>1. mode = 1 /\ ~Early
      <4>1. Head(ctlq) = ctlq[1] /\ 1 \in 1..Len(ctlq)
        BY <2>1, HeadTask
      <4> QED
        BY Zenon, <2>2, <4>1 DEF ListenerQueued
    <3>2. listener' = "attached"
      <4>1. "listener" # "remove"
        OBVIOUS
      <4> QED
        BY Zenon, <1>8, <2>2, <4>1 DEF RunControl
    <3> QED
      BY <1>0, <2>1, <2>2, <3>1, <3>2 DEF PhaseInv
  <2>3. CASE ~(Head(ctlq).op = "listener" /\ listener = "listening")
    <3>1. listener' = listener
      BY Zenon, <1>8, <2>3 DEF RunControl
    <3> QED
      BY Zenon, <1>1, <2>1, <3>1
  <2> QED
    BY <2>2, <2>3
<1>9. ASSUME NEW c \in Conns,
             Connect(c) \/ AcceptHandle(c) \/ AcceptFails(c) \/ CloseConn(c) \/ ReleaseConn(c)
      PROVE  PhaseInv'
  BY <1>1, <1>9, Zenon DEF Connect, AcceptHandle, AcceptFails, CloseConn, ReleaseConn
<1>10. ASSUME NEW l \in Loops, EnterIOLoop(l) \/ RunAttach(l) \/ RunStop(l) PROVE PhaseInv'
  BY <1>1, <1>10, Zenon DEF EnterIOLoop, RunAttach, RunStop
<1> QED
  BY Zenon, <1>2, <1>3, <1>4, <1>5, <1>6, <1>7, <1>8, <1>9, <1>10 DEF ServerNext

\* Only accept queues the listener's attach, and in mode 1.
LEMMA ListenerStep ==
  ASSUME TypeInv, ListenerQueued, ServerNext
  PROVE  ListenerQueued'
<1> USE DEF net, life, Step
<1>0. UNCHANGED <<mode, num>> /\ mode \in {0, 1} /\ ctlq \in Seq(CtlTasks)
  BY DEF ServerNext, TypeInv
<1>1. Early' => Early
  BY Zenon DEF ServerNext, Early, Listen, StartPool, Accept, SetRunning, DispatchControl, Connect, AcceptHandle,
     AcceptFails, CloseConn, ReleaseConn, RunControl, EnterIOLoop, RunAttach, RunStop, BeginStop, StopPool,
     DestroyServer, JoinLoops
<1>2. ASSUME ctlq' = ctlq PROVE ListenerQueued'
  BY Zenon, <1>0, <1>1, <1>2 DEF ListenerQueued
<1>3. ASSUME NEW c \in Conns, NEW th, HandleCloseConnection(c, th) PROVE ListenerQueued'
  <2>1. ctlq' = ctlq \/ ctlq' = Append(ctlq, Task("remove", c))
    BY Zenon, <1>3, CloseQueues
  <2>2. Task("remove", c) \in CtlTasks /\ Task("remove", c).op # "listener"
    BY DEF CtlTasks, Task
  <2>3. CASE ctlq' = Append(ctlq, Task("remove", c))
    <3>1. \A k \in 1..Len(ctlq') : (k \in 1..Len(ctlq) /\ ctlq'[k] = ctlq[k]) \/ ctlq'[k] = Task("remove", c)
      BY <1>0, <2>2, <2>3
    <3> QED
      BY Zenon, <1>0, <1>1, <2>2, <3>1 DEF ListenerQueued
  <2> QED
    BY <1>2, <2>1, <2>3
<1>4. CASE Accept
  <2>1. CASE mode = 0
    BY <1>2, <1>4, <2>1 DEF Accept
  <2>2. CASE mode # 0
    <3>1. mode = 1 /\ pc' = "running"
      BY <1>0, <1>4, <2>2 DEF Accept
    <3> QED
      BY <1>0, <3>1 DEF ListenerQueued, Early
  <2> QED
    BY <2>1, <2>2
<1>5. CASE RunControl
  <2>1. ctlq # <<>> /\ ctlq' = Tail(ctlq)
    BY Zenon, <1>5 DEF RunControl
  <2>2. \A k \in 1..Len(ctlq') : k + 1 \in 1..Len(ctlq) /\ ctlq'[k] = ctlq[k + 1]
    BY <1>0, <2>1
  <2> QED
    BY Zenon, <1>0, <1>1, <2>2 DEF ListenerQueued
<1>6. ASSUME NEW l \in Loops, RunAttach(l) PROVE ListenerQueued'
  BY Zenon, <1>2, <1>3, <1>6, HeadAttach DEF RunAttach
<1>7. ASSUME NEW c \in Conns, CloseConn(c) PROVE ListenerQueued'
  BY Zenon, <1>3, <1>7 DEF CloseConn
<1>8. CASE Listen \/ StartPool \/ SetRunning \/ DispatchControl \/ BeginStop \/ StopPool \/ DestroyServer \/ JoinLoops
  BY Zenon, <1>2, <1>8 DEF Listen, StartPool, SetRunning, DispatchControl, BeginStop, StopPool, DestroyServer, JoinLoops
<1>9. ASSUME NEW c \in Conns, Connect(c) \/ AcceptHandle(c) \/ AcceptFails(c) \/ ReleaseConn(c)
      PROVE  ListenerQueued'
  BY Zenon, <1>2, <1>9 DEF Connect, AcceptHandle, AcceptFails, ReleaseConn
<1>10. ASSUME NEW l \in Loops, EnterIOLoop(l) \/ RunStop(l) PROVE ListenerQueued'
  BY Zenon, <1>2, <1>10 DEF EnterIOLoop, RunStop
<1> QED
  BY Zenon, <1>4, <1>5, <1>6, <1>7, <1>8, <1>9, <1>10 DEF ServerNext

\* Taking the head of a loop's queue moves its entries one place forward.
LEMMA TailEntry ==
  ASSUME TypeInv, NEW l \in Loops, ioq[l] # <<>>, ioq' = [ioq EXCEPT ![l] = Tail(@)]
  PROVE  /\ \A t : \A k \in Nat : EntryAt(ioq', l, k, t) <=> k >= 1 /\ EntryAt(ioq, l, k + 1, t)
         /\ \A t : \A m \in Loops, k \in Nat : m # l => (EntryAt(ioq', m, k, t) <=> EntryAt(ioq, m, k, t))
         /\ Len(ioq'[l]) = Len(ioq[l]) - 1 /\ Len(ioq[l]) \in Nat
         /\ \A m \in Loops \ {l} : ioq'[m] = ioq[m]
<1>1. ioq[l] \in Seq(IoTasks)
  BY DEF TypeInv
<1>2. ioq'[l] = Tail(ioq[l]) /\ \A m \in Loops \ {l} : ioq'[m] = ioq[m]
  BY DEF TypeInv
<1>3. /\ Len(ioq'[l]) = Len(ioq[l]) - 1 /\ Len(ioq[l]) \in Nat
      /\ \A k \in 1..(Len(ioq[l]) - 1) : ioq'[l][k] = ioq[l][k + 1]
  <2>1. /\ Len(Tail(ioq[l])) = Len(ioq[l]) - 1 /\ Len(ioq[l]) \in Nat
        /\ \A k \in 1..(Len(ioq[l]) - 1) : Tail(ioq[l])[k] = ioq[l][k + 1]
    BY <1>1, HeadTask
  <2> QED
    BY Zenon, <1>2, <2>1
<1>4. ASSUME NEW t, NEW k \in Nat
      PROVE  EntryAt(ioq', l, k, t) <=> k >= 1 /\ EntryAt(ioq, l, k + 1, t)
  <2>1. k \in 1..Len(ioq'[l]) <=> k >= 1 /\ k + 1 \in 1..Len(ioq[l])
    BY <1>3
  <2>2. k \in 1..Len(ioq'[l]) => ioq'[l][k] = ioq[l][k + 1]
    BY <1>3
  <2> QED
    BY Zenon, <2>1, <2>2 DEF EntryAt
<1>5. ASSUME NEW t, NEW m \in Loops, NEW k \in Nat, m # l
      PROVE  EntryAt(ioq', m, k, t) <=> EntryAt(ioq, m, k, t)
  BY <1>2, <1>5 DEF EntryAt
<1> QED
  BY <1>2, <1>3, <1>4, <1>5

\* Queueing a task to a loop leaves its earlier entries where they are.
LEMMA AppendEntry ==
  ASSUME TypeInv, NEW m \in Loops, NEW t0 \in IoTasks, ioq'[m] = Append(ioq[m], t0)
  PROVE  /\ \A t : \A k \in Nat :
              EntryAt(ioq', m, k, t) <=> EntryAt(ioq, m, k, t) \/ (k = Len(ioq[m]) + 1 /\ t = t0)
         /\ Len(ioq'[m]) = Len(ioq[m]) + 1 /\ Len(ioq[m]) \in Nat
<1>1. ioq[m] \in Seq(IoTasks)
  BY DEF TypeInv
<1>2. /\ Len(ioq'[m]) = Len(ioq[m]) + 1 /\ Len(ioq[m]) \in Nat
      /\ ioq'[m][Len(ioq[m]) + 1] = t0
      /\ \A k \in 1..Len(ioq[m]) : ioq'[m][k] = ioq[m][k]
  BY <1>1, AppendTask
<1>3. ASSUME NEW t, NEW k \in Nat
      PROVE  EntryAt(ioq', m, k, t) <=> EntryAt(ioq, m, k, t) \/ (k = Len(ioq[m]) + 1 /\ t = t0)
  <2>1. /\ k \in 1..Len(ioq'[m]) <=> k \in 1..Len(ioq[m]) \/ k = Len(ioq[m]) + 1
        /\ k = Len(ioq[m]) + 1 => k \notin 1..Len(ioq[m])
    BY <1>2
  <2> QED
    BY Zenon, <1>2, <2>1 DEF EntryAt
<1> QED
  BY <1>2, <1>3

\* The tasks of different connections, and of different kinds, differ.
LEMMA TasksDiffer ==
  /\ \A c, d : Task("attach", c) = Task("attach", d) => c = d
  /\ \A c, d : Task("remove", c) = Task("remove", d) => c = d
  /\ \A c, d : Task("attach", c) # Task("stop", d) /\ Task("remove", c) # Task("listener", d)
BY DEF Task

\* Where AcceptHandle puts a connection on a running server.
Handed(c, l) ==
  /\ loop' = [loop EXCEPT ![c] = l]
  /\ conn' = [conn EXCEPT ![c] = IF Inline(l) THEN "open" ELSE "new"]
  /\ ioq' = IF Inline(l) THEN ioq ELSE [ioq EXCEPT ![l] = Append(@, Task("attach", c))]

\* A connection that is handed over through a queue has the queue's last entry.
LEMMA HandedOver ==
  ASSUME TypeInv, NEW c \in Conns, NEW l \in IOLoopChoice, Handed(c, l), ~Inline(l)
  PROVE  /\ l \in Loops /\ conn'[c] = "new" /\ loop'[c] = l
         /\ \A d \in Conns \ {c} : conn'[d] = conn[d] /\ loop'[d] = loop[d]
         /\ \A m \in Loops \ {l} : ioq'[m] = ioq[m]
         /\ \A t : \A m \in Loops, k \in Nat :
              EntryAt(ioq', m, k, t) <=>
                EntryAt(ioq, m, k, t) \/ (m = l /\ k = Len(ioq[l]) + 1 /\ t = Task("attach", c))
         /\ Len(ioq[l]) + 1 \in Nat
<1>1. l \in Loops
  BY DEF IOLoopChoice, Inline
<1>2. Task("attach", c) \in IoTasks
  BY DEF IoTasks
<1>3. ioq'[l] = Append(ioq[l], Task("attach", c)) /\ \A m \in Loops \ {l} : ioq'[m] = ioq[m]
  BY Zenon, <1>1 DEF TypeInv, Handed
<1>4. conn'[c] = "new" /\ loop'[c] = l /\ \A d \in Conns \ {c} : conn'[d] = conn[d] /\ loop'[d] = loop[d]
  BY Zenon DEF TypeInv, Handed
<1>5. /\ \A t : \A k \in Nat :
           EntryAt(ioq', l, k, t) <=> EntryAt(ioq, l, k, t) \/ (k = Len(ioq[l]) + 1 /\ t = Task("attach", c))
      /\ Len(ioq[l]) \in Nat
  BY <1>1, <1>2, <1>3, AppendEntry, Zenon
<1>6. \A t : \A m \in Loops, k \in Nat : m # l => (EntryAt(ioq', m, k, t) <=> EntryAt(ioq, m, k, t))
  BY Zenon, <1>3 DEF EntryAt
<1>7. Len(ioq[l]) + 1 \in Nat
  BY <1>5
<1> QED
  BY Zenon, <1>1, <1>3, <1>4, <1>5, <1>6, <1>7

\* An attach is queued for a connection just accepted, and run once.
LEMMA AttachStep == Inv /\ [ServerNext]_srv => AttachInv'
<1> SUFFICES ASSUME Inv, [ServerNext]_srv PROVE AttachInv'
  OBVIOUS
<1> USE DEF net, life, Step
<1>0. TypeInv /\ AttachInv /\ UNCHANGED <<mode, num>> /\ Loops' = Loops
  BY DEF Inv, ServerNext, srv, Loops
<1>s. ASSUME \A c \in Conns, m \in Loops, k \in Nat : AttachAt(ioq', m, k, c) => conn'[c] = "new",
             \A c \in Conns, l, m \in Loops, j, k \in Nat :
               AttachAt(ioq', l, j, c) /\ AttachAt(ioq', m, k, c) => l = m /\ j = k
      PROVE  AttachInv'
  BY <1>0, <1>s DEF AttachInv, AttachAt, EntryAt
<1>1. ASSUME ioq' = ioq, \A c \in Conns : conn[c] = "new" => conn'[c] = "new"
      PROVE  AttachInv'
  BY <1>0, <1>1 DEF AttachInv, AttachAt, EntryAt
<1>2. CASE Listen \/ StartPool \/ Accept \/ SetRunning \/ DispatchControl \/ RunControl \/ BeginStop
           \/ DestroyServer \/ JoinLoops \/ UNCHANGED srv
  <2>1. UNCHANGED <<ioq, conn>>
    BY <1>2, Zenon DEF Listen, StartPool, Accept, SetRunning, DispatchControl, RunControl, BeginStop, DestroyServer, JoinLoops, srv
  <2> QED
    BY <1>1, <2>1, Zenon
<1>3. ASSUME NEW c \in Conns, Connect(c) \/ AcceptFails(c) \/ CloseConn(c) \/ ReleaseConn(c) PROVE AttachInv'
  <2>1. ioq' = ioq /\ \A d \in Conns : conn[d] = "new" => conn'[d] = "new"
    BY <1>0, <1>3 DEF Connect, AcceptFails, CloseConn, ReleaseConn, TypeInv
  <2> QED
    BY <1>1, <2>1, Zenon
<1>4. ASSUME NEW l \in Loops, EnterIOLoop(l) PROVE AttachInv'
  BY <1>1, <1>4, Zenon DEF EnterIOLoop
<1>5. ASSUME NEW c \in Conns, AcceptHandle(c) PROVE AttachInv'
  <2>0. conn[c] = "backlog"
    BY <1>5, Zenon DEF AcceptHandle
  <2>1. CASE serverState = "RUNNING"
    <3>1. PICK l \in IOLoopChoice : Handed(c, l)
      BY Zenon, <1>5, <2>1 DEF AcceptHandle, Handed
    <3>2. CASE Inline(l)
      BY <1>0, <1>1, <2>0, <3>1, <3>2 DEF TypeInv, Handed
    <3>3. CASE ~Inline(l)
      <4>1. /\ conn'[c] = "new" /\ \A d \in Conns \ {c} : conn'[d] = conn[d]
            /\ \A d \in Conns, m \in Loops, k \in Nat :
                 AttachAt(ioq', m, k, d) =>
                   AttachAt(ioq, m, k, d) \/ (m = l /\ k = Len(ioq[l]) + 1 /\ d = c)
        BY Zenon, <1>0, <3>1, <3>3, HandedOver, TasksDiffer DEF AttachAt
      <4>2. \A m \in Loops, k \in Nat : ~AttachAt(ioq, m, k, c)
        BY <1>0, <2>0 DEF AttachInv
      <4>3. \A d \in Conns, m \in Loops, k \in Nat : AttachAt(ioq', m, k, d) => conn'[d] = "new"
        BY Zenon, <1>0, <4>1 DEF AttachInv
      <4>4. \A d \in Conns, m, n \in Loops, j, k \in Nat :
              AttachAt(ioq', m, j, d) /\ AttachAt(ioq', n, k, d) => m = n /\ j = k
        BY <1>0, <4>1, <4>2 DEF AttachInv
      <4> QED
        BY Zenon, <1>s, <4>3, <4>4
    <3> QED
      BY <3>2, <3>3
  <2>2. CASE serverState # "RUNNING"
    BY <1>1, <1>5, <2>2, Zenon DEF AcceptHandle
  <2> QED
    BY <2>1, <2>2
<1>6. ASSUME NEW l \in Loops, ioq[l] # <<>>, ioq' = [ioq EXCEPT ![l] = Tail(@)],
             \A c \in Conns : AttachAt(ioq, l, 1, c) \/ conn'[c] = conn[c]
      PROVE  AttachInv'
  <2>1. ASSUME NEW c \in Conns, NEW m \in Loops, NEW k \in Nat, AttachAt(ioq', m, k, c)
        PROVE  /\ m = l => AttachAt(ioq, m, k + 1, c) /\ k + 1 \in Nat /\ k + 1 # 1
               /\ m # l => AttachAt(ioq, m, k, c)
    <3>1. k >= 1 => k + 1 \in Nat /\ k + 1 # 1
      OBVIOUS
    <3> QED
      BY Zenon, <1>0, <1>6, <2>1, <3>1, TailEntry DEF AttachAt
  <2>2. ASSUME NEW c \in Conns, NEW m \in Loops, NEW k \in Nat, AttachAt(ioq', m, k, c)
        PROVE  conn'[c] = "new"
    <3>1. PICK j \in Nat : AttachAt(ioq, m, j, c) /\ (m = l => j # 1)
      BY Zenon, <2>1, <2>2
    <3>2. ~AttachAt(ioq, l, 1, c)
      <4>1. 1 \in Nat
        OBVIOUS
      <4> QED
        BY Zenon, <1>0, <3>1, <4>1 DEF AttachInv
    <3> QED
      BY Zenon, <1>0, <1>6, <3>1, <3>2 DEF AttachInv
  <2>3. ASSUME NEW c \in Conns, NEW m \in Loops, NEW n \in Loops, NEW j \in Nat, NEW k \in Nat,
               AttachAt(ioq', m, j, c), AttachAt(ioq', n, k, c)
        PROVE  m = n /\ j = k
    BY <1>0, <2>1, <2>3 DEF AttachInv
  <2> QED
    BY Zenon, <1>s, <2>2, <2>3
<1>7. ASSUME NEW l \in Loops, RunAttach(l) PROVE AttachInv'
  <2>1. PICK h \in Conns : h = Head(ioq[l]).conn /\ AttachAt(ioq, l, 1, h)
    BY Zenon, <1>0, <1>7, HeadAttach
  <2>2. \A c \in Conns : c # h => conn'[c] = conn[c]
    BY Zenon, <1>0, <1>7, <2>1 DEF RunAttach, TypeInv
  <2> QED
    BY Zenon, <1>6, <1>7, <2>1, <2>2 DEF RunAttach
<1>8. ASSUME NEW l \in Loops, RunStop(l) PROVE AttachInv'
  BY Zenon, <1>6, <1>8 DEF RunStop
<1>9. CASE StopPool
  <2>1. ASSUME NEW c \in Conns, NEW m \in Loops, NEW k \in Nat, AttachAt(ioq', m, k, c)
        PROVE  AttachAt(ioq, m, k, c)
    <3>1. ioq'[m] = ioq[m] \/ ioq'[m] = Append(ioq[m], Task("stop", 0))
      BY <1>9 DEF StopPool
    <3>2. Task("stop", 0) \in IoTasks
      BY DEF IoTasks
    <3>3. CASE ioq'[m] = Append(ioq[m], Task("stop", 0))
      BY Zenon, <1>0, <2>1, <3>2, <3>3, AppendEntry, TasksDiffer DEF AttachAt
    <3> QED
      BY Zenon, <2>1, <3>1, <3>3 DEF AttachAt, EntryAt
  <2>2. conn' = conn
    BY Zenon, <1>9 DEF StopPool
  <2> QED
    BY <1>0, <1>s, <2>1, <2>2 DEF AttachInv
<1> QED
  BY Zenon, <1>2, <1>3, <1>4, <1>5, <1>7, <1>8, <1>9 DEF ServerNext

\* No attach is queued behind a stop, and none is lost by it.
LEMMA QueueStep ==
  ASSUME TypeInv, AttachInv, PhaseInv, QueueInv, ServerNext, aborted' = "no"
  PROVE  QueueInv'
<1> USE DEF net, life, Step
<1>0. UNCHANGED <<mode, num>> /\ Loops' = Loops /\ num \in Nat
  BY DEF ServerNext, Loops, TypeInv
<1>s. ASSUME \A c \in Conns : conn'[c] = "new" => \E k \in Nat : AttachAt(ioq', loop'[c], k, c),
             \A l \in Loops, k \in Nat :
               StopAt(ioq', l, k) => k = Len(ioq'[l]) /\ listener' = "closed" /\ ~stopping',
             mode = 1 => \A l \in Loops :
               io'[l] = "stopped" => ioq'[l] = <<>> /\ listener' = "closed" /\ ~stopping'
      PROVE  QueueInv'
  BY <1>0, <1>s DEF QueueInv, StopPlace, AttachAt, StopAt, EntryAt
<1>1. ASSUME UNCHANGED <<ioq, stopping>>, listener = "closed" => listener' = "closed",
             \A c \in Conns : conn'[c] = "new" => conn[c] = "new" /\ loop'[c] = loop[c],
             \A l \in Loops : io'[l] = "stopped" => io[l] = "stopped"
      PROVE  QueueInv'
  <2>1. \A c \in Conns : conn'[c] = "new" => \E k \in Nat : AttachAt(ioq', loop'[c], k, c)
    BY Zenon, <1>1 DEF QueueInv
  <2>2. \A l \in Loops, k \in Nat :
          StopAt(ioq', l, k) => k = Len(ioq'[l]) /\ listener' = "closed" /\ ~stopping'
    BY Zenon, <1>1 DEF QueueInv, StopPlace
  <2>3. mode = 1 => \A l \in Loops :
          io'[l] = "stopped" => ioq'[l] = <<>> /\ listener' = "closed" /\ ~stopping'
    BY Zenon, <1>1 DEF QueueInv
  <2> QED
    BY Zenon, <1>s, <2>1, <2>2, <2>3
<1>2. CASE Listen \/ Accept
  <2>1. listener # "closed"
    BY <1>2 DEF Listen, Accept, PhaseInv, Early
  <2>2. UNCHANGED <<ioq, stopping, conn, loop, io>>
    BY Zenon, <1>2 DEF Listen, Accept
  <2> QED
    BY Zenon, <1>1, <2>1, <2>2
<1>3. CASE SetRunning \/ DispatchControl \/ DestroyServer \/ JoinLoops
  BY Zenon, <1>1, <1>3 DEF SetRunning, DispatchControl, DestroyServer, JoinLoops
<1>4. CASE StartPool
  BY <1>0, <1>1, <1>4 DEF StartPool
<1>5. CASE RunControl
  <2>1. listener = "closed" => listener' = "closed"
    BY <1>5 DEF RunControl
  <2> QED
    BY Zenon, <1>1, <1>5, <2>1 DEF RunControl
<1>6. ASSUME NEW c \in Conns, Connect(c) \/ AcceptFails(c) \/ CloseConn(c) \/ ReleaseConn(c) PROVE QueueInv'
  <2>1. \A d \in Conns : conn'[d] = "new" => conn[d] = "new"
    BY <1>6 DEF Connect, AcceptFails, CloseConn, ReleaseConn, TypeInv
  <2> QED
    BY Zenon, <1>1, <1>6, <2>1 DEF Connect, AcceptFails, CloseConn, ReleaseConn
<1>7. ASSUME NEW l \in Loops, EnterIOLoop(l) PROVE QueueInv'
  <2>1. \A m \in Loops : io'[m] = "stopped" => io[m] = "stopped"
    BY <1>7 DEF EnterIOLoop, TypeInv
  <2> QED
    BY Zenon, <1>1, <1>7, <2>1 DEF EnterIOLoop
<1>8. CASE BeginStop
  <2>1. UNCHANGED <<ioq, io, loop, conn>>
    BY Zenon, <1>8 DEF BeginStop
  <2>2. listener # "closed" \/ Loops = {}
    <3>1. listener # "closed" \/ ~(num > 0)
      BY Zenon, <1>8 DEF BeginStop, PhaseInv, Early
    <3> QED
      BY <1>0, <3>1 DEF Loops
  <2>3. \A l \in Loops, k \in Nat : ~StopAt(ioq', l, k)
    BY Zenon, <2>1, <2>2 DEF QueueInv, StopPlace
  <2>4. mode = 1 => \A l \in Loops : io'[l] # "stopped"
    BY Zenon, <2>1, <2>2 DEF QueueInv
  <2>5. \A c \in Conns : conn'[c] = "new" => \E k \in Nat : AttachAt(ioq', loop'[c], k, c)
    BY Zenon, <2>1 DEF QueueInv
  <2> QED
    BY Zenon, <1>s, <2>3, <2>4, <2>5
<1>9. ASSUME NEW c \in Conns, AcceptHandle(c) PROVE QueueInv'
  <2>1. listener = "attached" /\ serverState = "RUNNING" /\ UNCHANGED <<listener, stopping, io>>
    BY <1>9, Zenon DEF AcceptHandle
  <2>2. PICK l \in IOLoopChoice : Handed(c, l)
    BY Zenon, <1>9, <2>1 DEF AcceptHandle, Handed
  <2>3. CASE Inline(l)
    <3>1. \A d \in Conns : conn'[d] = "new" => conn[d] = "new" /\ loop'[d] = loop[d]
      BY <2>2, <2>3 DEF Handed, TypeInv
    <3>2. ioq' = ioq
      BY Zenon, <2>2, <2>3 DEF Handed
    <3> QED
      BY Zenon, <1>1, <2>1, <3>1, <3>2
  <2>4. CASE ~Inline(l)
    <3>1. /\ l \in Loops /\ conn'[c] = "new" /\ loop'[c] = l
          /\ \A d \in Conns \ {c} : conn'[d] = conn[d] /\ loop'[d] = loop[d]
          /\ \A t : \A m \in Loops, k \in Nat :
               EntryAt(ioq', m, k, t) <=>
                 EntryAt(ioq, m, k, t) \/ (m = l /\ k = Len(ioq[l]) + 1 /\ t = Task("attach", c))
          /\ Len(ioq[l]) + 1 \in Nat
      BY Zenon, <2>2, <2>4, HandedOver
    <3>2. listener # "closed"
      BY <2>1
    <3>3. \A m \in Loops, k \in Nat : ~StopAt(ioq', m, k)
      BY Zenon, <3>1, <3>2, TasksDiffer DEF QueueInv, StopPlace, StopAt
    <3>4. mode = 1 => \A m \in Loops : io'[m] # "stopped"
      BY Zenon, <2>1, <3>2 DEF QueueInv
    <3>5. ASSUME NEW d \in Conns, conn'[d] = "new" PROVE \E k \in Nat : AttachAt(ioq', loop'[d], k, d)
      <4>1. CASE d = c
        BY Zenon, <3>1, <4>1 DEF AttachAt
      <4>2. CASE d # c
        <5>1. PICK k \in Nat : AttachAt(ioq, loop[d], k, d)
          BY Zenon, <3>1, <3>5, <4>2 DEF QueueInv
        <5>2. loop[d] \in Loops /\ loop'[d] = loop[d]
          BY Zenon, <3>1, <4>2, <5>1 DEF AttachAt, EntryAt
        <5> QED
          BY Zenon, <3>1, <5>1, <5>2 DEF AttachAt
      <4> QED
        BY <4>1, <4>2
    <3> QED
      BY Zenon, <1>s, <3>3, <3>4, <3>5
  <2> QED
    BY <2>3, <2>4
<1>10. ASSUME NEW l \in Loops, ioq[l] # <<>>, ioq' = [ioq EXCEPT ![l] = Tail(@)],
              UNCHANGED <<loop, listener, stopping>>,
              \A c \in Conns : conn'[c] = "new" => conn[c] = "new" /\ ~AttachAt(ioq, l, 1, c)
       PROVE  /\ \A c \in Conns : conn'[c] = "new" => \E k \in Nat : AttachAt(ioq', loop'[c], k, c)
              /\ \A m \in Loops, k \in Nat :
                   StopAt(ioq', m, k) => k = Len(ioq'[m]) /\ listener' = "closed" /\ ~stopping'
  <2>1. ASSUME NEW c \in Conns, conn'[c] = "new" PROVE \E k \in Nat : AttachAt(ioq', loop'[c], k, c)
    <3>1. PICK k \in Nat : AttachAt(ioq, loop[c], k, c)
      BY Zenon, <1>10, <2>1 DEF QueueInv
    <3>2. loop[c] \in Loops /\ loop'[c] = loop[c] /\ k >= 1
      BY <1>10, <3>1 DEF AttachAt, EntryAt
    <3>3. CASE loop[c] = l
      <4>1. k # 1
        BY Zenon, <1>10, <2>1, <3>1, <3>3
      <4>2. k - 1 \in Nat /\ k - 1 >= 1 /\ (k - 1) + 1 = k
        BY <3>2, <4>1
      <4>3. EntryAt(ioq, l, (k - 1) + 1, Task("attach", c))
        BY Zenon, <3>1, <3>3, <4>2 DEF AttachAt
      <4>4. EntryAt(ioq', l, k - 1, Task("attach", c))
        BY Zenon, <1>10, <4>2, <4>3, TailEntry
      <4> QED
        BY Zenon, <3>2, <3>3, <4>2, <4>4 DEF AttachAt
    <3>4. CASE loop[c] # l
      BY Zenon, <1>10, <3>1, <3>2, <3>4, TailEntry DEF AttachAt
    <3> QED
      BY <3>3, <3>4
  <2>2. ASSUME NEW m \in Loops, NEW k \in Nat, StopAt(ioq', m, k)
        PROVE  k = Len(ioq'[m]) /\ listener' = "closed" /\ ~stopping'
    <3>1. CASE m = l
      <4>1. StopAt(ioq, l, k + 1) /\ Len(ioq'[l]) = Len(ioq[l]) - 1 /\ Len(ioq[l]) \in Nat
        BY Zenon, <1>10, <2>2, <3>1, TailEntry DEF StopAt
      <4>2. k + 1 = Len(ioq[l]) /\ listener = "closed" /\ ~stopping
        <5>1. k + 1 \in Nat
          OBVIOUS
        <5> QED
          BY Zenon, <4>1, <5>1 DEF QueueInv, StopPlace
      <4>3. k = Len(ioq'[l])
        BY <4>1, <4>2
      <4> QED
        BY Zenon, <1>10, <3>1, <4>2, <4>3
    <3>2. CASE m # l
      <4>1. StopAt(ioq, m, k) /\ ioq'[m] = ioq[m]
        BY Zenon, <1>10, <2>2, <3>2, TailEntry DEF StopAt
      <4> QED
        BY Zenon, <1>10, <4>1 DEF QueueInv, StopPlace
    <3> QED
      BY <3>1, <3>2
  <2> QED
    BY Zenon, <2>1, <2>2
<1>11. ASSUME NEW l \in Loops, RunAttach(l) PROVE QueueInv'
  <2>1. PICK h \in Conns : h = Head(ioq[l]).conn /\ AttachAt(ioq, l, 1, h)
    BY Zenon, <1>11, HeadAttach
  <2>2. /\ io[l] = "running" /\ ioq[l] # <<>> /\ ioq' = [ioq EXCEPT ![l] = Tail(@)]
        /\ UNCHANGED <<loop, listener, stopping, io>>
    BY Zenon, <1>11 DEF RunAttach
  <2>3. ASSUME NEW c \in Conns, conn'[c] = "new" PROVE conn[c] = "new" /\ ~AttachAt(ioq, l, 1, c)
    <3>1. conn'[h] # "new" /\ \A d \in Conns \ {h} : conn'[d] = conn[d]
      BY <1>11, <2>1 DEF RunAttach, TypeInv
    <3>2. c # h
      BY <2>3, <3>1
    <3>3. Task("attach", c) # Task("attach", h)
      BY Zenon, <3>2, TasksDiffer
    <3> QED
      BY Zenon, <2>1, <2>3, <3>1, <3>2, <3>3 DEF AttachAt, EntryAt
  <2>4. mode = 1 => \A m \in Loops :
          io'[m] = "stopped" => ioq'[m] = <<>> /\ listener' = "closed" /\ ~stopping'
    <3>1. "running" # "stopped"
      OBVIOUS
    <3>2. \A m \in Loops \ {l} : ioq'[m] = ioq[m]
      BY Zenon, <2>2, TailEntry
    <3> QED
      BY Zenon, <2>2, <3>1, <3>2 DEF QueueInv
  <2> QED
    BY Zenon, <1>s, <1>10, <2>2, <2>3, <2>4
<1>12. ASSUME NEW l \in Loops, RunStop(l) PROVE QueueInv'
  <2>1. /\ ioq[l] # <<>> /\ ioq' = [ioq EXCEPT ![l] = Tail(@)] /\ Head(ioq[l]).op = "stop"
        /\ io' = [io EXCEPT ![l] = "stopped"]
        /\ UNCHANGED <<loop, listener, stopping, conn>>
    BY Zenon, <1>12 DEF RunStop
  <2>2. StopAt(ioq, l, 1)
    <3>1. ioq[l] \in Seq(IoTasks)
      BY DEF TypeInv
    <3>2. Head(ioq[l]) \in IoTasks /\ Head(ioq[l]) = ioq[l][1] /\ 1 \in 1..Len(ioq[l])
      BY <2>1, <3>1, HeadTask
    <3>3. \A c \in Conns : Task("attach", c).op # "stop"
      BY DEF Task
    <3>4. Head(ioq[l]) = Task("stop", 0)
      BY Zenon, <2>1, <3>2, <3>3 DEF IoTasks
    <3> QED
      BY Zenon, <3>2, <3>4 DEF StopAt, EntryAt
  <2>3. 1 = Len(ioq[l]) /\ listener = "closed" /\ ~stopping
    <3>1. 1 \in Nat
      OBVIOUS
    <3> QED
      BY Zenon, <2>2, <3>1 DEF QueueInv, StopPlace
  <2>4. \A c \in Conns : ~AttachAt(ioq, l, 1, c)
    BY Zenon, <2>2, TasksDiffer DEF StopAt, AttachAt, EntryAt
  <2>5. mode = 1 => \A m \in Loops :
          io'[m] = "stopped" => ioq'[m] = <<>> /\ listener' = "closed" /\ ~stopping'
    <3>1. ioq'[l] = <<>>
      <4>1. ioq[l] \in Seq(IoTasks) /\ ioq'[l] = Tail(ioq[l])
        BY Zenon, <2>1 DEF TypeInv
      <4>2. Tail(ioq[l]) = <<>>
        <5>1. Tail(ioq[l]) \in Seq(IoTasks) /\ Len(Tail(ioq[l])) = 0
          BY <2>1, <2>3, <4>1, HeadTask
        <5>2. \A q \in Seq(IoTasks) : Len(q) = 0 => q = <<>>
          OBVIOUS
        <5> QED
          BY Zenon, <5>1, <5>2
      <4> QED
        BY <4>1, <4>2
    <3>2. \A m \in Loops \ {l} : ioq'[m] = ioq[m]
      BY Zenon, <2>1, TailEntry
    <3>3. \A m \in Loops \ {l} : io'[m] = io[m]
      BY Zenon, <2>1 DEF TypeInv
    <3> QED
      BY Zenon, <2>1, <2>3, <3>1, <3>2, <3>3 DEF QueueInv
  <2> QED
    BY Zenon, <1>s, <1>10, <2>1, <2>4, <2>5
<1>13. CASE StopPool
  <2>1. stopping /\ stopping' = FALSE /\ UNCHANGED <<listener, conn, loop>>
    BY Zenon, <1>13 DEF StopPool
  <2>2. listener = "closed"
    BY <2>1 DEF PhaseInv
  <2>3. Task("stop", 0) \in IoTasks
    BY DEF IoTasks
  <2>4. \A m \in Loops : ioq'[m] = ioq[m] \/ ioq'[m] = Append(ioq[m], Task("stop", 0))
    BY <1>13 DEF StopPool
  <2>5. ASSUME NEW m \in Loops, NEW k \in Nat, NEW t, EntryAt(ioq, m, k, t) PROVE EntryAt(ioq', m, k, t)
    <3>1. CASE ioq'[m] = Append(ioq[m], Task("stop", 0))
      BY Zenon, <2>3, <2>5, <3>1, AppendEntry
    <3> QED
      BY Zenon, <2>4, <2>5, <3>1 DEF EntryAt
  <2>6. \A c \in Conns : conn'[c] = "new" => \E k \in Nat : AttachAt(ioq', loop'[c], k, c)
    <3> SUFFICES ASSUME NEW c \in Conns, conn[c] = "new" PROVE \E k \in Nat : AttachAt(ioq', loop[c], k, c)
      BY Zenon, <2>1
    <3>1. PICK k \in Nat : AttachAt(ioq, loop[c], k, c)
      BY Zenon DEF QueueInv
    <3>2. loop[c] \in Loops
      BY Zenon, <3>1 DEF AttachAt, EntryAt
    <3> QED
      BY Zenon, <2>5, <3>1, <3>2 DEF AttachAt
  <2>7. ASSUME NEW m \in Loops, NEW k \in Nat, StopAt(ioq', m, k) PROVE k = Len(ioq'[m])
    <3>1. ~StopAt(ioq, m, k)
      BY Zenon, <2>1 DEF QueueInv, StopPlace
    <3>2. CASE ioq'[m] = Append(ioq[m], Task("stop", 0))
      BY Zenon, <2>3, <2>7, <3>1, <3>2, AppendEntry DEF StopAt
    <3> QED
      BY Zenon, <2>4, <2>7, <3>1, <3>2 DEF StopAt, EntryAt
  <2>8. mode = 1 => \A m \in Loops : io'[m] # "stopped"
    <3> SUFFICES ASSUME mode = 1, NEW m \in Loops PROVE io'[m] # "stopped"
      OBVIOUS
    <3>1. ~Inline(m)
      BY <1>0 DEF Inline, Loops
    <3>2. io'[m] = io[m]
      BY <1>13, <3>1 DEF StopPool
    <3> QED
      BY Zenon, <2>1, <3>2 DEF QueueInv
  <2> QED
    BY Zenon, <1>s, <2>1, <2>2, <2>6, <2>7, <2>8
<1> QED
  BY Zenon, <1>2, <1>3, <1>4, <1>5, <1>6, <1>7, <1>8, <1>9, <1>11, <1>12, <1>13 DEF ServerNext

\* A connection that closes leaves the table, or has its removal queued.
LEMMA CloseKeeps ==
  ASSUME TypeInv, RemoveInv, TableHasOneThread, NEW c \in Conns, NEW th,
         HandleCloseConnection(c, th), conn[c] \in {"new", "open"},
         conn' = [conn EXCEPT ![c] = "closed"], pc' = pc
  PROVE  RemoveInv' /\ TableHasOneThread'
<1> USE DEF TableGone
<1>1. conn'[c] = "closed" /\ \A d \in Conns \ {c} : conn'[d] = conn[d]
  BY DEF TypeInv
<1>2. CASE th = 0
  <2>1. table' = table \ {c} /\ touched' = touched \cup {0} /\ ctlq' = ctlq
    BY Zenon, <1>2 DEF HandleCloseConnection, HashTableRemove
  <2> QED
    BY Zenon, <1>1, <2>1 DEF RemoveInv, RemoveAt, TableHasOneThread
<1>3. CASE th # 0
  <2>1. UNCHANGED <<table, touched>> /\ ctlq' = Append(ctlq, Task("remove", c))
    BY Zenon, <1>3 DEF HandleCloseConnection
  <2>2. ctlq \in Seq(CtlTasks) /\ Task("remove", c) \in CtlTasks
    BY DEF TypeInv, CtlTasks
  <2>3. RemoveAt(ctlq', Len(ctlq) + 1, c) /\ Len(ctlq) + 1 \in Nat
    BY <2>1, <2>2 DEF RemoveAt
  <2>4. ASSUME NEW d \in Conns, NEW k \in Nat
        PROVE  /\ RemoveAt(ctlq, k, d) => RemoveAt(ctlq', k, d)
               /\ RemoveAt(ctlq', k, d) => RemoveAt(ctlq, k, d) \/ d = c
    <3>1. \A j \in 1..Len(ctlq') : (j \in 1..Len(ctlq) /\ ctlq'[j] = ctlq[j]) \/ ctlq'[j] = Task("remove", c)
      BY <2>1, <2>2
    <3>2. \A j \in 1..Len(ctlq) : j \in 1..Len(ctlq') /\ ctlq'[j] = ctlq[j]
      BY <2>1, <2>2
    <3> QED
      BY Zenon, <3>1, <3>2, TasksDiffer DEF RemoveAt
  <2>5. ASSUME NEW d \in Conns
        PROVE  /\ \A k \in Nat : RemoveAt(ctlq', k, d) => conn'[d] = "closed"
               /\ ~TableGone =>
                    /\ conn'[d] \in {"new", "open"} => d \in table'
                    /\ conn'[d] = "closed" /\ d \in table' => \E k \in Nat : RemoveAt(ctlq', k, d)
    <3>1. CASE d = c
      BY <1>1, <2>3, <3>1
    <3>2. CASE d # c
      BY Zenon, <1>1, <2>1, <2>4, <3>2 DEF RemoveInv
    <3> QED
      BY <3>1, <3>2
  <2> QED
    BY Zenon, <2>1, <2>5 DEF RemoveInv, RemoveAt, TableHasOneThread
<1> QED
  BY <1>2, <1>3

\* A connection enters the table before it lives, and leaves it only through
\* the removal that its close asked for.
LEMMA RemoveStep == Inv /\ [ServerNext]_srv => RemoveInv' /\ TableHasOneThread'
<1> SUFFICES ASSUME Inv, [ServerNext]_srv PROVE RemoveInv' /\ TableHasOneThread'
  OBVIOUS
<1> USE DEF net, life, Step, TableGone
<1>0. TypeInv /\ AttachInv /\ RemoveInv /\ TableHasOneThread
  BY DEF Inv
<1>1. ASSUME UNCHANGED <<table, ctlq, touched>>, TableGone => TableGone',
             \A c \in Conns : \/ conn'[c] = conn[c]
                              \/ conn[c] \in {"client", "backlog"} /\ conn'[c] \in {"client", "backlog"}
                              \/ conn[c] = "new" /\ conn'[c] = "open"
      PROVE  RemoveInv' /\ TableHasOneThread'
  BY Zenon, <1>0, <1>1 DEF RemoveInv, RemoveAt, TableHasOneThread
<1>2. CASE Listen \/ StartPool \/ SetRunning \/ DispatchControl \/ BeginStop \/ StopPool \/ JoinLoops
           \/ UNCHANGED srv
  <2>1. UNCHANGED <<table, ctlq, touched, conn>>
    BY <1>2, Zenon DEF Listen, StartPool, SetRunning, DispatchControl, BeginStop, StopPool, JoinLoops, srv
  <2>2. TableGone => TableGone'
    BY <1>2 DEF Listen, StartPool, SetRunning, DispatchControl, BeginStop, StopPool, JoinLoops, srv
  <2> QED
    BY <1>1, <2>1, <2>2, Zenon
<1>3. ASSUME NEW c \in Conns, Connect(c) \/ AcceptFails(c) \/ ReleaseConn(c) PROVE RemoveInv' /\ TableHasOneThread'
  <2>1. /\ UNCHANGED <<table, ctlq, touched, pc>>
        /\ \A d \in Conns : \/ conn'[d] = conn[d]
                            \/ conn[d] \in {"client", "backlog"} /\ conn'[d] \in {"client", "backlog"}
    BY <1>0, <1>3 DEF Connect, AcceptFails, ReleaseConn, TypeInv
  <2> QED
    BY <1>1, <2>1, Zenon
<1>4. ASSUME NEW l \in Loops, EnterIOLoop(l) \/ RunStop(l) PROVE RemoveInv' /\ TableHasOneThread'
  BY <1>1, <1>4, Zenon DEF EnterIOLoop, RunStop
<1>5. ASSUME NEW l \in Loops, RunAttach(l) PROVE RemoveInv' /\ TableHasOneThread'
  <2>1. PICK h \in Conns : h = Head(ioq[l]).conn /\ AttachAt(ioq, l, 1, h)
    BY Zenon, <1>0, <1>5, HeadAttach
  <2>2. conn[h] = "new"
    BY <1>0, <2>1 DEF AttachInv
  <2>3. /\ pc' = pc
        /\ \/ UNCHANGED <<table, ctlq, touched>> /\ conn' = [conn EXCEPT ![h] = "open"]
           \/ HandleCloseConnection(h, l) /\ conn' = [conn EXCEPT ![h] = "closed"]
    BY Zenon, <1>5, <2>1 DEF RunAttach
  <2>4. CASE UNCHANGED <<table, ctlq, touched>> /\ conn' = [conn EXCEPT ![h] = "open"]
    BY <1>0, <1>1, <2>2, <2>3, <2>4 DEF TypeInv
  <2> QED
    BY Zenon, <1>0, <2>2, <2>3, <2>4, CloseKeeps
<1>6. ASSUME NEW c \in Conns, AcceptHandle(c) PROVE RemoveInv' /\ TableHasOneThread'
  <2>1. CASE serverState = "RUNNING"
    <3>1. /\ conn[c] = "backlog" /\ conn'[c] \in {"new", "open"} /\ ctlq' = ctlq /\ pc' = pc
          /\ \A d \in Conns \ {c} : conn'[d] = conn[d]
          /\ table' = table \cup {c} /\ touched' = touched \cup {0}
      BY Zenon, <1>0, <1>6, <2>1 DEF AcceptHandle, TypeInv
    <3> QED
      BY Zenon, <1>0, <3>1 DEF RemoveInv, RemoveAt, TableHasOneThread
  <2>2. CASE serverState # "RUNNING"
    BY <1>1, <1>6, <2>2, Zenon DEF AcceptHandle
  <2> QED
    BY <2>1, <2>2
<1>7. ASSUME NEW c \in Conns, CloseConn(c) PROVE RemoveInv' /\ TableHasOneThread'
  BY Zenon, <1>0, <1>7, CloseKeeps DEF CloseConn
<1>8. CASE Accept
  <2>1. UNCHANGED <<conn, table, touched>> /\ ~TableGone
    BY <1>8 DEF Accept
  <2>2. ASSUME NEW c \in Conns, NEW k \in Nat
        PROVE  RemoveAt(ctlq', k, c) <=> RemoveAt(ctlq, k, c)
    <3>1. ctlq \in Seq(CtlTasks) /\ Task("listener", 0) \in CtlTasks
      BY <1>0 DEF TypeInv, CtlTasks
    <3>2. Task("listener", 0) # Task("remove", c)
      BY DEF Task
    <3>3. CASE ctlq' = Append(ctlq, Task("listener", 0))
      BY <3>1, <3>2, <3>3 DEF RemoveAt
    <3> QED
      BY <1>8, <3>3 DEF Accept
  <2> QED
    BY Zenon, <1>0, <2>1, <2>2 DEF RemoveInv, RemoveAt, TableHasOneThread
<1>9. CASE RunControl
  <2>1. ctlq \in Seq(CtlTasks) /\ ctlq # <<>> /\ ctlq' = Tail(ctlq) /\ conn' = conn /\ pc' = pc
    BY Zenon, <1>0, <1>9 DEF RunControl, TypeInv
  <2>2. /\ Head(ctlq) = ctlq[1] /\ Len(ctlq') = Len(ctlq) - 1 /\ Len(ctlq) \in Nat \ {0}
        /\ \A k \in 1..(Len(ctlq) - 1) : ctlq'[k] = ctlq[k + 1]
    BY <2>1
  <2>3. ASSUME NEW c \in Conns, NEW k \in Nat, RemoveAt(ctlq', k, c)
        PROVE  RemoveAt(ctlq, k + 1, c) /\ k + 1 \in Nat
    BY <2>2, <2>3 DEF RemoveAt
  <2>4. ASSUME NEW c \in Conns, NEW k \in Nat, RemoveAt(ctlq, k, c)
        PROVE  Head(ctlq) = Task("remove", c) \/ (RemoveAt(ctlq', k - 1, c) /\ k - 1 \in Nat)
    <3>1. CASE k = 1
      BY <2>2, <2>4, <3>1 DEF RemoveAt
    <3>2. CASE k # 1
      <4>1. k - 1 \in 1..(Len(ctlq) - 1) /\ (k - 1) + 1 = k
        BY <2>2, <2>4, <3>2 DEF RemoveAt
      <4> QED
        BY <2>2, <2>4, <4>1 DEF RemoveAt
    <3> QED
      BY <3>1, <3>2
  <2>s. ASSUME \A c \in Conns :
                 /\ \A k \in Nat : RemoveAt(ctlq', k, c) => conn[c] = "closed"
                 /\ ~TableGone =>
                      /\ conn[c] \in {"new", "open"} => c \in table'
                      /\ conn[c] = "closed" /\ c \in table' => \E k \in Nat : RemoveAt(ctlq', k, c)
        PROVE  RemoveInv'
    BY Zenon, <2>1, <2>s DEF RemoveInv, RemoveAt
  <2>5. CASE Head(ctlq).op = "listener"
    <3>1. UNCHANGED <<table, touched>>
      BY <1>9, <2>5 DEF RunControl
    <3>2. \A c \in Conns : Head(ctlq) # Task("remove", c)
      BY <2>5 DEF Task
    <3>3. RemoveInv'
      BY Zenon, <1>0, <2>3, <2>4, <2>s, <3>1, <3>2 DEF RemoveInv
    <3> QED
      BY Zenon, <1>0, <3>1, <3>3 DEF TableHasOneThread
  <2>6. CASE Head(ctlq).op = "remove"
    <3>1. PICK d \in Conns : Head(ctlq) = Task("remove", d)
      BY <2>1, <2>6, HeadTask DEF CtlTasks, Task
    <3>2. /\ Head(ctlq).conn = d
          /\ \A c \in Conns : Head(ctlq) = Task("remove", c) => c = d
      BY <3>1 DEF Task
    <3>3. table' = table \ {d} /\ touched' = touched \cup {0}
      <4>1. "remove" # "listener"
        OBVIOUS
      <4> QED
        BY Zenon, <1>9, <2>6, <3>2, <4>1 DEF RunControl, HashTableRemove
    <3>4. conn[d] = "closed"
      <4>1. RemoveAt(ctlq, 1, d)
        BY <2>2, <3>1 DEF RemoveAt
      <4> QED
        BY <1>0, <4>1 DEF RemoveInv
    <3>5. ASSUME NEW c \in Conns
          PROVE  /\ \A k \in Nat : RemoveAt(ctlq', k, c) => conn[c] = "closed"
                 /\ ~TableGone =>
                      /\ conn[c] \in {"new", "open"} => c \in table'
                      /\ conn[c] = "closed" /\ c \in table' => \E k \in Nat : RemoveAt(ctlq', k, c)
      BY <1>0, <2>3, <2>4, <3>2, <3>3, <3>4 DEF RemoveInv
    <3>6. RemoveInv'
      BY Zenon, <2>s, <3>5
    <3> QED
      BY Zenon, <1>0, <3>3, <3>6 DEF TableHasOneThread
  <2> QED
    BY Zenon, <1>9, <2>5, <2>6 DEF RunControl
<1>10. CASE DestroyServer
  <2>1. TableGone' /\ UNCHANGED <<ctlq, touched, conn>>
    BY <1>10 DEF DestroyServer
  <2> QED
    BY Zenon, <1>0, <2>1 DEF RemoveInv, RemoveAt, TableHasOneThread
<1> QED
  BY Zenon, <1>2, <1>3, <1>4, <1>5, <1>6, <1>7, <1>8, <1>9, <1>10 DEF ServerNext

\* ~Server lets no open connection go, and an attach that runs after the table is
\* destroyed opens a connection only for the application.
LEMMA HeldStep ==
  ASSUME TypeInv, AttachInv, RemoveInv, PhaseInv, HeldInv, ServerNext, aborted' = "no"
  PROVE  HeldInv'
<1> USE DEF net, life, Step, TableGone
<1>1. ASSUME UNCHANGED table, TableGone' => TableGone,
             \A c \in Conns : conn'[c] = "open" => conn[c] = "open" /\ (c \in holding => c \in holding')
      PROVE  HeldInv'
  BY Zenon, <1>1 DEF HeldInv
<1>2. CASE Listen \/ StartPool \/ Accept \/ SetRunning \/ DispatchControl \/ BeginStop \/ StopPool \/ JoinLoops
  <2>1. UNCHANGED <<table, conn, holding>>
    BY <1>2, Zenon DEF Listen, StartPool, Accept, SetRunning, DispatchControl, BeginStop, StopPool, JoinLoops
  <2>2. TableGone' => TableGone
    BY <1>2 DEF Listen, StartPool, Accept, SetRunning, DispatchControl, BeginStop, StopPool, JoinLoops
  <2> QED
    BY <1>1, <2>1, <2>2, Zenon
<1>3. ASSUME NEW c \in Conns, Connect(c) \/ AcceptFails(c) PROVE HeldInv'
  <2>1. /\ UNCHANGED <<table, pc, holding>>
        /\ \A d \in Conns : conn'[d] = "open" => conn[d] = "open"
    BY <1>3 DEF Connect, AcceptFails, TypeInv
  <2> QED
    BY <1>1, <2>1, Zenon
<1>4. ASSUME NEW l \in Loops, EnterIOLoop(l) \/ RunStop(l) PROVE HeldInv'
  BY <1>1, <1>4, Zenon DEF EnterIOLoop, RunStop
<1>5. ASSUME NEW l \in Loops, RunAttach(l) PROVE HeldInv'
  <2>1. PICK h \in Conns : h = Head(ioq[l]).conn
    BY Zenon, <1>5, HeadAttach
  <2>2. PICK kept \in BOOLEAN :
          /\ Keep(h, kept) /\ pc' = pc
          /\ \/ /\ conn' = [conn EXCEPT ![h] = "open"] /\ table' = table
                /\ aborted' = IF h \in table \/ kept THEN "no" ELSE "open channel"
             \/ /\ conn' = [conn EXCEPT ![h] = "closed"] /\ table' \subseteq table
    BY Zenon, <1>5, <2>1 DEF RunAttach, HandleCloseConnection, HashTableRemove
  <2>3. \A d \in Conns \ {h} : conn'[d] = conn[d]
    BY Zenon, <2>2 DEF TypeInv
  <2>4. holding \subseteq holding' /\ (kept => h \in holding')
    BY Zenon, <2>2 DEF Keep
  <2>5. conn'[h] = "open" => h \in table \/ kept
    <3>1. "no" # "open channel" /\ "open" # "closed"
      OBVIOUS
    <3> QED
      BY Zenon, <2>2, <3>1 DEF TypeInv
  <2>6. TableGone' => TableGone /\ table' \subseteq table
    BY Zenon, <2>2
  <2> QED
    BY <2>3, <2>4, <2>5, <2>6 DEF HeldInv
<1>6. ASSUME NEW c \in Conns, AcceptHandle(c) PROVE HeldInv'
  <2>1. listener = "attached" /\ pc' = pc
    BY Zenon, <1>6 DEF AcceptHandle
  <2>2. ~TableGone
    BY <2>1 DEF PhaseInv
  <2> QED
    BY Zenon, <2>1, <2>2 DEF HeldInv
<1>7. ASSUME NEW c \in Conns, CloseConn(c) PROVE HeldInv'
  <2>1. table' \subseteq table /\ UNCHANGED <<pc, holding>>
    BY Zenon, <1>7 DEF CloseConn, HandleCloseConnection, HashTableRemove
  <2>2. \A d \in Conns : conn'[d] = "open" => conn[d] = "open"
    BY <1>7 DEF CloseConn, TypeInv
  <2> QED
    BY <2>1, <2>2 DEF HeldInv
<1>8. CASE RunControl
  <2>1. table' \subseteq table /\ UNCHANGED <<pc, holding, conn>>
    BY Zenon, <1>8 DEF RunControl, HashTableRemove
  <2> QED
    BY <2>1 DEF HeldInv
<1>9. CASE DestroyServer
  <2>1. /\ table' = {} /\ ~TableGone /\ UNCHANGED <<conn, holding>>
        /\ \A c \in table \ holding : conn[c] # "open"
    BY <1>9 DEF DestroyServer
  <2>2. \A c \in Conns : conn[c] = "open" => c \in table
    BY <2>1 DEF RemoveInv
  <2> QED
    BY Zenon, <2>1, <2>2 DEF HeldInv
<1>10. ASSUME NEW c \in Conns, ReleaseConn(c) PROVE HeldInv'
  <2>1. /\ holding' = holding \ {c} /\ UNCHANGED <<pc, conn, table>>
        /\ conn[c] = "open" => c \in table
    BY <1>10 DEF ReleaseConn
  <2> QED
    BY <2>1 DEF HeldInv
<1> QED
  BY Zenon, <1>2, <1>3, <1>4, <1>5, <1>6, <1>7, <1>8, <1>9, <1>10 DEF ServerNext

\* Which assertion may fail, and what the destructor leaves when it returns.
LEMMA AbortStep == Inv /\ ServerAborts /\ [ServerNext]_srv => ServerAborts'
<1> SUFFICES ASSUME Inv, ServerAborts, [ServerNext]_srv PROVE ServerAborts'
  OBVIOUS
<1> USE DEF net, life, Step
<1>1. CASE UNCHANGED srv
  BY <1>1, Zenon DEF srv, ServerAborts, EarlyNeedsMode1, DestroyNeedsStop, DestroyNeedsClosed
<1>2. CASE ServerNext
  <2>1. aborted = "no" /\ pc # "gone" /\ UNCHANGED <<mode, num>>
    BY Zenon, <1>2 DEF ServerNext
  <2>2. TypeInv /\ PhaseInv /\ QueueInv /\ HeldInv
    BY Zenon, <2>1 DEF Inv, Sane
  <2>3. ASSUME aborted' \notin {"not running", "not stopped"}, pc' # "gone" PROVE ServerAborts'
    BY <2>3 DEF ServerAborts, EarlyNeedsMode1, DestroyNeedsStop, DestroyNeedsClosed
  <2>4. CASE DestroyServer
    <3>1. /\ pc' = "joining" /\ UNCHANGED <<listener, stopping, earlyStop>>
          /\ aborted' # "not running" /\ (aborted' = "not stopped" => serverState # "STOPPED")
      BY <2>4 DEF DestroyServer
    <3>2. aborted' = "not stopped" /\ listener' = "closed" => stopping' \/ earlyStop'
      BY Zenon, <2>2, <3>1 DEF PhaseInv
    <3> QED
      BY <3>1, <3>2 DEF ServerAborts, EarlyNeedsMode1, DestroyNeedsStop, DestroyNeedsClosed
  <2>5. CASE JoinLoops
    <3>1. pc = "joining" /\ aborted' = aborted /\ UNCHANGED <<conn, holding>> /\ \A l \in Loops : io[l] = "stopped"
      BY Zenon, <2>5 DEF JoinLoops
    <3>2. mode = 1
      BY <2>2, <3>1 DEF PhaseInv, TypeInv, TableGone
    <3>3. \A l \in Loops : ioq[l] = <<>>
      BY Zenon, <2>2, <3>1, <3>2 DEF QueueInv
    <3>4. \A c \in Conns : conn[c] # "new"
      BY <2>2, <3>3 DEF QueueInv, AttachAt, EntryAt
    <3>5. \A c \in Conns : conn[c] = "open" => c \in holding
      BY <2>2, <3>1 DEF HeldInv, TableGone
    <3> QED
      BY <2>1, <3>1, <3>4, <3>5 DEF ServerAborts, EarlyNeedsMode1, DestroyNeedsStop, DestroyNeedsClosed
  <2>6. ASSUME NEW c \in Conns, AcceptHandle(c) PROVE ServerAborts'
    <3>1. CASE serverState = "RUNNING"
      <4>1. aborted' = "no" /\ pc' # "gone"
        BY Zenon, <2>1, <2>6, <3>1 DEF AcceptHandle
      <4> QED
        BY <2>3, <4>1
    <3>2. CASE serverState # "RUNNING"
      <4>1. ctl /\ listener = "attached" /\ aborted' = "not running" /\ UNCHANGED <<pc, serverState>>
        BY Zenon, <2>6, <3>2 DEF AcceptHandle, Free
      <4>2. serverState = "INIT" /\ pc = "running"
        BY <2>2, <3>2, <4>1 DEF PhaseInv, Early
      <4>3. mode = 1
        BY <2>2, <4>1, <4>2 DEF PhaseInv, TypeInv
      <4> QED
        BY <2>1, <4>1, <4>2, <4>3 DEF ServerAborts, EarlyNeedsMode1, DestroyNeedsStop, DestroyNeedsClosed
    <3> QED
      BY <3>1, <3>2
  <2>7. ASSUME NEW c \in Conns, Connect(c) \/ AcceptFails(c) \/ CloseConn(c) \/ ReleaseConn(c) PROVE ServerAborts'
    <3>1. aborted' \in {"no", "freed table", "open channel"} /\ pc' = pc
      BY Zenon, <2>1, <2>7 DEF Connect, AcceptFails, CloseConn, ReleaseConn, HandleCloseConnection, HashTableRemove
    <3> QED
      BY <2>1, <2>3, <3>1
  <2>8. ASSUME NEW l \in Loops, EnterIOLoop(l) \/ RunAttach(l) \/ RunStop(l) PROVE ServerAborts'
    <3>1. aborted' \in {"no", "freed table", "open channel"} /\ pc' = pc
      BY Zenon, <2>1, <2>8 DEF EnterIOLoop, RunAttach, RunStop, HandleCloseConnection, HashTableRemove
    <3> QED
      BY <2>1, <2>3, <3>1
  <2>9. CASE Listen \/ StartPool \/ Accept \/ SetRunning \/ DispatchControl
    <3>1. aborted' = "no" /\ pc' \in {"pool", "accept", "running", "dispatch", "up"}
      BY Zenon, <2>1, <2>9 DEF Listen, StartPool, Accept, SetRunning, DispatchControl
    <3> QED
      BY <2>3, <3>1
  <2>10. CASE RunControl \/ BeginStop \/ StopPool
    <3>1. aborted' \in {"no", "freed table", "null channel", "pool stopped"} /\ pc' = pc
      BY Zenon, <2>1, <2>10 DEF RunControl, HashTableRemove, BeginStop, StopPool
    <3> QED
      BY <2>1, <2>3, <3>1
  <2> QED
    BY Zenon, <1>2, <2>4, <2>5, <2>6, <2>7, <2>8, <2>9, <2>10 DEF ServerNext
<1> QED
  BY <1>1, <1>2

LEMMA SafeStep == Safe /\ [ServerNext]_srv => Safe'
<1> SUFFICES ASSUME Safe, [ServerNext]_srv PROVE Safe'
  OBVIOUS
<1>1. Inv /\ ServerAborts /\ TypeInv /\ AttachInv /\ RemoveInv /\ (aborted = "no" => Sane)
  BY Zenon DEF Safe, Inv
<1>2. TypeInv' /\ AttachInv' /\ RemoveInv' /\ TableHasOneThread'
  BY Zenon, <1>1, ServerTypeStep, AttachStep, RemoveStep
<1>3. ServerAborts'
  BY Zenon, <1>1, AbortStep
<1>4. ASSUME aborted' = "no" PROVE Sane'
  <2>1. CASE UNCHANGED srv
    BY Zenon, <1>1, <1>4, <2>1 DEF srv, Sane, PhaseInv, Early, TableGone, ListenerQueued, QueueInv, HeldInv,
       AttachAt, StopAt, EntryAt, StopPlace, Loops
  <2>2. CASE ServerNext
    <3>1. PhaseInv /\ ListenerQueued /\ QueueInv /\ HeldInv
      BY Zenon, <1>1, <2>2 DEF ServerNext, Sane
    <3>2. PhaseInv' /\ ListenerQueued'
      BY Zenon, <1>1, <1>4, <2>2, <3>1, PhaseStep, ListenerStep
    <3>3. QueueInv'
      BY Zenon, <1>1, <1>4, <2>2, <3>1, QueueStep
    <3>4. HeldInv'
      BY Zenon, <1>1, <1>4, <2>2, <3>1, HeldStep
    <3> QED
      BY Zenon, <3>2, <3>3, <3>4 DEF Sane
  <2> QED
    BY <2>1, <2>2
<1> QED
  BY Zenon, <1>2, <1>3, <1>4 DEF Safe, Inv

LEMMA SafeCorrect == ServerSpec => []Safe
BY InitInv, SafeStep, PTL DEF ServerSpec

-----------------------------------------------------------------------------
(* The server's theorems.                                                  *)

\* conns_table_ is accurate and has one thread: whatever loops the connections
\* live on and however closes, removals, attaches and the server's stop
\* interleave, no live connection is missing from the table until ~Server destroys
\* it, and a closed one stays in it only while handleCloseConnection's removal is
\* queued.
THEOREM TableIsKeptHolds == ServerSpec => []TableIsKept
<1>1. Safe => TableIsKept
  <2> SUFFICES ASSUME Safe, ~TableGone, NEW c \in Conns
               PROVE  /\ conn[c] \in {"new", "open"} => c \in table
                      /\ conn[c] = "closed" /\ c \in table =>
                           \E k \in DOMAIN ctlq : ctlq[k] = Task("remove", c)
    BY DEF Safe, Inv, TableIsKept, TableIsAccurate
  <2>1. ctlq \in Seq(CtlTasks)
    BY DEF Safe, Inv, TypeInv
  <2>2. DOMAIN ctlq = 1..Len(ctlq)
    BY <2>1
  <2> QED
    BY Zenon, <2>2 DEF Safe, Inv, RemoveInv, RemoveAt
<1> QED
  BY <1>1, SafeCorrect, PTL

\* The assertions of the server: handleNewConnection's fails only in the window
\* of start in mode 1, never in mode 0 and never after stop; ~Server's own holds once
\* a stop that did not overlap start has returned; and when ~Server returns, the loops
\* have attached every connection that was queued to them, and each connection is
\* closed or held by the application.
THEOREM ServerAbortsHolds == ServerSpec => []ServerAborts
<1>1. Safe => ServerAborts
  BY DEF Safe
<1> QED
  BY <1>1, SafeCorrect, PTL

-----------------------------------------------------------------------------
(* The pool: getIOEventLoop.                                               *)

\* The half range of int and the range of size_t.
H == 2^(IntBits - 1)
S == 2^SizeBits

LEMMA Widths ==
  /\ H \in Nat /\ S \in Nat /\ H + H <= S /\ N \in Nat /\ N > 0 /\ N <= H
BY PoolAssumption, WidthAssumption DEF H, S


\* The value of current_index_ d calls ago.
Back(c, d) == IF c - d >= -H THEN c - d ELSE c - d + H + H

\* Two values less than N apart have different remainders.
LEMMA ModDistinct ==
  ASSUME NEW a \in Nat, NEW b \in Nat, a < b, b - a < N
  PROVE  a % N # b % N
<1>0. N \in Nat /\ N > 0
  BY Widths
<1>1. ASSUME NEW x \in Nat
      PROVE  x \div N \in Int /\ x % N \in Int /\ x % N = x - N * (x \div N)
  BY <1>0
<1> SUFFICES ASSUME a % N = b % N PROVE FALSE
  OBVIOUS
<1> DEFINE p == a \div N
           q == b \div N
<1>2. p \in Int /\ q \in Int /\ b - a = N * q - N * p
  <2>1. a % N = a - N * p /\ b % N = b - N * q /\ p \in Int /\ q \in Int
    BY <1>1
  <2> HIDE DEF p, q
  <2>2. N * p \in Int /\ N * q \in Int
    BY <1>0, <2>1
  <2> QED
    BY <2>1, <2>2
<1> HIDE DEF p, q
<1>3. b - a = N * (q - p)
  BY <1>0, <1>2
<1>4. CASE q - p <= 0
  BY <1>0, <1>2, <1>3, <1>4
<1>5. CASE q - p >= 1
  BY <1>0, <1>2, <1>3, <1>5
<1> QED
  BY <1>2, <1>4, <1>5

\* Two of the last N values of the counter that have the same sign pick
\* different loops: same-signed values of the window lie in one run, whatever
\* jump the window contains.
LEMMA SameSign ==
  ASSUME NEW c \in (-H)..(H - 1), NEW d \in 1..N, NEW e \in 1..N, d < e,
         Back(c, d) < 0 <=> Back(c, e) < 0
  PROVE  Index(Back(c, d)) # Index(Back(c, e))
<1> DEFINE x == Back(c, d)
           y == Back(c, e)
<1>1. x \in (-H)..(H - 1) /\ y \in (-H)..(H - 1) /\ y < x /\ x - y < N
  BY Widths DEF Back
<1> HIDE DEF x, y
<1>2. CASE x < 0
  <2>1. y < 0
    BY <1>1, <1>2, Widths
  <2>2. x + S \in Nat /\ y + S \in Nat /\ y + S < x + S /\ (x + S) - (y + S) < N
    BY <1>1, Widths
  <2>3. Index(x) = (x + S) % N /\ Index(y) = (y + S) % N
    BY <1>2, <2>1 DEF Index, S
  <2> QED
    BY Zenon, <2>2, <2>3, ModDistinct DEF x, y
<1>3. CASE ~(x < 0)
  <2>1. ~(y < 0)
    BY <1>3 DEF x, y
  <2>2. x \in Nat /\ y \in Nat
    BY <1>1, <1>3, <2>1, Widths
  <2>3. Index(x) = x % N /\ Index(y) = y % N
    BY <1>3, <2>1 DEF Index
  <2> QED
    BY Zenon, <1>1, <2>2, <2>3, ModDistinct DEF x, y
<1> QED
  BY <1>2, <1>3

LEMMA IndexRange ==
  ASSUME NEW c \in (-H)..(H - 1)
  PROVE  Index(c) \in 0..(N - 1)
BY Widths DEF Index, S, H

\* One call moves every value of the window one further back.
LEMMA BackStep ==
  ASSUME NEW c \in (-H)..(H - 1), NEW d \in 1..N
  PROVE  /\ Succ(c) \in (-H)..(H - 1)
         /\ Back(Succ(c), 1) = c
         /\ Back(Succ(c), d + 1) = Back(c, d)
         /\ Back(c, d) \in (-H)..(H - 1)
BY Widths DEF Back, Succ, H

\* The window: the loops handed out last are those of the counter's last values.
Window ==
  \A k \in 1..Len(recent) : recent[k] = Index(Back(current_index, Len(recent) + 1 - k))

IndexInv == TypeOK /\ Window

LEMMA IndexInit == Init => IndexInv
<1> SUFFICES ASSUME Init PROVE IndexInv
  OBVIOUS
<1>1. current_index \in (-H)..(H - 1) /\ 1 \in Ids
  BY Widths DEF Init, Ids
<1>2. recent = <<>> /\ Len(recent) = 0 /\ recent \in Seq(0..(N - 1)) /\ Len(recent) <= N
  BY Widths DEF Init
<1>3. TypeOK
  BY <1>1, <1>2 DEF Init, TypeOK, States, Places, OwnerSteps, H
<1>4. Window
  BY <1>2 DEF Window
<1> QED
  BY <1>3, <1>4 DEF IndexInv

LEMMA IndexPick ==
  ASSUME IndexInv, GetIOEventLoop
  PROVE  IndexInv'
<1>1. current_index \in (-H)..(H - 1) /\ recent \in Seq(0..(N - 1)) /\ Len(recent) \in 0..N
  BY Widths DEF IndexInv, TypeOK, H
<1> DEFINE n == Len(recent)
           c == current_index
           a == Append(recent, Index(c))
<1>2. Succ(c) \in (-H)..(H - 1) /\ Back(Succ(c), 1) = c
  <2>1. 1 \in 1..N
    BY Widths
  <2> QED
    BY <1>1, <2>1, BackStep
<1>3. a \in Seq(0..(N - 1)) /\ Len(a) = n + 1
  BY <1>1, IndexRange
<1>4. ASSUME NEW k \in 1..(n + 1)
      PROVE  a[k] = Index(Back(Succ(c), n + 2 - k))
  <2>1. CASE k = n + 1
    BY <1>1, <1>2, <2>1
  <2>2. CASE k \in 1..n
    <3>0. a[k] = recent[k]
      BY <1>1, <2>2, IndexRange
    <3>1. n + 1 - k \in 1..N /\ n + 2 - k = (n + 1 - k) + 1
      BY <1>1, <2>2, Widths
    <3>2. recent[k] = Index(Back(c, n + 1 - k))
      BY <2>2 DEF IndexInv, Window
    <3>3. Back(Succ(c), (n + 1 - k) + 1) = Back(c, n + 1 - k)
      BY Zenon, <1>1, <3>1, BackStep
    <3> QED
      BY <3>0, <3>1, <3>2, <3>3, Zenon
  <2> QED
    BY <1>1, <2>1, <2>2
<1>5. current_index' = Succ(c) /\ recent' = Last(a)
  BY DEF GetIOEventLoop
<1> HIDE DEF a
<1>6. /\ recent' \in Seq(0..(N - 1)) /\ Len(recent') \in 0..N
      /\ \A k \in 1..Len(recent') : recent'[k] = Index(Back(Succ(c), Len(recent') + 1 - k))
  <2>1. CASE n + 1 > N
    <3>1. n = N /\ recent' = Tail(a) /\ Len(recent') = n /\ recent' \in Seq(0..(N - 1))
      BY <1>1, <1>3, <1>5, <2>1, Widths DEF Last
    <3>2. ASSUME NEW k \in 1..n PROVE recent'[k] = Index(Back(Succ(c), n + 1 - k))
      <4>1. recent'[k] = a[k + 1]
        BY <1>3, <3>1
      <4>2. k + 1 \in 1..(n + 1) /\ n + 2 - (k + 1) = n + 1 - k
        BY <1>1
      <4> QED
        BY Zenon, <1>4, <4>1, <4>2
    <3> QED
      BY <1>1, <3>1, <3>2, Zenon
  <2>2. CASE ~(n + 1 > N)
    <3>1. recent' = a /\ Len(recent') = n + 1 /\ n + 1 \in 0..N /\ (n + 1) + 1 = n + 2
      BY <1>1, <1>3, <1>5, <2>2, Widths DEF Last
    <3> QED
      BY <1>3, <1>4, <3>1
  <2> QED
    BY <2>1, <2>2
<1>7. TypeOK'
  BY <1>2, <1>5, <1>6 DEF IndexInv, TypeOK, GetIOEventLoop, H
<1>8. Window'
  BY <1>5, <1>6 DEF Window
<1> QED
  BY <1>7, <1>8 DEF IndexInv

\* What the owner and the threads change is well typed, and they leave the
\* counter alone.
LEMMA TypeStep ==
  ASSUME TypeOK, Owner \/ AutoStop \/ AutoJoin \/ Destroy \/ (\E t \in Ids : Thread(t))
  PROVE  TypeOK' /\ UNCHANGED <<current_index, recent>>
<1> USE DEF States, Places, OwnerSteps
<1>1. i + 1 \in Ids \/ ~(i < N)
  BY Widths DEF TypeOK, Ids
<1>2. 1 \in Ids
  BY Widths DEF Ids
<1>3. CASE AutoStart \/ AutoStop \/ AutoJoin \/ Destroy \/ StopCheck
  BY <1>3, Zenon DEF AutoStart, AutoStop, AutoJoin, Destroy, StopCheck, TypeOK
<1>4. CASE Spawn
  BY Zenon, <1>4 DEF Spawn, TypeOK
<1>5. CASE AwaitRunning \/ ThreadStopped
  BY Zenon, <1>1, <1>2, <1>5 DEF AwaitRunning, ThreadStopped, TypeOK
<1>6. CASE StopLoop \/ StopInline
  BY <1>6, Zenon DEF StopLoop, StopInline, TypeOK
<1>7. CASE JoinThread \/ DestroyThread
  BY Zenon, <1>1, <1>2, <1>7 DEF JoinThread, DestroyThread, Join, TypeOK
<1>8. CASE \E t \in Ids : Thread(t)
  <2>1. PICK t \in Ids : Thread(t)
    BY Zenon, <1>8
  <2>2. CASE EnterLoop(t) \/ LeaveLoop(t)
    BY Zenon, <2>2 DEF EnterLoop, LeaveLoop, TypeOK
  <2>3. CASE StoreRunning(t) \/ StoreStopped(t)
    BY Zenon, <2>3 DEF StoreRunning, StoreStopped, TypeOK
  <2> QED
    BY Zenon, <2>1, <2>2, <2>3 DEF Thread
<1> QED
  BY <1>3, <1>4, <1>5, <1>6, <1>7, <1>8 DEF Owner

LEMMA IndexStep == IndexInv /\ [Next]_vars => IndexInv'
<1> SUFFICES ASSUME IndexInv, [Next]_vars PROVE IndexInv'
  OBVIOUS
<1>1. CASE GetIOEventLoop
  BY <1>1, IndexPick
<1>2. CASE Owner \/ AutoStop \/ AutoJoin \/ Destroy \/ (\E t \in Ids : Thread(t))
  <2>1. TypeOK' /\ UNCHANGED <<current_index, recent>>
    BY <1>2, TypeStep DEF IndexInv
  <2> QED
    BY <2>1 DEF IndexInv, Window
<1>3. CASE UNCHANGED vars
  BY <1>3 DEF vars, IndexInv, Window, TypeOK
<1> QED
  BY <1>1, <1>2, <1>3 DEF Next

\* The invariant gives the property: two picks of one loop have values of
\* opposite sign, and of three values two have the same sign.
LEMMA WindowDeals == IndexInv => PoolIndex
<1> SUFFICES ASSUME IndexInv PROVE RoundRobin
  BY DEF IndexInv, PoolIndex
<1> DEFINE n == Len(recent)
           c == current_index
           B(k) == Back(c, n + 1 - k)
<1>1. c \in (-H)..(H - 1) /\ n \in 0..N
  BY Widths DEF IndexInv, TypeOK, H
<1>2. ASSUME NEW k \in 1..n PROVE recent[k] = Index(B(k)) /\ n + 1 - k \in 1..N
  BY <1>1, Widths DEF IndexInv, Window
<1>3. ASSUME NEW j \in 1..n, NEW k \in 1..n, recent[j] = recent[k], B(j) < 0 <=> B(k) < 0
      PROVE  j = k
  <2>1. n + 1 - j \in 1..N /\ n + 1 - k \in 1..N /\ Index(B(j)) = Index(B(k))
    BY <1>2, <1>3
  <2>2. ~(n + 1 - j < n + 1 - k)
    BY Zenon, <1>1, <1>3, <2>1, SameSign
  <2>3. ~(n + 1 - k < n + 1 - j)
    BY Zenon, <1>1, <1>3, <2>1, SameSign
  <2> QED
    BY <1>1, <2>2, <2>3
<1>4. ASSUME NEW j \in 1..n, NEW k \in 1..n,
             c >= n \/ c \in (n - H)..0
      PROVE  B(j) < 0 <=> B(k) < 0
  BY <1>1, <1>4, Widths DEF Back
<1> HIDE DEF B
<1>5. ASSUME NEW j \in 1..n, NEW k \in 1..n, NEW m \in 1..n,
             recent[j] = recent[k], recent[k] = recent[m]
      PROVE  j = k \/ k = m \/ j = m
  BY <1>3, <1>5
<1> QED
  BY Zenon, <1>3, <1>4, <1>5 DEF RoundRobin, H

\* Round robin, whatever the number of threads and the width of the counter:
\* getIOEventLoop's int overflows and its size_t value jumps, yet any
\* threads_num_ calls in a row reach every loop but where they contain a jump,
\* and none more than twice.
THEOREM PoolIndexHolds == Spec => []PoolIndex
<1>1. Init => IndexInv
  BY IndexInit
<1>2. IndexInv /\ [Next]_vars => IndexInv'
  BY IndexStep
<1>3. IndexInv => PoolIndex
  BY WindowDeals
<1> QED
  BY <1>1, <1>2, <1>3, PTL DEF Spec

-----------------------------------------------------------------------------
(* The pool: stopping.                                                     *)

\* A thread is past the RUNNING it stores about itself.
Up(t) == at[t] \notin {"none", "spawned"}

\* autoStart: the threads before i are up, those after it not begun, and thread
\* i shows RUNNING only once it is up.  From autoStop on every thread is up, so
\* none stores RUNNING any more.
Started ==
  /\ opc = "new" => \A t \in Ids : at[t] = "none"
  /\ opc = "spawn" => \A t \in Ids : IF t < i THEN Up(t) ELSE at[t] = "none"
  /\ opc = "await" => \A t \in Ids : /\ t < i => Up(t)
                                     /\ t > i => at[t] = "none"
                                     /\ t = i => at[t] # "none"
  /\ opc \notin {"new", "spawn", "await"} => \A t \in Ids : Up(t)
  /\ \A t \in Ids : at[t] = "spawned" => tstate[t] = "INIT"

\* autoStop and what follows: the STOPPED stored so far stays until the
\* destructor has joined the thread.
Stopped ==
  /\ opc \in {"stop", "inline", "store"} => \A t \in Ids : t < i => tstate[t] = "STOPPED"
  /\ opc \in {"check", "stopped", "join", "joined"} => \A t \in Ids : tstate[t] = "STOPPED"
  /\ opc \in {"stopped", "join", "joined", "destroy", "destroyed"} => state = "STOPPED"
  /\ opc \in {"join", "destroy"} => \A t \in Ids : t < i => at[t] = "finished"
  /\ opc \in {"joined", "destroyed"} => \A t \in Ids : at[t] = "finished"
  /\ opc \in {"new", "run", "check", "stopped", "joined"} => i = 1
  /\ opc # "failed"

StopInv == TypeOK /\ Window /\ Started /\ Stopped

LEMMA StopInit == Init => StopInv
<1> SUFFICES ASSUME Init PROVE StopInv
  OBVIOUS
<1>1. TypeOK /\ Window
  BY IndexInit DEF IndexInv
<1>2. Started /\ Stopped
  BY Zenon DEF Init, Started, Stopped
<1> QED
  BY <1>1, <1>2 DEF StopInv

\* autoStart: thread i is up when its RUNNING has been seen.
LEMMA StartSteps ==
  ASSUME StopInv, AutoStart \/ Spawn \/ AwaitRunning
  PROVE  Started' /\ Stopped'
<1>0. i \in Ids /\ at \in [Ids -> Places] /\ tstate \in [Ids -> States] /\ Ids \subseteq Int /\ N \in Int
  BY Widths DEF StopInv, TypeOK, Ids
<1>1. CASE AutoStart
  <2>1. i = 1 /\ \A t \in Ids : at[t] = "none" /\ ~(t < 1)
    BY <1>0, <1>1, Widths DEF AutoStart, StopInv, Started, Stopped, Ids
  <2> QED
    BY Zenon, <1>1, <2>1 DEF AutoStart, StopInv, Started, Stopped, Up
<1>2. CASE Spawn
  BY <1>0, <1>2 DEF Spawn, StopInv, Started, Stopped, Up
<1>3. CASE AwaitRunning
  <2>1. Up(i) /\ at' = at /\ tstate' = tstate
    BY Zenon, <1>0, <1>3 DEF AwaitRunning, StopInv, Started, Up
  <2>2. \A t \in Ids : (t < i => Up(t)) /\ (t > i => at[t] = "none")
    BY Zenon, <1>3 DEF AwaitRunning, StopInv, Started
  <2>3. \A t \in Ids : at[t] = "spawned" => tstate[t] = "INIT"
    BY DEF StopInv, Started
  <2>4. CASE i < N
    <3>1. opc' = "spawn" /\ i' = i + 1
      BY <1>3, <2>4 DEF AwaitRunning
    <3>2. \A t \in Ids : IF t < i + 1 THEN Up(t) ELSE at[t] = "none"
      BY <1>0, <2>1, <2>2
    <3> QED
      BY Zenon, <2>1, <2>3, <3>1, <3>2 DEF Started, Stopped, Up
  <2>5. CASE ~(i < N)
    <3>1. opc' = "run" /\ i' = 1
      BY Zenon, <1>3, <2>5 DEF AwaitRunning
    <3>2. \A t \in Ids : Up(t)
      BY <1>0, <2>1, <2>2, <2>5 DEF Ids
    <3> QED
      BY Zenon, <2>1, <2>3, <3>1, <3>2 DEF Started, Stopped, Up
  <2> QED
    BY <2>4, <2>5
<1> QED
  BY <1>1, <1>2, <1>3

\* A thread's own steps: only a thread that is not up stores RUNNING, and a
\* finished thread takes no step.
LEMMA ThreadSteps ==
  ASSUME StopInv, NEW t \in Ids, Thread(t)
  PROVE  Started' /\ Stopped'
<1>0. /\ i \in Ids /\ at \in [Ids -> Places] /\ tstate \in [Ids -> States]
      /\ UNCHANGED <<opc, i, state>>
  BY Zenon DEF StopInv, TypeOK, Thread, StoreRunning, EnterLoop, LeaveLoop, StoreStopped
<1>1. at[t] # "none" /\ Up(t)' /\ \A u \in Ids \ {t} : at'[u] = at[u] /\ tstate'[u] = tstate[u]
  BY Zenon, <1>0 DEF Thread, StoreRunning, EnterLoop, LeaveLoop, StoreStopped, Up
<1>2. at[t] # "finished"
  BY Zenon DEF Thread, StoreRunning, EnterLoop, LeaveLoop, StoreStopped
<1>3. tstate'[t] = tstate[t] \/ tstate'[t] = "STOPPED" \/ at[t] = "spawned"
  BY Zenon, <1>0 DEF Thread, StoreRunning, EnterLoop, LeaveLoop, StoreStopped
<1>4. Started'
  <2>1. \A u \in Ids : (Up(u) => Up(u)') /\ (u # t => at'[u] = at[u])
    BY Zenon, <1>1 DEF Up
  <2>2. \A u \in Ids : at'[u] = "spawned" => tstate'[u] = "INIT"
    BY Zenon, <1>1 DEF StopInv, Started, Up
  <2> QED
    BY Zenon, <1>0, <1>1, <2>1, <2>2 DEF StopInv, Started, Up
<1>5. Stopped'
  <2>1. opc \notin {"new", "spawn", "await"} => at[t] # "spawned"
    BY DEF StopInv, Started, Up
  <2>2. \A u \in Ids : at[u] = "finished" => at'[u] = "finished"
    BY Zenon, <1>1, <1>2
  <2>3. opc \notin {"new", "spawn", "await"} =>
          \A u \in Ids : tstate[u] = "STOPPED" => tstate'[u] = "STOPPED"
    BY Zenon, <1>1, <1>3, <2>1
  <2> QED
    BY Zenon, <1>0, <2>2, <2>3 DEF StopInv, Stopped
<1> QED
  BY <1>4, <1>5

\* autoStop: each thread's STOPPED is stored, and the check finds them all.
LEMMA StopSteps ==
  ASSUME StopInv, AutoStop \/ StopLoop \/ StopInline \/ ThreadStopped \/ StopCheck
  PROVE  Started' /\ Stopped'
<1>0. i \in Ids /\ tstate \in [Ids -> States] /\ Ids \subseteq Int /\ N \in Int
  BY Widths DEF StopInv, TypeOK, Ids
<1>1. /\ UNCHANGED at /\ opc' \notin {"new", "spawn", "await"}
      /\ \A t \in Ids : Up(t)
  BY Zenon DEF StopInv, Started, Stopped, AutoStop, StopLoop, StopInline, ThreadStopped, StopCheck
<1>2. Started'
  BY <1>1 DEF Started, Up
<1>3. CASE AutoStop
  <2>1. i = 1 /\ \A t \in Ids : ~(t < 1)
    BY <1>3, Widths DEF AutoStop, StopInv, Stopped, Ids
  <2> QED
    BY Zenon, <1>2, <1>3, <2>1 DEF AutoStop, Stopped
<1>4. CASE StopLoop \/ StopInline
  BY <1>2, <1>4, Zenon DEF StopLoop, StopInline, StopInv, Stopped
<1>5. CASE ThreadStopped
  <2>1. \A t \in Ids : t < i \/ t = i => tstate'[t] = "STOPPED"
    BY Zenon, <1>0, <1>5 DEF ThreadStopped, StopInv, Stopped
  <2>2. CASE i < N
    <3>1. opc' = "stop" /\ i' = i + 1
      BY Zenon, <1>5, <2>2 DEF ThreadStopped
    <3>2. \A t \in Ids : t < i + 1 => tstate'[t] = "STOPPED"
      BY <1>0, <2>1
    <3> QED
      BY Zenon, <1>2, <3>1, <3>2 DEF Stopped
  <2>3. CASE ~(i < N)
    <3>1. opc' = "check" /\ i' = 1
      BY Zenon, <1>5, <2>3 DEF ThreadStopped
    <3>2. \A t \in Ids : tstate'[t] = "STOPPED"
      BY <1>0, <2>1, <2>3 DEF Ids
    <3> QED
      BY Zenon, <1>2, <3>1, <3>2 DEF Stopped
  <2> QED
    BY <2>2, <2>3
<1>6. CASE StopCheck
  BY Zenon, <1>2, <1>6 DEF StopCheck, StopInv, Stopped
<1> QED
  BY <1>3, <1>4, <1>5, <1>6

\* autoJoin and the destructors: one thread after the other has finished.
LEMMA JoinSteps ==
  ASSUME StopInv, AutoJoin \/ JoinThread \/ Destroy \/ DestroyThread
  PROVE  Started' /\ Stopped'
<1>0. /\ i \in Ids /\ tstate \in [Ids -> States] /\ Ids \subseteq Int /\ N \in Int
      /\ \A t \in Ids : ~(t < 1)
  BY Widths DEF StopInv, TypeOK, Ids
<1>1. /\ UNCHANGED at /\ opc' \notin {"new", "spawn", "await"}
      /\ \A t \in Ids : Up(t)
  BY Zenon DEF StopInv, Started, AutoJoin, JoinThread, Destroy, DestroyThread, Join
<1>2. Started'
  BY <1>1 DEF Started, Up
<1>3. CASE AutoJoin \/ Destroy
  <2>1. i = 1 /\ i' = 1
    BY Zenon, <1>3 DEF AutoJoin, Destroy, StopInv, Stopped
  <2> QED
    BY Zenon, <1>0, <1>2, <1>3, <2>1 DEF AutoJoin, Destroy, StopInv, Stopped
<1>4. CASE JoinThread \/ (DestroyThread /\ tstate[i] = "STOPPED")
  <2>1. \A t \in Ids : t < i \/ t = i => at[t] = "finished"
    BY Zenon, <1>0, <1>4 DEF JoinThread, DestroyThread, Join, StopInv, Stopped
  <2>2. i < N => \A t \in Ids : t < i + 1 => at[t] = "finished"
    BY <1>0, <2>1
  <2>3. ~(i < N) => \A t \in Ids : at[t] = "finished"
    BY <1>0, <2>1 DEF Ids
  <2>4. state = "STOPPED" /\ state' = state
    BY Zenon, <1>4 DEF JoinThread, DestroyThread, StopInv, Stopped
  <2>5. CASE JoinThread
    BY Zenon, <1>1, <1>2, <2>2, <2>3, <2>4, <2>5 DEF JoinThread, Join, StopInv, Stopped
  <2>6. CASE DestroyThread /\ tstate[i] = "STOPPED"
    BY Zenon, <1>1, <1>2, <2>2, <2>3, <2>4, <2>6 DEF DestroyThread, Join, Stopped
  <2> QED
    BY <1>4, <2>5, <2>6
<1>5. CASE DestroyThread /\ tstate[i] # "STOPPED"
  BY Zenon, <1>2, <1>5 DEF DestroyThread, Stopped
<1> QED
  BY <1>3, <1>4, <1>5

LEMMA StopStep == StopInv /\ [Next]_vars => StopInv'
<1> SUFFICES ASSUME StopInv, [Next]_vars PROVE StopInv'
  OBVIOUS
<1>1. TypeOK' /\ Window'
  BY IndexStep DEF StopInv, IndexInv
<1>2. CASE UNCHANGED <<state, tstate, at, opc, i>>
  <2>1. Started' /\ Stopped'
    BY <1>2 DEF StopInv, Started, Stopped, Up
  <2> QED
    BY <1>1, <2>1 DEF StopInv
<1>3. CASE Owner \/ AutoStop \/ AutoJoin \/ Destroy
  <2>1. Started' /\ Stopped'
    BY <1>3, StartSteps, StopSteps, JoinSteps DEF Owner
  <2> QED
    BY <1>1, <2>1 DEF StopInv
<1>4. CASE \E t \in Ids : Thread(t)
  <2>1. Started' /\ Stopped'
    BY <1>4, ThreadSteps
  <2> QED
    BY <1>1, <2>1 DEF StopInv
<1> QED
  BY Zenon, <1>2, <1>3, <1>4 DEF Next, GetIOEventLoop, vars

\* Until autoStop no loop is told to leave, and a thread that is up shows RUNNING.
Calm == \A t \in Ids : ~exitreq[t] /\ at[t] \notin {"left", "finished"} /\ (Up(t) => tstate[t] = "RUNNING")

\* The destructor finds the STOPPED of autoStop, or a pool that nothing has stopped.
Destroying ==
  /\ opc \in {"new", "spawn", "await", "run", "terminated"} => Calm
  /\ opc = "destroy" => (i = 1 /\ Calm) \/ \A t \in Ids : t < i \/ tstate[t] = "STOPPED"

LEMMA CalmStays ==
  ASSUME StopInv, Calm, NEW t \in Ids, Thread(t)
  PROVE  Calm'
<1>1. at \in [Ids -> Places] /\ tstate \in [Ids -> States] /\ ~exitreq[t] /\ at[t] # "left"
  BY Zenon DEF StopInv, TypeOK, Calm
<1>2. (StoreRunning(t) \/ EnterLoop(t)) /\ exitreq' = exitreq
  BY Zenon, <1>1 DEF Thread, LeaveLoop, StoreStopped, StoreRunning, EnterLoop
<1>3. /\ at'[t] \in {"running", "loop"} /\ \A u \in Ids : u # t => at'[u] = at[u] /\ tstate'[u] = tstate[u]
      /\ tstate'[t] = "RUNNING"
  BY Zenon, <1>1, <1>2 DEF StoreRunning, EnterLoop, Calm, Up
<1>4. at'[t] \notin {"left", "finished"}
  BY <1>3
<1> QED
  BY Zenon, <1>2, <1>3, <1>4 DEF Calm, Up

LEMMA CalmStart ==
  ASSUME StopInv, Calm, AutoStart \/ Spawn \/ AwaitRunning
  PROVE  Calm'
<1>1. CASE AutoStart \/ AwaitRunning
  BY Zenon, <1>1 DEF AutoStart, AwaitRunning, Calm, Up
<1>2. CASE Spawn
  <2>1. /\ at'[i] = "spawned" /\ exitreq' = exitreq
        /\ \A u \in Ids : u # i => at'[u] = at[u] /\ tstate'[u] = tstate[u]
    BY Zenon, <1>2 DEF Spawn, StopInv, TypeOK
  <2> QED
    BY Zenon, <2>1 DEF Calm, Up
<1> QED
  BY <1>1, <1>2

LEMMA DestroySteps ==
  ASSUME StopInv, Destroying, [Next]_vars
  PROVE  Destroying'
<1>0. i \in Ids /\ tstate \in [Ids -> States] /\ at \in [Ids -> Places] /\ Ids \subseteq Int /\ N \in Int
  BY Widths DEF StopInv, TypeOK, Ids
<1>1. CASE UNCHANGED <<tstate, at, exitreq, opc, i>>
  BY Zenon, <1>1 DEF Destroying, Calm, Up
<1>2. CASE AutoStart \/ Spawn \/ AwaitRunning
  <2>1. opc \in {"new", "spawn", "await"} /\ opc' # "destroy"
    BY <1>2 DEF AutoStart, Spawn, AwaitRunning
  <2>2. Calm'
    BY Zenon, <1>2, <2>1, CalmStart DEF Destroying
  <2> QED
    BY Zenon, <2>1, <2>2 DEF Destroying
<1>3. CASE AutoStop \/ StopLoop \/ StopInline \/ ThreadStopped \/ StopCheck \/ AutoJoin \/ JoinThread
  <2>1. opc' \in {"stop", "inline", "store", "check", "failed", "stopped", "join", "joined"}
    BY Zenon, <1>3 DEF AutoStop, StopLoop, StopInline, ThreadStopped, StopCheck, AutoJoin, JoinThread, Join
  <2> QED
    BY <2>1 DEF Destroying
<1>4. CASE Destroy
  <2>1. UNCHANGED <<tstate, at, exitreq, i>> /\ opc' = "destroy" /\ opc \in {"run", "stopped", "joined"}
    BY Zenon, <1>4 DEF Destroy
  <2>2. CASE opc = "run"
    <3>1. i = 1 /\ Calm
      BY Zenon, <2>2 DEF StopInv, Stopped, Destroying
    <3>2. i' = 1 /\ Calm'
      BY Zenon, <2>1, <3>1 DEF Calm, Up
    <3> QED
      BY <2>1, <3>2 DEF Destroying
  <2>3. CASE opc # "run"
    <3>1. \A t \in Ids : tstate'[t] = "STOPPED"
      BY Zenon, <2>1, <2>3 DEF StopInv, Stopped
    <3> QED
      BY <2>1, <3>1 DEF Destroying
  <2> QED
    BY <2>2, <2>3
<1>5. CASE DestroyThread
  <2>0. opc = "destroy" /\ opc \notin {"new", "spawn", "await"}
    BY <1>5 DEF DestroyThread
  <2>1. Calm => tstate[i] = "RUNNING"
    BY Zenon, <1>0, <2>0 DEF Calm, StopInv, Started
  <2>2. CASE tstate[i] = "STOPPED"
    <3>1. /\ \A t \in Ids : t < i \/ tstate[t] = "STOPPED"
          /\ \A t \in Ids : t # i => tstate'[t] = tstate[t]
          /\ (i' = i + 1 /\ opc' = opc) \/ opc' = "destroyed"
      <4>1. tstate[i] # "RUNNING"
        BY <2>2
      <4>2. \A t \in Ids : t < i \/ tstate[t] = "STOPPED"
        BY Zenon, <2>0, <2>1, <4>1 DEF Destroying
      <4> QED
        BY Zenon, <1>0, <1>5, <2>2, <4>2 DEF DestroyThread, Join
    <3>2. CASE opc' = "destroyed"
      BY <3>2 DEF Destroying
    <3>3. CASE i' = i + 1 /\ opc' = opc
      <4>1. \A t \in Ids : t < i + 1 \/ (t # i /\ ~(t < i))
        BY <1>0
      <4>2. \A t \in Ids : t < i' \/ tstate'[t] = "STOPPED"
        BY Zenon, <3>1, <3>3, <4>1
      <4>3. opc' = "destroy" /\ opc' \notin {"new", "spawn", "await", "run", "terminated"}
        BY <2>0, <3>3
      <4> QED
        BY Zenon, <4>2, <4>3 DEF Destroying
    <3> QED
      BY <3>1, <3>2, <3>3
  <2>3. CASE tstate[i] # "STOPPED"
    <3>1. opc' = "terminated" /\ UNCHANGED <<tstate, at, exitreq, i>>
      BY Zenon, <1>5, <2>3 DEF DestroyThread
    <3>2. ~(i < i)
      BY <1>0
    <3>3. Calm
      BY Zenon, <1>0, <2>0, <2>3, <3>2 DEF Destroying
    <3>4. Calm'
      BY Zenon, <3>1, <3>3 DEF Calm, Up
    <3> QED
      BY <3>1, <3>4 DEF Destroying
  <2> QED
    BY <2>2, <2>3
<1>6. ASSUME NEW t \in Ids, Thread(t) PROVE Destroying'
  <2>1. opc # "terminated" /\ UNCHANGED <<opc, i>>
    BY Zenon, <1>6 DEF Thread, StoreRunning, EnterLoop, LeaveLoop, StoreStopped
  <2>2. Calm => Calm'
    BY Zenon, <1>6, CalmStays
  <2>3. opc = "destroy" => \A u \in Ids : tstate[u] = "STOPPED" => tstate'[u] = "STOPPED"
    <3>1. opc = "destroy" => at[t] # "spawned"
      BY DEF StopInv, Started, Up
    <3> QED
      BY Zenon, <1>0, <1>6, <3>1 DEF Thread, StoreRunning, EnterLoop, LeaveLoop, StoreStopped
  <2> QED
    BY Zenon, <2>1, <2>2, <2>3 DEF Destroying
<1> QED
  BY Zenon, <1>1, <1>2, <1>3, <1>4, <1>5, <1>6 DEF Next, Owner, GetIOEventLoop, vars

\* autoStop never times out, because no thread stores its RUNNING over the
\* STOPPED that EventLoopThread::stop has stored (autoStart waited for every
\* RUNNING first), no thread outlives autoJoin or ~EventLoopPool, and ~EventLoopThread
\* leaves out the join, which terminates the program, only in a pool that was not
\* stopped; for every number of threads and however early the owner stops the pool.
THEOREM PoolStopsHolds == Spec => []PoolStops
<1>1. Init => StopInv /\ Destroying
  <2>1. Init => Destroying
    BY Zenon DEF Init, Destroying, Calm, Up
  <2> QED
    BY <2>1, StopInit
<1>2. StopInv /\ Destroying /\ [Next]_vars => StopInv' /\ Destroying'
  BY StopStep, DestroySteps
<1>3. StopInv /\ Destroying => PoolStops
  <2> SUFFICES ASSUME StopInv, Destroying PROVE PoolStops
    OBVIOUS
  <2>1. StopSucceeds /\ NoThreadLeft
    BY DEF StopInv, Stopped, StopSucceeds, NoThreadLeft
  <2>2. TerminatesUnstopped
    <3>1. opc = "terminated" => Calm /\ \A t \in Ids : Up(t)
      BY DEF StopInv, Started, Destroying
    <3> QED
      BY Zenon, <3>1 DEF Calm, TerminatesUnstopped
  <2> QED
    BY <2>1, <2>2 DEF PoolStops
<1> QED
  BY <1>1, <1>2, <1>3, PTL DEF Spec
=============================================================================
