------------------------------- MODULE MCServer -------------------------------
(***************************************************************************)
(* The parts of the network server for TLC: the pool of loops, the server  *)
(* with its listener, the timing wheel, the watcher of a loop and a timer. *)
(* Each of these modules abstracts from the others, so they share no       *)
(* variable: a behaviour picks one part in its initial state and is a      *)
(* behaviour of that part, the others staying as they were made.           *)
(***************************************************************************)
EXTENDS EventLoopPool, TcpServer, TimingWheel, LoopWatcher, CycleTimer

VARIABLE part   \* the part this behaviour is about

\* A part that the behaviour is not about takes one of its initial states only.
MCInit ==
  /\ part \in {"pool", "server", "wheel", "watcher", "timer"}
  /\ Init /\ ServerInit /\ WheelInit /\ WatcherInit /\ TimerInit
  /\ part # "server" => mode = 0 /\ num = 0
  /\ part # "wheel" => locked /\ single
  /\ part # "watcher" => waker.kind = "pipe"
  /\ part # "timer" => cyclic

MCNext ==
  \/ part = "pool"    /\ Next        /\ UNCHANGED <<part, srv, whl, wat, tmr>>
  \/ part = "server"  /\ ServerNext  /\ UNCHANGED <<part, vars, whl, wat, tmr>>
  \/ part = "wheel"   /\ WheelNext   /\ UNCHANGED <<part, vars, srv, wat, tmr>>
  \/ part = "watcher" /\ WatcherNext /\ UNCHANGED <<part, vars, srv, whl, tmr>>
  \/ part = "timer"   /\ TimerNext   /\ UNCHANGED <<part, vars, srv, whl, wat>>

MCSpec ==
  /\ MCInit /\ [][MCNext]_<<part, vars, srv, whl, wat, tmr>>
  \* Each part's Fairness, for the behaviours that are about it.
  /\ WF_vars(part = "pool" /\ Owner)
  /\ \A t \in Ids : WF_vars(part = "pool" /\ Thread(t))
  /\ WF_srv(part = "server" /\ ServerWorks(RunControl))
  /\ WF_srv(part = "server" /\ ServerWorks(StopPool \/ JoinLoops))
  /\ \A l \in 1..MaxThreadNum : WF_srv(part = "server" /\ ServerWorks(RunIOLoop(l)))
  /\ WF_whl(part = "wheel" /\ WheelWorks(BeginTick))
  /\ WF_whl(part = "wheel" /\ WheelWorks(EndTick))
  /\ SF_whl(part = "wheel" /\ WheelWorks(BeginInsertOrClose))
  /\ \A c \in WheelConns : WF_whl(part = "wheel" /\ WheelWorks(EndInsert(c)))
  /\ WF_wat(part = "watcher" /\ Handle)
  /\ WF_tmr(part = "timer" /\ TimerWorks(RunLoop))
  /\ WF_tmr(part = "timer" /\ TimerWorks(CancelCopy))

\* A loop does what it is told: the joins of a stopped pool return, and every
\* notification of a live loop reaches the handler.
LoopsAnswer == JoinReturns /\ Woken
=============================================================================
