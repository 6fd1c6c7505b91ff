--------------------------- MODULE EventLoopProofs ---------------------------
(* Theorems about EventLoop, for every set of threads, tasks and stops.     *)
EXTENDS EventLoop, SequenceTheorems, TLAPS

\* What the argument a and the stack s of a thread at label l look like.
CallOK(l, a, s) ==
  /\ l \in {"check", "inline", "push"} => a \in Items
  /\ l \notin DrainLabels \cup StopLabels => s = <<>>
  /\ l = "batch" => Len(s) > 0
  /\ \A d \in 1..Len(s) : d < Len(s) \/ l # "batch" => s[d] # <<>>

CallInv == \A t \in Threads : CallOK(pc[t], arg[t], stack[t])

\* Why no wake-up is lost: whoever leaves a non-empty queue, or notified_ set,
\* leaves a readable descriptor or a thread that will serve the queue.
WakeInv ==
  /\ pending # <<>> => eventfd \/ \E t \in Threads : Serving(t)
  /\ notified => eventfd \/ \E t \in Threads : pc[t] \in {"notify", "swap"}

-----------------------------------------------------------------------------
LEMMA LabelsDef ==
  /\ AppPoints \subseteq Labels
  /\ \A l \in AppPoints : l \notin DrainLabels \cup StopLabels \cup {"check", "inline", "push"}
BY DEF AppPoints, Labels, DrainLabels, StopLabels

\* Removing the head of the innermost batch keeps the stack a stack of batches.
LEMMA FinishItemStack ==
  ASSUME TypeOK, NEW t \in Threads, FinishItem(t),
         Len(stack[t]) > 0, stack[t][Len(stack[t])] # <<>>
  PROVE  /\ stack' \in [Threads -> Seq(Seq(Items))]
         /\ \A u \in Threads : u # t => stack'[u] = stack[u]
         /\ Len(stack'[t]) = Len(stack[t])
         /\ \A d \in 1..Len(stack[t]) : d < Len(stack[t]) => stack'[t][d] = stack[t][d]
         /\ pending_size' \in Int
<1> DEFINE s == stack[t]
           n == Len(stack[t])
<1>1. s \in Seq(Seq(Items)) /\ n \in 1..Len(s)
  BY DEF TypeOK
<1>2. s[n] \in Seq(Items)
  BY <1>1, ElementOfSeq
<1>3. Tail(s[n]) \in Seq(Items)
  BY <1>2
<1>4. /\ [s EXCEPT ![n] = Tail(s[n])] \in Seq(Seq(Items))
      /\ Len([s EXCEPT ![n] = Tail(s[n])]) = Len(s)
      /\ \A d \in 1..Len(s) : [s EXCEPT ![n] = Tail(s[n])][d] = IF d = n THEN Tail(s[n]) ELSE s[d]
  BY <1>1, <1>3, ExceptSeq
<1>5. stack' = [stack EXCEPT ![t] = [s EXCEPT ![n] = Tail(s[n])]]
  BY DEF FinishItem, Depth, TypeOK
<1> DEFINE r == [s EXCEPT ![n] = Tail(s[n])]
<1>6. /\ stack' = [stack EXCEPT ![t] = r]
      /\ r \in Seq(Seq(Items)) /\ Len(r) = n
      /\ \A d \in 1..n : d < n => r[d] = s[d]
  BY <1>1, <1>4, <1>5
<1>7. stack \in [Threads -> Seq(Seq(Items))]
  BY DEF TypeOK
<1> HIDE DEF r
<1>8. stack'[t] = r /\ \A u \in Threads : u # t => stack'[u] = stack[u]
  BY <1>6, <1>7
<1>9. stack' \in [Threads -> Seq(Seq(Items))]
  BY <1>6, <1>7
<1>10. pending_size' \in Int
  BY DEF TypeOK, FinishItem
<1> QED
  BY <1>6, <1>8, <1>9, <1>10

LEMMA PopStack ==
  ASSUME TypeOK, NEW t \in Threads, Pop(t), Len(stack[t]) > 0
  PROVE  /\ stack' \in [Threads -> Seq(Seq(Items))]
         /\ \A u \in Threads : u # t => stack'[u] = stack[u]
         /\ Len(stack'[t]) = Len(stack[t]) - 1
         /\ \A d \in 1..Len(stack[t]) : d < Len(stack[t]) => stack'[t][d] = stack[t][d]
<1> DEFINE s == stack[t]
           n == Len(stack[t])
           r == SubSeq(s, 1, n - 1)
<1>1. s \in Seq(Seq(Items)) /\ n \in Nat /\ n > 0
  BY DEF TypeOK
<1>2. \A i \in 1..(n - 1) : s[i] \in Seq(Items)
  BY <1>1, ElementOfSeq
<1>3. /\ r \in Seq(Seq(Items))
      /\ Len(r) = n - 1
      /\ \A d \in 1..n : d < n => r[d] = s[d]
  <2> HIDE DEF s, n
  <2>1. /\ r \in Seq(Seq(Items))
        /\ Len(r) = IF 1 <= n - 1 THEN (n - 1) - 1 + 1 ELSE 0
        /\ \A i \in 1..((n - 1) - 1 + 1) : r[i] = s[1 + i - 1]
    BY <1>1, <1>2, SubSeqProperties DEF r
  <2> QED
    BY <1>1, <2>1
<1>4. stack' = [stack EXCEPT ![t] = r] /\ stack \in [Threads -> Seq(Seq(Items))]
  BY DEF Pop, TypeOK
<1> HIDE DEF r
<1> QED
  BY <1>1, <1>3, <1>4

\* A step of thread t that keeps the other threads' labels, arguments and stacks.
LEMMA CallInvFrame ==
  ASSUME CallInv, NEW t \in Threads, CallOK(pc'[t], arg'[t], stack'[t]),
         \A u \in Threads : u # t => /\ pc'[u] = pc[u]
                                     /\ arg'[u] = arg[u]
                                     /\ stack'[u] = stack[u]
  PROVE  CallInv'
BY DEF CallInv

LEMMA RunStep ==
  ASSUME executed \in Seq(Executions), NEW t \in Threads, NEW k \in Tasks, Run(t, k)
  PROVE  /\ executed' \in Seq(Executions)
         /\ Elems(executed') = Elems(executed) \cup {[task |-> k, by |-> t]}
<1> DEFINE e == [task |-> k, by |-> t]
<1>1. e \in Executions
  BY DEF Executions
<1>2. executed' = Append(executed, e)
  BY DEF Run
<1> HIDE DEF e
<1>3. /\ executed' \in Seq(Executions)
      /\ Len(executed') = Len(executed) + 1
      /\ \A i \in 1..Len(executed) : executed'[i] = executed[i]
      /\ executed'[Len(executed) + 1] = e
  BY <1>1, <1>2, AppendProperties
<1>4. Elems(executed') = Elems(executed) \cup {e}
  BY <1>3 DEF Elems
<1> QED
  BY <1>3, <1>4 DEF e

LEMMA TypeInit == Init => TypeOK /\ CallInv
<1> SUFFICES ASSUME Init PROVE TypeOK /\ CallInv
  OBVIOUS
<1>1. <<>> \in Seq(Items) /\ <<>> \in Seq(Seq(Items)) /\ <<>> \in Seq(Executions)
  BY EmptySeq
<1>2. TypeOK
  <2>1. thread_id \in Threads /\ 0 \in 0..MaxStops
    BY ConstantsAssumption DEF Init, Threads
  <2>2. pc \in [Threads -> Labels] /\ ret \in [Threads -> AppPoints]
    BY DEF Init, Labels, AppPoints
  <2>3. arg \in [Threads -> Items \cup {NoItem}] /\ stack \in [Threads -> Seq(Seq(Items))]
    BY <1>1 DEF Init
  <2>4. pending \in Seq(Items) /\ pushed \in Seq(Items) /\ discarded \in Seq(Items)
    BY <1>1 DEF Init
  <2>5. executed \in Seq(Executions) /\ owed \in SUBSET Tasks /\ unsent \in SUBSET Tasks
    BY <1>1 DEF Init
  <2>6. state \in States /\ pending_size \in Int /\ stops \in 0..MaxStops
    BY <2>1 DEF Init, States
  <2>7. notified \in BOOLEAN /\ eventfd \in BOOLEAN /\ loopexit \in BOOLEAN
    BY Zenon DEF Init
  <2> QED
    BY <2>1, <2>2, <2>3, <2>4, <2>5, <2>6, <2>7 DEF TypeOK
<1>3. ASSUME NEW t \in Threads PROVE CallOK(pc[t], arg[t], stack[t])
  <2>1. pc[t] \in {"init", "idle"} /\ stack[t] = <<>> /\ Len(stack[t]) = 0
    BY DEF Init
  <2> QED
    BY <2>1 DEF CallOK
<1> QED BY <1>2, <1>3 DEF CallInv

\* The calls and the steps of sendToQueue.
LEMMA SendStep ==
  ASSUME TypeOK, CallInv, NEW t \in Threads,
         \/ \E k \in Tasks : SendToQueue(t, k)
         \/ CallStop(t) \/ ThreadSafety(t) \/ RunInline(t) \/ Push(t)
         \/ CountAndLoad(t) \/ StoreNotified(t) \/ EventNotify(t)
  PROVE  TypeOK' /\ CallInv'
<1> USE LabelsDef DEF Goto, Return, Call, tasks, wake, call, hist
<1>0. CallOK(pc[t], arg[t], stack[t])
  BY DEF CallInv
<1>1. ASSUME NEW k \in Tasks, SendToQueue(t, k) PROVE TypeOK' /\ CallInv'
  <2>1. TypeOK'
    BY Zenon, <1>1 DEF SendToQueue, TypeOK, Items, Labels, SendLabels
  <2>2. CallOK(pc'[t], arg'[t], stack'[t])
    BY <1>0, <1>1 DEF SendToQueue, TypeOK, CallOK, Items, DrainLabels, StopLabels
  <2> QED
    BY Zenon, <1>1, <2>1, <2>2, CallInvFrame DEF SendToQueue, TypeOK
<1>2. ASSUME CallStop(t) PROVE TypeOK' /\ CallInv'
  <2>1. TypeOK'
    BY SMTT(60), <1>2, ConstantsAssumption DEF CallStop, TypeOK, Items, Labels, SendLabels, States
  <2>2. CallOK(pc'[t], arg'[t], stack'[t])
    BY Zenon, <1>0, <1>2 DEF CallStop, TypeOK, CallOK, Items, DrainLabels, StopLabels
  <2> QED
    BY Zenon, <1>2, <2>1, <2>2, CallInvFrame DEF CallStop, TypeOK
<1>3. ASSUME ThreadSafety(t) PROVE TypeOK' /\ CallInv'
  <2>1. TypeOK'
    BY SMTT(60), <1>3 DEF ThreadSafety, TypeOK, Labels, SendLabels
  <2>2. CallOK(pc'[t], arg'[t], stack'[t])
    BY <1>0, <1>3 DEF ThreadSafety, TypeOK, CallOK, DrainLabels, StopLabels
  <2> QED
    BY Zenon, <1>3, <2>1, <2>2, CallInvFrame DEF ThreadSafety, TypeOK
<1>4. ASSUME RunInline(t) PROVE TypeOK' /\ CallInv'
  <2>0. arg[t] \in Items /\ stack[t] = <<>>
    BY Zenon, <1>0, <1>4 DEF RunInline, CallOK, DrainLabels, StopLabels
  <2>1. TypeOK'
    <3>0. arg[t] # Stop => arg[t] \in Tasks
      BY Zenon, <2>0 DEF Items
    <3>1. executed' \in Seq(Executions)
      BY <1>4, <3>0, RunStep DEF RunInline, TypeOK
    <3>2. pc' \in [Threads -> Labels]
      BY Zenon, <1>4 DEF RunInline, TypeOK, Labels, StopLabels
    <3> QED
      BY Zenon, <1>4, <3>1, <3>2 DEF RunInline, TypeOK
  <2>2. CallOK(pc'[t], arg'[t], stack'[t])
    <3>1. pc'[t] \in AppPoints \cup {"stop_check"} /\ stack'[t] = <<>> /\ Len(stack'[t]) = 0
      BY <1>4, <2>0 DEF RunInline, TypeOK
    <3> QED
      BY SMTT(60), <3>1 DEF CallOK, StopLabels, AppPoints
  <2> QED
    BY Zenon, <1>4, <2>1, <2>2, CallInvFrame DEF RunInline, TypeOK
<1>5. ASSUME Push(t) PROVE TypeOK' /\ CallInv'
  <2>0. arg[t] \in Items
    BY Zenon, <1>0, <1>5 DEF Push, CallOK
  <2>1. TypeOK'
    BY SMTT(60), <1>5, <2>0 DEF Push, TypeOK, Labels, SendLabels
  <2>2. CallOK(pc'[t], arg'[t], stack'[t])
    BY <1>0, <1>5 DEF Push, TypeOK, CallOK, DrainLabels, StopLabels
  <2> QED
    BY Zenon, <1>5, <2>1, <2>2, CallInvFrame DEF Push, TypeOK
<1>6. ASSUME CountAndLoad(t) PROVE TypeOK' /\ CallInv'
  <2>1. TypeOK'
    <3>1. pc' \in [Threads -> Labels] /\ arg' \in [Threads -> Items \cup {NoItem}]
      BY Zenon, <1>6 DEF CountAndLoad, TypeOK, Labels, SendLabels
    <3> QED
      BY <1>6, <3>1 DEF CountAndLoad, TypeOK
  <2>2. CallOK(pc'[t], arg'[t], stack'[t])
    BY Zenon, <1>0, <1>6 DEF CountAndLoad, TypeOK, CallOK, DrainLabels, StopLabels
  <2> QED
    BY Zenon, <1>6, <2>1, <2>2, CallInvFrame DEF CountAndLoad, TypeOK
<1>7. ASSUME StoreNotified(t) PROVE TypeOK' /\ CallInv'
  <2>1. TypeOK'
    BY Zenon, <1>7 DEF StoreNotified, TypeOK, Labels, SendLabels
  <2>2. CallOK(pc'[t], arg'[t], stack'[t])
    BY Zenon, <1>0, <1>7 DEF StoreNotified, TypeOK, CallOK, DrainLabels, StopLabels
  <2> QED
    BY Zenon, <1>7, <2>1, <2>2, CallInvFrame DEF StoreNotified, TypeOK
<1>8. ASSUME EventNotify(t) PROVE TypeOK' /\ CallInv'
  <2>1. TypeOK'
    BY Zenon, <1>8 DEF EventNotify, TypeOK
  <2>2. CallOK(pc'[t], arg'[t], stack'[t])
    BY <1>0, <1>8 DEF EventNotify, TypeOK, CallOK, DrainLabels, StopLabels
  <2> QED
    BY Zenon, <1>8, <2>1, <2>2, CallInvFrame DEF EventNotify, TypeOK
<1> QED
  BY <1>1, <1>2, <1>3, <1>4, <1>5, <1>6, <1>7, <1>8

\* doPendingTasks.
LEMMA DrainStep ==
  ASSUME TypeOK, CallInv, NEW t \in Threads,
         Swap(t) \/ RunTask(t) \/ RunStop(t) \/ BatchDone(t)
  PROVE  TypeOK' /\ CallInv'
<1> USE LabelsDef DEF Goto, Return, tasks, wake, call, hist
<1>0. /\ CallOK(pc[t], arg[t], stack[t])
      /\ stack \in [Threads -> Seq(Seq(Items))] /\ stack[t] \in Seq(Seq(Items))
  BY DEF CallInv, TypeOK
<1>1. ASSUME Swap(t) PROVE TypeOK' /\ CallInv'
  <2> DEFINE s == Append(stack[t], pending)
  <2>1. /\ s \in Seq(Seq(Items)) /\ Len(s) = Len(stack[t]) + 1
        /\ \A i \in 1..Len(stack[t]) : s[i] = stack[t][i]
    <3>1. pending \in Seq(Items)
      BY Zenon DEF TypeOK
    <3> QED
      BY <1>0, <3>1, AppendProperties
  <2>2. stack' = [stack EXCEPT ![t] = s]
    BY <1>1 DEF Swap
  <2> HIDE DEF s
  <2>3. stack' \in [Threads -> Seq(Seq(Items))] /\ stack'[t] = s
    BY <1>0, <2>1, <2>2
  <2>4. TypeOK'
    BY Zenon, <1>1, <2>3, EmptySeq DEF Swap, TypeOK, Labels, DrainLabels
  <2>5. \A d \in 1..Len(stack[t]) : stack[t][d] # <<>>
    BY Zenon, <1>0, <1>1 DEF CallOK, Swap
  <2>6. CallOK(pc'[t], arg'[t], stack'[t])
    <3>1. pc'[t] = "batch" /\ Len(stack[t]) \in Nat
      BY <1>0, <1>1 DEF Swap, TypeOK
    <3>2. ASSUME NEW d \in 1..Len(s), d < Len(s) PROVE s[d] # <<>>
      <4>1. d \in 1..Len(stack[t])
        BY <2>1, <3>1, <3>2
      <4> QED
        BY <2>1, <2>5, <4>1, Zenon
    <3>3. Len(s) > 0
      BY <2>1, <3>1
    <3> QED
      BY <2>3, <3>1, <3>2, <3>3 DEF CallOK, DrainLabels
  <2> QED
    BY Zenon, <1>0, <1>1, <2>2, <2>4, <2>6, CallInvFrame DEF Swap, TypeOK
<1>2. ASSUME RunTask(t) PROVE TypeOK' /\ CallInv'
  <2>1. Len(stack[t]) > 0 /\ stack[t][Len(stack[t])] # <<>> /\ pc[t] = "batch"
    BY Zenon, <1>0, <1>2 DEF RunTask, CallOK, Top, Depth
  <2>2. stack[t][Len(stack[t])] \in Seq(Items)
    BY <1>0, <2>1, ElementOfSeq
  <2>3. Head(Top(t)) \in Tasks
    BY <1>2, <2>1, <2>2 DEF RunTask, Items, Top, Depth
  <2>4. executed' \in Seq(Executions)
    BY Zenon, <1>2, <2>3, RunStep DEF RunTask, TypeOK
  <2>5. /\ stack' \in [Threads -> Seq(Seq(Items))]
        /\ \A u \in Threads : u # t => stack'[u] = stack[u]
        /\ Len(stack'[t]) = Len(stack[t])
        /\ \A d \in 1..Len(stack[t]) : d < Len(stack[t]) => stack'[t][d] = stack[t][d]
        /\ pending_size' \in Int
    BY Zenon, <1>2, <2>1, FinishItemStack DEF RunTask
  <2>6. TypeOK'
    BY Zenon, <1>2, <2>4, <2>5 DEF RunTask, TypeOK
  <2>7. CallOK(pc'[t], arg'[t], stack'[t])
    BY Zenon, <1>0, <1>2, <2>1, <2>5 DEF CallOK, RunTask, DrainLabels
  <2> QED
    BY Zenon, <1>2, <2>5, <2>6, <2>7, CallInvFrame DEF RunTask
<1>3. ASSUME RunStop(t) PROVE TypeOK' /\ CallInv'
  <2>1. TypeOK'
    BY Zenon, <1>3 DEF RunStop, TypeOK, Labels, StopLabels
  <2>2. CallOK(pc'[t], arg'[t], stack'[t])
    BY SMTT(60), <1>0, <1>3 DEF RunStop, TypeOK, CallOK, StopLabels, Top, Depth
  <2> QED
    BY Zenon, <1>3, <2>1, <2>2, CallInvFrame DEF RunStop, TypeOK
<1>4. ASSUME BatchDone(t) PROVE TypeOK' /\ CallInv'
  <2>1. Len(stack[t]) > 0 /\ pc[t] = "batch"
    BY Zenon, <1>0, <1>4 DEF BatchDone, CallOK
  <2>2. /\ stack' \in [Threads -> Seq(Seq(Items))]
        /\ \A u \in Threads : u # t => stack'[u] = stack[u]
        /\ Len(stack'[t]) = Len(stack[t]) - 1
        /\ \A d \in 1..Len(stack[t]) : d < Len(stack[t]) => stack'[t][d] = stack[t][d]
    BY Zenon, <1>4, <2>1, PopStack DEF BatchDone
  <2>3. TypeOK'
    <3>1. pc' \in [Threads -> Labels] /\ arg' \in [Threads -> Items \cup {NoItem}]
      BY Zenon, <1>4 DEF BatchDone, TypeOK, Labels, StopLabels
    <3> QED
      BY Zenon, <1>4, <2>2, <3>1 DEF BatchDone, TypeOK
  <2>4. CallOK(pc'[t], arg'[t], stack'[t])
    <3>1. CASE Depth(t) = 1 /\ arg[t] = NoItem /\ Return(t)
      <4>1. pc'[t] \in AppPoints /\ stack'[t] = <<>> /\ Len(stack'[t]) = 0
        BY <2>2, <3>1, EmptySeq DEF Depth, TypeOK
      <4> QED
        BY SMTT(60), <4>1 DEF CallOK, AppPoints
    <3>2. CASE Goto(t, "stop_check")
      <4>1. pc'[t] = "stop_check"
        BY <3>2 DEF TypeOK
      <4>2. \A d \in 1..Len(stack[t]) : d < Len(stack[t]) => stack[t][d] # <<>>
        BY <1>0, Zenon DEF CallOK
      <4>3. ASSUME NEW d \in 1..Len(stack'[t]) PROVE stack'[t][d] # <<>>
        <5>0. Len(stack[t]) \in Nat
          BY Zenon, <1>0, LenProperties
        <5>1. d \in 1..Len(stack[t]) /\ d < Len(stack[t])
          BY SMTT(60), <2>2, <5>0
        <5> QED
          BY <2>2, <4>2, <5>1, Zenon
      <4> QED
        BY Zenon, <4>1, <4>3 DEF CallOK, StopLabels
    <3> QED
      BY Zenon, <1>4, <3>1, <3>2 DEF BatchDone
  <2> QED
    BY ZenonT(40), <1>4, <2>2, <2>3, <2>4, CallInvFrame DEF BatchDone, TypeOK
<1> QED
  BY <1>1, <1>2, <1>3, <1>4

\* stopHandle.
LEMMA StopStep ==
  ASSUME TypeOK, CallInv, NEW t \in Threads,
         StopCheck(t) \/ LoopExit(t) \/ StopClear(t) \/ StopDone(t)
  PROVE  TypeOK' /\ CallInv'
<1> USE LabelsDef DEF Goto, Return, tasks, wake, call, hist
<1>0. /\ CallOK(pc[t], arg[t], stack[t])
      /\ stack \in [Threads -> Seq(Seq(Items))] /\ stack[t] \in Seq(Seq(Items))
  BY DEF CallInv, TypeOK
<1>1. ASSUME StopCheck(t) PROVE TypeOK' /\ CallInv'
  <2>0. pushed \in Seq(Items)
    BY Zenon DEF TypeOK
  <2>1. Elems(pushed) \ (Elems(discarded) \cup {Stop}) \subseteq Tasks
    BY <2>0, ElementOfSeq DEF Elems, Items
  <2>2. owed' \in SUBSET Tasks
    BY Zenon, <1>1, <2>1 DEF StopCheck, TypeOK
  <2>3. pc' \in [Threads -> Labels]
    BY Zenon, <1>1 DEF StopCheck, TypeOK, Labels, StopLabels, DrainLabels
  <2>4. TypeOK'
    BY Zenon, <1>1, <2>2, <2>3 DEF StopCheck, TypeOK
  <2>5. CallOK(pc'[t], arg'[t], stack'[t])
    BY Zenon, <1>0, <1>1 DEF StopCheck, TypeOK, CallOK, StopLabels, DrainLabels
  <2> QED
    BY Zenon, <1>1, <2>4, <2>5, CallInvFrame DEF StopCheck, TypeOK
<1>2. ASSUME LoopExit(t) PROVE TypeOK' /\ CallInv'
  <2>1. TypeOK'
    BY Zenon, <1>2 DEF LoopExit, TypeOK, Labels, StopLabels
  <2>2. CallOK(pc'[t], arg'[t], stack'[t])
    BY <1>0, <1>2 DEF LoopExit, TypeOK, CallOK, StopLabels
  <2> QED
    BY Zenon, <1>2, <2>1, <2>2, CallInvFrame DEF LoopExit, TypeOK
<1>3. ASSUME StopClear(t) PROVE TypeOK' /\ CallInv'
  <2>1. discarded' \in Seq(Items) /\ pending' \in Seq(Items)
    BY Zenon, <1>3, ConcatProperties, EmptySeq DEF StopClear, TypeOK
  <2>2. TypeOK'
    BY Zenon, <1>3, <2>1 DEF StopClear, TypeOK, Labels, StopLabels
  <2>3. CallOK(pc'[t], arg'[t], stack'[t])
    BY Zenon, <1>0, <1>3 DEF StopClear, TypeOK, CallOK, StopLabels
  <2> QED
    BY Zenon, <1>3, <2>2, <2>3, CallInvFrame DEF StopClear, TypeOK
<1>4. ASSUME StopDone(t) PROVE TypeOK' /\ CallInv'
  <2>1. CASE Depth(t) = 0 /\ Return(t) /\ UNCHANGED <<stack, pending_size>>
    <3>1. TypeOK'
      BY Zenon, <1>4, <2>1 DEF StopDone, TypeOK, States
    <3>2. pc'[t] \in AppPoints /\ stack'[t] = <<>> /\ Len(stack'[t]) = 0
      BY Zenon, <1>0, <2>1, EmptySeq DEF Depth, TypeOK
    <3>3. CallOK(pc'[t], arg'[t], stack'[t])
      BY SMTT(60), <3>2 DEF CallOK, AppPoints
    <3> QED
      BY Zenon, <2>1, <3>1, <3>3, CallInvFrame DEF TypeOK
  <2>2. CASE Depth(t) > 0 /\ FinishItem(t) /\ Goto(t, "batch") /\ UNCHANGED arg
    <3>1. \A d \in 1..Len(stack[t]) : stack[t][d] # <<>>
      BY Zenon, <1>0, <1>4 DEF StopDone, CallOK
    <3>2. Len(stack[t]) > 0 /\ stack[t][Len(stack[t])] # <<>>
      <4>1. Len(stack[t]) > 0
        BY Zenon, <2>2 DEF Depth
      <4>2. Len(stack[t]) \in 1..Len(stack[t])
        BY <1>0, <4>1, LenProperties
      <4> QED
        BY Zenon, <3>1, <4>1, <4>2
    <3>3. /\ stack' \in [Threads -> Seq(Seq(Items))]
          /\ \A u \in Threads : u # t => stack'[u] = stack[u]
          /\ Len(stack'[t]) = Len(stack[t])
          /\ \A d \in 1..Len(stack[t]) : d < Len(stack[t]) => stack'[t][d] = stack[t][d]
          /\ pending_size' \in Int
      BY Zenon, <2>2, <3>2, FinishItemStack
    <3>4. pc' \in [Threads -> Labels] /\ pc'[t] = "batch"
      BY <2>2 DEF TypeOK, Labels, DrainLabels
    <3>5. TypeOK'
      BY Zenon, <1>4, <2>2, <3>3, <3>4 DEF StopDone, TypeOK, States
    <3>6. CallOK(pc'[t], arg'[t], stack'[t])
      BY Zenon, <3>1, <3>2, <3>3, <3>4 DEF CallOK, DrainLabels
    <3> QED
      BY Zenon, <2>2, <3>3, <3>5, <3>6, CallInvFrame DEF TypeOK
  <2> QED
    BY Zenon, <1>4, <2>1, <2>2 DEF StopDone
<1> QED
  BY <1>1, <1>2, <1>3, <1>4

\* dispatch and the event base: steps of Loop that keep every stack.
LEMMA BaseStep ==
  ASSUME TypeOK, CallInv, Base \/ IoEvent
  PROVE  TypeOK' /\ CallInv'
<1> USE DEF Goto, tasks, wake, call, hist
<1>0. Loop \in Threads
  BY DEF Threads
<1>1. /\ pc[Loop] \in {"init", "setid", "poll", "blocked", "pre", "read", "io"}
      /\ \E l \in {"setid", "poll", "blocked", "pre", "read", "io", "swap", "exited"} :
           pc' = [pc EXCEPT ![Loop] = l]
      /\ UNCHANGED <<arg, stack>>
  BY Zenon DEF Base, IoEvent, Dispatch, SetThreadId, Poll, Wake, PreDone, EventfdNotifyHandle,
         EndPass, FirstOfPass
<1>2. UNCHANGED <<tasks, notified, loopexit, hist>>
  BY Zenon DEF Base, IoEvent, Dispatch, SetThreadId, Poll, Wake, PreDone, EventfdNotifyHandle,
         EndPass
<1>3. /\ thread_id' \in Threads /\ state' \in States /\ eventfd' \in BOOLEAN
      /\ ret' \in [Threads -> AppPoints]
  BY Zenon, <1>0 DEF Base, IoEvent, Dispatch, SetThreadId, Poll, Wake, PreDone,
              EventfdNotifyHandle, EndPass, TypeOK, States, AppPoints
<1>4. pc' \in [Threads -> Labels]
  BY <1>0, <1>1 DEF TypeOK, Labels, LoopLabels, AppPoints, DrainLabels
<1>5. TypeOK'
  BY Zenon, <1>1, <1>2, <1>3, <1>4 DEF TypeOK
<1>6. stack'[Loop] = <<>> /\ Len(stack'[Loop]) = 0
  BY Zenon, <1>0, <1>1, EmptySeq DEF CallInv, CallOK, DrainLabels, StopLabels
<1>7. pc'[Loop] \notin {"check", "inline", "push", "batch"}
  BY <1>0, <1>1 DEF TypeOK
<1>8. 1..Len(stack'[Loop]) = {}
  BY <1>6
<1>9. CallOK(pc'[Loop], arg'[Loop], stack'[Loop])
  BY Zenon, <1>6, <1>7, <1>8 DEF CallOK
<1> QED
  BY Zenon, <1>0, <1>1, <1>5, <1>9, CallInvFrame DEF TypeOK

\* The type invariant holds for any number of threads, tasks and stops, with the
\* call-stack invariant it needs: a suspended batch is never empty.
THEOREM TypeCorrect == Spec => [](TypeOK /\ CallInv)
<1>1. TypeOK /\ CallInv /\ [Next]_vars => TypeOK' /\ CallInv'
  <2> SUFFICES ASSUME TypeOK, CallInv, [Next]_vars PROVE TypeOK' /\ CallInv'
    OBVIOUS
  <2>1. CASE UNCHANGED vars
    BY Zenon, <2>1 DEF vars, TypeOK, CallInv
  <2>2. CASE Next
    BY Zenon, <2>2, SendStep, DrainStep, StopStep, BaseStep DEF Next, InCall
  <2> QED
    BY <2>1, <2>2
<1> QED
  BY <1>1, TypeInit, PTL DEF Spec

-----------------------------------------------------------------------------
LEMMA WakeInit == Init => WakeInv
BY DEF Init, WakeInv

\* A step that keeps the queue, notified_ and a readable descriptor, and takes a
\* thread that is not serving the queue somewhere else, keeps WakeInv.
LEMMA WakeFrame ==
  ASSUME TypeOK, WakeInv, NEW t \in Threads, NEW l, pc' = [pc EXCEPT ![t] = l],
         ~Serving(t), UNCHANGED <<pending, notified, eventfd>>
  PROVE  WakeInv'
BY SMTT(60) DEF TypeOK, WakeInv, Serving

LEMMA WakeStep ==
  ASSUME TypeOK, WakeInv, [Next]_vars
  PROVE  WakeInv'
<1> USE DEF Goto, Return, tasks, wake, call, hist
<1>0. Loop \in Threads
  BY SMTT(60) DEF Threads
<1>1. ASSUME NEW t \in Threads, NEW k \in Tasks, SendToQueue(t, k) PROVE WakeInv'
  <2>1. ~Serving(t)
    BY <1>1 DEF SendToQueue, Call, AppPoints, Serving
  <2> QED
    BY Zenon, <1>1, <2>1, WakeFrame DEF SendToQueue, Call
<1>2. ASSUME NEW t \in Threads, CallStop(t) PROVE WakeInv'
  <2>1. ~Serving(t)
    BY <1>2 DEF CallStop, Call, AppPoints, Serving
  <2> QED
    BY Zenon, <1>2, <2>1, WakeFrame DEF CallStop, Call
<1>3. ASSUME NEW t \in Threads, ThreadSafety(t) \/ RunInline(t) \/ RunStop(t)
                                \/ BatchDone(t) \/ StopCheck(t) \/ LoopExit(t)
      PROVE  WakeInv'
  <2>1. ~Serving(t)
    BY Zenon, <1>3 DEF ThreadSafety, RunInline, RunStop, BatchDone, StopCheck, LoopExit, Serving
  <2>2. UNCHANGED <<pending, notified, eventfd>> /\ \E l : pc' = [pc EXCEPT ![t] = l]
    BY Zenon, <1>3 DEF ThreadSafety, RunInline, RunStop, BatchDone, StopCheck, LoopExit
  <2> QED
    BY Zenon, <2>1, <2>2, WakeFrame
<1>4. ASSUME NEW t \in Threads, Push(t) PROVE WakeInv'
  BY Zenon, <1>4 DEF Push, WakeInv, Serving, TypeOK
<1>5. ASSUME NEW t \in Threads, CountAndLoad(t) PROVE WakeInv'
  BY Zenon, <1>5 DEF CountAndLoad, WakeInv, Serving, TypeOK
<1>6. ASSUME NEW t \in Threads, StoreNotified(t) PROVE WakeInv'
  BY Zenon, <1>6 DEF StoreNotified, WakeInv, Serving, TypeOK
<1>7. ASSUME NEW t \in Threads, EventNotify(t) PROVE WakeInv'
  BY <1>7 DEF EventNotify, WakeInv
<1>8. ASSUME NEW t \in Threads, Swap(t) PROVE WakeInv'
  BY <1>8 DEF Swap, WakeInv
<1>9. ASSUME NEW t \in Threads, RunTask(t) PROVE WakeInv'
  BY <1>9 DEF RunTask, WakeInv, Serving
<1>10. ASSUME NEW t \in Threads, StopClear(t) PROVE WakeInv'
  BY Zenon, <1>10 DEF StopClear, WakeInv, TypeOK
<1>11. ASSUME NEW t \in Threads, StopDone(t) PROVE WakeInv'
  <2>1. ~Serving(t)
    BY <1>11 DEF StopDone, Serving
  <2>2. UNCHANGED <<pending, notified, eventfd>> /\ \E l : pc' = [pc EXCEPT ![t] = l]
    BY <1>11 DEF StopDone
  <2> QED
    BY Zenon, <2>1, <2>2, WakeFrame
<1>12. ASSUME EventfdNotifyHandle PROVE WakeInv'
  BY Zenon, <1>0, <1>12 DEF EventfdNotifyHandle, WakeInv, Serving, TypeOK
<1>13. ASSUME Dispatch \/ SetThreadId \/ Poll \/ Wake \/ PreDone \/ EndPass \/ IoEvent
       PROVE  WakeInv'
  <2>1. ~Serving(Loop)
    BY Zenon, <1>13 DEF Dispatch, SetThreadId, Poll, Wake, PreDone, EndPass, IoEvent, Serving
  <2>2. UNCHANGED <<pending, notified, eventfd>> /\ \E l : pc' = [pc EXCEPT ![Loop] = l]
    BY Zenon, <1>13 DEF Dispatch, SetThreadId, Poll, Wake, PreDone, EndPass, IoEvent
  <2> QED
    BY Zenon, <1>0, <2>1, <2>2, WakeFrame
<1>14. CASE UNCHANGED vars
  BY <1>14 DEF vars, WakeInv, Serving
<1> QED
  BY Zenon, <1>1, <1>2, <1>3, <1>4, <1>5, <1>6, <1>7, <1>8, <1>9, <1>10, <1>11, <1>12, <1>13, <1>14
     DEF Next, InCall, Base

\* No wake-up is lost, whichever thread constructed the loop and however many
\* threads call sendToQueue and stop: NoLostWakeup of the run el_queue.
THEOREM NoLostWakeupHolds == Spec => []NoLostWakeup
<1>1. WakeInv => NoLostWakeup
  BY DEF WakeInv, NoLostWakeup
<1> QED
  BY <1>1, WakeInit, WakeStep, TypeCorrect, PTL DEF Spec

-----------------------------------------------------------------------------
\* When the dispatching thread constructed the loop, thread_id_ never names
\* another thread, so no other thread gets past threadSafety().
AffinityInv ==
  /\ thread_id = Loop
  /\ \A t \in Others : /\ ret[t] = "idle"
                       /\ pc[t] \in {"idle", "check", "push", "count", "store", "notify"}
  /\ Affinity

LEMMA AffinityStep ==
  ASSUME TypeOK, CallInv, AffinityInv, [Next]_vars
  PROVE  AffinityInv'
<1> USE DEF Goto, Return, tasks, wake, call, hist
<1>0. Loop \in Threads /\ \A t \in Threads : t = Loop \/ t \in Others
  BY DEF Threads
<1>1. ASSUME NEW t \in Threads,
             \/ \E k \in Tasks : SendToQueue(t, k)
             \/ CallStop(t) \/ ThreadSafety(t) \/ Push(t) \/ CountAndLoad(t)
             \/ StoreNotified(t) \/ EventNotify(t)
      PROVE  AffinityInv'
  <2>1. executed' = executed /\ thread_id' = thread_id
    BY Zenon, <1>1 DEF SendToQueue, CallStop, ThreadSafety, Push, CountAndLoad,
                StoreNotified, EventNotify
  <2>2. ASSUME NEW u \in Others
        PROVE  /\ ret'[u] = "idle"
               /\ pc'[u] \in {"idle", "check", "push", "count", "store", "notify"}
    BY ZenonT(60), <1>0, <1>1, ConstantsAssumption
       DEF SendToQueue, CallStop, Call, AppPoints, ThreadSafety, Push, CountAndLoad,
           StoreNotified, EventNotify, AffinityInv, TypeOK, Threads
  <2> QED
    BY Zenon, <2>1, <2>2 DEF AffinityInv, Affinity
<1>2. ASSUME NEW t \in Threads,
             \/ RunInline(t) \/ Swap(t) \/ RunTask(t) \/ RunStop(t) \/ BatchDone(t)
             \/ StopCheck(t) \/ LoopExit(t) \/ StopClear(t) \/ StopDone(t)
      PROVE  AffinityInv'
  <2>0. pc[t] \in {"inline", "swap", "batch", "stop_check", "loopexit", "stop_clear", "stop_done"}
    BY Zenon, <1>2 DEF RunInline, Swap, RunTask, RunStop, BatchDone,
                       StopCheck, LoopExit, StopClear, StopDone
  <2>1. t = Loop
    BY <1>0, <2>0 DEF AffinityInv
  <2>2. \A u \in Others : pc'[u] = pc[u] /\ ret'[u] = ret[u]
    BY Zenon, <1>2, <2>1, ConstantsAssumption
       DEF RunInline, Swap, RunTask, RunStop, BatchDone, StopCheck, LoopExit, StopClear,
           StopDone, TypeOK, Threads
  <2>3. thread_id' = thread_id
    BY Zenon, <1>2 DEF RunInline, Swap, RunTask, RunStop, BatchDone, StopCheck, LoopExit,
                StopClear, StopDone
  <2>4. executed' = executed \/ \E k \in Tasks : Run(Loop, k)
    <3>1. CASE RunInline(t)
      BY Zenon, <1>0, <2>1, <3>1 DEF RunInline, CallInv, CallOK, Items
    <3>2. CASE RunTask(t)
      <4>1. Len(stack[t]) > 0 /\ stack[t] \in Seq(Seq(Items))
        BY Zenon, <1>0, <3>2 DEF RunTask, CallInv, CallOK, TypeOK
      <4>2. Top(t) \in Seq(Items)
        BY <4>1, ElementOfSeq DEF Top, Depth
      <4> QED
        BY <2>1, <3>2, <4>2 DEF RunTask, Items
    <3> QED
      BY Zenon, <1>2, <3>1, <3>2 DEF Swap, RunStop, BatchDone, StopCheck, LoopExit, StopClear,
                              StopDone
  <2>5. Affinity'
    BY SMTT(60), <1>0, <2>4, RunStep DEF AffinityInv, Affinity, TypeOK
  <2> QED
    BY Zenon, <2>2, <2>3, <2>5 DEF AffinityInv
<1>3. ASSUME Base \/ IoEvent PROVE AffinityInv'
  <2>1. \A u \in Others : pc'[u] = pc[u] /\ ret'[u] = ret[u]
    BY Zenon, <1>3, ConstantsAssumption
       DEF Base, IoEvent, Dispatch, SetThreadId, Poll, Wake, PreDone,
           EventfdNotifyHandle, EndPass, TypeOK, Threads
  <2>2. executed' = executed /\ thread_id' \in {thread_id, Loop}
    BY Zenon, <1>3 DEF Base, IoEvent, Dispatch, SetThreadId, Poll, Wake, PreDone,
                EventfdNotifyHandle, EndPass
  <2> QED
    BY Zenon, <2>1, <2>2 DEF AffinityInv, Affinity
<1>4. CASE UNCHANGED vars
  BY Zenon, <1>4 DEF vars, AffinityInv, Affinity
<1> QED
  BY <1>1, <1>2, <1>3, <1>4 DEF Next, InCall

\* A loop constructed by the thread that dispatches it runs every task on that
\* thread: Affinity of the run el_stop.  (The run el_creator_stop shows that
\* the assumption on the constructor is needed.)
THEOREM AffinityHolds == ASSUME Creator = Loop PROVE Spec => []Affinity
<1>1. Init => AffinityInv
  BY SMTT(60), ConstantsAssumption DEF Init, AffinityInv, Affinity, Elems, Threads
<1>2. AffinityInv => Affinity
  BY DEF AffinityInv
<1> QED
  BY <1>1, <1>2, AffinityStep, TypeCorrect, PTL DEF Spec

-----------------------------------------------------------------------------
(* What becomes of the tasks handed to an EventLoop.                       *)

\* The places a task can be in: not yet pushed, queued, in a batch, run, dropped.
Holds(t, k) == pc[t] \in {"check", "inline", "push"} /\ arg[t] = k
Fresh(k)    == k \in unsent \/ \E t \in Threads : Holds(t, k)
Queued(k)   == \E i \in 1..Len(pending) : pending[i] = k
Slot(s, t, d, i) == t \in Threads /\ d \in 1..Len(s[t]) /\ i \in 1..Len(s[t][d])
Batched(k)  == \E t, d, i : Slot(stack, t, d, i) /\ stack[t][d][i] = k
Ran(k)      == \E i \in 1..Len(executed) : executed[i].task = k
Dropped(k)  == \E i \in 1..Len(discarded) : discarded[i] = k
Pushed(k)   == \E i \in 1..Len(pushed) : pushed[i] = k

\* Every task is in exactly one place.
PlaceInv ==
  \A k \in Tasks :
    /\ Fresh(k) \/ Queued(k) \/ Batched(k) \/ Ran(k) \/ Dropped(k)
    /\ Fresh(k) => ~(Queued(k) \/ Batched(k) \/ Ran(k) \/ Dropped(k) \/ Pushed(k))
    /\ Queued(k) => ~(Batched(k) \/ Ran(k) \/ Dropped(k))
    /\ Batched(k) => ~(Ran(k) \/ Dropped(k))
    /\ Ran(k) => ~Dropped(k)
    /\ k \in owed => Batched(k) \/ Ran(k)

\* ... and occurs in it once.
FreshUniq ==
  /\ \A k \in unsent : \A t \in Threads : ~Holds(t, k)
  /\ \A k \in Tasks : \A t, u \in Threads : Holds(t, k) /\ Holds(u, k) => t = u
QueueUniq == \A i, j \in 1..Len(pending) : pending[i] = pending[j] /\ pending[i] # Stop => i = j
BatchUniq ==
  \A t, d, i : \A u, e, j :
    Slot(stack, t, d, i) /\ Slot(stack, u, e, j) /\ stack[t][d][i] = stack[u][e][j] /\ stack[t][d][i] # Stop
    => t = u /\ d = e /\ i = j
RanUniq == \A i, j \in 1..Len(executed) : executed[i].task = executed[j].task => i = j

\* The item at the head of a suspended batch is the stop that suspended it.
HeadOK(l, s) == \A d \in 1..Len(s) : d < Len(s) \/ l # "batch" => s[d][1] = Stop
HeadInv == \A t \in Threads : HeadOK(pc[t], stack[t])

OnceInv == PlaceInv /\ FreshUniq /\ QueueUniq /\ BatchUniq /\ RanUniq

-----------------------------------------------------------------------------
(* How the operations on the stacks move the slots.                        *)

\* A finished item leaves the head of the innermost batch; the rest shifts by one.
LEMMA FinishSlots ==
  ASSUME TypeOK, NEW t \in Threads, FinishItem(t),
         Len(stack[t]) > 0, stack[t][Len(stack[t])] # <<>>
  PROVE  /\ \A u \in Threads : Len(stack'[u]) = Len(stack[u])
         /\ \A u \in Threads : \A d \in 1..Len(stack[u]) :
              ~(u = t /\ d = Len(stack[t])) => stack'[u][d] = stack[u][d]
         /\ stack'[t][Len(stack[t])] = Tail(stack[t][Len(stack[t])])
         /\ stack[t][Len(stack[t])] \in Seq(Items)
<1> DEFINE s == stack[t]
           n == Len(stack[t])
<1>1. s \in Seq(Seq(Items)) /\ n \in 1..Len(s) /\ stack \in [Threads -> Seq(Seq(Items))]
  BY DEF TypeOK
<1>2. s[n] \in Seq(Items) /\ Tail(s[n]) \in Seq(Items)
  BY <1>1, ElementOfSeq
<1>3. [s EXCEPT ![n] = Tail(s[n])][n] = Tail(s[n])
  BY <1>1, <1>2, ExceptSeq
<1>4. stack'[t] = [s EXCEPT ![n] = Tail(s[n])]
  BY <1>1 DEF FinishItem, Depth
<1>5. stack'[t][n] = Tail(s[n])
  BY Zenon, <1>3, <1>4
<1>6. /\ \A u \in Threads : u # t => stack'[u] = stack[u]
      /\ Len(stack'[t]) = Len(stack[t])
      /\ \A d \in 1..Len(stack[t]) : d < Len(stack[t]) => stack'[t][d] = stack[t][d]
  BY Zenon, FinishItemStack
<1>7. \A d \in 1..n : d = n \/ d < n
  BY <1>1
<1> QED
  BY Zenon, <1>2, <1>5, <1>6, <1>7

LEMMA FinishBatch ==
  ASSUME TypeOK, NEW t \in Threads, FinishItem(t), BatchUniq,
         Len(stack[t]) > 0, stack[t][Len(stack[t])] # <<>>
  PROVE  /\ BatchUniq'
         /\ Batched(Head(stack[t][Len(stack[t])]))
         /\ \A k \in Tasks : Batched(k)' <=> Batched(k) /\ k # Head(stack[t][Len(stack[t])])
<1> DEFINE n == Len(stack[t])
           b == stack[t][n]
           Old(u, d, i) == IF u = t /\ d = n THEN i + 1 ELSE i
<1>1. /\ \A u \in Threads : Len(stack'[u]) = Len(stack[u])
      /\ \A u \in Threads : \A d \in 1..Len(stack[u]) : ~(u = t /\ d = n) => stack'[u][d] = stack[u][d]
      /\ stack'[t][n] = Tail(b)
      /\ b \in Seq(Items)
  BY Zenon, FinishSlots
<1>2. n \in 1..n /\ n \in Nat
  BY DEF TypeOK
<1>3. /\ Len(b) \in Nat /\ Len(b) > 0 /\ Len(Tail(b)) = Len(b) - 1
      /\ \A i \in 1..Len(Tail(b)) : Tail(b)[i] = b[i + 1]
      /\ Head(b) = b[1]
  BY <1>1, HeadTailProperties, EmptySeq
<1> HIDE DEF n, b
<1>4. ASSUME NEW u, NEW d, NEW i, Slot(stack', u, d, i)
      PROVE  /\ Slot(stack, u, d, Old(u, d, i)) /\ stack'[u][d][i] = stack[u][d][Old(u, d, i)]
             /\ u = t /\ d = n => Old(u, d, i) # 1
             /\ i \in Int
  <2>0. u \in Threads /\ d \in 1..Len(stack'[u]) /\ i \in 1..Len(stack'[u][d])
    BY <1>4 DEF Slot
  <2>1. d \in 1..Len(stack[u])
    BY Zenon, <1>1, <2>0
  <2>2. CASE u = t /\ d = n
    <3>1. i \in 1..Len(Tail(b))
      BY Zenon, <1>1, <2>0, <2>2
    <3>2. i + 1 \in 1..Len(b) /\ i + 1 # 1 /\ i \in Int
      BY <1>3, <3>1
    <3>3. stack'[u][d][i] = b[i + 1]
      BY Zenon, <1>1, <1>3, <2>2, <3>1
    <3> QED
      BY Zenon, <2>0, <2>1, <2>2, <3>2, <3>3 DEF Slot, b, n
  <2>3. CASE ~(u = t /\ d = n)
    <3>1. stack'[u][d] = stack[u][d]
      BY Zenon, <1>1, <2>0, <2>1, <2>3
    <3>2. i \in Int
      BY <2>0
    <3> QED
      BY Zenon, <2>0, <2>1, <2>3, <3>1, <3>2 DEF Slot
  <2> QED
    BY <2>2, <2>3
<1> HIDE DEF Old
<1>5. BatchUniq'
  <2> SUFFICES ASSUME NEW u, NEW d, NEW i, NEW v, NEW e, NEW j,
                      Slot(stack', u, d, i), Slot(stack', v, e, j),
                      stack'[u][d][i] = stack'[v][e][j], stack'[u][d][i] # Stop
               PROVE  u = v /\ d = e /\ i = j
    BY DEF BatchUniq
  <2>1. u = v /\ d = e /\ Old(u, d, i) = Old(v, e, j)
    BY <1>4 DEF BatchUniq
  <2>2. i \in Int /\ j \in Int
    BY Zenon, <1>4
  <2> QED
    BY <2>1, <2>2 DEF Old
<1>6. Slot(stack, t, n, 1) /\ stack[t][n][1] = Head(b)
  BY <1>2, <1>3 DEF Slot, n, b
<1>7. ASSUME NEW k \in Tasks, Batched(k)' PROVE Batched(k) /\ k # Head(b)
  <2>1. PICK u, d, i : Slot(stack', u, d, i) /\ stack'[u][d][i] = k
    BY Zenon, <1>7 DEF Batched
  <2>2. Slot(stack, u, d, Old(u, d, i)) /\ stack[u][d][Old(u, d, i)] = k /\ (u = t /\ d = n => Old(u, d, i) # 1)
    BY <1>4, <2>1
  <2>3. k # Stop
    BY ConstantsAssumption
  <2>4. k # Head(b)
    BY Zenon, <1>6, <2>2, <2>3 DEF BatchUniq
  <2> QED
    BY Zenon, <2>2, <2>4 DEF Batched
<1>8. ASSUME NEW k \in Tasks, Batched(k), k # Head(b) PROVE Batched(k)'
  <2>1. PICK u, d, i : Slot(stack, u, d, i) /\ stack[u][d][i] = k
    BY Zenon, <1>8 DEF Batched
  <2>2. CASE u = t /\ d = n
    <3>1. i \in 1..Len(b) /\ b[i] = k /\ i # 1
      BY Zenon, <1>3, <1>8, <2>1, <2>2 DEF Slot, b, n
    <3>2. i - 1 \in 1..Len(Tail(b)) /\ Tail(b)[i - 1] = b[i - 1 + 1] /\ i - 1 + 1 = i
      BY <1>3, <3>1
    <3>3. Slot(stack', t, n, i - 1)
      BY Zenon, <1>1, <1>2, <3>2 DEF Slot, n
    <3>4. stack'[t][n][i - 1] = k
      BY Zenon, <1>1, <3>1, <3>2
    <3> QED
      BY Zenon, <3>3, <3>4 DEF Batched
  <2>3. CASE ~(u = t /\ d = n)
    <3>1. Slot(stack', u, d, i) /\ stack'[u][d] = stack[u][d]
      BY Zenon, <1>1, <2>1, <2>3 DEF Slot
    <3> QED
      BY Zenon, <2>1, <3>1 DEF Batched
  <2> QED
    BY <2>2, <2>3
<1>9. Batched(Head(b))
  BY Zenon, <1>6 DEF Batched
<1> QED
  BY Zenon, <1>5, <1>7, <1>8, <1>9 DEF n, b

\* A finished batch is empty: popping it moves no slot.
LEMMA PopBatch ==
  ASSUME TypeOK, NEW t \in Threads, Pop(t), BatchUniq,
         Len(stack[t]) > 0, stack[t][Len(stack[t])] = <<>>
  PROVE  BatchUniq' /\ \A k \in Tasks : Batched(k)' <=> Batched(k)
<1>1. /\ \A u \in Threads : u # t => stack'[u] = stack[u]
      /\ Len(stack'[t]) = Len(stack[t]) - 1
      /\ \A d \in 1..Len(stack[t]) : d < Len(stack[t]) => stack'[t][d] = stack[t][d]
  BY Zenon, PopStack
<1>2. Len(stack[t]) \in Nat
  BY DEF TypeOK
<1>3. ASSUME NEW u, NEW d, NEW i, Slot(stack', u, d, i)
      PROVE  Slot(stack, u, d, i) /\ stack'[u][d][i] = stack[u][d][i]
  <2>1. CASE u = t
    <3>1. d \in 1..(Len(stack[t]) - 1) /\ i \in 1..Len(stack'[t][d])
      BY Zenon, <1>1, <1>3, <2>1 DEF Slot
    <3>2. d \in 1..Len(stack[t]) /\ d < Len(stack[t])
      BY <1>2, <3>1
    <3> QED
      BY Zenon, <1>1, <1>3, <2>1, <3>1, <3>2 DEF Slot
  <2>2. CASE u # t
    BY Zenon, <1>1, <1>3, <2>2 DEF Slot
  <2> QED
    BY <2>1, <2>2
<1>4. ASSUME NEW u, NEW d, NEW i, Slot(stack, u, d, i)
      PROVE  Slot(stack', u, d, i) /\ stack'[u][d][i] = stack[u][d][i]
  <2>1. CASE u = t
    <3>1. d \in 1..Len(stack[t]) /\ i \in 1..Len(stack[t][d])
      BY Zenon, <1>4, <2>1 DEF Slot
    <3>2. d # Len(stack[t])
      BY <3>1, EmptySeq
    <3>3. d < Len(stack[t]) /\ d \in 1..(Len(stack[t]) - 1)
      BY <1>2, <3>1, <3>2
    <3> QED
      BY Zenon, <1>1, <1>4, <2>1, <3>1, <3>3 DEF Slot
  <2>2. CASE u # t
    BY Zenon, <1>1, <1>4, <2>2 DEF Slot
  <2> QED
    BY <2>1, <2>2
<1>5. BatchUniq'
  BY <1>3 DEF BatchUniq
<1> QED
  BY <1>3, <1>4, <1>5 DEF Batched

\* The queue becomes the innermost batch of t.
Takes(t) ==
  /\ Len(stack[t]) \in Nat
  /\ Len(stack'[t]) = Len(stack[t]) + 1
  /\ stack'[t][Len(stack[t]) + 1] = pending
  /\ \A d \in 1..Len(stack[t]) : stack'[t][d] = stack[t][d]
  /\ \A u \in Threads : u # t => stack'[u] = stack[u]

LEMMA SwapSlots ==
  ASSUME TypeOK, NEW t \in Threads, stack' = [stack EXCEPT ![t] = Append(@, pending)]
  PROVE  Takes(t)
<1> DEFINE n == Len(stack[t])
           r == Append(stack[t], pending)
<1>1. stack[t] \in Seq(Seq(Items)) /\ pending \in Seq(Items) /\ stack \in [Threads -> Seq(Seq(Items))]
  BY Zenon DEF TypeOK
<1>2. n \in Nat /\ Len(r) = n + 1 /\ r[n + 1] = pending /\ \A d \in 1..n : r[d] = stack[t][d]
  BY <1>1, AppendProperties, LenProperties
<1>3. stack'[t] = r /\ \A u \in Threads : u # t => stack'[u] = stack[u]
  BY Zenon, <1>1
<1> QED
  BY Zenon, <1>2, <1>3 DEF Takes

\* doPendingTasks takes the whole queue into a new innermost batch.
LEMMA SwapBatch ==
  ASSUME NEW t \in Threads, pending \in Seq(Items),
         Takes(t), BatchUniq, QueueUniq, PlaceInv
  PROVE  BatchUniq' /\ \A k \in Tasks : Batched(k)' <=> Batched(k) \/ Queued(k)
<1> DEFINE n == Len(stack[t])
           r == stack'[t]
<1>1. pending \in Seq(Items)
  OBVIOUS
<1>2. n \in Nat /\ Len(r) = n + 1 /\ r[n + 1] = pending /\ \A d \in 1..n : r[d] = stack[t][d]
  BY Zenon DEF Takes
<1>3. stack'[t] = r /\ \A u \in Threads : u # t => stack'[u] = stack[u]
  BY Zenon DEF Takes
<1> HIDE DEF r, n
<1>4. ASSUME NEW u, NEW d, NEW i, Slot(stack', u, d, i), ~(u = t /\ d = n + 1)
      PROVE  Slot(stack, u, d, i) /\ stack'[u][d][i] = stack[u][d][i]
  <2>1. CASE u = t
    <3>1. d \in 1..Len(r) /\ i \in 1..Len(r[d]) /\ d # n + 1
      BY Zenon, <1>3, <1>4, <2>1 DEF Slot
    <3>2. d \in 1..n
      BY <1>2, <3>1
    <3> QED
      BY Zenon, <1>2, <1>3, <1>4, <2>1, <3>1, <3>2 DEF Slot, n
  <2>2. CASE u # t
    BY Zenon, <1>3, <1>4, <2>2 DEF Slot
  <2> QED
    BY <2>1, <2>2
<1>5. ASSUME NEW u, NEW d, NEW i, Slot(stack, u, d, i)
      PROVE  Slot(stack', u, d, i) /\ stack'[u][d][i] = stack[u][d][i]
  <2>1. CASE u = t
    <3>1. d \in 1..n /\ i \in 1..Len(stack[t][d])
      BY Zenon, <1>5, <2>1 DEF Slot, n
    <3>2. d \in 1..Len(r) /\ r[d] = stack[t][d]
      BY <1>2, <3>1
    <3> QED
      BY Zenon, <1>3, <1>5, <2>1, <3>1, <3>2 DEF Slot
  <2>2. CASE u # t
    BY Zenon, <1>3, <1>5, <2>2 DEF Slot
  <2> QED
    BY <2>1, <2>2
<1>6. stack'[t][n + 1] = pending /\ n + 1 \in 1..Len(stack'[t])
  BY <1>2, <1>3
<1>7. \A i : Slot(stack', t, n + 1, i) <=> i \in 1..Len(pending)
  BY Zenon, <1>6 DEF Slot
<1>8. ASSUME NEW u, NEW d, NEW i, Slot(stack, u, d, i), NEW j \in 1..Len(pending),
             stack[u][d][i] = pending[j], pending[j] # Stop
      PROVE  FALSE
  <2>1. pending[j] \in Tasks
    BY <1>1, <1>8, ElementOfSeq DEF Items
  <2>2. Queued(pending[j]) /\ Batched(pending[j])
    BY Zenon, <1>8 DEF Queued, Batched
  <2> QED
    BY Zenon, <2>1, <2>2 DEF PlaceInv
<1>9. BatchUniq'
  <2> SUFFICES ASSUME NEW u, NEW d, NEW i, NEW v, NEW e, NEW j,
                      Slot(stack', u, d, i), Slot(stack', v, e, j),
                      stack'[u][d][i] = stack'[v][e][j], stack'[u][d][i] # Stop
               PROVE  u = v /\ d = e /\ i = j
    BY DEF BatchUniq
  <2>1. CASE u = t /\ d = n + 1 /\ v = t /\ e = n + 1
    BY Zenon, <1>6, <1>7, <2>1 DEF QueueUniq
  <2>2. CASE u = t /\ d = n + 1 /\ ~(v = t /\ e = n + 1)
    <3>1. Slot(stack, v, e, j) /\ stack'[v][e][j] = stack[v][e][j]
      BY <1>4, <2>2
    <3>2. i \in 1..Len(pending) /\ stack'[u][d][i] = pending[i]
      BY Zenon, <1>6, <1>7, <2>2
    <3> QED
      BY <1>8, <3>1, <3>2
  <2>3. CASE ~(u = t /\ d = n + 1) /\ v = t /\ e = n + 1
    <3>1. Slot(stack, u, d, i) /\ stack'[u][d][i] = stack[u][d][i]
      BY <1>4, <2>3
    <3>2. j \in 1..Len(pending) /\ stack'[v][e][j] = pending[j]
      BY Zenon, <1>6, <1>7, <2>3
    <3>3. stack[u][d][i] = pending[j] /\ pending[j] # Stop
      BY Zenon, <3>1, <3>2
    <3> QED
      BY <1>8, <3>1, <3>2, <3>3
  <2>4. CASE ~(u = t /\ d = n + 1) /\ ~(v = t /\ e = n + 1)
    <3>1. Slot(stack, u, d, i) /\ stack'[u][d][i] = stack[u][d][i]
      BY <1>4, <2>4
    <3>2. Slot(stack, v, e, j) /\ stack'[v][e][j] = stack[v][e][j]
      BY <1>4, <2>4
    <3> QED
      BY <3>1, <3>2, Zenon DEF BatchUniq
  <2> QED
    BY Zenon, <2>1, <2>2, <2>3, <2>4
<1>10. ASSUME NEW k \in Tasks, Batched(k)' PROVE Batched(k) \/ Queued(k)
  <2>1. PICK u, d, i : Slot(stack', u, d, i) /\ stack'[u][d][i] = k
    BY Zenon, <1>10 DEF Batched
  <2>2. CASE u = t /\ d = n + 1
    BY Zenon, <1>6, <1>7, <2>1, <2>2 DEF Queued
  <2>3. CASE ~(u = t /\ d = n + 1)
    <3>1. Slot(stack, u, d, i) /\ stack[u][d][i] = k
      BY <1>4, <2>1, <2>3
    <3> QED
      BY Zenon, <3>1 DEF Batched
  <2> QED
    BY Zenon, <2>2, <2>3
<1>11. ASSUME NEW k \in Tasks, Batched(k) PROVE Batched(k)'
  <2>1. PICK u, d, i : Slot(stack, u, d, i) /\ stack[u][d][i] = k
    BY Zenon, <1>11 DEF Batched
  <2>2. Slot(stack', u, d, i) /\ stack'[u][d][i] = k
    BY <1>5, <2>1
  <2> QED
    BY Zenon, <2>2 DEF Batched
<1>12. ASSUME NEW k \in Tasks, Queued(k) PROVE Batched(k)'
  BY Zenon, <1>6, <1>7, <1>12 DEF Queued, Batched
<1> QED
  BY Zenon, <1>9, <1>10, <1>11, <1>12

LEMMA HeadFrame ==
  ASSUME HeadInv, NEW t \in Threads, HeadOK(pc'[t], stack'[t]),
         \A u \in Threads : u # t => pc'[u] = pc[u] /\ stack'[u] = stack[u]
  PROVE  HeadInv'
BY Zenon DEF HeadInv

LEMMA HeadStep ==
  ASSUME TypeOK, CallInv, HeadInv, [Next]_vars
  PROVE  HeadInv'
<1> USE DEF Goto, Return, Call, tasks, wake, call, hist
<1>0. /\ Loop \in Threads /\ pc \in [Threads -> Labels] /\ stack \in [Threads -> Seq(Seq(Items))]
      /\ ret \in [Threads -> AppPoints] /\ \A t \in Threads : stack[t] \in Seq(Seq(Items))
  BY Zenon DEF TypeOK, Threads
<1>1. ASSUME NEW t \in Threads, pc[t] # "batch", stack' = stack,
             \A u \in Threads : u # t => pc'[u] = pc[u]
      PROVE  HeadInv'
  <2>1. HeadOK(pc[t], stack[t])
    BY Zenon DEF HeadInv
  <2>2. HeadOK(pc'[t], stack'[t])
    BY Zenon, <1>1, <2>1 DEF HeadOK
  <2> QED
    BY Zenon, <1>1, <2>2, HeadFrame
<1>2. ASSUME NEW t \in Threads,
             \/ \E k \in Tasks : SendToQueue(t, k)
             \/ CallStop(t) \/ ThreadSafety(t) \/ RunInline(t) \/ Push(t)
             \/ CountAndLoad(t) \/ StoreNotified(t) \/ EventNotify(t)
             \/ StopCheck(t) \/ LoopExit(t) \/ StopClear(t)
      PROVE  HeadInv'
  <2>1. stack' = stack /\ \A u \in Threads : u # t => pc'[u] = pc[u]
    BY Zenon, <1>0, <1>2 DEF SendToQueue, CallStop, ThreadSafety, RunInline, Push, CountAndLoad,
                       StoreNotified, EventNotify, StopCheck, LoopExit, StopClear
  <2>2. pc[t] # "batch"
    BY Zenon, <1>2 DEF SendToQueue, CallStop, ThreadSafety, RunInline, Push, CountAndLoad,
                       StoreNotified, EventNotify, StopCheck, LoopExit, StopClear, AppPoints
  <2> QED
    BY Zenon, <1>1, <2>1, <2>2
<1>3. ASSUME NEW t \in Threads, Swap(t) PROVE HeadInv'
  <2>1. Takes(t) /\ pc'[t] = "batch" /\ \A u \in Threads : u # t => pc'[u] = pc[u]
    BY Zenon, <1>0, <1>3, SwapSlots DEF Swap
  <2>2. HeadOK(pc[t], stack[t]) /\ pc[t] # "batch"
    BY Zenon, <1>3 DEF HeadInv, Swap
  <2>3. ASSUME NEW d \in 1..Len(stack'[t]), d < Len(stack'[t]) PROVE stack'[t][d][1] = Stop
    <3>1. d \in 1..Len(stack[t])
      BY <2>1, <2>3 DEF Takes
    <3> QED
      BY Zenon, <2>1, <2>2, <3>1 DEF Takes, HeadOK
  <2>4. HeadOK(pc'[t], stack'[t])
    BY Zenon, <2>1, <2>3 DEF HeadOK
  <2> QED
    BY Zenon, <2>1, <2>4, HeadFrame DEF Takes
<1>4. ASSUME NEW t \in Threads, FinishItem(t), pc'[t] = "batch",
             Len(stack[t]) > 0, stack[t][Len(stack[t])] # <<>>,
             \A u \in Threads : u # t => pc'[u] = pc[u]
      PROVE  HeadInv'
  <2>1. /\ \A u \in Threads : u # t => stack'[u] = stack[u]
        /\ Len(stack'[t]) = Len(stack[t])
        /\ \A d \in 1..Len(stack[t]) : d < Len(stack[t]) => stack'[t][d] = stack[t][d]
    BY Zenon, <1>4, FinishItemStack
  <2>2. HeadOK(pc[t], stack[t])
    BY Zenon DEF HeadInv
  <2>3. HeadOK(pc'[t], stack'[t])
    <3>1. \A d \in 1..Len(stack[t]) : d < Len(stack[t]) => stack[t][d][1] = Stop
      BY Zenon, <2>2 DEF HeadOK
    <3>2. \A d \in 1..Len(stack'[t]) : d < Len(stack'[t]) => stack'[t][d][1] = Stop
      BY Zenon, <2>1, <3>1
    <3> QED
      BY Zenon, <1>4, <3>2 DEF HeadOK
  <2> QED
    BY Zenon, <1>4, <2>1, <2>3, HeadFrame
<1>5. ASSUME NEW t \in Threads, RunTask(t) PROVE HeadInv'
  <2>1. Len(stack[t]) > 0 /\ stack[t][Len(stack[t])] # <<>>
    BY Zenon, <1>5 DEF RunTask, CallInv, CallOK, Top, Depth
  <2>2. FinishItem(t) /\ pc'[t] = "batch" /\ \A u \in Threads : u # t => pc'[u] = pc[u]
    BY Zenon, <1>5 DEF RunTask
  <2> QED
    BY Zenon, <1>4, <2>1, <2>2
<1>6. ASSUME NEW t \in Threads, RunStop(t) PROVE HeadInv'
  <2>1. /\ stack' = stack /\ pc[t] = "batch" /\ HeadOK(pc[t], stack[t])
        /\ \A u \in Threads : u # t => pc'[u] = pc[u]
    BY Zenon, <1>0, <1>6 DEF RunStop, HeadInv
  <2>2. Len(stack[t]) > 0 /\ stack[t][Len(stack[t])] # <<>> /\ Head(stack[t][Len(stack[t])]) = Stop
    BY Zenon, <1>6 DEF RunStop, CallInv, CallOK, Top, Depth
  <2>3. stack[t][Len(stack[t])] \in Seq(Items) /\ Len(stack[t]) \in Nat
    BY <1>0, <2>2, ElementOfSeq
  <2>4. stack[t][Len(stack[t])][1] = Stop
    BY <2>2, <2>3
  <2>5. \A d \in 1..Len(stack[t]) : d < Len(stack[t]) \/ d = Len(stack[t])
    BY <2>3
  <2>6. HeadOK(pc'[t], stack'[t])
    BY Zenon, <2>1, <2>4, <2>5 DEF HeadOK
  <2> QED
    BY Zenon, <2>1, <2>6, HeadFrame
<1>7. ASSUME NEW t \in Threads, BatchDone(t) PROVE HeadInv'
  <2>1. Len(stack[t]) > 0 /\ Pop(t) /\ \A u \in Threads : u # t => pc'[u] = pc[u]
    BY Zenon, <1>0, <1>7 DEF BatchDone, CallInv, CallOK
  <2>2. /\ \A u \in Threads : u # t => stack'[u] = stack[u]
        /\ Len(stack'[t]) = Len(stack[t]) - 1
        /\ \A d \in 1..Len(stack[t]) : d < Len(stack[t]) => stack'[t][d] = stack[t][d]
    BY Zenon, <2>1, PopStack
  <2>3. HeadOK(pc[t], stack[t]) /\ Len(stack[t]) \in Nat
    BY Zenon, <1>0, LenProperties DEF HeadInv
  <2>4. ASSUME NEW d \in 1..Len(stack'[t]) PROVE stack'[t][d][1] = Stop
    <3>1. d \in 1..Len(stack[t]) /\ d < Len(stack[t])
      BY <2>2, <2>3
    <3> QED
      BY Zenon, <2>2, <2>3, <3>1 DEF HeadOK
  <2>5. HeadOK(pc'[t], stack'[t])
    BY Zenon, <2>4 DEF HeadOK
  <2> QED
    BY Zenon, <2>1, <2>2, <2>5, HeadFrame
<1>8. ASSUME NEW t \in Threads, StopDone(t) PROVE HeadInv'
  <2>1. pc[t] = "stop_done" /\ \A u \in Threads : u # t => pc'[u] = pc[u]
    BY Zenon, <1>0, <1>8 DEF StopDone
  <2>2. CASE stack' = stack
    BY Zenon, <1>1, <2>1, <2>2
  <2>3. CASE Depth(t) > 0 /\ FinishItem(t) /\ Goto(t, "batch")
    <3>1. Len(stack[t]) > 0 /\ Len(stack[t]) \in 1..Len(stack[t])
      BY <1>0, <2>3, LenProperties DEF Depth
    <3>2. stack[t][Len(stack[t])] # <<>> /\ pc'[t] = "batch"
      BY Zenon, <1>0, <2>1, <2>3, <3>1 DEF CallInv, CallOK
    <3> QED
      BY Zenon, <1>4, <2>1, <2>3, <3>1, <3>2
  <2> QED
    BY Zenon, <1>8, <2>2, <2>3 DEF StopDone
<1>9. ASSUME Base \/ IoEvent PROVE HeadInv'
  <2>1. stack' = stack /\ \A u \in Threads : u # Loop => pc'[u] = pc[u]
    BY Zenon, <1>0, <1>9 DEF Base, IoEvent, Dispatch, SetThreadId, Poll, Wake, PreDone,
                EventfdNotifyHandle, EndPass
  <2>2. pc[Loop] # "batch"
    BY Zenon, <1>9 DEF Base, IoEvent, Dispatch, SetThreadId, Poll, Wake, PreDone,
                EventfdNotifyHandle, EndPass
  <2> QED
    BY Zenon, <1>0, <1>1, <2>1, <2>2
<1>10. CASE UNCHANGED vars
  BY Zenon, <1>10 DEF vars, HeadInv
<1> QED
  BY Zenon, <1>2, <1>3, <1>5, <1>6, <1>7, <1>8, <1>9, <1>10 DEF Next, InCall

-----------------------------------------------------------------------------
(* Which tasks have not been pushed yet.                                   *)

Before == {"check", "inline", "push"}

\* Only t moves.
OnlyMoves(t) == \A u \in Threads : u # t => pc'[u] = pc[u] /\ arg'[u] = arg[u]

\* A step of t outside sendToQueue's first half.
LEMMA FreshFrame ==
  ASSUME FreshUniq, NEW t \in Threads, OnlyMoves(t), unsent' = unsent,
         pc[t] \notin Before, pc'[t] \notin Before
  PROVE  FreshUniq' /\ \A k \in Tasks : Fresh(k)' <=> Fresh(k)
<1>1. \A u \in Threads : \A k : Holds(u, k)' <=> Holds(u, k)
  BY Zenon DEF Holds, Before, OnlyMoves
<1> QED
  BY Zenon, <1>1 DEF FreshUniq, Fresh

\* threadSafety keeps the task in the hands of t.
LEMMA FreshKept ==
  ASSUME FreshUniq, NEW t \in Threads, OnlyMoves(t), unsent' = unsent,
         pc[t] \in Before, pc'[t] \in Before, arg'[t] = arg[t]
  PROVE  FreshUniq' /\ \A k \in Tasks : Fresh(k)' <=> Fresh(k)
<1>1. \A u \in Threads : \A k : Holds(u, k)' <=> Holds(u, k)
  BY Zenon DEF Holds, Before, OnlyMoves
<1> QED
  BY Zenon, <1>1 DEF FreshUniq, Fresh

\* The task of t is pushed or run.
LEMMA FreshLeaves ==
  ASSUME FreshUniq, NEW t \in Threads, OnlyMoves(t), unsent' = unsent,
         pc[t] \in Before, pc'[t] \notin Before
  PROVE  /\ FreshUniq'
         /\ \A k \in Tasks : Fresh(k)' <=> Fresh(k) /\ k # arg[t]
         /\ Fresh(arg[t])
<1>1. \A u \in Threads : \A k : Holds(u, k)' <=> Holds(u, k) /\ u # t
  BY Zenon DEF Holds, Before, OnlyMoves
<1>2. Holds(t, arg[t])
  BY Zenon DEF Holds, Before
<1>3. \A u \in Threads : \A k \in Tasks : Holds(u, k) /\ u # t => k # arg[t]
  BY Zenon, <1>2 DEF FreshUniq
<1>4. ASSUME NEW k \in Tasks, Fresh(k)' PROVE Fresh(k) /\ k # arg[t]
  <2>1. CASE k \in unsent
    BY Zenon, <1>2, <2>1 DEF Fresh, FreshUniq
  <2>2. CASE k \notin unsent
    <3>1. PICK u \in Threads : Holds(u, k) /\ u # t
      BY Zenon, <1>1, <1>4, <2>2 DEF Fresh
    <3> QED
      BY Zenon, <1>3, <3>1 DEF Fresh
  <2> QED
    BY <2>1, <2>2
<1>5. ASSUME NEW k \in Tasks, Fresh(k), k # arg[t] PROVE Fresh(k)'
  <2>1. \A u \in Threads : Holds(u, k) => u # t
    BY Zenon, <1>5 DEF Holds
  <2> QED
    BY Zenon, <1>1, <1>5, <2>1 DEF Fresh
<1>6. FreshUniq'
  BY Zenon, <1>1 DEF FreshUniq
<1>7. Fresh(arg[t])
  BY Zenon, <1>2 DEF Fresh
<1> QED
  BY Zenon, <1>4, <1>5, <1>6, <1>7

\* A task enters sendToQueue: from unsent into the hands of t.
LEMMA FreshEnters ==
  ASSUME FreshUniq, NEW t \in Threads, OnlyMoves(t), NEW k \in unsent, unsent \subseteq Tasks,
         unsent' = unsent \ {k}, pc[t] \notin Before, pc'[t] \in Before, arg'[t] = k
  PROVE  FreshUniq' /\ \A j \in Tasks : Fresh(j)' <=> Fresh(j)
<1>1. \A u \in Threads : \A j : Holds(u, j)' <=> Holds(u, j) \/ (u = t /\ j = k)
  BY Zenon DEF Holds, Before, OnlyMoves
<1>2. \A j : ~Holds(t, j)
  BY Zenon DEF Holds, Before
<1>3. FreshUniq'
  <2>1. \A j \in unsent' : \A u \in Threads : ~Holds(u, j)'
    BY Zenon, <1>1 DEF FreshUniq
  <2>2. ASSUME NEW j \in Tasks, NEW u \in Threads, NEW v \in Threads, Holds(u, j)', Holds(v, j)'
        PROVE  u = v
    <3>1. CASE j = k
      BY Zenon, <1>1, <2>2, <3>1 DEF FreshUniq
    <3>2. CASE j # k
      BY Zenon, <1>1, <2>2, <3>2 DEF FreshUniq
    <3> QED
      BY <3>1, <3>2
  <2> QED
    BY Zenon, <2>1, <2>2 DEF FreshUniq
<1>4. ASSUME NEW j \in Tasks PROVE Fresh(j)' <=> Fresh(j)
  BY Zenon, <1>1, <1>2 DEF Fresh
<1> QED
  BY Zenon, <1>3, <1>4

\* A call of stop hands no task to anyone.
LEMMA FreshStop ==
  ASSUME FreshUniq, NEW t \in Threads, OnlyMoves(t), unsent' = unsent, unsent \subseteq Tasks,
         pc[t] \notin Before, arg'[t] = Stop
  PROVE  FreshUniq' /\ \A j \in Tasks : Fresh(j)' <=> Fresh(j)
<1>0. Stop \notin Tasks
  BY ConstantsAssumption
<1>1. \A u \in Threads : \A j \in Tasks : Holds(u, j)' <=> Holds(u, j)
  BY Zenon, <1>0 DEF Holds, Before, OnlyMoves
<1> QED
  BY Zenon, <1>1 DEF FreshUniq, Fresh

-----------------------------------------------------------------------------
(* Every step keeps each task in exactly one place.                        *)

LEMMA BatchFrame == ASSUME BatchUniq, stack' = stack PROVE BatchUniq'
BY DEF BatchUniq

LEMMA OnceFrame ==
  ASSUME OnceInv, FreshUniq', \A k \in Tasks : Fresh(k)' <=> Fresh(k),
         UNCHANGED <<pending, stack, executed, discarded, pushed, owed>>
  PROVE  OnceInv'
<1>1. QueueUniq' /\ BatchUniq' /\ RanUniq'
  BY Zenon, BatchFrame DEF OnceInv, QueueUniq, RanUniq
<1>2. \A k \in Tasks : /\ Queued(k)' <=> Queued(k)
                       /\ Batched(k)' <=> Batched(k)
                       /\ Ran(k)' <=> Ran(k)
                       /\ Dropped(k)' <=> Dropped(k)
                       /\ Pushed(k)' <=> Pushed(k)
  BY Zenon DEF Queued, Batched, Ran, Dropped, Pushed
<1>3. PlaceInv'
  BY Zenon, <1>2 DEF OnceInv, PlaceInv
<1> QED
  BY Zenon, <1>1, <1>3 DEF OnceInv

\* A task that has not run is run.
LEMMA RunOnce ==
  ASSUME TypeOK, NEW t \in Threads, NEW a \in Tasks, Run(t, a), RanUniq, ~Ran(a)
  PROVE  RanUniq' /\ \A k \in Tasks : Ran(k)' <=> Ran(k) \/ k = a
<1> DEFINE e == [task |-> a, by |-> t]
           n == Len(executed)
<1>0. executed \in Seq(Executions)
  BY Zenon DEF TypeOK
<1>1. e \in Executions /\ e.task = a
  BY DEF Executions
<1>2. executed' = Append(executed, e)
  BY DEF Run
<1> HIDE DEF e
<1>3. /\ n \in Nat /\ Len(executed') = n + 1
      /\ \A i \in 1..n : executed'[i] = executed[i]
      /\ executed'[n + 1] = e
  BY <1>0, <1>1, <1>2, AppendProperties, LenProperties
<1> HIDE DEF n
<1>4. \A i \in 1..(n + 1) : i \in 1..n \/ i = n + 1
  BY <1>3
<1>5. 1..n \subseteq 1..(n + 1) /\ n + 1 \in 1..(n + 1)
  BY <1>3
<1>6. \A i \in 1..n : executed[i].task # a
  BY Zenon DEF Ran, n
<1>7. RanUniq'
  <2> SUFFICES ASSUME NEW i \in 1..(n + 1), NEW j \in 1..(n + 1),
                      executed'[i].task = executed'[j].task
               PROVE  i = j
    BY Zenon, <1>3 DEF RanUniq
  <2> QED
    BY Zenon, <1>1, <1>3, <1>4, <1>6 DEF RanUniq, n
<1>8. ASSUME NEW k \in Tasks PROVE Ran(k)' <=> Ran(k) \/ k = a
  <2>1. Ran(k)' <=> \E i \in 1..(n + 1) : executed'[i].task = k
    BY Zenon, <1>3 DEF Ran
  <2>2. Ran(k) <=> \E i \in 1..n : executed'[i].task = k
    BY Zenon, <1>3 DEF Ran, n
  <2> QED
    BY Zenon, <1>1, <1>3, <1>4, <1>5, <2>1, <2>2
<1> QED
  BY Zenon, <1>7, <1>8

\* The calls and the steps of sendToQueue.
LEMMA SendOnce ==
  ASSUME TypeOK, CallInv, OnceInv, NEW t \in Threads,
         \/ \E k \in Tasks : SendToQueue(t, k)
         \/ CallStop(t) \/ ThreadSafety(t) \/ RunInline(t) \/ Push(t)
         \/ CountAndLoad(t) \/ StoreNotified(t) \/ EventNotify(t)
  PROVE  OnceInv'
<1> USE DEF Goto, Return, Call, tasks, wake, call, hist
<1>0. /\ pc \in [Threads -> Labels] /\ arg \in [Threads -> Items \cup {NoItem}]
      /\ ret \in [Threads -> AppPoints] /\ unsent \subseteq Tasks /\ FreshUniq
  BY Zenon DEF TypeOK, OnceInv
<1>a. \A l \in AppPoints : l \notin Before
  BY DEF AppPoints, Before
<1>b. "check" \in Before /\ "inline" \in Before /\ "push" \in Before /\ "count" \notin Before
      /\ "store" \notin Before /\ "notify" \notin Before /\ "stop_check" \notin Before
  BY DEF Before
<1>1. ASSUME NEW k \in Tasks, SendToQueue(t, k) PROVE OnceInv'
  <2>1. OnlyMoves(t) /\ arg'[t] = k /\ pc[t] \notin Before /\ pc'[t] \in Before
    BY Zenon, <1>0, <1>a, <1>b, <1>1 DEF SendToQueue, OnlyMoves
  <2>2. /\ k \in unsent /\ unsent' = unsent \ {k}
        /\ UNCHANGED <<pending, stack, executed, discarded, pushed, owed>>
    BY Zenon, <1>1 DEF SendToQueue
  <2> QED
    BY Zenon, <1>0, <2>1, <2>2, FreshEnters, OnceFrame
<1>2. ASSUME CallStop(t) PROVE OnceInv'
  <2>1. OnlyMoves(t) /\ arg'[t] = Stop /\ pc[t] \notin Before
    BY Zenon, <1>0, <1>a, <1>2 DEF CallStop, OnlyMoves
  <2>2. UNCHANGED <<unsent, pending, stack, executed, discarded, pushed, owed>>
    BY Zenon, <1>2 DEF CallStop
  <2> QED
    BY Zenon, <1>0, <2>1, <2>2, FreshStop, OnceFrame
<1>3. ASSUME ThreadSafety(t) PROVE OnceInv'
  <2>1. OnlyMoves(t) /\ arg'[t] = arg[t] /\ pc[t] \in Before /\ pc'[t] \in Before
    BY Zenon, <1>0, <1>b, <1>3 DEF ThreadSafety, OnlyMoves
  <2>2. UNCHANGED <<unsent, pending, stack, executed, discarded, pushed, owed>>
    BY Zenon, <1>3 DEF ThreadSafety
  <2> QED
    BY Zenon, <1>0, <2>1, <2>2, FreshKept, OnceFrame
<1>4. ASSUME RunInline(t) PROVE OnceInv'
  <2>1. OnlyMoves(t) /\ pc[t] \in Before /\ pc'[t] \notin Before
    BY Zenon, <1>0, <1>a, <1>b, <1>4 DEF RunInline, OnlyMoves
  <2>2. UNCHANGED <<unsent, pending, stack, discarded, pushed, owed>>
    BY Zenon, <1>4 DEF RunInline
  <2>3. /\ FreshUniq' /\ Fresh(arg[t])
        /\ \A k \in Tasks : Fresh(k)' <=> Fresh(k) /\ k # arg[t]
    BY Zenon, <1>0, <2>1, <2>2, FreshLeaves
  <2>4. CASE arg[t] = Stop
    <3>1. executed' = executed
      BY Zenon, <1>4, <2>4 DEF RunInline
    <3>2. \A k \in Tasks : Fresh(k)' <=> Fresh(k)
      BY Zenon, <2>3, <2>4, ConstantsAssumption
    <3> QED
      BY Zenon, <2>2, <2>3, <3>1, <3>2, OnceFrame
  <2>5. CASE arg[t] # Stop
    <3>1. arg[t] \in Tasks /\ Run(t, arg[t])
      BY Zenon, <1>4, <2>5 DEF RunInline, CallInv, CallOK, Items
    <3>2. ~Ran(arg[t])
      BY Zenon, <2>3, <3>1 DEF OnceInv, PlaceInv
    <3>3. RanUniq' /\ \A k \in Tasks : Ran(k)' <=> Ran(k) \/ k = arg[t]
      BY Zenon, <3>1, <3>2, RunOnce DEF OnceInv
    <3>4. QueueUniq' /\ BatchUniq'
      BY Zenon, <2>2, BatchFrame DEF OnceInv, QueueUniq
    <3>5. \A k \in Tasks : /\ Queued(k)' <=> Queued(k)
                           /\ Batched(k)' <=> Batched(k)
                           /\ Dropped(k)' <=> Dropped(k)
                           /\ Pushed(k)' <=> Pushed(k)
      BY Zenon, <2>2 DEF Queued, Batched, Dropped, Pushed
    <3>6. PlaceInv'
      BY Zenon, <2>2, <2>3, <3>3, <3>5 DEF OnceInv, PlaceInv
    <3> QED
      BY Zenon, <2>3, <3>3, <3>4, <3>6 DEF OnceInv
  <2> QED
    BY <2>4, <2>5
<1>5. ASSUME Push(t) PROVE OnceInv'
  <2>1. OnlyMoves(t) /\ pc[t] \in Before /\ pc'[t] \notin Before
    BY Zenon, <1>0, <1>b, <1>5 DEF Push, OnlyMoves
  <2>2. UNCHANGED <<unsent, stack, executed, discarded, owed>>
    BY Zenon, <1>5 DEF Push
  <2>3. /\ FreshUniq' /\ Fresh(arg[t])
        /\ \A k \in Tasks : Fresh(k)' <=> Fresh(k) /\ k # arg[t]
    BY Zenon, <1>0, <2>1, <2>2, FreshLeaves
  <2> DEFINE a == arg[t]
             n == Len(pending)
             m == Len(pushed)
  <2>4. a \in Items /\ pending \in Seq(Items) /\ pushed \in Seq(Items)
    BY Zenon, <1>5 DEF Push, TypeOK, CallInv, CallOK
  <2>5. pending' = Append(pending, a) /\ pushed' = Append(pushed, a)
    BY Zenon, <1>5 DEF Push
  <2>6. /\ n \in Nat /\ Len(pending') = n + 1 /\ pending'[n + 1] = a
        /\ \A i \in 1..n : pending'[i] = pending[i]
    BY <2>4, <2>5, AppendProperties, LenProperties
  <2>7. /\ m \in Nat /\ Len(pushed') = m + 1 /\ pushed'[m + 1] = a
        /\ \A i \in 1..m : pushed'[i] = pushed[i]
    BY <2>4, <2>5, AppendProperties, LenProperties
  <2>8. \A k : Queued(k)' <=> Queued(k) \/ k = a
    <3> HIDE DEF a
    <3>1. \A i \in 1..(n + 1) : i \in 1..n \/ i = n + 1
      BY <2>6
    <3>2. 1..n \subseteq 1..(n + 1) /\ n + 1 \in 1..(n + 1)
      BY <2>6
    <3> QED
      BY Zenon, <2>6, <3>1, <3>2 DEF Queued
  <2>9. \A k : Pushed(k)' <=> Pushed(k) \/ k = a
    <3> HIDE DEF a
    <3>1. \A i \in 1..(m + 1) : i \in 1..m \/ i = m + 1
      BY <2>7
    <3>2. 1..m \subseteq 1..(m + 1) /\ m + 1 \in 1..(m + 1)
      BY <2>7
    <3> QED
      BY Zenon, <2>7, <3>1, <3>2 DEF Pushed
  <2>10. a \in Tasks => ~Queued(a)
    BY Zenon, <2>3 DEF OnceInv, PlaceInv
  <2>11. QueueUniq'
    <3> HIDE DEF a
    <3>1. \A i \in 1..(n + 1) : i \in 1..n \/ i = n + 1
      BY <2>6
    <3>2. a # Stop => \A i \in 1..n : pending[i] # a
      BY Zenon, <2>4, <2>10 DEF Items, Queued
    <3> QED
      BY Zenon, <2>6, <3>1, <3>2 DEF OnceInv, QueueUniq
  <2>12. \A k \in Tasks : /\ Batched(k)' <=> Batched(k)
                          /\ Ran(k)' <=> Ran(k)
                          /\ Dropped(k)' <=> Dropped(k)
    BY Zenon, <2>2 DEF Batched, Ran, Dropped
  <2>13. PlaceInv'
    BY Zenon, <2>2, <2>3, <2>8, <2>9, <2>12 DEF OnceInv, PlaceInv
  <2>14. BatchUniq' /\ RanUniq'
    BY Zenon, <2>2, BatchFrame DEF OnceInv, RanUniq
  <2> QED
    BY Zenon, <2>3, <2>11, <2>13, <2>14 DEF OnceInv
<1>6. ASSUME CountAndLoad(t) \/ StoreNotified(t) \/ EventNotify(t) PROVE OnceInv'
  <2>1. OnlyMoves(t) /\ pc[t] \notin Before /\ pc'[t] \notin Before
    BY Zenon, <1>0, <1>a, <1>b, <1>6 DEF CountAndLoad, StoreNotified, EventNotify, OnlyMoves
  <2>2. UNCHANGED <<unsent, pending, stack, executed, discarded, pushed, owed>>
    BY Zenon, <1>6 DEF CountAndLoad, StoreNotified, EventNotify
  <2> QED
    BY Zenon, <1>0, <2>1, <2>2, FreshFrame, OnceFrame
<1> QED
  BY Zenon, <1>1, <1>2, <1>3, <1>4, <1>5, <1>6

\* doPendingTasks.
LEMMA DrainOnce ==
  ASSUME TypeOK, CallInv, OnceInv, NEW t \in Threads,
         Swap(t) \/ RunTask(t) \/ RunStop(t) \/ BatchDone(t)
  PROVE  OnceInv'
<1> USE DEF Goto, Return, tasks, wake, call, hist
<1>0. /\ pc \in [Threads -> Labels] /\ arg \in [Threads -> Items \cup {NoItem}]
      /\ ret \in [Threads -> AppPoints] /\ FreshUniq /\ stack[t] \in Seq(Seq(Items))
  BY Zenon DEF TypeOK, OnceInv
<1>a. /\ \A l \in AppPoints : l \notin Before
      /\ "swap" \notin Before /\ "batch" \notin Before /\ "stop_check" \notin Before
  BY DEF AppPoints, Before
<1>b. OnlyMoves(t) /\ pc[t] \notin Before /\ pc'[t] \notin Before
  BY Zenon, <1>0, <1>a DEF Swap, RunTask, RunStop, BatchDone, OnlyMoves
<1>c. UNCHANGED <<unsent, discarded, pushed, owed>>
  BY Zenon DEF Swap, RunTask, RunStop, BatchDone
<1>d. FreshUniq' /\ \A k \in Tasks : Fresh(k)' <=> Fresh(k)
  BY Zenon, <1>0, <1>b, <1>c, FreshFrame
<1>e. \A k \in Tasks : (Dropped(k)' <=> Dropped(k)) /\ (Pushed(k)' <=> Pushed(k))
  BY Zenon, <1>c DEF Dropped, Pushed
<1>1. ASSUME Swap(t) PROVE OnceInv'
  <2>1. executed' = executed /\ pending' = <<>> /\ stack' = [stack EXCEPT ![t] = Append(@, pending)]
    BY Zenon, <1>1 DEF Swap
  <2>2. Takes(t) /\ pending \in Seq(Items)
    BY Zenon, <2>1, SwapSlots DEF TypeOK
  <2>3. BatchUniq' /\ \A k \in Tasks : Batched(k)' <=> Batched(k) \/ Queued(k)
    BY Zenon, <2>2, SwapBatch DEF OnceInv
  <2>4. Len(pending') = 0
    BY <2>1, EmptySeq
  <2>5. QueueUniq' /\ \A k \in Tasks : ~Queued(k)'
    BY <2>4 DEF QueueUniq, Queued
  <2>6. RanUniq' /\ \A k \in Tasks : Ran(k)' <=> Ran(k)
    BY Zenon, <2>1 DEF OnceInv, RanUniq, Ran
  <2>7. PlaceInv'
    BY Zenon, <1>c, <1>d, <1>e, <2>3, <2>5, <2>6 DEF OnceInv, PlaceInv
  <2> QED
    BY Zenon, <1>d, <2>3, <2>5, <2>6, <2>7 DEF OnceInv
<1>2. ASSUME RunTask(t) PROVE OnceInv'
  <2>1. Len(stack[t]) > 0 /\ stack[t][Len(stack[t])] # <<>>
    BY Zenon, <1>2 DEF RunTask, CallInv, CallOK, Top, Depth
  <2>2. stack[t][Len(stack[t])] \in Seq(Items)
    BY <1>0, <2>1, ElementOfSeq
  <2> DEFINE a == Head(stack[t][Len(stack[t])])
  <2>3. a \in Items
    BY <2>1, <2>2
  <2>4. a # Stop /\ Run(t, a) /\ FinishItem(t) /\ pending' = pending
    BY Zenon, <1>2 DEF RunTask, Top, Depth
  <2>5. /\ BatchUniq' /\ Batched(a)
        /\ \A k \in Tasks : Batched(k)' <=> Batched(k) /\ k # a
    BY Zenon, <2>1, <2>4, FinishBatch DEF OnceInv
  <2> HIDE DEF a
  <2>6. a \in Tasks /\ ~Ran(a)
    BY Zenon, <2>3, <2>4, <2>5 DEF Items, OnceInv, PlaceInv
  <2>7. RanUniq' /\ \A k \in Tasks : Ran(k)' <=> Ran(k) \/ k = a
    BY Zenon, <2>4, <2>6, RunOnce DEF OnceInv
  <2>8. QueueUniq' /\ \A k \in Tasks : Queued(k)' <=> Queued(k)
    BY Zenon, <2>4 DEF OnceInv, QueueUniq, Queued
  <2>9. PlaceInv'
    BY Zenon, <1>c, <1>d, <1>e, <2>5, <2>6, <2>7, <2>8 DEF OnceInv, PlaceInv
  <2> QED
    BY Zenon, <1>d, <2>5, <2>7, <2>8, <2>9 DEF OnceInv
<1>3. ASSUME RunStop(t) PROVE OnceInv'
  BY Zenon, <1>3, <1>c, <1>d, OnceFrame DEF RunStop
<1>4. ASSUME BatchDone(t) PROVE OnceInv'
  <2>1. Len(stack[t]) > 0 /\ stack[t][Len(stack[t])] = <<>> /\ Pop(t)
    BY Zenon, <1>4 DEF BatchDone, CallInv, CallOK, Top, Depth
  <2>2. BatchUniq' /\ \A k \in Tasks : Batched(k)' <=> Batched(k)
    BY Zenon, <2>1, PopBatch DEF OnceInv
  <2>3. pending' = pending /\ executed' = executed
    BY Zenon, <1>4 DEF BatchDone
  <2>4. QueueUniq' /\ \A k \in Tasks : Queued(k)' <=> Queued(k)
    BY Zenon, <2>3 DEF OnceInv, QueueUniq, Queued
  <2>5. RanUniq' /\ \A k \in Tasks : Ran(k)' <=> Ran(k)
    BY Zenon, <2>3 DEF OnceInv, RanUniq, Ran
  <2>6. PlaceInv'
    BY Zenon, <1>c, <1>d, <1>e, <2>2, <2>4, <2>5 DEF OnceInv, PlaceInv
  <2> QED
    BY Zenon, <1>d, <2>2, <2>4, <2>5, <2>6 DEF OnceInv
<1> QED
  BY Zenon, <1>1, <1>2, <1>3, <1>4

\* stopHandle.
LEMMA StopOnce ==
  ASSUME TypeOK, CallInv, HeadInv, OnceInv, NEW t \in Threads,
         StopCheck(t) \/ LoopExit(t) \/ StopClear(t) \/ StopDone(t)
  PROVE  OnceInv'
<1> USE DEF Goto, Return, tasks, wake, call, hist
<1>0. /\ pc \in [Threads -> Labels] /\ arg \in [Threads -> Items \cup {NoItem}]
      /\ ret \in [Threads -> AppPoints] /\ FreshUniq /\ stack[t] \in Seq(Seq(Items))
  BY Zenon DEF TypeOK, OnceInv
<1>a. /\ \A l \in AppPoints : l \notin Before
      /\ "swap" \notin Before /\ "batch" \notin Before /\ "stop_check" \notin Before
      /\ "loopexit" \notin Before /\ "stop_clear" \notin Before /\ "stop_done" \notin Before
  BY DEF AppPoints, Before
<1>b. OnlyMoves(t) /\ pc[t] \notin Before /\ pc'[t] \notin Before
  BY Zenon, <1>0, <1>a DEF StopCheck, LoopExit, StopClear, StopDone, OnlyMoves
<1>c. UNCHANGED <<unsent, executed, pushed>>
  BY Zenon DEF StopCheck, LoopExit, StopClear, StopDone
<1>d. FreshUniq' /\ \A k \in Tasks : Fresh(k)' <=> Fresh(k)
  BY Zenon, <1>0, <1>b, <1>c, FreshFrame
<1>e. \A k \in Tasks : (Ran(k)' <=> Ran(k)) /\ (Pushed(k)' <=> Pushed(k))
  BY Zenon, <1>c DEF Ran, Pushed
<1>f. RanUniq'
  BY Zenon, <1>c DEF OnceInv, RanUniq
<1>1. ASSUME StopCheck(t) PROVE OnceInv'
  <2>1. UNCHANGED <<pending, stack, discarded>>
    BY Zenon, <1>1 DEF StopCheck
  <2>2. QueueUniq' /\ BatchUniq'
    BY Zenon, <2>1, BatchFrame DEF OnceInv, QueueUniq
  <2>3. \A k \in Tasks : /\ Queued(k)' <=> Queued(k)
                         /\ Batched(k)' <=> Batched(k)
                         /\ Dropped(k)' <=> Dropped(k)
    BY Zenon, <2>1 DEF Queued, Batched, Dropped
  <2>4. \A k \in Tasks : k \in owed' => Batched(k) \/ Ran(k)
    <3>1. CASE owed' = owed
      BY Zenon, <3>1 DEF OnceInv, PlaceInv
    <3>2. CASE pending = <<>> /\ owed' = Elems(pushed) \ (Elems(discarded) \cup {Stop})
      <4>1. Len(pending) = 0
        BY <3>2, EmptySeq
      <4>2. \A k \in Tasks : ~Queued(k)
        BY <4>1 DEF Queued
      <4>3. \A k \in Tasks : k \in owed' => Pushed(k) /\ ~Dropped(k)
        BY Zenon, <3>2 DEF Elems, Pushed, Dropped
      <4> QED
        BY Zenon, <4>2, <4>3 DEF OnceInv, PlaceInv
    <3> QED
      BY Zenon, <1>1, <3>1, <3>2 DEF StopCheck
  <2>5. PlaceInv'
    BY Zenon, <1>d, <1>e, <2>3, <2>4 DEF OnceInv, PlaceInv
  <2> QED
    BY Zenon, <1>d, <1>f, <2>2, <2>5 DEF OnceInv
<1>2. ASSUME LoopExit(t) PROVE OnceInv'
  BY Zenon, <1>2, <1>c, <1>d, OnceFrame DEF LoopExit
<1>3. ASSUME StopClear(t) PROVE OnceInv'
  <2>1. pending' = <<>> /\ discarded' = discarded \o pending /\ UNCHANGED <<stack, owed>>
    BY Zenon, <1>3 DEF StopClear
  <2>2. Len(pending') = 0 /\ pending \in Seq(Items) /\ discarded \in Seq(Items)
    BY <2>1, EmptySeq DEF TypeOK
  <2>3. QueueUniq' /\ \A k \in Tasks : ~Queued(k)'
    BY <2>2 DEF QueueUniq, Queued
  <2>4. BatchUniq' /\ \A k \in Tasks : Batched(k)' <=> Batched(k)
    BY Zenon, <2>1, BatchFrame DEF OnceInv, Batched
  <2>5. ASSUME NEW k \in Tasks PROVE Dropped(k)' <=> Dropped(k) \/ Queued(k)
    <3> DEFINE n == Len(discarded)
               m == Len(pending)
    <3>1. /\ n \in Nat /\ m \in Nat /\ Len(discarded') = n + m
          /\ \A i \in 1..(n + m) : discarded'[i] = IF i <= n THEN discarded[i] ELSE pending[i - n]
      BY <2>1, <2>2, ConcatProperties, LenProperties
    <3>2. \A i \in 1..n : i \in 1..(n + m) /\ discarded'[i] = discarded[i]
      BY <3>1
    <3>3. \A i \in 1..m : n + i \in 1..(n + m)
      BY <3>1
    <3>4. ASSUME NEW i \in 1..m PROVE discarded'[n + i] = pending[i]
      <4>1. ~(n + i <= n) /\ n + i - n = i
        BY <3>1
      <4> QED
        BY <3>1, <3>3, <4>1
    <3>5. \A i \in 1..(n + m) : \/ i \in 1..n /\ discarded'[i] = discarded[i]
                                \/ i - n \in 1..m /\ discarded'[i] = pending[i - n]
      BY <3>1
    <3>6. ASSUME Dropped(k)' PROVE Dropped(k) \/ Queued(k)
      BY Zenon, <3>1, <3>5, <3>6 DEF Dropped, Queued
    <3>7. ASSUME Dropped(k) PROVE Dropped(k)'
      BY Zenon, <3>1, <3>2, <3>7 DEF Dropped
    <3>8. ASSUME Queued(k) PROVE Dropped(k)'
      BY Zenon, <3>1, <3>3, <3>4, <3>8 DEF Dropped, Queued
    <3> QED
      BY <3>6, <3>7, <3>8
  <2>6. PlaceInv'
    BY Zenon, <1>d, <1>e, <2>1, <2>3, <2>4, <2>5 DEF OnceInv, PlaceInv
  <2> QED
    BY Zenon, <1>d, <1>f, <2>3, <2>4, <2>6 DEF OnceInv
<1>4. ASSUME StopDone(t) PROVE OnceInv'
  <2>1. UNCHANGED <<pending, discarded, owed>>
    BY Zenon, <1>4 DEF StopDone
  <2>2. CASE stack' = stack
    BY Zenon, <1>c, <1>d, <2>1, <2>2, OnceFrame
  <2>3. CASE Depth(t) > 0 /\ FinishItem(t)
    <3>1. Len(stack[t]) > 0 /\ Len(stack[t]) \in 1..Len(stack[t])
      BY <1>0, <2>3, LenProperties DEF Depth
    <3>2. stack[t][Len(stack[t])] # <<>>
      BY Zenon, <1>4, <3>1 DEF StopDone, CallInv, CallOK
    <3> DEFINE a == Head(stack[t][Len(stack[t])])
    <3>3. BatchUniq' /\ \A k \in Tasks : Batched(k)' <=> Batched(k) /\ k # a
      BY Zenon, <2>3, <3>1, <3>2, FinishBatch DEF OnceInv
    <3>4. a = Stop
      <4>1. stack[t][Len(stack[t])] \in Seq(Items)
        BY <1>0, <3>1, ElementOfSeq
      <4>2. stack[t][Len(stack[t])][1] = Stop
        BY Zenon, <1>4, <3>1 DEF StopDone, HeadInv, HeadOK
      <4> QED
        BY <3>2, <4>1, <4>2
    <3>5. \A k \in Tasks : Batched(k)' <=> Batched(k)
      BY Zenon, <3>3, <3>4, ConstantsAssumption
    <3>6. QueueUniq' /\ \A k \in Tasks : (Queued(k)' <=> Queued(k)) /\ (Dropped(k)' <=> Dropped(k))
      BY Zenon, <2>1 DEF OnceInv, QueueUniq, Queued, Dropped
    <3>7. PlaceInv'
      BY Zenon, <1>d, <1>e, <2>1, <3>5, <3>6 DEF OnceInv, PlaceInv
    <3> QED
      BY Zenon, <1>d, <1>f, <3>3, <3>6, <3>7 DEF OnceInv
  <2> QED
    BY Zenon, <1>4, <2>2, <2>3 DEF StopDone
<1> QED
  BY Zenon, <1>1, <1>2, <1>3, <1>4

\* dispatch and the event base touch no task.
LEMMA BaseOnce ==
  ASSUME TypeOK, OnceInv, Base \/ IoEvent
  PROVE  OnceInv'
<1> USE DEF Goto, tasks, wake, call, hist
<1>0. /\ Loop \in Threads /\ FreshUniq
      /\ pc \in [Threads -> Labels] /\ arg \in [Threads -> Items \cup {NoItem}]
  BY Zenon DEF TypeOK, OnceInv, Threads
<1>1. /\ pc[Loop] \in {"init", "setid", "poll", "blocked", "pre", "read", "io"}
      /\ \E l \in {"setid", "poll", "blocked", "pre", "read", "io", "swap", "exited"} :
           pc' = [pc EXCEPT ![Loop] = l]
  BY Zenon DEF Base, IoEvent, Dispatch, SetThreadId, Poll, Wake, PreDone, EventfdNotifyHandle,
         EndPass, FirstOfPass
<1>2. UNCHANGED <<arg, unsent, pending, stack, executed, discarded, pushed, owed>>
  BY Zenon DEF Base, IoEvent, Dispatch, SetThreadId, Poll, Wake, PreDone, EventfdNotifyHandle,
         EndPass
<1>3. pc[Loop] \notin Before /\ pc'[Loop] \notin Before
  BY <1>0, <1>1 DEF Before
<1>4. OnlyMoves(Loop)
  BY Zenon, <1>0, <1>1, <1>2 DEF OnlyMoves
<1> QED
  BY Zenon, <1>0, <1>2, <1>3, <1>4, FreshFrame, OnceFrame

LEMMA OnceStep ==
  ASSUME TypeOK, CallInv, HeadInv, OnceInv, [Next]_vars
  PROVE  OnceInv'
<1>1. CASE UNCHANGED vars
  <2>1. FreshUniq' /\ \A k \in Tasks : Fresh(k)' <=> Fresh(k)
    BY Zenon, <1>1 DEF vars, OnceInv, FreshUniq, Fresh, Holds
  <2> QED
    BY Zenon, <1>1, <2>1, OnceFrame DEF vars
<1>2. CASE Next
  BY Zenon, <1>2, SendOnce, DrainOnce, StopOnce, BaseOnce DEF Next, InCall
<1> QED
  BY <1>1, <1>2

LEMMA OnceInit == Init => HeadInv /\ OnceInv
<1> SUFFICES ASSUME Init PROVE HeadInv /\ OnceInv
  OBVIOUS
<1>1. Len(pending) = 0 /\ Len(executed) = 0 /\ Len(discarded) = 0 /\ Len(pushed) = 0
  BY EmptySeq DEF Init
<1>2. \A t \in Threads : stack[t] = <<>> /\ Len(stack[t]) = 0
  BY Zenon, EmptySeq DEF Init
<1>3. \A t \in Threads : pc[t] \in {"init", "idle"}
  BY Zenon DEF Init
<1>4. \A t \in Threads : \A k : ~Holds(t, k)
  BY <1>3 DEF Holds
<1>5. \A k : ~Queued(k) /\ ~Ran(k) /\ ~Dropped(k) /\ ~Pushed(k)
  BY <1>1 DEF Queued, Ran, Dropped, Pushed
<1>6. \A t, d, i : ~Slot(stack, t, d, i)
  BY <1>2 DEF Slot
<1>7. \A k \in Tasks : Fresh(k) /\ ~Batched(k) /\ k \notin owed
  BY Zenon, <1>6 DEF Init, Fresh, Batched
<1>8. HeadInv
  BY <1>2 DEF HeadInv, HeadOK
<1>9. PlaceInv /\ FreshUniq
  BY Zenon, <1>4, <1>5, <1>7 DEF PlaceInv, FreshUniq
<1>10. QueueUniq /\ RanUniq
  BY <1>1 DEF QueueUniq, RanUniq
<1>11. BatchUniq
  BY <1>6 DEF BatchUniq
<1> QED
  BY Zenon, <1>8, <1>9, <1>10, <1>11 DEF OnceInv

\* The inductive invariant behind ExactlyOnce: a task is at its sender, in
\* pending_tasks_, in one batch of doPendingTasks, run or dropped, and there once.
THEOREM OnceCorrect == Spec => [](HeadInv /\ OnceInv)
<1>1. TypeOK /\ CallInv /\ HeadInv /\ OnceInv /\ [Next]_vars => HeadInv' /\ OnceInv'
  BY Zenon, HeadStep, OnceStep
<1> QED
  BY <1>1, OnceInit, TypeCorrect, PTL DEF Spec

\* No task runs twice and a pushed task is in exactly one of the four places
\* ExactlyOnce names, whichever threads call sendToQueue, drain and stop.
THEOREM ExactlyOnceHolds == Spec => []ExactlyOnce
<1>1. TypeOK /\ OnceInv => ExactlyOnce
  <2> SUFFICES ASSUME TypeOK, OnceInv PROVE ExactlyOnce
    OBVIOUS
  <2>0. /\ pushed \in Seq(Items) /\ executed \in Seq(Executions)
        /\ \A t \in Threads : stack[t] \in Seq(Seq(Items))
    BY Zenon DEF TypeOK
  <2>1. \A i, j \in 1..Len(executed) : executed[i].task = executed[j].task => i = j
    BY Zenon DEF OnceInv, RanUniq
  <2>2. ASSUME NEW k \in Elems(pushed) \ {Stop}
        PROVE  LET places == <<Elems(pending), InBatch, Executed, Elems(discarded)>>
               IN  \E p \in 1..4 : \A q \in 1..4 : k \in places[q] <=> q = p
    <3>1. k \in Tasks /\ Pushed(k)
      BY <2>0, ElementOfSeq DEF Elems, Items, Pushed
    <3>2. k \in Elems(pending) <=> Queued(k)
      BY Zenon DEF Elems, Queued
    <3>3. k \in InBatch <=> Batched(k)
      <4>1. k \in InBatch <=> \E t \in Threads : \E d \in 1..Depth(t) : k \in Elems(stack[t][d])
        BY DEF InBatch
      <4>2. Batched(k) <=> \E t \in Threads : \E d \in 1..Depth(t) : \E i \in 1..Len(stack[t][d]) : stack[t][d][i] = k
        BY Zenon DEF Batched, Slot, Depth
      <4> QED
        BY Zenon, <4>1, <4>2 DEF Elems
    <3>4. k \in Executed <=> Ran(k)
      BY Zenon DEF Executed, Elems, Ran
    <3>5. k \in Elems(discarded) <=> Dropped(k)
      BY Zenon DEF Elems, Dropped
    <3>6. /\ Queued(k) \/ Batched(k) \/ Ran(k) \/ Dropped(k)
          /\ Queued(k) => ~Batched(k) /\ ~Ran(k) /\ ~Dropped(k)
          /\ Batched(k) => ~Ran(k) /\ ~Dropped(k)
          /\ Ran(k) => ~Dropped(k)
      BY Zenon, <3>1 DEF OnceInv, PlaceInv
    <3> DEFINE places == <<Elems(pending), InBatch, Executed, Elems(discarded)>>
    <3>7. /\ k \in places[1] <=> Queued(k)
          /\ k \in places[2] <=> Batched(k)
          /\ k \in places[3] <=> Ran(k)
          /\ k \in places[4] <=> Dropped(k)
      BY <3>2, <3>3, <3>4, <3>5
    <3> HIDE DEF places
    <3>8. \E p \in {1, 2, 3, 4} : \A q \in {1, 2, 3, 4} : k \in places[q] <=> q = p
      <4>1. CASE Queued(k)
        BY <3>6, <3>7, <4>1
      <4>2. CASE Batched(k)
        BY <3>6, <3>7, <4>2
      <4>3. CASE Ran(k)
        BY <3>6, <3>7, <4>3
      <4>4. CASE Dropped(k)
        BY <3>6, <3>7, <4>4
      <4> QED
        BY Zenon, <3>6, <4>1, <4>2, <4>3, <4>4
    <3>9. 1..4 = {1, 2, 3, 4}
      OBVIOUS
    <3> QED
      BY Zenon, <3>8, <3>9 DEF places
  <2> QED
    BY Zenon, <2>1, <2>2 DEF ExactlyOnce
<1> QED
  BY <1>1, TypeCorrect, OnceCorrect, PTL

-----------------------------------------------------------------------------
(* A loop constructed by the thread that dispatches it.                    *)

\* Only the thread that constructs and dispatches a loop gets past threadSafety(),
\* so that no other one runs tasks or stopHandle.
THEOREM AffinityCorrect == ASSUME Creator = Loop PROVE Spec => []AffinityInv
<1>1. Init => AffinityInv
  BY SMTT(60), ConstantsAssumption DEF Init, AffinityInv, Affinity, Elems, Threads
<1> QED
  BY <1>1, AffinityStep, TypeCorrect, PTL DEF Spec

\* Only Loop has batches.
LEMMA OthersEmpty ==
  ASSUME TypeOK, CallInv, AffinityInv, NEW t \in Others
  PROVE  stack[t] = <<>> /\ Len(stack[t]) = 0
<1>1. t \in Threads /\ pc[t] \notin DrainLabels \cup StopLabels
  BY DEF AffinityInv, Threads, DrainLabels, StopLabels
<1> QED
  BY Zenon, <1>1, EmptySeq DEF CallInv, CallOK

\* What stopHandle owed when it saw the queue empty has run when dispatch
\* returns.  (el_creator_stop shows another constructor's stop.)
THEOREM DrainedHolds == ASSUME Creator = Loop PROVE Spec => []DrainedBeforeExit
<1>1. TypeOK /\ CallInv /\ OnceInv /\ AffinityInv => DrainedBeforeExit
  <2> SUFFICES ASSUME TypeOK, CallInv, OnceInv, AffinityInv, pc[Loop] = "exited",
                      NEW k \in owed
               PROVE  k \in Executed
    BY Zenon DEF DrainedBeforeExit
  <2>1. k \in Tasks
    BY Zenon DEF TypeOK
  <2>2. \A t \in Threads : Len(stack[t]) = 0
    <3>1. stack[Loop] = <<>> /\ Loop \in Threads
      BY Zenon DEF CallInv, CallOK, Threads, DrainLabels, StopLabels
    <3> QED
      BY Zenon, <3>1, OthersEmpty, EmptySeq DEF Threads
  <2>3. ~Batched(k)
    BY <2>2 DEF Batched, Slot
  <2>4. Ran(k)
    BY Zenon, <2>1, <2>3 DEF OnceInv, PlaceInv
  <2> QED
    BY Zenon, <2>4 DEF Ran, Executed, Elems
<1> QED
  BY <1>1, TypeCorrect, OnceCorrect, AffinityCorrect, PTL

-----------------------------------------------------------------------------
(* The order of the queue and the counter, until a stop begins.            *)

\* No stopHandle has begun on Loop.
Calm ==
  /\ ~loopexit
  /\ pc[Loop] \notin StopLabels
  /\ Len(stack[Loop]) = 0 \/ (Len(stack[Loop]) = 1 /\ pc[Loop] # "swap")
  /\ pc[Loop] \in DrainLabels => arg[Loop] # Stop

\* The argument of a call tells an inline stop from a drained one; loopexit is
\* set once stopHandle has passed it.
ArgOK(l, a, s) ==
  /\ l \in AppPoints \cup LoopLabels => a = NoItem
  /\ l \in DrainLabels \cup StopLabels => a \in {NoItem, Stop}
  /\ l \in StopLabels /\ Len(s) = 0 => a = Stop
  /\ l \in {"stop_clear", "stop_done"} => loopexit
  /\ l = "blocked" => ~loopexit
ArgInv == ArgOK(pc[Loop], arg[Loop], stack[Loop])

\* What was pushed is what was run, then the batch, then the queue.
Batch == IF Len(stack[Loop]) = 0 THEN <<>> ELSE stack[Loop][1]
Ahead(p, b, q)  == Len(p) - Len(b) - Len(q)
InLine(p, b, q) ==
  /\ Ahead(p, b, q) >= 0
  /\ \A i \in 1..Len(b) : p[Ahead(p, b, q) + i] = b[i]
  /\ \A i \in 1..Len(q) : p[Ahead(p, b, q) + Len(b) + i] = q[i]
LineInv ==
  Calm => /\ InLine(pushed, Batch, pending)
          /\ \A i \in 1..Ahead(pushed, Batch, pending) : Ran(pushed[i])

\* pending_tasks_size_ lacks the pushes that are not counted yet; s lists them.
Lists(s, S) ==
  /\ s \in Seq(Threads)
  /\ \A i, j \in 1..Len(s) : s[i] = s[j] => i = j
  /\ \A t : t \in S <=> \E i \in 1..Len(s) : s[i] = t
Counting == {t \in Threads : pc[t] = "count"}
SizeInv ==
  Calm => \E s : Lists(s, Counting) /\ pending_size = Len(pending) + Len(Batch) - Len(s)

LEMMA ListsAdd ==
  ASSUME NEW S, NEW s, Lists(s, S), NEW t \in Threads, t \notin S
  PROVE  Lists(Append(s, t), S \cup {t}) /\ Len(Append(s, t)) = Len(s) + 1
<1> DEFINE r == Append(s, t)
           n == Len(s)
<1>0. s \in Seq(Threads)
  BY Zenon DEF Lists
<1>1. /\ n \in Nat /\ r \in Seq(Threads) /\ Len(r) = n + 1 /\ r[n + 1] = t
      /\ \A i \in 1..n : r[i] = s[i]
  BY <1>0, AppendProperties, LenProperties
<1> HIDE DEF r
<1>2. /\ \A i \in 1..(n + 1) : i \in 1..n \/ i = n + 1
      /\ 1..n \subseteq 1..(n + 1) /\ n + 1 \in 1..(n + 1)
  BY <1>1
<1>3. \A i \in 1..n : s[i] # t
  BY Zenon DEF Lists
<1>a. \A i, j \in 1..n : s[i] = s[j] => i = j
  BY Zenon DEF Lists
<1>4. \A i, j \in 1..Len(r) : r[i] = r[j] => i = j
  BY <1>1, <1>2, <1>3, <1>a
<1>5. \A u : u \in S \cup {t} <=> \E i \in 1..Len(r) : r[i] = u
  BY Zenon, <1>1, <1>2 DEF Lists
<1> QED
  BY Zenon, <1>1, <1>4, <1>5 DEF Lists, r

LEMMA ListsRemove ==
  ASSUME NEW S, NEW s, Lists(s, S), NEW t \in S
  PROVE  \E r : Lists(r, S \ {t}) /\ Len(r) = Len(s) - 1
<1> DEFINE n == Len(s)
<1>0. s \in Seq(Threads)
  BY Zenon DEF Lists
<1>1. PICK p \in 1..n : s[p] = t
  BY Zenon DEF Lists
<1>2. n \in Nat /\ \A i \in 1..n : s[i] \in Threads
  BY <1>0, ElementOfSeq, LenProperties
<1>3. n - 1 \in Nat /\ n \in 1..n /\ 1..(n - 1) \subseteq 1..n /\ \A i \in 1..n : i = n \/ i \in 1..(n - 1)
  BY <1>1, <1>2
<1>4. \A i \in 1..(n - 1) : i # n
  BY <1>2
<1> HIDE DEF n
<1> DEFINE r == [i \in 1..(n - 1) |-> IF i = p THEN s[n] ELSE s[i]]
<1>5. r \in [1..(n - 1) -> Threads] /\ \A i \in 1..(n - 1) : r[i] = IF i = p THEN s[n] ELSE s[i]
  BY Zenon, <1>2, <1>3
<1>6. r \in Seq(Threads) /\ Len(r) = n - 1
  <2>0. \E m \in Nat : r \in [1..m -> Threads]
    BY Zenon, <1>3, <1>5
  <2>1. r \in Seq(Threads)
    <3> HIDE DEF r
    <3> QED
      BY <2>0, SeqDef
  <2>2. DOMAIN r = 1..(n - 1) /\ DOMAIN r = 1..Len(r) /\ Len(r) \in Nat
    BY Zenon, <1>5, <2>1, LenProperties
  <2> HIDE DEF r
  <2> QED
    BY <1>3, <2>1, <2>2
<1> HIDE DEF r
<1>7. \A i, j \in 1..n : s[i] = s[j] => i = j
  BY Zenon DEF Lists, n
<1>8. \A i, j \in 1..(n - 1) : r[i] = r[j] => i = j
  BY Zenon, <1>3, <1>4, <1>5, <1>7
<1>9. ASSUME NEW u PROVE u \in S \ {t} <=> \E i \in 1..(n - 1) : r[i] = u
  <2>1. ASSUME u \in S, u # t PROVE \E i \in 1..(n - 1) : r[i] = u
    <3>1. PICK q \in 1..n : s[q] = u
      BY Zenon, <2>1 DEF Lists, n
    <3>2. q # p
      BY Zenon, <1>1, <2>1, <3>1
    <3>3. CASE q = n
      <4>1. p \in 1..(n - 1)
        BY Zenon, <1>3, <3>2, <3>3
      <4> QED
        BY Zenon, <1>5, <3>1, <3>3, <4>1
    <3>4. CASE q # n
      BY Zenon, <1>3, <1>5, <3>1, <3>2, <3>4
    <3> QED
      BY <3>3, <3>4
  <2>2. ASSUME NEW i \in 1..(n - 1), r[i] = u PROVE u \in S /\ u # t
    <3>1. PICK q \in 1..n : r[i] = s[q] /\ q # p
      BY Zenon, <1>3, <1>4, <1>5
    <3> QED
      BY Zenon, <1>1, <1>7, <2>2, <3>1 DEF Lists, n
  <2> QED
    BY Zenon, <2>1, <2>2
<1> QED
  BY Zenon, <1>6, <1>8, <1>9 DEF Lists, n

\* Another thread leaves Loop's call and the batches alone.
LEMMA OtherStep ==
  ASSUME TypeOK, AffinityInv, NEW t \in Others,
         InCall(t) \/ CallStop(t) \/ \E k \in Tasks : SendToQueue(t, k)
  PROVE  /\ UNCHANGED <<stack, loopexit, executed>>
         /\ pc'[Loop] = pc[Loop] /\ arg'[Loop] = arg[Loop]
<1> USE DEF Goto, Return, Call, tasks, wake, call, hist
<1>0. /\ t \in Threads /\ Loop \in Threads /\ t # Loop
      /\ pc \in [Threads -> Labels] /\ arg \in [Threads -> Items \cup {NoItem}]
  BY Zenon, ConstantsAssumption DEF Threads, TypeOK
<1>1. pc[t] \notin {"inline", "swap", "batch", "stop_check", "loopexit", "stop_clear", "stop_done"}
  BY DEF AffinityInv
<1>2. \/ \E k \in Tasks : SendToQueue(t, k)
      \/ CallStop(t) \/ ThreadSafety(t) \/ Push(t) \/ CountAndLoad(t)
      \/ StoreNotified(t) \/ EventNotify(t)
  BY Zenon, <1>1 DEF InCall, RunInline, Swap, RunTask, RunStop, BatchDone, StopCheck, LoopExit,
                     StopClear, StopDone
<1>3. UNCHANGED <<stack, loopexit, executed>>
  BY Zenon, <1>2 DEF SendToQueue, CallStop, ThreadSafety, Push, CountAndLoad, StoreNotified,
                     EventNotify
<1>4. pc'[Loop] = pc[Loop]
  BY Zenon, <1>0, <1>2 DEF SendToQueue, CallStop, ThreadSafety, Push, CountAndLoad, StoreNotified,
                     EventNotify
<1>5. arg'[Loop] = arg[Loop]
  BY Zenon, <1>0, <1>2 DEF SendToQueue, CallStop, ThreadSafety, Push, CountAndLoad, StoreNotified,
                     EventNotify
<1> QED
  BY Zenon, <1>3, <1>4, <1>5

LEMMA ArgStep ==
  ASSUME TypeOK, CallInv, AffinityInv, ArgInv, [Next]_vars
  PROVE  ArgInv' /\ (Calm' => Calm)
<1> USE DEF Goto, Return, Call, tasks, wake, call, hist
<1>0. /\ Loop \in Threads /\ pc \in [Threads -> Labels] /\ arg \in [Threads -> Items \cup {NoItem}]
      /\ ret \in [Threads -> AppPoints] /\ stack \in [Threads -> Seq(Seq(Items))]
      /\ stack[Loop] \in Seq(Seq(Items)) /\ Len(stack[Loop]) \in Nat /\ loopexit \in BOOLEAN
      /\ ret[Loop] \in AppPoints
  BY LenProperties DEF TypeOK, Threads
<1>1. ASSUME NEW t \in Others, InCall(t) \/ CallStop(t) \/ \E k \in Tasks : SendToQueue(t, k)
      PROVE  ArgInv' /\ (Calm' => Calm)
  BY Zenon, <1>1, OtherStep DEF ArgInv, ArgOK, Calm
<1>2. ASSUME CallStop(Loop) \/ \E k \in Tasks : SendToQueue(Loop, k)
      PROVE  ArgInv' /\ (Calm' => Calm)
  <2>1. pc[Loop] \in AppPoints /\ pc'[Loop] = "check" /\ UNCHANGED <<stack, loopexit>>
    BY Zenon, <1>0, <1>2 DEF CallStop, SendToQueue
  <2>2. stack'[Loop] = stack[Loop] /\ loopexit' = loopexit
    BY Zenon, <2>1
  <2> QED
    BY <2>1, <2>2 DEF ArgInv, ArgOK, Calm, AppPoints, LoopLabels, DrainLabels, StopLabels
<1>3. ASSUME ThreadSafety(Loop) \/ Push(Loop) \/ StoreNotified(Loop)
      PROVE  ArgInv' /\ (Calm' => Calm)
  <2>1. pc[Loop] \in SendLabels /\ pc'[Loop] \in SendLabels /\ UNCHANGED <<stack, loopexit>>
    BY Zenon, <1>0, <1>3 DEF ThreadSafety, Push, StoreNotified, SendLabels
  <2>2. stack'[Loop] = stack[Loop] /\ loopexit' = loopexit
    BY Zenon, <2>1
  <2> QED
    BY <2>1, <2>2 DEF ArgInv, ArgOK, Calm, SendLabels, AppPoints, LoopLabels, DrainLabels, StopLabels
<1>4. ASSUME CountAndLoad(Loop) \/ EventNotify(Loop) \/ RunInline(Loop)
      PROVE  ArgInv' /\ (Calm' => Calm)
  <2>1. /\ pc[Loop] \in SendLabels /\ UNCHANGED <<stack, loopexit>>
        /\ \/ pc'[Loop] = "store"
           \/ pc'[Loop] \in AppPoints /\ arg'[Loop] = NoItem
           \/ pc'[Loop] = "stop_check" /\ arg'[Loop] = Stop
    BY Zenon, <1>0, <1>4 DEF CountAndLoad, EventNotify, RunInline, SendLabels
  <2>2. stack'[Loop] = stack[Loop] /\ loopexit' = loopexit
    BY Zenon, <2>1
  <2> QED
    BY <2>1, <2>2 DEF ArgInv, ArgOK, Calm, SendLabels, AppPoints, LoopLabels, DrainLabels, StopLabels
<1>5. ASSUME Swap(Loop) PROVE ArgInv' /\ (Calm' => Calm)
  <2>1. pc[Loop] = "swap" /\ pc'[Loop] = "batch" /\ arg'[Loop] = arg[Loop] /\ loopexit' = loopexit
    BY Zenon, <1>0, <1>5 DEF Swap
  <2>2. Len(stack'[Loop]) = Len(stack[Loop]) + 1
    BY Zenon, <1>0, <1>5, SwapSlots DEF Swap, Takes
  <2>3. ArgInv'
    BY <2>1 DEF ArgInv, ArgOK, AppPoints, LoopLabels, DrainLabels, StopLabels
  <2>4. Len(stack[Loop]) \in Nat
    BY Zenon, <1>0
  <2>5. ASSUME Calm' PROVE Calm
    <3>1. Len(stack'[Loop]) = 0 \/ Len(stack'[Loop]) = 1
      BY Zenon, <2>5 DEF Calm
    <3>2. Len(stack[Loop]) = 0
      BY <2>2, <2>4, <3>1
    <3>3. ~loopexit /\ arg[Loop] # Stop
      BY Zenon, <2>1, <2>5 DEF Calm, DrainLabels
    <3> QED
      BY <2>1, <3>2, <3>3 DEF Calm, StopLabels
  <2> QED
    BY <2>3, <2>5
<1>6. ASSUME RunTask(Loop) PROVE ArgInv' /\ (Calm' => Calm)
  <2>1. pc[Loop] = "batch" /\ UNCHANGED <<pc, arg, loopexit>>
    BY Zenon, <1>6 DEF RunTask
  <2>2. Len(stack[Loop]) > 0 /\ stack[Loop][Len(stack[Loop])] # <<>>
    BY Zenon, <1>0, <1>6 DEF RunTask, CallInv, CallOK, Top, Depth
  <2>3. Len(stack'[Loop]) = Len(stack[Loop])
    BY Zenon, <1>0, <1>6, <2>2, FinishItemStack DEF RunTask
  <2>4. pc'[Loop] = "batch" /\ arg'[Loop] = arg[Loop] /\ loopexit' = loopexit
    BY Zenon, <2>1
  <2> QED
    BY <1>0, <2>1, <2>3, <2>4 DEF ArgInv, ArgOK, Calm, AppPoints, LoopLabels, DrainLabels, StopLabels
<1>7. ASSUME RunStop(Loop) PROVE ArgInv' /\ (Calm' => Calm)
  <2>1. /\ pc[Loop] = "batch" /\ pc'[Loop] = "stop_check" /\ stack'[Loop] = stack[Loop]
        /\ arg'[Loop] = arg[Loop]
    BY Zenon, <1>0, <1>7 DEF RunStop
  <2>2. Len(stack[Loop]) > 0
    BY Zenon, <1>0, <2>1 DEF CallInv, CallOK
  <2> QED
    BY <1>0, <2>1, <2>2 DEF ArgInv, ArgOK, Calm, AppPoints, LoopLabels, DrainLabels, StopLabels
<1>8. ASSUME BatchDone(Loop) PROVE ArgInv' /\ (Calm' => Calm)
  <2>1. /\ pc[Loop] = "batch" /\ loopexit' = loopexit
        /\ \/ Len(stack[Loop]) = 1 /\ arg[Loop] = NoItem /\ pc'[Loop] \in AppPoints /\ arg'[Loop] = NoItem
           \/ /\ ~(Len(stack[Loop]) = 1 /\ arg[Loop] = NoItem) 
              /\ pc'[Loop] = "stop_check" /\ arg'[Loop] = arg[Loop]
    BY Zenon, <1>0, <1>8 DEF BatchDone, Depth
  <2>2. Len(stack[Loop]) > 0
    BY Zenon, <1>0, <2>1 DEF CallInv, CallOK
  <2>3. Len(stack'[Loop]) = Len(stack[Loop]) - 1
    BY Zenon, <1>0, <1>8, <2>2, PopStack DEF BatchDone
  <2>4. NoItem # Stop
    BY ConstantsAssumption
  <2> QED
    <3>1. ArgInv'
      BY <1>0, <2>1, <2>2, <2>3 DEF ArgInv, ArgOK, AppPoints, LoopLabels, DrainLabels, StopLabels
    <3>2. Calm' => Calm
      BY <1>0, <2>1, <2>2, <2>3, <2>4 DEF Calm, AppPoints, DrainLabels, StopLabels
    <3> QED
      BY <3>1, <3>2
<1>9. ASSUME StopCheck(Loop) PROVE ArgInv' /\ (Calm' => Calm)
  <2>1. /\ pc[Loop] = "stop_check" /\ pc'[Loop] \in {"swap", "loopexit"}
        /\ arg'[Loop] = arg[Loop] /\ stack'[Loop] = stack[Loop]
    BY Zenon, <1>0, <1>9 DEF StopCheck
  <2> QED
    BY <1>0, <2>1 DEF ArgInv, ArgOK, Calm, AppPoints, LoopLabels, DrainLabels, StopLabels
<1>10. ASSUME LoopExit(Loop) \/ StopClear(Loop) PROVE ArgInv' /\ (Calm' => Calm)
  <2>1. /\ pc[Loop] \in {"loopexit", "stop_clear"} /\ pc'[Loop] \in {"stop_clear", "stop_done"}
        /\ arg'[Loop] = arg[Loop] /\ stack'[Loop] = stack[Loop]
    BY Zenon, <1>0, <1>10 DEF LoopExit, StopClear
  <2>2. loopexit'
    BY Zenon, <1>10 DEF LoopExit, StopClear, ArgInv, ArgOK
  <2> QED
    BY <1>0, <2>1, <2>2 DEF ArgInv, ArgOK, Calm, AppPoints, LoopLabels, DrainLabels, StopLabels
<1>11. ASSUME StopDone(Loop) PROVE ArgInv' /\ (Calm' => Calm)
  <2>1. /\ pc[Loop] = "stop_done" /\ loopexit'
        /\ \/ pc'[Loop] = "batch" /\ arg'[Loop] = arg[Loop]
           \/ pc'[Loop] \in AppPoints /\ arg'[Loop] = NoItem
    BY Zenon, <1>0, <1>11 DEF StopDone, ArgInv, ArgOK
  <2> QED
    BY <1>0, <2>1 DEF ArgInv, ArgOK, Calm, AppPoints, LoopLabels, DrainLabels, StopLabels
<1>12. ASSUME Base \/ IoEvent PROVE ArgInv' /\ (Calm' => Calm)
  <2>1. UNCHANGED <<arg, stack, loopexit>>
    BY Zenon, <1>12 DEF Base, IoEvent, Dispatch, SetThreadId, Poll, Wake, PreDone, EventfdNotifyHandle,
         EndPass
  <2>2. /\ pc[Loop] \in {"init", "setid", "poll", "blocked", "pre", "read", "io"}
        /\ \E l \in {"setid", "poll", "blocked", "pre", "read", "io", "swap", "exited"} :
             pc' = [pc EXCEPT ![Loop] = l]
    BY Zenon, <1>12 DEF Base, IoEvent, Dispatch, SetThreadId, Poll, Wake, PreDone, EventfdNotifyHandle,
         EndPass, FirstOfPass
  <2>3. pc'[Loop] \in {"setid", "poll", "blocked", "pre", "read", "io", "swap", "exited"}
    BY Zenon, <1>0, <2>2
  <2>4. stack[Loop] = <<>> /\ Len(stack[Loop]) = 0
    BY Zenon, <1>0, <2>2, EmptySeq DEF CallInv, CallOK, DrainLabels, StopLabels
  <2>5. arg'[Loop] = arg[Loop] /\ stack'[Loop] = stack[Loop] /\ loopexit' = loopexit
    BY Zenon, <2>1
  <2>6. NoItem # Stop
    BY ConstantsAssumption
  <2>7. pc'[Loop] = "blocked" => ~loopexit
    BY Zenon, <1>0, <1>12 DEF Base, IoEvent, Dispatch, SetThreadId, Poll, Wake, PreDone,
         EventfdNotifyHandle, EndPass, FirstOfPass
  <2> QED
    <3>1. ArgInv'
      BY <2>2, <2>3, <2>5, <2>7 DEF ArgInv, ArgOK, AppPoints, LoopLabels, DrainLabels, StopLabels
    <3>2. arg[Loop] = NoItem
      BY <2>2 DEF ArgInv, ArgOK, AppPoints, LoopLabels
    <3>3. Calm' => Calm
      BY <2>2, <2>4, <2>5, <2>6, <3>2 DEF Calm, StopLabels
    <3> QED
      BY <3>1, <3>3
<1>13. CASE UNCHANGED vars
  BY Zenon, <1>13 DEF vars, ArgInv, ArgOK, Calm
<1>14. CASE Next
  <2>1. \/ \E t \in Others : InCall(t) \/ CallStop(t) \/ \E k \in Tasks : SendToQueue(t, k)
        \/ InCall(Loop) \/ CallStop(Loop) \/ (\E k \in Tasks : SendToQueue(Loop, k))
        \/ Base \/ IoEvent
    BY Zenon, <1>14 DEF Next, Threads
  <2>2. CASE InCall(Loop)
    BY Zenon, <2>2, <1>3, <1>4, <1>5, <1>6, <1>7, <1>8, <1>9, <1>10, <1>11 DEF InCall
  <2> QED
    BY Zenon, <2>1, <2>2, <1>1, <1>2, <1>12
<1> QED
  BY Zenon, <1>13, <1>14

\* What was pushed becomes p1 and the queue q1: the batch b stands where it stood.
StaysAhead(p, b, q, p1, q1) ==
  /\ InLine(p1, b, q1)
  /\ Ahead(p1, b, q1) = Ahead(p, b, q)
  /\ \A i \in 1..Ahead(p, b, q) : p1[i] = p[i]

\* Where the batch and the queue stand in what was pushed.
LEMMA LinePush ==
  ASSUME NEW p \in Seq(Items), NEW b \in Seq(Items), NEW q \in Seq(Items), NEW a \in Items,
         InLine(p, b, q)
  PROVE  StaysAhead(p, b, q, Append(p, a), Append(q, a))
<1> DEFINE p1 == Append(p, a)
           q1 == Append(q, a)
           g == Ahead(p, b, q)
<1>1. /\ Len(p1) = Len(p) + 1 /\ p1[Len(p) + 1] = a /\ \A i \in 1..Len(p) : p1[i] = p[i]
      /\ Len(q1) = Len(q) + 1 /\ q1[Len(q) + 1] = a /\ \A i \in 1..Len(q) : q1[i] = q[i]
  BY AppendProperties
<1>2. Len(p) \in Nat /\ Len(q) \in Nat /\ Len(b) \in Nat
  BY LenProperties
<1> HIDE DEF p1, q1
<1>3. Ahead(p1, b, q1) = g /\ g \in Nat /\ Len(p) = g + Len(b) + Len(q)
  BY <1>1, <1>2 DEF Ahead, InLine
<1> HIDE DEF g
<1>4. \A i \in 1..Len(b) : p1[g + i] = b[i]
  <2> TAKE i \in 1..Len(b)
  <2>1. g + i \in 1..Len(p)
    BY <1>2, <1>3
  <2> QED
    BY Zenon, <1>1, <2>1 DEF InLine, g
<1>5. \A i \in 1..Len(q1) : p1[g + Len(b) + i] = q1[i]
  <2> TAKE i \in 1..Len(q1)
  <2>1. CASE i \in 1..Len(q)
    <3>1. g + Len(b) + i \in 1..Len(p)
      BY <1>2, <1>3, <2>1
    <3> QED
      BY Zenon, <1>1, <2>1, <3>1 DEF InLine, g
  <2>2. CASE i = Len(q) + 1
    <3>1. g + Len(b) + i = Len(p) + 1
      BY <1>2, <1>3, <2>2
    <3> QED
      BY Zenon, <1>1, <2>2, <3>1
  <2> QED
    BY <1>1, <1>2, <2>1, <2>2
<1>6. \A i \in 1..g : p1[i] = p[i]
  BY <1>1, <1>2, <1>3
<1> QED
  BY Zenon, <1>3, <1>4, <1>5, <1>6 DEF InLine, StaysAhead, g, p1, q1

LEMMA LineSwap ==
  ASSUME NEW p \in Seq(Items), NEW q \in Seq(Items), InLine(p, <<>>, q)
  PROVE  InLine(p, q, <<>>) /\ Ahead(p, q, <<>>) = Ahead(p, <<>>, q)
<1>1. Len(p) \in Nat /\ Len(q) \in Nat /\ Len(<<>>) = 0
  BY LenProperties, EmptySeq
<1>2. Ahead(p, q, <<>>) = Ahead(p, <<>>, q) /\ Ahead(p, <<>>, q) \in Int
  BY <1>1 DEF Ahead
<1>3. \A i \in 1..Len(q) : Ahead(p, <<>>, q) + 0 + i = Ahead(p, <<>>, q) + i
  BY <1>1, <1>2
<1>4. \A i \in 1..Len(q) : p[Ahead(p, <<>>, q) + i] = q[i]
  BY Zenon, <1>1, <1>3 DEF InLine
<1>5. 1..Len(<<>>) = {}
  BY <1>1
<1> QED
  BY Zenon, <1>2, <1>4, <1>5 DEF InLine

\* The head of the batch b is the next of what was pushed.
Advances(p, b, q) ==
  /\ InLine(p, Tail(b), q)
  /\ Ahead(p, Tail(b), q) = Ahead(p, b, q) + 1
  /\ p[Ahead(p, b, q) + 1] = Head(b)

LEMMA LineRun ==
  ASSUME NEW p \in Seq(Items), NEW b \in Seq(Items), NEW q \in Seq(Items),
         b # <<>>, InLine(p, b, q)
  PROVE  Advances(p, b, q)
<1> DEFINE c == Tail(b)
           g == Ahead(p, b, q)
<1>1. /\ Len(c) = Len(b) - 1 /\ \A i \in 1..Len(c) : c[i] = b[i + 1]
      /\ Len(p) \in Nat /\ Len(q) \in Nat /\ Len(b) \in Nat /\ Len(b) > 0
      /\ Head(b) = b[1] /\ c \in Seq(Items)
  BY HeadTailProperties, LenProperties, EmptySeq
<1> HIDE DEF c
<1>2. Ahead(p, c, q) = g + 1 /\ g \in Nat
  BY <1>1 DEF Ahead, InLine
<1> HIDE DEF g
<1>3. \A i \in 1..Len(b) : p[g + i] = b[i]
  BY Zenon DEF InLine, g
<1>4. \A i \in 1..Len(q) : p[g + Len(b) + i] = q[i]
  BY Zenon DEF InLine, g
<1>5. \A i \in 1..Len(c) : p[g + 1 + i] = c[i]
  <2> TAKE i \in 1..Len(c)
  <2>1. i + 1 \in 1..Len(b) /\ g + 1 + i = g + (i + 1)
    BY <1>1, <1>2
  <2> QED
    BY Zenon, <1>1, <1>3, <2>1
<1>6. \A i \in 1..Len(q) : p[g + 1 + Len(c) + i] = q[i]
  <2> TAKE i \in 1..Len(q)
  <2>1. g + 1 + Len(c) + i = g + Len(b) + i
    BY <1>1, <1>2
  <2> QED
    BY Zenon, <1>4, <2>1
<1>7. 1 \in 1..Len(b) /\ g + 1 >= 0
  BY <1>1, <1>2
<1> QED
  BY Zenon, <1>1, <1>2, <1>3, <1>5, <1>6, <1>7 DEF Advances, InLine, c, g

RanStays == \A k : Ran(k) => Ran(k)'

LEMMA LineFrame ==
  ASSUME Calm, LineInv, RanStays, UNCHANGED <<pending, pushed>>, Batch' = Batch
  PROVE  LineInv'
BY Zenon DEF LineInv, RanStays, InLine, Ahead

LEMMA SizeFrame ==
  ASSUME Calm, SizeInv, UNCHANGED <<pending, pending_size>>, Batch' = Batch, Counting' = Counting
  PROVE  SizeInv'
BY Zenon DEF SizeInv

LEMMA RanMonotone ==
  ASSUME TypeOK, executed' = executed \/ \E t \in Threads, a \in Tasks : Run(t, a)
  PROVE  RanStays
<1>0. executed \in Seq(Executions)
  BY Zenon DEF TypeOK
<1>1. CASE executed' = executed
  BY Zenon, <1>1 DEF RanStays, Ran
<1>2. ASSUME NEW t \in Threads, NEW a \in Tasks, Run(t, a) PROVE RanStays
  <2> DEFINE e == [task |-> a, by |-> t]
  <2>1. e \in Executions
    BY DEF Executions
  <2>2. executed' = Append(executed, e)
    BY <1>2 DEF Run
  <2> HIDE DEF e
  <2>3. \A i \in 1..Len(executed) : i \in 1..Len(executed') /\ executed'[i] = executed[i]
    BY <1>0, <2>1, <2>2, AppendProperties, LenProperties
  <2> QED
    BY Zenon, <2>3 DEF RanStays, Ran
<1> QED
  BY <1>1, <1>2

LEMMA OrderStep ==
  ASSUME TypeOK, TypeOK', CallInv, AffinityInv, ArgInv, LineInv, SizeInv, [Next]_vars
  PROVE  LineInv' /\ SizeInv'
<1> USE DEF Goto, Return, Call, tasks, wake, call, hist
<1> SUFFICES ASSUME Calm' PROVE LineInv' /\ SizeInv'
  BY Zenon DEF LineInv, SizeInv
<1>c. Calm
  BY Zenon, ArgStep
<1>0. /\ Loop \in Threads /\ pc \in [Threads -> Labels] /\ arg \in [Threads -> Items \cup {NoItem}]
      /\ ret \in [Threads -> AppPoints] /\ stack \in [Threads -> Seq(Seq(Items))]
      /\ stack[Loop] \in Seq(Seq(Items)) /\ Len(stack[Loop]) \in Nat
      /\ pending \in Seq(Items) /\ pushed \in Seq(Items) /\ pending_size \in Int
  BY LenProperties, Zenon DEF TypeOK, Threads
<1>b. Batch \in Seq(Items)
  BY <1>0, <1>c, EmptySeq, ElementOfSeq DEF Batch, Calm
<1>l. /\ InLine(pushed, Batch, pending)
      /\ \A i \in 1..Ahead(pushed, Batch, pending) : Ran(pushed[i])
  BY Zenon, <1>c DEF LineInv
<1>s. PICK s : Lists(s, Counting) /\ pending_size = Len(pending) + Len(Batch) - Len(s)
  BY Zenon, <1>c DEF SizeInv
<1>n. Len(pending) \in Nat /\ Len(Batch) \in Nat /\ Len(s) \in Nat
  BY <1>0, <1>b, <1>s, LenProperties DEF Lists
<1>x. \A l \in AppPoints : l # "count"
  BY DEF AppPoints
<1>1. ASSUME NEW t \in Threads,
             \/ \E k \in Tasks : SendToQueue(t, k)
             \/ CallStop(t) \/ ThreadSafety(t) \/ RunInline(t)
             \/ StoreNotified(t) \/ EventNotify(t)
      PROVE  LineInv' /\ SizeInv'
  <2>1. UNCHANGED <<pending, pushed, pending_size, stack>>
    BY Zenon, <1>1 DEF SendToQueue, CallStop, ThreadSafety, RunInline, StoreNotified, EventNotify
  <2>2. executed' = executed \/ \E u \in Threads, a \in Tasks : Run(u, a)
    BY Zenon, <1>1 DEF SendToQueue, CallStop, ThreadSafety, RunInline, StoreNotified, EventNotify,
                       CallInv, CallOK, Items
  <2>3. Counting' = Counting
    <3>1. PICK l \in AppPoints \cup {"inline", "push", "check", "stop_check", "notify", "store"} :
            pc' = [pc EXCEPT ![t] = l] /\ pc[t] # "count"
      BY Zenon, <1>0, <1>1, <1>x DEF SendToQueue, CallStop, ThreadSafety, RunInline, StoreNotified, EventNotify
    <3>2. pc[t] # "count" /\ pc'[t] # "count" /\ \A u \in Threads : u # t => pc'[u] = pc[u]
      BY Zenon, <1>0, <1>x, <3>1
    <3> QED
      BY Zenon, <3>2 DEF Counting
  <2>4. Batch' = Batch
    BY Zenon, <2>1 DEF Batch
  <2> QED
    BY Zenon, <1>c, <2>1, <2>2, <2>3, <2>4, RanMonotone, LineFrame, SizeFrame
<1>2. ASSUME NEW t \in Threads, Push(t) PROVE LineInv' /\ SizeInv'
  <2>1. /\ pending' = Append(pending, arg[t]) /\ pushed' = Append(pushed, arg[t])
        /\ pending_size' = pending_size /\ Batch' = Batch /\ executed' = executed
        /\ arg[t] \in Items
    BY Zenon, <1>2 DEF Push, Batch, CallInv, CallOK
  <2>2. /\ InLine(pushed', Batch', pending')
        /\ Ahead(pushed', Batch', pending') = Ahead(pushed, Batch, pending)
        /\ \A i \in 1..Ahead(pushed, Batch, pending) : pushed'[i] = pushed[i]
    <3>1. InLine(pushed, Batch, pending) /\ pending \in Seq(Items) /\ pushed \in Seq(Items)
      BY Zenon, <1>0, <1>l
    <3>2. StaysAhead(pushed, Batch, pending, Append(pushed, arg[t]), Append(pending, arg[t]))
      BY Zenon, <1>b, <2>1, <3>1, LinePush
    <3> QED
      BY Zenon, <2>1, <3>2 DEF StaysAhead
  <2>3. \A k : Ran(k)' <=> Ran(k)
    BY Zenon, <2>1 DEF Ran
  <2>4. LineInv'
    BY Zenon, <1>l, <2>2, <2>3 DEF LineInv
  <2>5. Counting' = Counting \cup {t} /\ t \notin Counting
    BY Zenon, <1>0, <1>2 DEF Push, Counting
  <2>6. Lists(Append(s, t), Counting') /\ Len(Append(s, t)) = Len(s) + 1
    BY Zenon, <1>s, <2>5, ListsAdd
  <2>7. Len(pending') = Len(pending) + 1
    BY <1>0, <2>1, AppendProperties
  <2>8. pending_size' = Len(pending') + Len(Batch') - Len(Append(s, t))
    BY <1>n, <1>s, <2>1, <2>6, <2>7
  <2> QED
    BY Zenon, <2>4, <2>6, <2>8 DEF SizeInv
<1>3. ASSUME NEW t \in Threads, CountAndLoad(t) PROVE LineInv' /\ SizeInv'
  <2>1. /\ UNCHANGED <<pending, pushed, stack, executed>> /\ pending_size' = pending_size + 1
        /\ pc[t] = "count"
    BY Zenon, <1>3 DEF CountAndLoad
  <2>2. Batch' = Batch
    BY Zenon, <2>1 DEF Batch
  <2>3. LineInv'
    BY Zenon, <1>c, <2>1, <2>2, RanMonotone, LineFrame
  <2>4. pc'[t] # "count" /\ \A u \in Threads : u # t => pc'[u] = pc[u]
    BY Zenon, <1>0, <1>3, <1>x DEF CountAndLoad
  <2>5. Counting' = Counting \ {t} /\ t \in Counting
    BY Zenon, <2>1, <2>4 DEF Counting
  <2>6. PICK r : Lists(r, Counting') /\ Len(r) = Len(s) - 1
    BY Zenon, <1>s, <2>5, ListsRemove
  <2>7. pending_size' = Len(pending') + Len(Batch') - Len(r)
    BY <1>n, <1>s, <2>1, <2>2, <2>6
  <2> QED
    BY Zenon, <2>3, <2>6, <2>7 DEF SizeInv
<1>4. ASSUME Swap(Loop) PROVE LineInv' /\ SizeInv'
  <2>1. /\ UNCHANGED <<pushed, executed, pending_size>> /\ pending' = <<>> /\ pc[Loop] = "swap"
        /\ pc'[Loop] = "batch" /\ \A u \in Threads : u # Loop => pc'[u] = pc[u]
    BY Zenon, <1>0, <1>4 DEF Swap
  <2>2. Len(stack[Loop]) = 0
    BY Zenon, <1>c, <2>1 DEF Calm
  <2>3. Takes(Loop)
    BY Zenon, <1>0, <1>4, SwapSlots DEF Swap
  <2>4. Len(stack'[Loop]) = 1 /\ stack'[Loop][1] = pending
    BY <2>2, <2>3 DEF Takes
  <2>5. Batch = <<>> /\ Batch' = pending
    BY <2>2, <2>4 DEF Batch
  <2>6. /\ InLine(pushed', Batch', pending')
        /\ Ahead(pushed', Batch', pending') = Ahead(pushed, Batch, pending)
    BY Zenon, <1>0, <1>l, <2>1, <2>5, LineSwap
  <2>7. \A k : Ran(k)' <=> Ran(k)
    BY Zenon, <2>1 DEF Ran
  <2>8. LineInv'
    BY Zenon, <1>l, <2>1, <2>6, <2>7 DEF LineInv
  <2>9. Counting' = Counting
    BY Zenon, <2>1 DEF Counting
  <2>10. Len(pending') = 0 /\ Len(Batch) = 0
    BY <2>1, <2>5, EmptySeq
  <2>11. pending_size' = Len(pending') + Len(Batch') - Len(s)
    BY <1>n, <1>s, <2>1, <2>5, <2>10
  <2> QED
    BY Zenon, <1>s, <2>8, <2>9, <2>11 DEF SizeInv
<1>5. ASSUME RunTask(Loop) PROVE LineInv' /\ SizeInv'
  <2>1. /\ UNCHANGED <<pushed, pending, pc>> /\ pending_size' = pending_size - 1
        /\ pc[Loop] = "batch" /\ FinishItem(Loop)
    BY Zenon, <1>5 DEF RunTask, FinishItem
  <2>2. Len(stack[Loop]) > 0 /\ stack[Loop][Len(stack[Loop])] # <<>>
    BY Zenon, <1>0, <1>5 DEF RunTask, CallInv, CallOK, Top, Depth
  <2>3. Len(stack[Loop]) = 1
    BY <1>0, <1>c, <2>2 DEF Calm
  <2>4. Batch = stack[Loop][1] /\ Batch # <<>>
    BY <2>2, <2>3 DEF Batch
  <2>5. Len(stack'[Loop]) = 1 /\ stack'[Loop][1] = Tail(stack[Loop][1])
    BY Zenon, <1>0, <2>1, <2>2, <2>3, FinishSlots
  <2>6. Batch' = Tail(Batch)
    BY <2>4, <2>5 DEF Batch
  <2>7. /\ InLine(pushed', Batch', pending')
        /\ Ahead(pushed', Batch', pending') = Ahead(pushed, Batch, pending) + 1
        /\ pushed[Ahead(pushed, Batch, pending) + 1] = Head(Batch)
    <3>1. InLine(pushed, Batch, pending) /\ pending \in Seq(Items) /\ pushed \in Seq(Items)
      BY Zenon, <1>0, <1>l
    <3>2. Advances(pushed, Batch, pending)
      BY Zenon, <1>b, <2>4, <3>1, LineRun
    <3> QED
      BY Zenon, <2>1, <2>6, <3>2 DEF Advances
  <2>8. Run(Loop, Head(Batch)) /\ Head(Batch) \in Tasks
    <3>1. Run(Loop, Head(Batch)) /\ Head(Batch) # Stop
      BY Zenon, <1>5, <2>3, <2>4 DEF RunTask, Top, Depth
    <3>2. Head(Batch) \in Items
      BY <1>b, <2>4, HeadTailProperties
    <3> QED
      BY Zenon, <3>1, <3>2 DEF Items
  <2>9. RanStays
    BY Zenon, <1>0, <2>8, RanMonotone
  <2>a. PICK h : h = Head(Batch)
    OBVIOUS
  <2>10. Ran(h)'
    <3> DEFINE e == [task |-> h, by |-> Loop]
    <3>1. e \in Executions /\ e.task = h
      BY <1>0, <2>8, <2>a DEF Executions
    <3>2. executed' = Append(executed, e) /\ executed \in Seq(Executions)
      BY Zenon, <2>8, <2>a DEF Run, TypeOK
    <3> HIDE DEF e
    <3>3. Len(executed) + 1 \in 1..Len(executed') /\ executed'[Len(executed) + 1] = e
      BY <3>1, <3>2, AppendProperties, LenProperties
    <3> QED
      BY Zenon, <3>1, <3>3 DEF Ran
  <2>11. LineInv'
    <3>1. ASSUME NEW i \in 1..(Ahead(pushed, Batch, pending) + 1), NEW k, k = pushed[i]
          PROVE  Ran(k)'
      <4>0. Ahead(pushed, Batch, pending) \in Nat
        <5>1. Len(pushed) \in Nat
          BY <1>0, LenProperties
        <5> QED
          BY <1>l, <1>n, <5>1 DEF InLine, Ahead
      <4>1. i \in 1..Ahead(pushed, Batch, pending) \/ i = Ahead(pushed, Batch, pending) + 1
        BY <4>0
      <4>2. CASE i = Ahead(pushed, Batch, pending) + 1
        <5>1. k = h
          BY Zenon, <2>7, <2>a, <3>1, <4>2
        <5> QED
          BY Zenon, <2>10, <5>1
      <4>3. CASE i \in 1..Ahead(pushed, Batch, pending)
        <5>1. Ran(k)
          BY Zenon, <1>l, <3>1, <4>3
        <5> QED
          BY Zenon, <2>9, <5>1 DEF RanStays
      <4> QED
        BY <4>1, <4>2, <4>3
    <3>2. \A i \in 1..(Ahead(pushed, Batch, pending) + 1) : Ran(pushed[i])'
      BY Zenon, <2>1, <3>1
    <3> QED
      BY Zenon, <2>7, <3>2 DEF LineInv
  <2>12. Counting' = Counting
    BY Zenon, <2>1 DEF Counting
  <2>13. Len(Batch') = Len(Batch) - 1
    BY <1>b, <2>4, <2>6, HeadTailProperties
  <2>14. pending_size' = Len(pending') + Len(Batch') - Len(s)
    BY <1>n, <1>s, <2>1, <2>13
  <2> QED
    BY Zenon, <1>s, <2>11, <2>12, <2>14 DEF SizeInv
<1>6. ASSUME BatchDone(Loop) PROVE LineInv' /\ SizeInv'
  <2>1. /\ UNCHANGED <<pushed, pending, pending_size, executed>>
        /\ pc[Loop] = "batch" /\ Pop(Loop) /\ Top(Loop) = <<>>
        /\ pc'[Loop] \in AppPoints \cup {"stop_check"}
        /\ \A u \in Threads : u # Loop => pc'[u] = pc[u]
    BY Zenon, <1>0, <1>6 DEF BatchDone
  <2>2. Len(stack[Loop]) > 0
    BY Zenon, <1>0, <2>1 DEF CallInv, CallOK
  <2>3. Len(stack[Loop]) = 1
    BY <1>0, <1>c, <2>2 DEF Calm
  <2>4. Len(stack'[Loop]) = Len(stack[Loop]) - 1
    BY Zenon, <1>0, <2>1, <2>2, PopStack
  <2>5. Len(stack'[Loop]) = 0
    BY <2>3, <2>4
  <2>6. Batch = <<>> /\ Batch' = <<>>
    BY <2>1, <2>3, <2>5 DEF Batch, Top, Depth
  <2>7. Counting' = Counting
    BY Zenon, <1>x, <2>1 DEF Counting
  <2> QED
    BY Zenon, <1>c, <2>1, <2>6, <2>7, RanMonotone, LineFrame, SizeFrame
<1>7. ASSUME RunStop(Loop) \/ StopCheck(Loop) \/ LoopExit(Loop) \/ StopClear(Loop) \/ StopDone(Loop)
      PROVE  FALSE
  <2>1. pc[Loop] \in StopLabels \/ pc'[Loop] = "stop_check"
    BY Zenon, <1>0, <1>7 DEF RunStop, StopCheck, LoopExit, StopClear, StopDone, StopLabels
  <2> QED
    BY Zenon, <1>c, <2>1 DEF Calm, StopLabels
<1>8. ASSUME Base \/ IoEvent PROVE LineInv' /\ SizeInv'
  <2>1. UNCHANGED <<pushed, pending, pending_size, executed, stack>>
    BY Zenon, <1>8 DEF Base, IoEvent, Dispatch, SetThreadId, Poll, Wake, PreDone, EventfdNotifyHandle,
         EndPass
  <2>2. /\ pc[Loop] \in {"init", "setid", "poll", "blocked", "pre", "read", "io"}
        /\ \E l \in {"setid", "poll", "blocked", "pre", "read", "io", "swap", "exited"} :
             pc' = [pc EXCEPT ![Loop] = l]
    BY Zenon, <1>8 DEF Base, IoEvent, Dispatch, SetThreadId, Poll, Wake, PreDone, EventfdNotifyHandle,
         EndPass, FirstOfPass
  <2>3. pc[Loop] # "count" /\ pc'[Loop] # "count" /\ \A u \in Threads : u # Loop => pc'[u] = pc[u]
    BY Zenon, <1>0, <2>2
  <2>4. Counting' = Counting
    BY Zenon, <2>3 DEF Counting
  <2>5. Batch' = Batch
    BY Zenon, <2>1 DEF Batch
  <2> QED
    BY Zenon, <1>c, <2>1, <2>4, <2>5, RanMonotone, LineFrame, SizeFrame
<1>9. CASE UNCHANGED vars
  <2>1. UNCHANGED <<pushed, pending, pending_size, executed>> /\ Batch' = Batch /\ Counting' = Counting
    BY Zenon, <1>9 DEF vars, Batch, Counting
  <2> QED
    BY Zenon, <1>c, <2>1, RanMonotone, LineFrame, SizeFrame
<1>10. CASE Next
  <2>1. ASSUME NEW t \in Others,
               RunInline(t) \/ Swap(t) \/ RunTask(t) \/ RunStop(t) \/ BatchDone(t)
               \/ StopCheck(t) \/ LoopExit(t) \/ StopClear(t) \/ StopDone(t)
        PROVE  FALSE
    <3>1. pc[t] \notin {"inline", "swap", "batch", "stop_check", "loopexit", "stop_clear", "stop_done"}
      BY DEF AffinityInv
    <3> QED
      BY Zenon, <2>1, <3>1 DEF RunInline, Swap, RunTask, RunStop, BatchDone, StopCheck, LoopExit,
                     StopClear, StopDone
  <2>2. \A t \in Threads : t = Loop \/ t \in Others
    BY Zenon DEF Threads
  <2>3. ASSUME NEW t \in Others, InCall(t) PROVE LineInv' /\ SizeInv'
    BY Zenon, <2>1, <2>2, <2>3, <1>1, <1>2, <1>3 DEF InCall, Threads
  <2>4. CASE InCall(Loop)
    BY Zenon, <1>0, <2>4, <1>1, <1>2, <1>3, <1>4, <1>5, <1>6, <1>7 DEF InCall
  <2>5. ASSUME NEW t \in Threads, CallStop(t) \/ \E k \in Tasks : SendToQueue(t, k)
        PROVE  LineInv' /\ SizeInv'
    BY Zenon, <1>1, <2>5
  <2> QED
    BY Zenon, <1>8, <1>10, <2>2, <2>3, <2>4, <2>5 DEF Next
<1> QED
  BY Zenon, <1>9, <1>10

LEMMA OrderInit == Init => ArgInv /\ LineInv /\ SizeInv
<1> SUFFICES ASSUME Init PROVE ArgInv /\ LineInv /\ SizeInv
  OBVIOUS
<1>1. /\ Loop \in Threads /\ pc[Loop] = "init" /\ arg[Loop] = NoItem /\ Len(stack[Loop]) = 0
      /\ Len(pending) = 0 /\ Len(pushed) = 0 /\ pending_size = 0
  BY EmptySeq DEF Init, Threads
<1>2. ArgInv
  BY <1>1 DEF ArgInv, ArgOK, DrainLabels, StopLabels
<1>3. Batch = <<>> /\ Len(Batch) = 0
  BY <1>1, EmptySeq DEF Batch
<1>4. LineInv
  BY <1>1, <1>3 DEF LineInv, InLine, Ahead
<1>5. \A t \in Threads : pc[t] # "count"
  BY Zenon DEF Init
<1>6. Lists(<<>>, Counting) /\ Len(<<>>) = 0
  <2>1. <<>> \in Seq(Threads) /\ Len(<<>>) = 0 /\ 1..0 = {}
    BY EmptySeq
  <2> QED
    BY Zenon, <1>5, <2>1 DEF Lists, Counting
<1>7. pending_size = Len(pending) + Len(Batch) - Len(<<>>)
  BY <1>1, <1>3, <1>6
<1> QED
  BY Zenon, <1>2, <1>4, <1>6, <1>7 DEF SizeInv

\* The inductive invariant behind QueueIsFaithful.
THEOREM OrderCorrect == ASSUME Creator = Loop PROVE Spec => [](ArgInv /\ LineInv /\ SizeInv)
<1>1. /\ TypeOK /\ TypeOK' /\ CallInv /\ AffinityInv /\ ArgInv /\ LineInv /\ SizeInv /\ [Next]_vars
      => ArgInv' /\ LineInv' /\ SizeInv'
  BY Zenon, ArgStep, OrderStep
<1> QED
  BY <1>1, OrderInit, TypeCorrect, AffinityCorrect, PTL DEF Spec

LEMMA CalmUntilStop ==
  ASSUME TypeOK, ~StopBegun
  PROVE  Calm
<1>1. Loop \in Threads
  BY Zenon DEF Threads
<1>2. /\ ~loopexit /\ pc[Loop] \notin StopLabels /\ ~(Len(stack[Loop]) > 1)
      /\ ~(pc[Loop] = "swap" /\ Len(stack[Loop]) > 0)
      /\ ~(pc[Loop] \in DrainLabels /\ arg[Loop] = Stop)
  BY Zenon, <1>1 DEF StopBegun, Depth
<1>3. Len(stack[Loop]) \in Nat
  BY Zenon, <1>1, LenProperties DEF TypeOK
<1>4. Len(stack[Loop]) = 0 \/ Len(stack[Loop]) = 1
  <2>1. \A n \in Nat : n > 1 \/ n = 0 \/ n = 1
    OBVIOUS
  <2> QED
    BY Zenon, <1>2, <1>3, <2>1
<1>5. Len(stack[Loop]) = 1 => Len(stack[Loop]) > 0
  BY <1>3
<1> QED
  BY Zenon, <1>2, <1>4, <1>5 DEF Calm

\* Until a stop begins queued tasks run in the order they were pushed, and the
\* counter of a loop at rest is 0, for a loop its own thread constructed.
THEOREM QueueHolds == ASSUME Creator = Loop PROVE Spec => []QueueIsFaithful
<1>0. Loop \in Threads
  BY Zenon DEF Threads
<1>1. TypeOK /\ OnceInv /\ LineInv => FifoOrder
  <2> SUFFICES ASSUME TypeOK, OnceInv, LineInv, ~StopBegun,
                      NEW i \in 1..Len(pushed), NEW j \in 1..Len(pushed),
                      i < j, pushed[j] \in Executed
               PROVE  pushed[i] \in Executed
    BY Zenon DEF FifoOrder
  <2>0. /\ pushed \in Seq(Items) /\ pending \in Seq(Items) /\ executed \in Seq(Executions)
        /\ stack[Loop] \in Seq(Seq(Items))
    BY Zenon, <1>0 DEF TypeOK
  <2>1. Calm
    BY Zenon, CalmUntilStop
  <2>2. /\ InLine(pushed, Batch, pending)
        /\ \A n \in 1..Ahead(pushed, Batch, pending) : Ran(pushed[n])
    BY Zenon, <2>1 DEF LineInv
  <2>3. Batch \in Seq(Items)
    BY <2>0, <2>1, EmptySeq, ElementOfSeq DEF Batch, Calm
  <2> DEFINE g == Ahead(pushed, Batch, pending)
  <2>4. /\ Len(pushed) \in Nat /\ Len(Batch) \in Nat /\ Len(pending) \in Nat
        /\ g \in Nat /\ Len(pushed) = g + Len(Batch) + Len(pending)
    <3>1. Len(pushed) \in Nat /\ Len(Batch) \in Nat /\ Len(pending) \in Nat
      BY <2>0, <2>3, LenProperties
    <3> QED
      BY <2>2, <3>1 DEF InLine, Ahead
  <2>5. ASSUME ~(i <= g) PROVE FALSE
    <3>1. \/ j - g \in 1..Len(Batch) /\ j = g + (j - g)
          \/ j - g - Len(Batch) \in 1..Len(pending) /\ j = g + Len(Batch) + (j - g - Len(Batch))
      <4> HIDE DEF g
      <4> QED
        BY <2>4, <2>5
    <3>2. \/ \E n \in 1..Len(Batch) : pushed[j] = Batch[n]
          \/ \E n \in 1..Len(pending) : pushed[j] = pending[n]
      BY Zenon, <2>2, <3>1 DEF InLine
    <3>3. Ran(pushed[j]) /\ pushed[j] \in Tasks
      <4>1. Ran(pushed[j])
        BY Zenon DEF Executed, Elems, Ran
      <4>2. PICK n \in 1..Len(executed) : executed[n].task = pushed[j]
        BY Zenon, <4>1 DEF Ran
      <4>3. executed[n] \in Executions
        BY <2>0, ElementOfSeq
      <4> QED
        BY <4>1, <4>2, <4>3 DEF Executions
    <3>4. Queued(pushed[j]) \/ Batched(pushed[j])
      <4>1. CASE \E n \in 1..Len(pending) : pushed[j] = pending[n]
        BY Zenon, <4>1 DEF Queued
      <4>2. ASSUME NEW n \in 1..Len(Batch), pushed[j] = Batch[n] PROVE Batched(pushed[j])
        <5>1. Len(stack[Loop]) = 1 /\ Batch = stack[Loop][1]
          BY <2>1, <4>2, EmptySeq DEF Batch, Calm
        <5>2. Slot(stack, Loop, 1, n) /\ stack[Loop][1][n] = pushed[j]
          BY <1>0, <4>2, <5>1 DEF Slot
        <5> QED
          BY Zenon, <5>2 DEF Batched
      <4> QED
        BY Zenon, <3>2, <4>1, <4>2
    <3> QED
      BY Zenon, <3>3, <3>4 DEF OnceInv, PlaceInv
  <2>6. i \in 1..g
    BY <2>4, <2>5
  <2> QED
    BY Zenon, <2>2, <2>6 DEF Ran, Executed, Elems
<1>2. TypeOK /\ CallInv /\ ArgInv /\ SizeInv /\ NoLostWakeup => QuiescentSize
  <2> SUFFICES ASSUME TypeOK, CallInv, ArgInv, SizeInv, NoLostWakeup,
                      pc[Loop] = "blocked", ~eventfd, \A t \in Others : pc[t] = "idle"
               PROVE  pending_size = 0
    BY Zenon DEF QuiescentSize
  <2>1. \A t \in Threads : ~Serving(t) /\ pc[t] # "count"
    BY Zenon DEF Serving, Threads
  <2>2. pending = <<>>
    BY Zenon, <2>1 DEF NoLostWakeup
  <2>3. stack[Loop] = <<>> /\ Len(stack[Loop]) = 0
    BY Zenon, <1>0, EmptySeq DEF CallInv, CallOK, DrainLabels, StopLabels
  <2>4. Calm
    BY Zenon, <2>3 DEF Calm, ArgInv, ArgOK, StopLabels, DrainLabels
  <2>5. PICK s : Lists(s, Counting) /\ pending_size = Len(pending) + Len(Batch) - Len(s)
    BY Zenon, <2>4 DEF SizeInv
  <2>6. Batch = <<>> /\ Len(Batch) = 0 /\ Len(pending) = 0
    BY <2>2, <2>3, EmptySeq DEF Batch
  <2>7. s \in Seq(Threads) /\ \A n \in 1..Len(s) : FALSE
    BY Zenon, <2>1, <2>5 DEF Lists, Counting
  <2>8. Len(s) = 0
    BY <2>7, LenProperties
  <2> QED
    BY <2>5, <2>6, <2>8
<1> QED
  BY <1>1, <1>2, TypeCorrect, OnceCorrect, OrderCorrect, NoLostWakeupHolds, PTL DEF QueueIsFaithful
==============================================================================
