-------------------------- MODULE EventQueueProofs --------------------------
(***************************************************************************)
(* The invariants of EventQueue for any number of workers, any capacity    *)
(* and any set of at most Capacity handlers; and, in the second part, the  *)
(* start of the controller for any number of informers and workers: the    *)
(* informers have synced before the workers run, and from the moment       *)
(* Initial has returned the goroutines are those of EventQueue.            *)
(***************************************************************************)
EXTENDS Startup, FiniteSetTheorems, SequenceTheorems, TLAPS

\* The handlers whose store is in the channel and whose Signal is pending.
Notifiers == {h \in Handlers : pc[h] \in {"unlock", "notify"}}

\* A thread is in the notify list exactly when it sleeps in cond.Wait.
WaitersWait == \A t \in Threads : pc[t] = "wait" <=> t \in waiters

\* While all workers sleep, every store in the channel has a handler of its
\* own that has still to signal, and no handler sleeps.
Covered == Workers \subseteq waiters =>
             /\ Len(queue) <= Cardinality(Notifiers)
             /\ waiters \cap Handlers = {}

\* A worker that processes holds a store.
Holding == \A w \in Workers : pc[w] = "process" => item[w] \in Stores

Inv == /\ TypeOK
       /\ WaitersWait
       /\ Holding
       /\ MutualExclusion
       /\ NeverBlockedInside
       /\ NoForgottenHandler
       /\ Covered

USE DEF Threads

\* The handlers are finitely many, so their subsets have a cardinality.
LEMMA NotifiersFinite ==
    ASSUME NEW S \in SUBSET Handlers
    PROVE  /\ IsFiniteSet(S)
           /\ Cardinality(S) \in Nat
           /\ Cardinality(S) <= Capacity
           /\ S # Handlers => Cardinality(S) < Capacity
<1>1. IsFiniteSet(Handlers) /\ Cardinality(Handlers) <= Capacity /\ Capacity \in Nat
  BY QueueAssumption
<1>2. IsFiniteSet(S) /\ Cardinality(S) <= Cardinality(Handlers)
  BY <1>1, FS_Subset
<1>3. Cardinality(S) \in Nat /\ Cardinality(Handlers) \in Nat
  BY <1>1, <1>2, FS_CardinalityType
<1>4. S # Handlers => Cardinality(S) < Cardinality(Handlers)
  BY <1>1, <1>2, <1>3, FS_Subset
<1>. QED
  BY <1>1, <1>2, <1>3, <1>4
-----------------------------------------------------------------------------
\* When Initial has returned nobody sleeps, and one store is in the channel.
LEMMA InitInv == Init => Inv
<1> SUFFICES ASSUME Init PROVE Inv
  OBVIOUS
<1> USE QueueAssumption DEF Init
<1>1. TypeOK
  BY DEF TypeOK, HandlerPC, WorkerPC
<1>2. WaitersWait /\ MutualExclusion /\ Holding
  BY DEF WaitersWait, MutualExclusion, InCriticalSection, Holding
<1>3. NeverBlockedInside /\ NoForgottenHandler
  BY DEF NeverBlockedInside, NoForgottenHandler
<1>4. Covered
  BY DEF Covered
<1>. QED
  BY <1>1, <1>2, <1>3, <1>4 DEF Inv

\* Every step preserves the types; Send is where the capacity matters.
LEMMA TypeStep == TypeOK /\ [Next]_vars => TypeOK'
<1> SUFFICES ASSUME TypeOK, [Next]_vars PROVE TypeOK'
  OBVIOUS
<1> USE QueueAssumption DEF TypeOK, HandlerPC, WorkerPC, Goto
<1>1. ASSUME NEW t \in Threads, ThreadStep(t) PROVE TypeOK'
  <2>1. CASE Lock(t)
    BY <2>1 DEF Lock
  <2>2. CASE Wait(t)
    BY <2>2 DEF Wait
  <2>3. CASE Proceed(t)
    BY <2>3 DEF Proceed
  <2>4. CASE Unlock(t)
    BY <2>4 DEF Unlock
  <2>. QED
    BY <1>1, <2>1, <2>2, <2>3, <2>4 DEF ThreadStep
<1>2. ASSUME NEW h \in Handlers, HandlerStep(h) PROVE TypeOK'
  <2>1. CASE Call(h)
    BY <2>1 DEF Call
  <2>2. CASE Send(h)
    BY <2>2 DEF Send
  <2>3. CASE Signal(h)
    BY <2>3 DEF Signal
  <2>. QED
    BY <1>2, <2>1, <2>2, <2>3 DEF HandlerStep
<1>3. ASSUME NEW w \in Workers, WorkerStep(w) PROVE TypeOK'
  <2>1. CASE Receive(w)
    BY <2>1 DEF Receive
  <2>2. CASE Process(w)
    BY <2>2 DEF Process
  <2>3. CASE Broadcast(w)
    BY <2>3 DEF Broadcast
  <2>. QED
    BY <1>3, <2>1, <2>2, <2>3 DEF WorkerStep
<1>4. CASE UNCHANGED vars
  BY <1>4 DEF vars
<1>. QED
  BY <1>1, <1>2, <1>3, <1>4 DEF Next

\* The notify list and the mutex change with the program counters.
LEMMA LockStep ==
    TypeOK /\ WaitersWait /\ MutualExclusion /\ [Next]_vars
      => WaitersWait' /\ MutualExclusion'
<1> SUFFICES ASSUME TypeOK, WaitersWait, MutualExclusion, [Next]_vars
             PROVE  WaitersWait' /\ MutualExclusion'
  OBVIOUS
<1> USE QueueAssumption
    DEF TypeOK, WaitersWait, MutualExclusion, InCriticalSection, Goto
<1>1. ASSUME NEW t \in Threads, ThreadStep(t)
      PROVE  WaitersWait' /\ MutualExclusion'
  <2>1. CASE Lock(t)
    BY <2>1 DEF Lock
  <2>2. CASE Wait(t)
    BY <2>2 DEF Wait
  <2>3. CASE Proceed(t)
    BY <2>3 DEF Proceed
  <2>4. CASE Unlock(t)
    BY <2>4 DEF Unlock
  <2>. QED
    BY <1>1, <2>1, <2>2, <2>3, <2>4 DEF ThreadStep
<1>2. ASSUME NEW h \in Handlers, HandlerStep(h)
      PROVE  WaitersWait' /\ MutualExclusion'
  <2>1. CASE Call(h)
    BY <2>1 DEF Call
  <2>2. CASE Send(h)
    BY <2>2 DEF Send
  <2>3. CASE Signal(h)
    BY <2>3 DEF Signal
  <2>. QED
    BY <1>2, <2>1, <2>2, <2>3 DEF HandlerStep
<1>3. ASSUME NEW w \in Workers, WorkerStep(w)
      PROVE  WaitersWait' /\ MutualExclusion'
  <2>1. CASE Receive(w)
    BY <2>1 DEF Receive
  <2>2. CASE Process(w)
    BY <2>2 DEF Process
  <2>3. CASE Broadcast(w)
    BY <2>3 DEF Broadcast
  <2>. QED
    BY <1>3, <2>1, <2>2, <2>3 DEF WorkerStep
<1>4. CASE UNCHANGED vars
  BY <1>4 DEF vars
<1>. QED
  BY <1>1, <1>2, <1>3, <1>4 DEF Next

\* Receive hands the worker what the channel held.
LEMMA HoldingStep == TypeOK /\ Holding /\ [Next]_vars => Holding'
<1> SUFFICES ASSUME TypeOK, Holding, [Next]_vars,
                    NEW w \in Workers, pc'[w] = "process"
             PROVE  item'[w] \in Stores
  BY DEF Holding
<1> USE QueueAssumption DEF TypeOK, Holding, Goto
<1>1. ASSUME NEW t \in Threads, ThreadStep(t) PROVE item'[w] \in Stores
  BY <1>1 DEF ThreadStep, Lock, Wait, Proceed, Unlock
<1>2. ASSUME NEW h \in Handlers, HandlerStep(h) PROVE item'[w] \in Stores
  BY <1>2 DEF HandlerStep, Call, Send, Signal
<1>3. ASSUME NEW v \in Workers, WorkerStep(v) PROVE item'[w] \in Stores
  <2>1. CASE Receive(v)
    <3>1. Head(queue) \in Stores
      BY <2>1, HeadTailProperties DEF Receive
    <3>. QED
      BY <2>1, <3>1 DEF Receive
  <2>2. CASE Process(v)
    BY <2>2 DEF Process
  <2>3. CASE Broadcast(v)
    BY <2>3 DEF Broadcast
  <2>. QED
    BY <1>3, <2>1, <2>2, <2>3 DEF WorkerStep
<1>4. CASE UNCHANGED vars
  BY <1>4 DEF vars
<1>. QED
  BY <1>1, <1>2, <1>3, <1>4 DEF Next

\* The channel changes only under the mutex, so what a goroutine saw of it in
\* the wait loop still holds when it sends or receives.
LEMMA TransferStep ==
    Inv /\ [Next]_vars => NeverBlockedInside'
<1> SUFFICES ASSUME Inv, [Next]_vars PROVE NeverBlockedInside'
  OBVIOUS
<1> USE QueueAssumption
    DEF Inv, TypeOK, MutualExclusion, InCriticalSection, NeverBlockedInside, Goto
<1>1. ASSUME NEW t \in Threads, ThreadStep(t) PROVE NeverBlockedInside'
  <2>1. CASE Lock(t)
    BY <2>1 DEF Lock
  <2>2. CASE Wait(t)
    BY <2>2 DEF Wait
  <2>3. CASE Proceed(t)
    BY <2>3, EmptySeq DEF Proceed, MustWait
  <2>4. CASE Unlock(t)
    BY <2>4 DEF Unlock
  <2>. QED
    BY <1>1, <2>1, <2>2, <2>3, <2>4 DEF ThreadStep
<1>2. ASSUME NEW h \in Handlers, HandlerStep(h) PROVE NeverBlockedInside'
  <2>1. CASE Call(h)
    BY <2>1 DEF Call
  <2>2. CASE Send(h)
    <3>1. lock = h /\ \A t \in Threads : t # h => ~ InCriticalSection(t)
      BY <2>2 DEF Send
    <3>. QED
      BY <2>2, <3>1 DEF Send
  <2>3. CASE Signal(h)
    BY <2>3 DEF Signal, WaitersWait
  <2>. QED
    BY <1>2, <2>1, <2>2, <2>3 DEF HandlerStep
<1>3. ASSUME NEW w \in Workers, WorkerStep(w) PROVE NeverBlockedInside'
  <2>1. CASE Receive(w)
    <3>1. lock = w /\ \A t \in Threads : t # w => ~ InCriticalSection(t)
      BY <2>1 DEF Receive
    <3>. QED
      BY <2>1, <3>1 DEF Receive
  <2>2. CASE Process(w)
    BY <2>2 DEF Process
  <2>3. CASE Broadcast(w)
    BY <2>3 DEF Broadcast
  <2>. QED
    BY <1>3, <2>1, <2>2, <2>3 DEF WorkerStep
<1>4. CASE UNCHANGED vars
  BY <1>4 DEF vars
<1>. QED
  BY <1>1, <1>2, <1>3, <1>4 DEF Next

\* Only a worker empties a full channel, and it broadcasts before it can wait.
LEMMA HandlerStepInv == Inv /\ [Next]_vars => NoForgottenHandler'
<1> SUFFICES ASSUME Inv, [Next]_vars PROVE NoForgottenHandler'
  OBVIOUS
<1> USE QueueAssumption DEF Inv, TypeOK, WaitersWait, NoForgottenHandler, Goto
<1>1. ASSUME NEW t \in Threads, ThreadStep(t) PROVE NoForgottenHandler'
  <2>1. CASE Lock(t)
    BY <2>1 DEF Lock
  <2>2. CASE Wait(t)
    BY <2>2 DEF Wait, MustWait
  <2>3. CASE Proceed(t)
    BY <2>3 DEF Proceed
  <2>4. CASE Unlock(t)
    BY <2>4 DEF Unlock
  <2>. QED
    BY <1>1, <2>1, <2>2, <2>3, <2>4 DEF ThreadStep
<1>2. ASSUME NEW h \in Handlers, HandlerStep(h) PROVE NoForgottenHandler'
  <2>1. CASE Call(h)
    BY <2>1 DEF Call
  <2>2. CASE Send(h)
    \* A handler that sends has found room: nobody sleeps on a full channel.
    BY <2>2 DEF Send
  <2>3. CASE Signal(h)
    BY <2>3 DEF Signal
  <2>. QED
    BY <1>2, <2>1, <2>2, <2>3 DEF HandlerStep
<1>3. ASSUME NEW w \in Workers, WorkerStep(w) PROVE NoForgottenHandler'
  <2>1. CASE Receive(w)
    BY <2>1 DEF Receive
  <2>2. CASE Process(w)
    BY <2>2 DEF Process
  <2>3. CASE Broadcast(w)
    BY <2>3 DEF Broadcast
  <2>. QED
    BY <1>3, <2>1, <2>2, <2>3 DEF WorkerStep
<1>4. CASE UNCHANGED vars
  BY <1>4 DEF vars
<1>. QED
  BY <1>1, <1>2, <1>3, <1>4 DEF Next

\* While all workers sleep, each store in the channel keeps a handler of its
\* own from returning before it has signalled: Signal hits a worker, and the
\* last worker to fall asleep leaves an empty channel and no waiting handler.
LEMMA CoveredStep == Inv /\ [Next]_vars => Covered'
<1> SUFFICES ASSUME Inv, [Next]_vars, (Workers \subseteq waiters)'
             PROVE  (/\ Len(queue) <= Cardinality(Notifiers)
                     /\ waiters \cap Handlers = {})'
  BY DEF Covered
<1> DEFINE Goal == (/\ Len(queue) <= Cardinality(Notifiers)
                    /\ waiters \cap Handlers = {})'
<1> USE QueueAssumption DEF Inv, TypeOK, WaitersWait, Goto
<1>0. /\ Notifiers \in SUBSET Handlers
      /\ IsFiniteSet(Notifiers)
      /\ Cardinality(Notifiers) \in Nat
      /\ Notifiers # Handlers => Cardinality(Notifiers) < Capacity
  <2>1. Notifiers \in SUBSET Handlers
    BY DEF Notifiers
  <2>. QED
    BY <2>1, NotifiersFinite
<1>a. ASSUME UNCHANGED queue, Notifiers' = Notifiers,
             waiters' = waiters
      PROVE  Goal
  BY <1>a DEF Covered
<1>1. ASSUME NEW t \in Threads, ThreadStep(t) PROVE Goal
  <2>1. CASE Lock(t)
    <3>1. Notifiers' = Notifiers
      BY <2>1 DEF Lock, Notifiers
    <3>. QED
      BY <1>a, <2>1, <3>1 DEF Lock
  <2>2. CASE Wait(t)
    <3>1. Notifiers' = Notifiers
      BY <2>2 DEF Wait, Notifiers
    <3>2. CASE t \in Handlers
      \* A sleeping handler would need a full channel, but it is no notifier.
      <4>1. Workers \subseteq waiters
        BY <2>2, <3>2 DEF Wait
      <4>2. Len(queue) = Capacity
        BY <2>2, <3>2 DEF Wait, MustWait
      <4>3. Notifiers # Handlers
        BY <2>2, <3>2 DEF Wait, Notifiers
      <4>. QED
        BY <1>0, <4>1, <4>2, <4>3 DEF Covered
    <3>3. CASE t \in Workers
      <4>1. Len(queue) = 0
        BY <2>2, <3>3 DEF Wait, MustWait
      <4>2. \A w \in Workers : pc[w] \in {"wait", "check"}
        BY <2>2 DEF Wait
      <4>3. waiters \cap Handlers = {}
        BY <4>1, <4>2 DEF NoForgottenHandler
      <4>4. Len(queue') <= Cardinality(Notifiers)
        BY <1>0, <2>2, <4>1 DEF Wait
      <4>5. waiters' \cap Handlers = {}
        BY <2>2, <3>3, <4>3 DEF Wait
      <4>. QED
        BY <3>1, <4>4, <4>5
    <3>. QED
      BY <3>2, <3>3
  <2>3. CASE Proceed(t)
    <3>1. Notifiers' = Notifiers
      BY <2>3 DEF Proceed, Notifiers
    <3>. QED
      BY <1>a, <2>3, <3>1 DEF Proceed
  <2>4. CASE Unlock(t)
    <3>1. Notifiers' = Notifiers
      BY <2>4 DEF Unlock, Notifiers
    <3>. QED
      BY <1>a, <2>4, <3>1 DEF Unlock
  <2>. QED
    BY <1>1, <2>1, <2>2, <2>3, <2>4 DEF ThreadStep
<1>2. ASSUME NEW h \in Handlers, HandlerStep(h) PROVE Goal
  <2>1. CASE Call(h)
    <3>1. Notifiers' = Notifiers
      BY <2>1 DEF Call, Notifiers
    <3>. QED
      BY <1>a, <2>1, <3>1 DEF Call
  <2>2. CASE Send(h)
    <3>1. Notifiers' = Notifiers \cup {h} /\ h \notin Notifiers
      BY <2>2 DEF Send, Notifiers
    <3>2. Cardinality(Notifiers') = Cardinality(Notifiers) + 1
      BY <1>0, <3>1, FS_AddElement
    <3>3. Len(queue') = Len(queue) + 1 /\ waiters' = waiters
      BY <2>2 DEF Send
    <3>. QED
      BY <1>0, <3>2, <3>3 DEF Covered
  <2>3. CASE Signal(h)
    \* Some worker is awake after the signal.
    <3>1. Workers \subseteq waiters
      BY <2>3 DEF Signal
    <3>2. waiters \cap Handlers = {}
      BY <3>1 DEF Covered
    <3>. QED
      BY <2>3, <3>1, <3>2 DEF Signal
  <2>. QED
    BY <1>2, <2>1, <2>2, <2>3 DEF HandlerStep
<1>3. ASSUME NEW w \in Workers, WorkerStep(w) PROVE Goal
  <2>1. pc[w] # "wait" /\ w \notin waiters
    BY <1>3 DEF WorkerStep, Receive, Process, Broadcast
  <2>2. w \notin waiters'
    BY <1>3, <2>1 DEF WorkerStep, Receive, Process, Broadcast
  <2>. QED
    BY <2>2
<1>4. CASE UNCHANGED vars
  <2>1. Notifiers' = Notifiers
    BY <1>4 DEF vars, Notifiers
  <2>. QED
    BY <1>a, <1>4, <2>1 DEF vars
<1>. QED
  BY <1>1, <1>2, <1>3, <1>4 DEF Next

\* Inv is inductive.
LEMMA InvStep == Inv /\ [Next]_vars => Inv'
<1> SUFFICES ASSUME Inv, [Next]_vars PROVE Inv'
  OBVIOUS
<1>1. TypeOK' /\ WaitersWait' /\ MutualExclusion' /\ Holding'
  BY TypeStep, LockStep, HoldingStep DEF Inv
<1>. QED
  BY <1>1, TransferStep, HandlerStepInv, CoveredStep DEF Inv

\* A store in the channel that only sleeping workers could take has a handler
\* about to signal.
LEMMA InvImpliesNoLostStore == Inv => NoLostStore
<1> SUFFICES ASSUME Inv, Workers \subseteq waiters, queue # <<>>
             PROVE  /\ Notifiers # {}
                    /\ waiters \cap Handlers = {}
  BY DEF NoLostStore, Notifiers
<1>1. Len(queue) <= Cardinality(Notifiers) /\ waiters \cap Handlers = {}
  BY DEF Inv, Covered
<1>2. queue \in Seq(Stores) /\ Len(queue) > 0
  BY EmptySeq, LenProperties DEF Inv, TypeOK
<1>3. ASSUME Notifiers = {} PROVE FALSE
  <2>1. Cardinality(Notifiers) = 0
    BY <1>3, FS_EmptySet
  <2>. QED
    BY <1>1, <1>2, <2>1
<1>. QED
  BY <1>1, <1>3
-----------------------------------------------------------------------------
\* The inductive invariant holds in every reachable state.
THEOREM Invariance == Spec => []Inv
<1>1. Init => Inv
  BY InitInv
<1>2. Inv /\ [Next]_vars => Inv'
  BY InvStep
<1>. QED
  BY <1>1, <1>2, PTL DEF Spec

\* The variables of the goroutines keep their types, and the channel never
\* holds more than Capacity stores, for any number of goroutines.
THEOREM TypeCorrect == Spec => []TypeOK
<1>1. Inv => TypeOK
  BY DEF Inv
<1>. QED
  BY <1>1, Invariance, PTL

\* cond.L excludes: at most one goroutine fills or applies a store.
THEOREM Exclusion == Spec => []MutualExclusion
<1>1. Inv => MutualExclusion
  BY DEF Inv
<1>. QED
  BY <1>1, Invariance, PTL

\* The wait loops keep every send and receive under the mutex from blocking.
THEOREM SendsAndReceivesNeverBlock == Spec => []NeverBlockedInside
<1>1. Inv => NeverBlockedInside
  BY DEF Inv
<1>. QED
  BY <1>1, Invariance, PTL

\* One condition variable for both sides and Signal instead of Broadcast in
\* the handlers lose no wake-up, as long as there are no more handlers than
\* slots: a store is never left in the channel to sleeping workers.
THEOREM NoWakeUpLost == Spec => []NoLostStore
<1>1. Inv => NoLostStore
  BY InvImpliesNoLostStore
<1>. QED
  BY <1>1, Invariance, PTL

\* A handler that sleeps on a full channel is still owed a Broadcast.
THEOREM NoHandlerForgotten == Spec => []NoForgottenHandler
<1>1. Inv => NoForgottenHandler
  BY DEF Inv
<1>. QED
  BY <1>1, Invariance, PTL
-----------------------------------------------------------------------------
\* Under the mutex at most one worker processes, so the store it holds is the
\* one the abstract channel applies.
LEMMA ApplyingIs ==
    ASSUME TypeOK, MutualExclusion
    PROVE  /\ \A w \in Workers : pc[w] = "process" => applyingNow = item[w]
           /\ (\A w \in Workers : pc[w] # "process") => applyingNow = NoStore
           /\ \A w \in Workers : lock = w /\ pc[w] # "process"
                                   => applyingNow = NoStore
           /\ \A h \in Handlers : lock = h => applyingNow = NoStore
<1> USE QueueAssumption DEF TypeOK, MutualExclusion, InCriticalSection
<1>1. ASSUME NEW w \in Workers, pc[w] = "process" PROVE applyingNow = item[w]
  <2>1. Applied = {w}
    BY <1>1 DEF Applied
  <2>. QED
    BY <2>1 DEF applyingNow
<1>2. ASSUME \A w \in Workers : pc[w] # "process" PROVE applyingNow = NoStore
  <2>1. Applied = {}
    BY <1>2 DEF Applied
  <2>. QED
    BY <2>1 DEF applyingNow
<1>3. ASSUME NEW t \in Threads, lock = t, t \in Workers => pc[t] # "process"
      PROVE  applyingNow = NoStore
  <2>1. \A w \in Workers : pc[w] # "process"
    BY <1>3
  <2>. QED
    BY <1>2, <2>1
<1>. QED
  BY <1>1, <1>2, <1>3

\* A step that neither touches the channel nor starts or ends an application
\* is a stutter of the abstract channel.
LEMMA StutterWhen ==
    ASSUME TypeOK, TypeOK', UNCHANGED <<queue, item>>,
           \A w \in Workers : pc'[w] = "process" <=> pc[w] = "process"
    PROVE  UNCHANGED Channel!chanVars
<1>1. Applied' = Applied
  BY DEF Applied
<1>2. applyingNow' = applyingNow
  BY <1>1 DEF applyingNow
<1>. QED
  BY <1>2 DEF Channel!chanVars

\* Every step of the goroutines is a step of the abstract channel or none.
LEMMA ChannelStep ==
    Inv /\ Inv' /\ [Next]_vars => [Channel!ChanNext]_(Channel!chanVars)
<1> SUFFICES ASSUME Inv, Inv', [Next]_vars
             PROVE  [Channel!ChanNext]_(Channel!chanVars)
  OBVIOUS
<1> USE QueueAssumption DEF Inv, TypeOK
<1>0. TypeOK /\ TypeOK' /\ MutualExclusion /\ MutualExclusion' /\ Holding
  OBVIOUS
<1>1. ASSUME NEW t \in Threads, ThreadStep(t)
      PROVE  UNCHANGED Channel!chanVars
  <2>1. UNCHANGED <<queue, item>>
    BY <1>1 DEF ThreadStep, Lock, Wait, Proceed, Unlock
  <2>2. \A w \in Workers : pc'[w] = "process" <=> pc[w] = "process"
    BY <1>1 DEF ThreadStep, Lock, Wait, Proceed, Unlock, Goto
  <2>. QED
    BY <1>0, <2>1, <2>2, StutterWhen
<1>2. ASSUME NEW h \in Handlers, Call(h) \/ Signal(h)
      PROVE  UNCHANGED Channel!chanVars
  <2>1. UNCHANGED <<queue, item>>
    BY <1>2 DEF Call, Signal
  <2>2. \A w \in Workers : pc'[w] = "process" <=> pc[w] = "process"
    BY <1>2 DEF Call, Signal, Goto, WaitersWait
  <2>. QED
    BY <1>0, <2>1, <2>2, StutterWhen
<1>3. ASSUME NEW h \in Handlers, Send(h) PROVE Channel!Put(StoreOf[h])
  <2>1. lock = h
    BY <1>3 DEF Send, Goto, MutualExclusion, InCriticalSection
  <2>2. applyingNow = NoStore
    BY <1>0, <2>1, ApplyingIs
  <2>3. lock' = h
    BY <1>3, <2>1 DEF Send
  <2>4. \A w \in Workers : pc'[w] # "process"
    BY <2>3 DEF MutualExclusion, InCriticalSection
  <2>5. applyingNow' = NoStore
    <3>1. Applied' = {}
      BY <2>4 DEF Applied
    <3>. QED
      BY <3>1 DEF applyingNow
  <2>. QED
    BY <1>3, <2>2, <2>5 DEF Send, Channel!Put
<1>4. ASSUME NEW w \in Workers, Receive(w) PROVE Channel!Take
  <2>1. lock = w /\ pc[w] = "transfer"
    BY <1>4 DEF Receive, Goto, MutualExclusion, InCriticalSection
  <2>2. applyingNow = NoStore
    BY <1>0, <2>1, ApplyingIs
  <2>3. lock' = w /\ pc'[w] = "process" /\ item'[w] = Head(queue)
    BY <1>4, <2>1 DEF Receive, Goto
  <2>4. Applied' = {w}
    BY <2>3 DEF Applied, MutualExclusion, InCriticalSection
  <2>5. applyingNow' = item'[w]
    BY <2>4 DEF applyingNow
  <2>. QED
    BY <1>4, <2>2, <2>3, <2>5 DEF Receive, Channel!Take
<1>5. ASSUME NEW w \in Workers, Process(w) PROVE Channel!Done
  <2>1. lock = w /\ pc[w] = "process"
    BY <1>5 DEF Process, Goto, MutualExclusion, InCriticalSection
  <2>2. applyingNow = item[w]
    BY <1>0, <2>1, ApplyingIs
  <2>3. item[w] # NoStore
    BY <2>1 DEF Holding
  <2>4. Applied' = {}
    <3>1. lock' = w /\ pc'[w] = "unlock"
      BY <1>5, <2>1 DEF Process, Goto
    <3>. QED
      BY <3>1 DEF Applied, MutualExclusion, InCriticalSection
  <2>5. applyingNow' = NoStore
    BY <2>4 DEF applyingNow
  <2>. QED
    BY <1>5, <2>2, <2>3, <2>5 DEF Process, Channel!Done
<1>6. ASSUME NEW w \in Workers, Broadcast(w)
      PROVE  UNCHANGED Channel!chanVars
  <2>1. UNCHANGED <<queue, item>>
    BY <1>6 DEF Broadcast
  <2>2. \A v \in Workers : pc'[v] = "process" <=> pc[v] = "process"
    BY <1>6 DEF Broadcast, WaitersWait
  <2>. QED
    BY <1>0, <2>1, <2>2, StutterWhen
<1>7. CASE UNCHANGED vars
  BY <1>0, <1>7, StutterWhen DEF vars
<1>8. \A h \in Handlers : StoreOf[h] \in Stores
  OBVIOUS
<1>. QED
  BY <1>1, <1>2, <1>3, <1>4, <1>5, <1>6, <1>7, <1>8
     DEF Next, HandlerStep, WorkerStep, Channel!ChanNext

\* The goroutines with their mutex, condition variable and buffered channel
\* implement the abstract channel: stores are applied one at a time, in the
\* order they were sent, none while a handler fills one.
THEOREM Implementation == Spec => ImplementsChannel
<1>1. Init => Channel!ChanInit
  <2> SUFFICES ASSUME Init PROVE Channel!ChanInit
    OBVIOUS
  <2>1. Applied = {}
    BY QueueAssumption DEF Init, Applied
  <2>. QED
    BY <2>1 DEF Init, Channel!ChanInit, applyingNow
<1>2. Inv /\ Inv' /\ [Next]_vars => [Channel!ChanNext]_(Channel!chanVars)
  BY ChannelStep
<1>. QED
  BY <1>1, <1>2, Invariance, PTL DEF Spec, ImplementsChannel, Channel!ChanSpec
-----------------------------------------------------------------------------
(* The start of the controller. *)

TypesOK == /\ main \in MainPC
           /\ lock \in Threads \cup {Free, Main}
           /\ pc \in [Threads -> HandlerPC \cup WorkerPC]
           /\ waiters \subseteq Threads
           /\ synced \subseteq Handlers

\* The informers that were asked in this poll have synced; the first one that
\* has not ends the poll.
AskedSynced == /\ asked \in Nat
               /\ main # "workers" => asked < Len(SyncOrder)
               /\ \A i \in 1 .. asked : SyncOrder[i] \in synced

\* Before Initial has returned, and for ever if it fails, the channel is empty
\* and no goroutine gets past cond.L.Lock(); before Run no handler is called.
NobodyYet == /\ main = "initial" => lock = Free
             /\ main = "list" => lock = Main
             /\ main \in {"initial", "list"} => \A h \in Handlers : pc[h] = "idle"
             /\ Listing => /\ queue = <<>>
                           /\ waiters = {}
                           /\ \A t \in Threads : pc[t] \in {"idle", "lock"}
             /\ lock = Main => main # "initial"

StartInv == TypesOK /\ AskedSynced /\ NobodyYet /\ SyncedFirst

\* What the goroutines of EventQueue may do to what Startup adds.
LEMMA Goroutines ==
    ASSUME StartNext
    PROVE  \/ MainStep
           \/ \E h \in Handlers : Sync(h)
           \/ \E h \in Handlers : Event(h)
           \/ /\ UNCHANGED startVars
              /\ \/ \E h \in Handlers : Send(h) \/ Signal(h)
                 \/ main = "workers" /\ \E w \in Workers : WorkerStep(w)
                 \/ \E t \in Threads : (t \in Workers => main = "workers") /\ ThreadStep(t)
BY DEF StartNext, HandlerRuns, WorkerRuns, ThreadRuns

\* Before Initial has listed anything.
LEMMA StartInvInit == StartInit => StartInv
<1> SUFFICES ASSUME StartInit PROVE StartInv
  OBVIOUS
<1>1. TypesOK
  BY DEF StartInit, TypesOK, MainPC, HandlerPC, WorkerPC
<1>2. AskedSynced
  <2>1. PICK h \in Handlers : TRUE
    BY QueueAssumption
  <2>2. SyncOrder \in Seq(Handlers) /\ \E i \in DOMAIN SyncOrder : SyncOrder[i] = h
    BY StartupAssumption
  <2>3. Len(SyncOrder) \in Nat /\ DOMAIN SyncOrder = 1 .. Len(SyncOrder)
    BY <2>2
  <2>4. 0 < Len(SyncOrder)
    BY <2>2, <2>3
  <2>. QED
    BY <2>4 DEF StartInit, AskedSynced
<1>3. NobodyYet
  BY StartupAssumption DEF StartInit, NobodyYet, Listing
<1>4. SyncedFirst
  BY DEF StartInit, SyncedFirst
<1>. QED
  BY <1>1, <1>2, <1>3, <1>4 DEF StartInv

\* Nobody but main moves before Initial has returned, and after a failed one no
\* handler gets further than to wait for the mutex.
LEMMA OnlyCalls ==
    ASSUME StartInv, Listing, StartNext
    PROVE  \/ MainStep
           \/ \E h \in Handlers : Sync(h) \/ Event(h)
<1>1. \A t \in Threads : pc[t] \in {"idle", "lock"}
  BY DEF StartInv, NobodyYet
<1>2. ASSUME NEW h \in Handlers, Send(h) \/ Signal(h)
      PROVE  FALSE
  BY <1>1, <1>2 DEF Send, Signal, Goto
<1>3. ASSUME main = "workers", NEW w \in Workers, WorkerStep(w)
      PROVE  FALSE
  BY <1>1, <1>3 DEF WorkerStep, Receive, Process, Broadcast, Goto
<1>4. ASSUME NEW t \in Threads, t \in Workers => main = "workers", ThreadStep(t)
      PROVE  FALSE
  <2>1. pc[t] = "lock" /\ lock = Free
    BY <1>1, <1>4 DEF ThreadStep, Lock, Wait, Proceed, Unlock, Goto
  <2>2. main = "initial"
    BY <2>1, StartupAssumption DEF Listing
  <2>3. t \in Handlers
    BY <1>4, <2>2
  <2>. QED
    BY <2>1, <2>2, <2>3 DEF StartInv, NobodyYet
<1>. QED
  BY <1>2, <1>3, <1>4, Goroutines

\* The types hold after every step.
LEMMA TypesStep == StartInv /\ [StartNext]_allVars => TypesOK'
<1> SUFFICES ASSUME StartInv, [StartNext]_allVars PROVE TypesOK'
  OBVIOUS
<1> USE QueueAssumption, StartupAssumption DEF StartInv, TypesOK, MainPC, HandlerPC, WorkerPC, Goto
<1>1. CASE MainStep
  BY <1>1 DEF MainStep, InitialLock, InitialSend, InitialFail, RunInformers, Ask, MainGoes, vars
<1>2. ASSUME NEW h \in Handlers, Sync(h) PROVE TypesOK'
  BY <1>2 DEF Sync, vars
<1>3. ASSUME NEW h \in Handlers, Event(h) PROVE TypesOK'
  BY <1>3 DEF Event, Call
<1>4. ASSUME UNCHANGED startVars, NEW h \in Handlers, Send(h) \/ Signal(h) PROVE TypesOK'
  BY <1>4 DEF startVars, Send, Signal
<1>5. ASSUME UNCHANGED startVars, NEW w \in Workers, WorkerStep(w) PROVE TypesOK'
  BY <1>5 DEF startVars, WorkerStep, Receive, Process, Broadcast
<1>6. ASSUME UNCHANGED startVars, NEW t \in Threads, ThreadStep(t) PROVE TypesOK'
  BY <1>6 DEF startVars, ThreadStep, Lock, Wait, Proceed, Unlock
<1>7. CASE UNCHANGED allVars
  BY <1>7 DEF allVars, startVars, vars
<1>. QED
  BY <1>1, <1>2, <1>3, <1>4, <1>5, <1>6, <1>7, Goroutines

\* A poll goes on only past an informer that has synced.
LEMMA PollStep == StartInv /\ [StartNext]_allVars => AskedSynced' /\ SyncedFirst'
<1> SUFFICES ASSUME StartInv, [StartNext]_allVars PROVE AskedSynced' /\ SyncedFirst'
  OBVIOUS
<1>0. Len(SyncOrder) \in Nat /\ DOMAIN SyncOrder = 1 .. Len(SyncOrder)
  BY StartupAssumption
<1>1. ASSUME UNCHANGED <<asked, synced>>, main' = "workers" => main = "workers",
             main = "workers" => main' = "workers"
      PROVE  AskedSynced' /\ SyncedFirst'
  BY <1>1 DEF StartInv, AskedSynced, SyncedFirst
<1>2. CASE InitialLock \/ InitialSend \/ InitialFail \/ RunInformers
  BY <1>1, <1>2 DEF InitialLock, InitialSend, InitialFail, RunInformers, MainGoes
<1>3. CASE Ask
  <2> DEFINE h == SyncOrder[asked + 1]
  <2>1. /\ asked \in Nat /\ asked < Len(SyncOrder)
        /\ \A i \in 1 .. asked : SyncOrder[i] \in synced
    BY <1>3 DEF StartInv, AskedSynced, Ask
  <2>2. CASE h \notin synced
    <3>1. asked' = 0 /\ main' = "poll" /\ synced' = synced
      BY <1>3, <2>2 DEF Ask
    <3>. QED
      BY <1>0, <2>1, <3>1 DEF AskedSynced, SyncedFirst
  <2>3. CASE h \in synced
    <3>1. /\ asked' = asked + 1 /\ synced' = synced
          /\ main' = IF asked + 1 = Len(SyncOrder) THEN "workers" ELSE "poll"
      BY <1>3, <2>3 DEF Ask
    <3>2. \A i \in 1 .. asked + 1 : SyncOrder[i] \in synced
      BY <2>1, <2>3
    <3>3. AskedSynced'
      <4> DEFINE n == Len(SyncOrder)
      <4>1. n \in Nat /\ asked \in Nat /\ asked < n
        BY <1>0, <2>1
      <4>2. main' # "workers" => asked + 1 # n
        BY <3>1
      <4>. HIDE DEF n
      <4>3. asked + 1 \in Nat /\ (main' # "workers" => asked + 1 < n)
        BY <4>1, <4>2
      <4>4. asked + 1 \in Nat /\ (main' # "workers" => asked + 1 < Len(SyncOrder))
        BY <4>3 DEF n
      <4>. QED
        BY <3>1, <3>2, <4>4, Zenon DEF AskedSynced
    <3>4. ASSUME asked + 1 = Len(SyncOrder)
          PROVE  synced = Handlers
      <4>1. \A i \in DOMAIN SyncOrder : SyncOrder[i] \in synced
        BY <1>0, <3>2, <3>4, Zenon
      <4>2. \A h2 \in Handlers : \E i \in DOMAIN SyncOrder : SyncOrder[i] = h2
        BY StartupAssumption
      <4>3. synced \subseteq Handlers
        BY DEF StartInv, TypesOK
      <4>. QED
        BY <4>1, <4>2, <4>3, Zenon
    <3>5. SyncedFirst'
      BY <3>1, <3>4 DEF SyncedFirst
    <3>. QED
      BY <3>3, <3>5
  <2>. QED
    BY <2>2, <2>3
<1>4. ASSUME NEW h \in Handlers, Sync(h) PROVE AskedSynced' /\ SyncedFirst'
  BY <1>4 DEF Sync, StartInv, AskedSynced, SyncedFirst, TypesOK
<1>5. ASSUME NEW h \in Handlers, Event(h) PROVE AskedSynced' /\ SyncedFirst'
  BY <1>1, <1>5 DEF Event
<1>6. CASE UNCHANGED startVars
  BY <1>1, <1>6 DEF startVars
<1>7. CASE UNCHANGED allVars
  BY <1>6, <1>7 DEF allVars
<1>. QED
  BY <1>2, <1>3, <1>4, <1>5, <1>6, <1>7, Goroutines DEF MainStep

\* The goroutines of EventQueue never take the mutex for main.
LEMMA NotMain ==
    ASSUME StartInv, ~ Listing, StartNext
    PROVE  ~ Listing' /\ main \notin {"initial", "list"} /\ main' \notin {"initial", "list"}
<1>1. main \notin {"initial", "list"} /\ lock # Main
  BY DEF StartInv, NobodyYet, Listing
<1>2. CASE MainStep
  BY <1>1, <1>2 DEF MainStep, InitialLock, InitialSend, InitialFail, RunInformers, Ask,
                    MainGoes, vars, Listing
<1>3. ASSUME NEW h \in Handlers, Sync(h) \/ Event(h) PROVE main' = main /\ lock' = lock
  BY <1>3 DEF Sync, Event, Call, vars
<1>4. ASSUME NEW h \in Handlers, Send(h) \/ Signal(h) PROVE lock' = lock
  BY <1>4 DEF Send, Signal
<1>5. ASSUME NEW w \in Workers, WorkerStep(w) PROVE lock' = lock
  BY <1>5 DEF WorkerStep, Receive, Process, Broadcast
<1>6. ASSUME NEW t \in Threads, ThreadStep(t) PROVE lock' \in {lock, t, Free}
  BY <1>6 DEF ThreadStep, Lock, Wait, Proceed, Unlock
<1>7. lock' # Main \/ MainStep
  BY <1>1, <1>3, <1>4, <1>5, <1>6, Goroutines, StartupAssumption
<1>8. main' = main \/ MainStep
  BY <1>3, Goroutines DEF startVars
<1>. QED
  BY <1>1, <1>2, <1>7, <1>8 DEF Listing

\* Initial leaves the mutex to nobody, or keeps it for ever.
LEMMA ListingStep == StartInv /\ [StartNext]_allVars => NobodyYet'
<1> SUFFICES ASSUME StartInv, [StartNext]_allVars PROVE NobodyYet'
  OBVIOUS
<1>1. CASE UNCHANGED allVars
  BY <1>1 DEF StartInv, NobodyYet, Listing, allVars, startVars, vars
<1>2. CASE StartNext /\ ~ Listing
  BY <1>2, NotMain, StartupAssumption DEF NobodyYet, Listing
<1>3. CASE StartNext /\ Listing
  <2> USE DEF StartInv, NobodyYet, Listing
  <2>1. CASE InitialLock
    BY <2>1, StartupAssumption DEF InitialLock, MainGoes
  <2>2. CASE InitialSend
    BY <2>2, StartupAssumption DEF InitialSend, MainGoes
  <2>3. CASE InitialFail
    BY <2>3, StartupAssumption DEF InitialFail, MainGoes, vars
  <2>4. CASE RunInformers
    BY <1>3, <2>4, StartupAssumption DEF RunInformers, MainGoes, vars
  <2>5. CASE Ask
    BY <1>3, <2>5, StartupAssumption DEF Ask, vars
  <2>6. ASSUME NEW h \in Handlers, Sync(h) PROVE NobodyYet'
    BY <1>3, <2>6, StartupAssumption DEF Sync, InformersRun, vars
  <2>7. ASSUME NEW h \in Handlers, Event(h) PROVE NobodyYet'
    BY <1>3, <2>7, StartupAssumption DEF Event, InformersRun, Call, Goto, TypesOK
  <2>. QED
    BY <1>3, <2>1, <2>2, <2>3, <2>4, <2>5, <2>6, <2>7, OnlyCalls DEF MainStep
<1>. QED
  BY <1>1, <1>2, <1>3

\* StartInv holds of every state.
THEOREM StartInvariance == StartSpec => []StartInv
<1>1. StartInv /\ [StartNext]_allVars => StartInv'
  BY TypesStep, PollStep, ListingStep DEF StartInv
<1>. QED
  BY <1>1, StartInvInit, PTL DEF StartSpec

\* The workers do not run before both informers have synced.
THEOREM InformersFirst == StartSpec => []SyncedFirst
BY StartInvariance, PTL DEF StartInv
-----------------------------------------------------------------------------
\* From the moment Initial has returned the goroutines are those of EventQueue;
\* before, and for ever if Initial fails, they only start to wait for the mutex.
THEOREM QueueImplementation == StartSpec => StartsTheQueue
<1>1. StartInit => Running!Init
  BY DEF StartInit, Running!Init, Listing, Running!Threads
<1>2. ASSUME StartInv, [StartNext]_allVars
      PROVE  [Running!Next]_(Running!vars)
  <2>1. CASE UNCHANGED allVars
    BY <2>1 DEF allVars, startVars, vars, Running!vars, Listing
  <2>2. CASE StartNext /\ ~ Listing
    <3>1. ~ Listing /\ ~ Listing'
      BY <1>2, <2>2, NotMain
    <3>2. ASSUME UNCHANGED vars PROVE UNCHANGED Running!vars
      BY <3>1, <3>2 DEF vars, Running!vars
    <3>3. CASE MainStep
      <4>1. UNCHANGED vars
        BY <1>2, <2>2, <3>3, NotMain DEF MainStep, InitialLock, InitialSend, InitialFail,
                                         RunInformers, Ask, MainGoes
      <4>. QED
        BY <3>2, <4>1
    <3>4. ASSUME NEW h \in Handlers, Sync(h) PROVE UNCHANGED Running!vars
      BY <3>2, <3>4 DEF Sync
    <3>5. ASSUME NEW h \in Handlers, Event(h) PROVE Running!Next
      <4>1. Running!Call(h)
        BY <3>1, <3>5 DEF Event, Call, Goto, Running!Call, Running!Goto
      <4>. QED
        BY <4>1 DEF Running!Next, Running!HandlerStep
    <3>6. ASSUME NEW h \in Handlers, Send(h) \/ Signal(h) PROVE Running!Next
      <4>1. Running!Send(h) \/ Running!Signal(h)
        BY <3>1, <3>6 DEF Send, Signal, Goto, Running!Send, Running!Signal, Running!Goto
      <4>. QED
        BY <4>1 DEF Running!Next, Running!HandlerStep
    <3>7. ASSUME NEW w \in Workers, WorkerStep(w) PROVE Running!Next
      <4>1. Running!WorkerStep(w)
        BY <3>1, <3>7 DEF WorkerStep, Receive, Process, Broadcast, Goto,
             Running!WorkerStep, Running!Receive, Running!Process, Running!Broadcast,
             Running!Goto, Running!Threads
      <4>. QED
        BY <4>1 DEF Running!Next
    <3>8. ASSUME NEW t \in Threads, ThreadStep(t) PROVE Running!Next
      <4>1. Running!ThreadStep(t)
        BY <3>1, <3>8 DEF ThreadStep, Lock, Wait, Proceed, Unlock, Goto, MustWait,
             Running!ThreadStep, Running!Lock, Running!Wait, Running!Proceed,
             Running!Unlock, Running!Goto, Running!MustWait
      <4>. QED
        BY <4>1 DEF Running!Next, Running!Threads
    <3>. QED
      BY <2>2, <3>3, <3>4, <3>5, <3>6, <3>7, <3>8, Goroutines
  <2>3. CASE StartNext /\ Listing
    <3>1. CASE InitialSend
      <4>1. ~ Listing'
        BY <3>1, StartupAssumption DEF InitialSend, MainGoes, Listing
      <4>2. queue' = <<First>> /\ lock' = Free
        BY <1>2, <2>3, <3>1 DEF InitialSend, StartInv, NobodyYet
      <4>. QED
        BY <2>3, <3>1, <4>1, <4>2 DEF InitialSend, Running!vars
    <3>2. ASSUME Listing', UNCHANGED <<waiters, item, pc>>
          PROVE  UNCHANGED Running!vars
      BY <2>3, <3>2 DEF Running!vars
    <3>3. CASE InitialLock
      BY <3>2, <3>3 DEF InitialLock, Listing
    <3>4. CASE InitialFail \/ RunInformers \/ Ask
      <4>1. UNCHANGED vars /\ main # "initial"
        BY <3>4 DEF InitialFail, RunInformers, Ask, MainGoes
      <4>2. Listing'
        BY <2>3, <4>1 DEF Listing, vars
      <4>. QED
        BY <3>2, <4>1, <4>2 DEF vars
    <3>5. ASSUME NEW h \in Handlers, Sync(h) PROVE UNCHANGED Running!vars
      BY <2>3, <3>2, <3>5 DEF Sync, vars, Listing
    <3>6. ASSUME NEW h \in Handlers, Event(h) PROVE Running!Next
      <4>1. Listing'
        BY <2>3, <3>6 DEF Event, Call, Listing
      <4>2. Running!Call(h)
        BY <2>3, <3>6, <4>1 DEF Event, Call, Goto, Running!Call, Running!Goto
      <4>. QED
        BY <4>2 DEF Running!Next, Running!HandlerStep
    <3>. QED
      BY <1>2, <2>3, <3>1, <3>3, <3>4, <3>5, <3>6, OnlyCalls DEF MainStep
  <2>. QED
    BY <1>2, <2>1, <2>2, <2>3
<1>. QED
  BY <1>1, <1>2, StartInvariance, PTL DEF StartSpec, StartsTheQueue, Running!Spec
==============================================================================
