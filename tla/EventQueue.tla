----------------------------- MODULE EventQueue -----------------------------
(***************************************************************************)
(* The goroutines of the controller around the mutex, the condition        *)
(* variable cond and the channel lbstore (pkg/controller/controller.go).   *)
(* The informer goroutines run addrUpdateFunc and updatePorts, which send  *)
(* an LBStore; the workers run processItem, which receives one and applies *)
(* it.  A handler waits while the channel is full and a worker while it is *)
(* empty, all on the same condition variable; handlers Signal, workers     *)
(* Broadcast, both after the mutex is released.                            *)
(*                                                                         *)
(* The state after Initial has returned: its store is in the channel, no   *)
(* handler runs, no worker has been scheduled yet.                         *)
(*                                                                         *)
(* cond.Wait enters the notify list, unlocks and sleeps; nobody who needs  *)
(* the mutex can act between the first two, so they are one step.  Signal  *)
(* wakes any one waiter: sync.Cond promises no order.                      *)
(***************************************************************************)
EXTENDS Naturals, Sequences, FiniteSets

CONSTANTS Handlers,   \* the informer goroutines
          Workers,    \* the goroutines started by Run
          Capacity,   \* make(chan *LBStore, 3), and the 3 of the wait loops
          Stores,     \* the LBStore pointers
          StoreOf,    \* the store each handler sends
          First,      \* the store sent by Initial
          NoStore,    \* a worker that holds no store
          Free        \* the owner of an unlocked mutex

Threads == Handlers \cup Workers

\* There is a handler and a worker, a goroutine is not both, and there are no
\* more handlers than slots (two informers, three slots).
ASSUME QueueAssumption ==
    /\ IsFiniteSet(Handlers)
    /\ Handlers # {} /\ Workers # {}
    /\ Handlers \cap Workers = {}
    /\ Free \notin Threads
    /\ Capacity \in Nat \ {0}
    /\ Cardinality(Handlers) <= Capacity
    /\ StoreOf \in [Handlers -> Stores]
    /\ First \in Stores
    /\ NoStore \notin Stores

VARIABLES lock,     \* who holds cond.L, or Free
          waiters,  \* the notify list of cond
          queue,    \* the channel lbstore
          item,     \* the store each worker has received
          pc        \* what each goroutine does next

vars == <<lock, waiters, queue, item, pc>>

\* idle     a handler between two events
\* lock     about to lock cond.L: on entry, or on return from cond.Wait
\* check    evaluates the condition of the wait loop
\* wait     asleep in cond.Wait
\* transfer out of the loop: the handler fills its store and sends it, the
\*          worker receives one
\* process  the worker applies the store
\* unlock   about to unlock cond.L
\* notify   about to Signal (handler) or Broadcast (worker)
HandlerPC == {"idle", "lock", "check", "wait", "transfer", "unlock", "notify"}
WorkerPC == {"lock", "check", "wait", "transfer", "process", "unlock", "notify"}

Init == /\ lock = Free
        /\ waiters = {}
        /\ queue = <<First>>
        /\ item = [w \in Workers |-> NoStore]
        /\ pc = [t \in Threads |-> IF t \in Handlers THEN "idle" ELSE "lock"]
-----------------------------------------------------------------------------
Goto(t, from, to) == /\ pc[t] = from
                     /\ pc' = [pc EXCEPT ![t] = to]

\* cond.L.Lock()
Lock(t) == /\ lock = Free
           /\ lock' = t
           /\ Goto(t, "lock", "check")
           /\ UNCHANGED <<waiters, queue, item>>

\* Mutant: the 3 of the handlers' loop is not the capacity of the channel.
MustWaitOneLate(t) == IF t \in Handlers THEN Len(queue) = Capacity + 1
                                        ELSE Len(queue) = 0

\* The condition of the wait loops: len(lbstore) == 3, len(lbstore) == 0.
MustWait(t) == IF t \in Handlers THEN Len(queue) = Capacity ELSE Len(queue) = 0

\* cond.Wait(): enter the notify list, release the mutex, sleep.
Wait(t) == /\ MustWait(t)
           /\ Goto(t, "check", "wait")
           /\ waiters' = waiters \cup {t}
           /\ lock' = Free
           /\ UNCHANGED <<queue, item>>

\* The loop ends.
Proceed(t) == /\ ~ MustWait(t)
              /\ Goto(t, "check", "transfer")
              /\ UNCHANGED <<lock, waiters, queue, item>>

\* cond.L.Unlock()
Unlock(t) == /\ Goto(t, "unlock", "notify")
             /\ lock' = Free
             /\ UNCHANGED <<waiters, queue, item>>
-----------------------------------------------------------------------------
\* An event arrives that passes the early returns of the handler.
Call(h) == /\ Goto(h, "idle", "lock")
           /\ UNCHANGED <<lock, waiters, queue, item>>

\* lbc.lbstore <- data: a send on a full channel blocks.
Send(h) == /\ Len(queue) < Capacity
           /\ Goto(h, "transfer", "unlock")
           /\ queue' = Append(queue, StoreOf[h])
           /\ UNCHANGED <<lock, waiters, item>>

\* Mutant: the handler returns without a Signal.
SignalNobody(h) == /\ Goto(h, "notify", "idle")
                   /\ UNCHANGED <<lock, waiters, queue, item>>

\* Mutant: cond.Wait returns without having locked cond.L again.
SignalUnlocked(h) ==
    /\ pc[h] = "notify"
    /\ \/ /\ waiters = {}
          /\ pc' = [pc EXCEPT ![h] = "idle"]
          /\ UNCHANGED waiters
       \/ \E t \in waiters :
             /\ waiters' = waiters \ {t}
             /\ pc' = [pc EXCEPT ![h] = "idle", ![t] = "check"]
    /\ UNCHANGED <<lock, queue, item>>

\* cond.Signal(), then the handler sleeps 60 ms and returns.
Signal(h) ==
    /\ pc[h] = "notify"
    /\ \/ /\ waiters = {}
          /\ pc' = [pc EXCEPT ![h] = "idle"]
          /\ UNCHANGED waiters
       \/ \E t \in waiters :
             /\ waiters' = waiters \ {t}
             /\ pc' = [pc EXCEPT ![h] = "idle", ![t] = "lock"]
    /\ UNCHANGED <<lock, queue, item>>
-----------------------------------------------------------------------------
\* Mutant: the mutex is released once the store is received.
ReceiveUnlock(w) == /\ queue # <<>>
                    /\ Goto(w, "transfer", "process")
                    /\ item' = [item EXCEPT ![w] = Head(queue)]
                    /\ queue' = Tail(queue)
                    /\ lock' = Free
                    /\ UNCHANGED waiters

\* lbdata := <-lbc.lbstore: a receive from an empty channel blocks.
Receive(w) == /\ queue # <<>>
              /\ Goto(w, "transfer", "process")
              /\ item' = [item EXCEPT ![w] = Head(queue)]
              /\ queue' = Tail(queue)
              /\ UNCHANGED <<lock, waiters>>

\* The loops over lbdata.Addr, with the mutex held.
Process(w) == /\ Goto(w, "process", "unlock")
              /\ item' = [item EXCEPT ![w] = NoStore]
              /\ UNCHANGED <<lock, waiters, queue>>

\* Mutant: the worker leaves its loop after one store.
BroadcastQuit(w) ==
    /\ pc[w] = "notify"
    /\ pc' = [t \in Threads |-> IF t = w THEN "idle"
                                ELSE IF t \in waiters THEN "lock" ELSE pc[t]]
    /\ waiters' = {}
    /\ UNCHANGED <<lock, queue, item>>

\* Mutant: Signal in place of Broadcast, so one waiter is woken at most.
BroadcastOne(w) ==
    /\ pc[w] = "notify"
    /\ \/ /\ waiters = {}
          /\ pc' = [pc EXCEPT ![w] = "lock"]
          /\ UNCHANGED waiters
       \/ \E t \in waiters :
             /\ waiters' = waiters \ {t}
             /\ pc' = [pc EXCEPT ![w] = "lock", ![t] = "lock"]
    /\ UNCHANGED <<lock, queue, item>>

\* cond.Broadcast(), then the worker sleeps 60 ms and starts again.
Broadcast(w) ==
    /\ pc[w] = "notify"
    /\ pc' = [t \in Threads |-> IF t \in waiters \cup {w} THEN "lock" ELSE pc[t]]
    /\ waiters' = {}
    /\ UNCHANGED <<lock, queue, item>>
-----------------------------------------------------------------------------
HandlerStep(h) == Call(h) \/ Send(h) \/ Signal(h)
WorkerStep(w) == Receive(w) \/ Process(w) \/ Broadcast(w)
ThreadStep(t) == Lock(t) \/ Wait(t) \/ Proceed(t) \/ Unlock(t)

Next == \/ \E h \in Handlers : HandlerStep(h)
        \/ \E w \in Workers : WorkerStep(w)
        \/ \E t \in Threads : ThreadStep(t)

Spec == Init /\ [][Next]_vars

\* The scheduler runs every goroutine that can run, and sync.Mutex hands the
\* lock over to a goroutine that has starved for 1 ms, hence SF for Lock.
\* Events are the environment's: no fairness for Call.
Fairness ==
    /\ \A t \in Threads : /\ SF_vars(Lock(t))
                          /\ WF_vars(Wait(t) \/ Proceed(t) \/ Unlock(t))
    /\ \A h \in Handlers : WF_vars(Send(h) \/ Signal(h))
    /\ \A w \in Workers : WF_vars(WorkerStep(w))

FairSpec == Spec /\ Fairness
-----------------------------------------------------------------------------
TypeOK == /\ lock \in Threads \cup {Free}
          /\ waiters \in SUBSET Threads
          /\ queue \in Seq(Stores)
          /\ Len(queue) <= Capacity
          /\ item \in [Workers -> Stores \cup {NoStore}]
          /\ pc \in [Threads -> HandlerPC \cup WorkerPC]
          /\ \A h \in Handlers : pc[h] \in HandlerPC
          /\ \A w \in Workers : pc[w] \in WorkerPC

InCriticalSection(t) == pc[t] \in {"check", "transfer", "process", "unlock"}

\* At most one goroutine is between Lock and Unlock, and it is the owner of
\* the mutex: no handler refills a store while a worker applies one.
MutualExclusion == \A t \in Threads : InCriticalSection(t) <=> lock = t

\* No goroutine blocks on the channel while it holds the mutex, which nobody
\* could then release: the wait loops re-check after every wake-up.
NeverBlockedInside ==
    /\ \A h \in Handlers : pc[h] = "transfer" => Len(queue) < Capacity
    /\ \A w \in Workers : pc[w] = "transfer" => queue # <<>>

\* A store in the channel is never left to sleeping workers: if all of them
\* wait, a handler is about to signal, and no handler waits that could take
\* the signal from them.
NoLostStore ==
    (Workers \subseteq waiters /\ queue # <<>>) =>
        /\ \E h \in Handlers : pc[h] \in {"unlock", "notify"}
        /\ waiters \cap Handlers = {}

\* A handler that sleeps because the channel was full is never forgotten: the
\* channel is still full, or a worker that has received is about to broadcast.
NoForgottenHandler ==
    waiters \cap Handlers # {} =>
        \/ Len(queue) = Capacity
        \/ \E w \in Workers : pc[w] \in {"process", "unlock", "notify"}

\* Whatever is sent is eventually taken up by some worker.
QueueServed == queue # <<>> ~> \E w \in Workers : pc[w] = "process"

\* Handlers that compete for the slots of a full channel make progress together:
\* while one of them is on its way, some handler gets to send (none is promised
\* to be the next).
HandlersProgress == (\E h \in Handlers : pc[h] \in {"lock", "check", "wait"})
                       ~> (\E h \in Handlers : pc[h] = "transfer")
-----------------------------------------------------------------------------
\* The store being applied, for the abstract channel.
Applied == {w \in Workers : pc[w] = "process"}
applyingNow == IF Applied = {} THEN NoStore
               ELSE item[CHOOSE w \in Applied : TRUE]

Channel == INSTANCE LBChannel WITH channel <- queue, applying <- applyingNow

\* The goroutines implement the abstract channel.
ImplementsChannel == Channel!ChanSpec
=============================================================================
