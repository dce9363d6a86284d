------------------------------- MODULE Startup -------------------------------
(***************************************************************************)
(* The start of the controller: main runs Initial, which lists under the   *)
(* mutex and sends the first store, then Run, which starts the informers   *)
(* and waits for both to have synced before it starts the workers          *)
(* (cmd/lvs-controller/main.go, pkg/controller/controller.go).             *)
(*                                                                         *)
(* An informer runs its handler with the lock of its DeltaFIFO held, and   *)
(* HasSynced takes the same lock.  So a handler that waits for room in the *)
(* channel also stops the main goroutine, and with it the workers that     *)
(* would make room.                                                        *)
(*                                                                         *)
(* The goroutines are those of EventQueue, held back until they start.     *)
(***************************************************************************)
EXTENDS EventQueue

CONSTANTS Main,       \* the main goroutine, as owner of the mutex
          SyncOrder,  \* the order in which WaitForCacheSync asks the informers
          ListFails,  \* Initial's List, or a key it finds, may be at fault
          MaxCalls    \* bound: the events that reach a handler

ASSUME StartupAssumption ==
    /\ Main \notin Threads \cup {Free}
    /\ \A h \in Handlers : \E i \in DOMAIN SyncOrder : SyncOrder[i] = h
    /\ SyncOrder \in Seq(Handlers)
    /\ ListFails \in BOOLEAN
    /\ MaxCalls \in Nat

VARIABLES main,    \* what the main goroutine does next
          asked,   \* how many informers have said in this poll that they synced
          synced,  \* the informers whose first List is handled
          calls    \* the events so far

startVars == <<main, asked, synced, calls>>
allVars == <<vars, startVars>>

\* initial  Initial is about to lock cond.L
\* list     it lists, with cond.L locked
\* run      it has returned
\* poll     WaitForCacheSync
\* workers  the workers run
MainPC == {"initial", "list", "run", "poll", "workers"}

StartInit == /\ lock = Free
             /\ waiters = {}
             /\ queue = <<>>
             /\ item = [w \in Workers |-> NoStore]
             /\ pc = [t \in Threads |-> IF t \in Handlers THEN "idle" ELSE "lock"]
             /\ main = "initial"
             /\ asked = 0
             /\ synced = {}
             /\ calls = 0
-----------------------------------------------------------------------------
MainGoes(from, to) == main = from /\ main' = to

\* Initial; the channel has room, as nobody else runs yet.
InitialLock == /\ MainGoes("initial", "list")
               /\ lock = Free
               /\ lock' = Main
               /\ UNCHANGED <<waiters, queue, item, pc, asked, synced, calls>>

\* Mutant: Initial does not send what it has listed.
InitialSendNothing == /\ MainGoes("list", "run")
                      /\ lock' = Free
                      /\ UNCHANGED <<waiters, queue, item, pc, asked, synced, calls>>

\* It sends the store, unlocks and broadcasts to nobody.
InitialSend == /\ MainGoes("list", "run")
               /\ queue' = Append(queue, First)
               /\ lock' = Free
               /\ UNCHANGED <<waiters, item, pc, asked, synced, calls>>

\* It returns the error without unlocking; glog.Fatalf is logdog's, which logs
\* and does not exit.
InitialFail == /\ MainGoes("list", "run")
               /\ ListFails
               /\ UNCHANGED <<vars, asked, synced, calls>>

\* Run starts the informers.
RunInformers == /\ MainGoes("run", "poll")
                /\ UNCHANGED <<vars, asked, synced, calls>>

InformersRun == main \in {"poll", "workers"}

\* The informer holds the lock of its DeltaFIFO while the handler runs.
FifoFree(h) == pc[h] = "idle"

\* The last object of the first List is popped; for pods addrAddFunc is called,
\* which does not block.
Sync(h) == /\ InformersRun
           /\ h \notin synced
           /\ FifoFree(h)
           /\ synced' = synced \cup {h}
           /\ UNCHANGED <<vars, main, asked, calls>>

\* Mutant: the workers are started before the informers have synced.
AskNobody == /\ MainGoes("poll", "workers")
             /\ UNCHANGED <<vars, asked, synced, calls>>

\* Mutant: the poll counts one informer more than there are.
AskOneMore ==
    /\ main = "poll"
    /\ LET h == SyncOrder[asked + 1]
       IN  /\ FifoFree(h)
           /\ asked' = IF h \in synced THEN (asked + 1) % Len(SyncOrder) ELSE 0
           /\ main' = IF h \in synced /\ asked = Len(SyncOrder)
                      THEN "workers" ELSE "poll"
    /\ UNCHANGED <<vars, synced, calls>>

\* WaitForCacheSync asks one informer after the other; at the first that has
\* not synced it sleeps and starts again.  Then Run starts the workers.
Ask ==
    /\ main = "poll"
    /\ LET h == SyncOrder[asked + 1]
       IN  /\ FifoFree(h)
           /\ asked' = IF h \in synced THEN asked + 1 ELSE 0
           /\ main' = IF h \in synced /\ asked + 1 = Len(SyncOrder)
                      THEN "workers" ELSE "poll"
    /\ UNCHANGED <<vars, synced, calls>>

MainStep == InitialLock \/ InitialSend \/ InitialFail \/ RunInformers \/ Ask

\* An event that reaches the handler of a running informer.
Event(h) == /\ InformersRun
            /\ calls < MaxCalls
            /\ Call(h)
            /\ calls' = calls + 1
            /\ UNCHANGED <<main, asked, synced>>

HandlerRuns(h) == /\ Send(h) \/ Signal(h)
                  /\ UNCHANGED startVars

WorkerRuns(w) == /\ main = "workers"
                 /\ WorkerStep(w)
                 /\ UNCHANGED startVars

ThreadRuns(t) == /\ t \in Workers => main = "workers"
                 /\ ThreadStep(t)
                 /\ UNCHANGED startVars

StartNext == \/ MainStep
             \/ \E h \in Handlers : Sync(h) \/ Event(h) \/ HandlerRuns(h)
             \/ \E w \in Workers : WorkerRuns(w)
             \/ \E t \in Threads : ThreadRuns(t)

StartSpec == StartInit /\ [][StartNext]_allVars

\* As in EventQueue; the lock of a DeltaFIFO is a sync.Mutex as well.  The
\* first List of each informer succeeds in the end.
StartFairness ==
    /\ WF_allVars(MainStep) /\ SF_allVars(Ask)
    /\ \A h \in Handlers : SF_allVars(Sync(h)) /\ WF_allVars(HandlerRuns(h))
    /\ \A w \in Workers : WF_allVars(WorkerRuns(w))
    /\ \A t \in Threads : /\ SF_allVars(Lock(t) /\ ThreadRuns(t))
                          /\ WF_allVars(ThreadRuns(t))

StartFairSpec == StartSpec /\ StartFairness
-----------------------------------------------------------------------------
\* The workers do not run before both informers have synced.
SyncedFirst == main = "workers" => synced = Handlers

\* If no more events come than fill the channel beside Initial's store, and
\* Initial has not failed, the workers start, and then every store is served.
WorkersStart == <>(main = "workers" /\ queue = <<>>) \/ <>[](lock = Main)

\* The goroutines run as EventQueue says, from the moment Initial has returned:
\* until then its store counts as sent, and so it does if Initial has failed,
\* after which nobody gets the mutex.
Listing == main = "initial" \/ lock = Main
Running == INSTANCE EventQueue
    WITH lock <- IF Listing THEN Free ELSE lock,
         queue <- IF Listing THEN <<First>> ELSE queue

StartsTheQueue == Running!Spec
-----------------------------------------------------------------------------
\* vendor/k8s.io/client-go/tools/cache/shared_informer.go:105, "It returns true
\* if it was successful, false if the controller should shutdown": the wait of
\* Run for its informers comes to an end.
WaitReturns == main = "poll" ~> main = "workers"
=============================================================================
