------------------------------ MODULE Informer ------------------------------
(***************************************************************************)
(* The informer behind each handler of the controller: NewInformer of      *)
(* client-go with a Reflector that lists and watches, a DeltaFIFO, and the *)
(* goroutine that pops the changes of one object after the other, keeps    *)
(* the store and calls the handler                                         *)
(* (vendor/k8s.io/client-go/tools/cache).  The controller uses no resync.  *)
(*                                                                         *)
(* A delta is the version it brings, Absent for a Deleted one; what else   *)
(* its type decides is decided when it is queued.  The lock of the         *)
(* DeltaFIFO is held from Pop to the last delta popped.                    *)
(***************************************************************************)
EXTENDS Naturals, SequencesExt

CONSTANTS Objects, Versions, Absent,
          MaxChanges,  \* bound: changes in the API server
          MaxBreaks    \* bound: watches that are lost

ASSUME InformerAssumption ==
    /\ IsFiniteSet(Objects)
    /\ Absent \notin Objects \cup Versions
    /\ MaxChanges \in Nat /\ MaxBreaks \in Nat

VARIABLES live,        \* API server: the version of each object
          stream,      \* API server: the changes the reflector has not received
          changes,     \* how often objects have changed
          reflector,   \* what ListAndWatch does next: "list", "replace", "watch"
          breaks,      \* how often a watch was lost
          snapshot,    \* the list
          cut,         \* how many of the changes in stream the list contains
          items,       \* DeltaFIFO: the deltas queued for each object
          queue,       \* DeltaFIFO: the objects with deltas, oldest first
          populated,   \* DeltaFIFO: the first list is queued
          initialPopulationCount,  \* its objects not popped yet
          popped,      \* the object whose deltas are processed, or Absent
          inHand,      \* those of its deltas that are left
          store,       \* clientState
          unheard,     \* history: objects of the first list not yet handled
          astray       \* history: objects the last list has left wrong

serverVars == <<live, stream, changes>>
reflectorVars == <<reflector, breaks, snapshot, cut>>
fifoVars == <<items, queue, populated, initialPopulationCount>>
processVars == <<popped, inHand, store>>
vars == <<serverVars, reflectorVars, fifoVars, processVars, unheard, astray>>

Contents == Versions \cup {Absent}

Init == /\ live = [o \in Objects |-> Absent]
        /\ stream = <<>> /\ changes = 0
        /\ reflector = "list" /\ breaks = 0
        /\ snapshot = live /\ cut = 0
        /\ items = [o \in Objects |-> <<>>] /\ queue = <<>>
        /\ populated = FALSE /\ initialPopulationCount = 0
        /\ popped = Absent /\ inHand = <<>>
        /\ store = [o \in Objects |-> Absent]
        /\ unheard = {} /\ astray = {}
-----------------------------------------------------------------------------
Change(o, v) ==
    /\ changes < MaxChanges
    /\ live[o] # Absent \/ v # Absent
    /\ live' = [live EXCEPT ![o] = v]
    /\ stream' = Append(stream, <<o, v>>)
    /\ changes' = changes + 1
    /\ UNCHANGED <<reflectorVars, fifoVars, processVars, unheard, astray>>

LockFree == popped = Absent

\* willObjectBeDeletedLocked
WillBeDeleted(o) == items[o] # <<>> /\ Last(items[o]) = Absent

\* queueActionLocked: no Sync after a Deleted, no two Deleted in a row.
NewDeltas(o, v, type) == IF WillBeDeleted(o) /\ type \in {"Sync", "Deleted"}
                         THEN items[o] ELSE Append(items[o], v)

\* Mutant: an object is queued anew with every delta.
NeverQueued(o) == FALSE

Queued(o) == items[o] # <<>>

\* Mutant: ListAndWatch is not started again.
ListOnce == /\ reflector = "list" /\ ~ populated
            /\ reflector' = "replace"
            /\ snapshot' = live
            /\ cut' = Len(stream)
            /\ UNCHANGED <<serverVars, breaks, fifoVars, processVars, unheard, astray>>

\* List: the objects, and where the watch will go on.
List == /\ reflector = "list"
        /\ reflector' = "replace"
        /\ snapshot' = live
        /\ cut' = Len(stream)
        /\ UNCHANGED <<serverVars, breaks, fifoVars, processVars, unheard, astray>>

Listed == {o \in Objects : snapshot[o] # Absent}

\* Mutant: an object that has vanished is not noticed.
MissingNone == {}

\* The known objects that the list does not have.
Missing == {o \in Objects \ Listed : store[o] # Absent}

\* Replace, and from here on the reflector watches.
Replace ==
    /\ reflector = "replace" /\ LockFree
    /\ reflector' = "watch"
    /\ items' = [o \in Objects |->
                   CASE o \in Listed  -> NewDeltas(o, snapshot[o], "Sync")
                     [] o \in Missing -> NewDeltas(o, Absent, "Deleted")
                     [] OTHER         -> items[o]]
    /\ \E listed \in SetToSeqs({o \in Listed : ~ Queued(o)}),
          missing \in SetToSeqs({o \in Missing : ~ Queued(o)}) :
             queue' = queue \o listed \o missing
    /\ populated' = TRUE
    /\ initialPopulationCount' = IF populated THEN initialPopulationCount
                                 ELSE Cardinality(Listed \cup Missing)
    /\ stream' = SubSeq(stream, cut + 1, Len(stream))
    /\ unheard' = IF populated THEN unheard ELSE Listed
    /\ astray' = {o \in Listed : WillBeDeleted(o)}
                   \cup {o \in Objects \ (Listed \cup Missing) :
                           Queued(o) /\ ~ WillBeDeleted(o)}
    /\ UNCHANGED <<live, changes, breaks, snapshot, cut, processVars>>

\* watchHandler hands an event to the DeltaFIFO: Add and Update queue it, and
\* so does Delete unless neither the store nor the queue has the object.
WatchEvent ==
    /\ reflector = "watch" /\ LockFree
    /\ stream # <<>>
    /\ stream' = Tail(stream)
    /\ LET o == Head(stream)[1]
           v == Head(stream)[2]
           type == IF v = Absent THEN "Deleted" ELSE "Updated"
       IN  /\ IF type = "Deleted" /\ store[o] = Absent /\ ~ Queued(o)
              THEN UNCHANGED <<items, queue>>
              ELSE /\ items' = [items EXCEPT ![o] = NewDeltas(o, v, type)]
                   /\ queue' = IF Queued(o) THEN queue ELSE Append(queue, o)
           /\ astray' = astray \ {o}
    /\ UNCHANGED <<live, changes, reflectorVars, populated,
                   initialPopulationCount, processVars, unheard>>

\* The watch ends with an error, and ListAndWatch starts again.  (One that is
\* just closed goes on where it was.)
WatchBroken ==
    /\ reflector = "watch"
    /\ breaks < MaxBreaks
    /\ breaks' = breaks + 1
    /\ reflector' = "list"
    /\ UNCHANGED <<serverVars, snapshot, cut, fifoVars, processVars, unheard, astray>>
-----------------------------------------------------------------------------
\* Mutant: the counter is not kept from falling below zero.
PopAlways ==
    /\ LockFree /\ queue # <<>>
    /\ popped' = Head(queue)
    /\ queue' = Tail(queue)
    /\ inHand' = items[popped']
    /\ items' = [items EXCEPT ![popped'] = <<>>]
    /\ initialPopulationCount' = initialPopulationCount - 1
    /\ UNCHANGED <<serverVars, reflectorVars, populated, store, unheard, astray>>

\* Pop takes all deltas of the oldest object.
Pop ==
    /\ LockFree /\ queue # <<>>
    /\ popped' = Head(queue)
    /\ queue' = Tail(queue)
    /\ inHand' = items[popped']
    /\ items' = [items EXCEPT ![popped'] = <<>>]
    /\ initialPopulationCount' =
          IF initialPopulationCount > 0 THEN initialPopulationCount - 1 ELSE 0
    /\ UNCHANGED <<serverVars, reflectorVars, populated, store, unheard, astray>>

\* Mutant: of the deltas popped only the newest is processed.
ProcessNewest ==
    /\ ~ LockFree
    /\ store' = [store EXCEPT ![popped] = Last(inHand)]
    /\ inHand' = <<>>
    /\ popped' = Absent
    /\ unheard' = unheard \ {popped}
    /\ UNCHANGED <<serverVars, reflectorVars, fifoVars, astray>>

\* Process brings the store up to date and calls OnAdd, OnUpdate or OnDelete.
Process ==
    /\ ~ LockFree
    /\ store' = [store EXCEPT ![popped] = Head(inHand)]
    /\ inHand' = Tail(inHand)
    /\ popped' = IF Len(inHand) = 1 THEN Absent ELSE popped
    /\ unheard' = unheard \ {popped}
    /\ UNCHANGED <<serverVars, reflectorVars, fifoVars, astray>>

\* HasSynced, which waits for the lock.
HasSynced == LockFree /\ populated /\ initialPopulationCount = 0
-----------------------------------------------------------------------------
Next == \/ \E o \in Objects, v \in Contents : Change(o, v)
        \/ List \/ Replace \/ WatchEvent \/ WatchBroken
        \/ Pop \/ Process

Spec == Init /\ [][Next]_vars

\* The goroutines of the reflector and of processLoop run; the API server
\* answers in the end.  sync.RWMutex lets neither starve.
FairSpec == /\ Spec
            /\ WF_vars(List) /\ SF_vars(Replace) /\ SF_vars(WatchEvent)
            /\ SF_vars(Pop) /\ WF_vars(Process)
-----------------------------------------------------------------------------
TypeOK == /\ live \in [Objects -> Contents]
          /\ stream \in Seq(Objects \X Contents)
          /\ changes \in 0 .. MaxChanges
          /\ reflector \in {"list", "replace", "watch"}
          /\ breaks \in 0 .. MaxBreaks
          /\ snapshot \in [Objects -> Contents]
          /\ cut \in Nat
          /\ items \in [Objects -> Seq(Contents)]
          /\ queue \in Seq(Objects)
          /\ populated \in BOOLEAN
          /\ initialPopulationCount \in 0 .. Cardinality(Objects)
          /\ popped \in Objects \cup {Absent}
          /\ inHand \in Seq(Contents)
          /\ store \in [Objects -> Contents]
          /\ unheard \subseteq Objects /\ astray \subseteq Objects

\* The comment in delta_fifo.go:101, "We depend on the property that items in
\* the set are in the queue and vice versa": no object is queued twice, and
\* none has deltas that nobody will pop.
QueueMatchesItems == /\ Range(queue) = {o \in Objects : Queued(o)}
                     /\ IsInjective(queue)

\* WaitForCacheSync of Run relies on HasSynced: its counter is the number of
\* objects of the first list for which the handler has still to be called, so
\* it is neither true before the last of them nor waits for anything else.
SyncedWhenHandled ==
    LockFree /\ populated => initialPopulationCount = Cardinality(unheard)

CaughtUp == reflector = "watch" /\ stream = <<>> /\ queue = <<>> /\ LockFree

\* Once everything is handled, the store has what the API server has, and is
\* wrong exactly about the objects that a list found in one of two situations:
\* created again while their deletion was queued, or gone before their
\* creation was handled.  Only a later list or event puts these right.
StoreUpToDate == CaughtUp => \A o \in Objects : store[o] = live[o] <=> o \notin astray

\* The informer always catches up.
EventuallyCaughtUp == []<>CaughtUp
-----------------------------------------------------------------------------
\* A finite set of numbers in increasing order.
InOrder(S) ==
    [n \in 1 .. Cardinality(S) |->
        CHOOSE i \in S : Cardinality({j \in S : j <= i}) = n]

\* The versions of o among the changes that the watch will bring.
Awaited(o) == {i \in DOMAIN stream :
                  stream[i][1] = o /\ (reflector = "replace" => i > cut)}
Coming(o) == [n \in 1 .. Cardinality(Awaited(o)) |-> stream[InOrder(Awaited(o))[n]][2]]

\* What the DeltaFIFO holds of o, and the list that it does not hold yet.
Held(o) == (IF o = popped THEN inHand ELSE <<>>) \o items[o]
ToBeQueued(o) == IF reflector = "replace" THEN <<snapshot[o]>> ELSE <<>>

Unhandled == [o \in Objects |-> Held(o) \o ToBeQueued(o) \o Coming(o)]
ListPlace == [o \in Objects |-> IF reflector = "replace" THEN Len(Held(o)) + 1 ELSE 0]

\* The informer keeps the promise that the handlers rely on.
Promise == INSTANCE ObjectEvents
    WITH seen <- store, events <- Unhandled, mark <- ListPlace

KeepsPromise == Promise!EventsSpec
=============================================================================
