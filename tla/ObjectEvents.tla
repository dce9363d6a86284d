---------------------------- MODULE ObjectEvents ----------------------------
(***************************************************************************)
(* What an informer of client-go promises its handlers: the versions of    *)
(* one object come in order, and nothing is promised about the order of    *)
(* different objects.  At its start, and whenever a watch has failed, the  *)
(* informer lists: of each object the versions it has received by then     *)
(* stay, the others are lost, and the listed one comes in their place,     *)
(* unless Enlist drops it.                                                 *)
(*                                                                         *)
(* Informer shows how the reflector and the DeltaFIFO keep this promise;   *)
(* Controller and ConfigurationInformers rely on it.                       *)
(***************************************************************************)
EXTENDS Naturals, Sequences

CONSTANTS Objects,
          Versions,  \* the contents of an object
          Absent     \* the object does not exist

VARIABLES live,    \* the version of each object in the API server
          events,  \* for each object the versions not yet handled, oldest first
          seen,    \* the version of each object in the informer's store
          mark     \* where in events a list stands that is not yet queued, or 0

eventVars == <<live, events, seen, mark>>

Contents == Versions \cup {Absent}

\* The informer has not listed yet.
Empty == /\ events = [o \in Objects |-> <<>>]
         /\ seen = [o \in Objects |-> Absent]
         /\ mark = [o \in Objects |-> 0]

EventsInit == /\ live = [o \in Objects |-> Absent]
              /\ Empty

\* An object is created, updated or deleted; an update may leave its version.
Change(o, v) == /\ live[o] # Absent \/ v # Absent
                /\ live' = [live EXCEPT ![o] = v]
                /\ events' = [events EXCEPT ![o] = Append(@, v)]
                /\ UNCHANGED <<seen, mark>>

\* The version o's handler is called with next, Absent if there is none.
Next(o) == IF events[o] = <<>> \/ mark[o] = 1 THEN Absent ELSE Head(events[o])

\* The handler is called with the version in the store and the next one.
Deliver(o) == /\ events[o] # <<>>
              /\ mark[o] # 1
              /\ seen' = [seen EXCEPT ![o] = Head(events[o])]
              /\ events' = [events EXCEPT ![o] = Tail(@)]
              /\ mark' = [mark EXCEPT ![o] = IF @ = 0 THEN 0 ELSE @ - 1]
              /\ UNCHANGED live

\* The version of o after the first n of its events.
After(o, n) == IF n = 0 THEN seen[o] ELSE events[o][n]

Without(s, n) == SubSeq(s, 1, n - 1) \o SubSeq(s, n + 1, Len(s))

\* A deletion is not reported of an object that is taken for deleted already.
Spare(o) == /\ mark[o] = 0
            /\ \E n \in DOMAIN events[o] :
                  /\ events[o][n] = Absent /\ After(o, n - 1) = Absent
                  /\ events' = [events EXCEPT ![o] = Without(@, n)]
            /\ UNCHANGED <<live, seen, mark>>

Listing == \E o \in Objects : mark[o] # 0

Lengths == UNION {0 .. Len(events[o]) : o \in Objects}

\* For each object some number of its events, those received so far.
Received == {n \in [Objects -> Lengths] : \A o \in Objects : n[o] <= Len(events[o])}

\* List.
List == /\ ~ Listing
        /\ \E n \in Received :
              /\ events' = [o \in Objects |->
                              Append(SubSeq(events[o], 1, n[o]), live[o])]
              /\ mark' = [o \in Objects |-> n[o] + 1]
        /\ UNCHANGED <<live, seen>>

\* A deletion still in the queue swallows the listed version, and an object
\* that is queued, but not in the store, is not missed in the list.
Dropped(o) == \/ mark[o] > 1 /\ events[o][mark[o] - 1] = Absent
              \/ events[o][mark[o]] = Absent /\ seen[o] = Absent

\* The list is queued.
Enlist == /\ Listing
          /\ events' = [o \in Objects |-> IF Dropped(o) THEN Without(events[o], mark[o])
                                                        ELSE events[o]]
          /\ mark' = [o \in Objects |-> 0]
          /\ UNCHANGED <<live, seen>>

EventsNext == \/ \E o \in Objects : \/ \E v \in Contents : Change(o, v)
                                    \/ Deliver(o)
                                    \/ Spare(o)
              \/ List
              \/ Enlist

EventsSpec == EventsInit /\ [][EventsNext]_eventVars
=============================================================================
