----------------------- MODULE ConfigurationInformers -----------------------
(***************************************************************************)
(* The generated client of the Configuration resource (pkg/client and      *)
(* pkg/apis): the typed client, the shared informer factory, the lister    *)
(* and the deep copies, used by several goroutines at once.  The informer  *)
(* keeps the promise that Informer proves of client-go (ObjectEvents).     *)
(*                                                                         *)
(* A Configuration is its resourceVersion and the users whose edit its     *)
(* endpoints hold.  Objects are those that the namespace and the list      *)
(* options of the factory select.  The factory has one resource, so the    *)
(* maps informers and startedInformers are one value each.                 *)
(***************************************************************************)
EXTENDS Naturals, Sequences

CONSTANTS Users,
          Objects,
          Absent,
          MaxWrites,   \* bound: writes the API server accepts
          MaxBreaks    \* bound: watches that are lost

Configurations == [resourceVersion : 0 .. MaxWrites, edits : SUBSET Users]

ASSUME ConfigurationInformersAssumption ==
    /\ MaxWrites \in Nat /\ MaxBreaks \in Nat
    /\ Absent \notin Configurations

None == 0    \* no informer

VARIABLES live, writes,         \* API server
          events, seen, mark,   \* the informer that was run last (ObjectEvents)
          running,      \* it, or None
          populated,    \* its first list is queued
          unheard,      \* the objects of its first list not yet in the indexer
          breaks,
          informers,         \* factory: the informer
          startedInformers,  \* factory: whether it was started
          made,         \* how many informers were created
          stopped,      \* stopCh is closed
          lister,       \* for each user the informer whose lister it uses, or None
          wait,         \* for each user its call of WaitForCacheSync
          working,      \* for each user the object it edits, or Absent
          possible      \* history: what each object has been since the first Start

serverVars == <<live, writes, possible>>
informerVars == <<events, seen, mark, running, populated, unheard, breaks>>
factoryVars == <<informers, startedInformers, made, stopped>>
userVars == <<lister, wait, working>>
vars == <<serverVars, informerVars, factoryVars, userVars>>

Shared == INSTANCE ObjectEvents WITH Versions <- Configurations

Idle == [state |-> "idle", informer |-> None]

Init == /\ live \in [Objects -> {Absent, [resourceVersion |-> 0, edits |-> {}]}]
        /\ Shared!Empty
        /\ writes = 0
        /\ possible = [o \in Objects |-> {}]
        /\ running = None /\ populated = FALSE /\ unheard = {} /\ breaks = 0
        /\ informers = None /\ startedInformers = FALSE /\ made = 0
        /\ stopped = FALSE
        /\ lister = [u \in Users |-> None]
        /\ wait = [u \in Users |-> Idle]
        /\ working = [u \in Users |-> Absent]
-----------------------------------------------------------------------------
(* The factory; each call holds its lock.                                   *)

\* Mutant: the informer that exists is not returned.
InformerForAnew == /\ informers' = made + 1
                   /\ made' = made + 1

InformerFor == IF informers # None
               THEN UNCHANGED <<informers, made>>
               ELSE /\ informers' = made + 1
                    /\ made' = made + 1

\* Informer, Lister or ForResource.
Request(u) == /\ lister[u] = None
              /\ InformerFor
              /\ lister' = [lister EXCEPT ![u] = informers']
              /\ UNCHANGED <<serverVars, informerVars, startedInformers, stopped,
                             wait, working>>

\* Mutant: an informer is started with every call.
StartableAlways == informers # None

Startable == informers # None /\ ~ startedInformers

\* Start runs the informer with a new DeltaFIFO.
Start == /\ Startable
         /\ startedInformers' = TRUE
         /\ running' = informers
         /\ populated' = FALSE /\ unheard' = {}
         /\ events' = [o \in Objects |-> <<>>] /\ mark' = [o \in Objects |-> 0]
         /\ possible' = IF startedInformers THEN possible
                                            ELSE [o \in Objects |-> {live[o]}]
         /\ UNCHANGED <<live, writes, seen, breaks, informers, made, stopped, userVars>>

\* WaitForCacheSync collects the informers that were started, and returns at
\* once if there is none ...
Wait(u) == /\ wait[u] = Idle
           /\ startedInformers
           /\ wait' = [wait EXCEPT ![u] = [state |-> "waiting", informer |-> informers]]
           /\ UNCHANGED <<serverVars, informerVars, factoryVars, lister, working>>

HasSynced(i) == i = running /\ populated /\ unheard = {}

\* ... and without the lock polls HasSynced of each until it is true or stopCh
\* is closed.
WaitReturns(u) ==
    /\ wait[u].state = "waiting"
    /\ \/ HasSynced(wait[u].informer) /\ wait' = [wait EXCEPT ![u].state = "synced"]
       \/ stopped /\ wait' = [wait EXCEPT ![u] = Idle]
    /\ UNCHANGED <<serverVars, informerVars, factoryVars, lister, working>>

Stop == /\ ~ stopped /\ startedInformers
        /\ stopped' = TRUE
        /\ UNCHANGED <<serverVars, informerVars, informers, startedInformers, made, userVars>>
-----------------------------------------------------------------------------
(* The informer.                                                            *)

FirstList == /\ running # None /\ ~ stopped /\ ~ populated
             /\ Shared!List
             /\ unheard' = {o \in Objects : live[o] # Absent}
             /\ UNCHANGED <<writes, possible, running, populated, breaks,
                            factoryVars, userVars>>

\* A watch fails, and the informer lists again.
ListAgain == /\ populated /\ ~ stopped /\ breaks < MaxBreaks
             /\ Shared!List
             /\ breaks' = breaks + 1
             /\ UNCHANGED <<writes, possible, running, populated, unheard, factoryVars, userVars>>

Enlist == /\ Shared!Enlist
          /\ populated' = TRUE
          /\ unheard' = {o \in unheard : events'[o] # <<>>}
          /\ UNCHANGED <<writes, possible, running, breaks, factoryVars, userVars>>

\* HandleDeltas brings the indexer up to date.
HandleDeltas(o) == /\ Shared!Deliver(o)
                   /\ unheard' = unheard \ {o}
                   /\ UNCHANGED <<writes, possible, running, populated, breaks,
                                  factoryVars, userVars>>
-----------------------------------------------------------------------------
(* The typed client.                                                        *)

\* The API server accepts a write; what comes before the first list of the
\* informer is no event for it.
Write(o, v) == /\ writes < MaxWrites
               /\ writes' = writes + 1
               /\ IF populated \/ Shared!Listing
                  THEN Shared!Change(o, v)
                  ELSE /\ live' = [live EXCEPT ![o] = v]
                       /\ UNCHANGED <<events, seen, mark>>
               /\ possible' = [possible EXCEPT ![o] =
                                 IF startedInformers THEN @ \cup {v} ELSE @]

\* The object with the resourceVersion of the write that stores it.
Stored(edits) == [resourceVersion |-> writes + 1, edits |-> edits]

Others == <<running, populated, unheard, breaks, factoryVars, lister, wait>>

Create(o) == /\ live[o] = Absent
             /\ Write(o, Stored({}))
             /\ UNCHANGED <<Others, working>>

\* Delete and, for each object, DeleteCollection.
Delete(o) == /\ live[o] # Absent
             /\ Write(o, Absent)
             /\ UNCHANGED <<Others, working>>

\* A patch names no resourceVersion and leaves the rest as it is.
Patch(o) == /\ live[o] # Absent
            /\ Write(o, Stored(live[o].edits))
            /\ UNCHANGED <<Others, working>>

Edited(u, content) == [content EXCEPT !.edits = @ \cup {u}]

\* Mutant: the slices in the endpoints are shared with the copy.
OriginalShared(content, copy) == [content EXCEPT !.edits = copy.edits]

\* DeepCopy copies the metadata, the endpoints and all slices within, and so
\* leaves the original as it is when the copy is edited in place.
Original(content, copy) == content

Indexed(u) == IF lister[u] = running THEN seen ELSE [o \in Objects |-> Absent]

\* A user gets an object from the lister, copies it, for it belongs to the
\* indexer, and edits the copy.
EditFromLister(u, o) ==
    /\ lister[u] # None
    /\ working[u] = Absent
    /\ Indexed(u)[o] # Absent
    /\ LET copy == Edited(u, seen[o])
       IN  /\ working' = [working EXCEPT ![u] = [object |-> o, content |-> copy]]
           /\ seen' = [seen EXCEPT ![o] = Original(@, copy)]
    /\ UNCHANGED <<serverVars, events, mark, Others>>

\* A user edits what the client's Get returns.
EditFromGet(u, o) ==
    /\ working[u] = Absent
    /\ live[o] # Absent
    /\ working' = [working EXCEPT ![u] = [object |-> o, content |-> Edited(u, live[o])]]
    /\ UNCHANGED <<serverVars, events, seen, mark, Others>>

\* Mutant: the body comes without its metadata, as in a patch.
AcceptedAlways(o, content) == live[o] # Absent

\* The API server takes the body of an update only for the version it names.
Accepted(o, content) ==
    live[o] # Absent /\ live[o].resourceVersion = content.resourceVersion

\* Update, which fails if the object has changed in the meantime.
Update(u) ==
    /\ working[u] # Absent
    /\ LET o == working[u].object
           content == working[u].content
       IN  IF Accepted(o, content)
           THEN Write(o, Stored(content.edits))
           ELSE UNCHANGED <<serverVars, events, seen, mark>>
    /\ working' = [working EXCEPT ![u] = Absent]
    /\ UNCHANGED Others
-----------------------------------------------------------------------------
Next == \/ \E u \in Users : \/ Request(u)
                            \/ Wait(u) \/ WaitReturns(u)
                            \/ Update(u)
        \/ \E u \in Users, o \in Objects : EditFromLister(u, o) \/ EditFromGet(u, o)
        \/ \E o \in Objects : \/ Create(o) \/ Delete(o) \/ Patch(o)
                              \/ HandleDeltas(o)
        \/ Start \/ Stop
        \/ FirstList \/ ListAgain \/ Enlist

\* The informer's goroutines run, and the polls of WaitForCacheSync.
Spec == /\ Init /\ [][Next]_vars
        /\ WF_vars(FirstList) /\ WF_vars(Enlist)
        /\ \A o \in Objects : WF_vars(HandleDeltas(o))
        /\ \A u \in Users : WF_vars(WaitReturns(u))
-----------------------------------------------------------------------------
Contents == Configurations \cup {Absent}

TypeOK == /\ live \in [Objects -> Contents] /\ seen \in [Objects -> Contents]
          /\ writes \in 0 .. MaxWrites
          /\ events \in [Objects -> Seq(Contents)]
          /\ mark \in [Objects -> Nat]
          /\ informers \in 0 .. made
          /\ made \in 0 .. 1
          /\ running \in {None, informers}
          /\ startedInformers \in BOOLEAN /\ stopped \in BOOLEAN /\ populated \in BOOLEAN
          /\ unheard \subseteq Objects
          /\ breaks \in 0 .. MaxBreaks
          /\ lister \in [Users -> {None, informers}]
          /\ wait \in [Users -> [state : {"idle", "waiting", "synced"}, informer : {None, informers}]]
          /\ working \in [Users -> [object : Objects, content : Configurations] \cup {Absent}]
          /\ possible \in [Objects -> SUBSET Contents]

\* After WaitForCacheSync has answered true, whoever has a lister finds each
\* object there as the API server had it since the informer was started: not
\* missing, not older, and never as some user is just editing it.
ListerShowsServer ==
    \A u, w \in Users :
        wait[u].state = "synced" /\ lister[w] # None =>
            \A o \in Objects : Indexed(w)[o] \in possible[o]

\* "This allows Start() to be called multiple times safely", factory.go:47: an
\* informer that has synced is not run again, which would make it list anew.
SyncedStays ==
    \A u \in Users : wait[u].state = "synced" => HasSynced(informers)

\* An update of one user never removes the edit of another that it has not
\* seen, whatever both read from the lister or the server.
EditsKept ==
    [][\A o \in Objects :
          live[o] # Absent /\ live'[o] # Absent => live[o].edits \subseteq live'[o].edits]_vars

\* WaitForCacheSync returns to every caller.
WaitEnds == \A u \in Users : wait[u].state = "waiting" ~> wait[u].state # "waiting"
=============================================================================
