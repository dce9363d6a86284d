----------------------------- MODULE Controller -----------------------------
(***************************************************************************)
(* The whole controller: pods and configmaps change in the API server, the *)
(* two informers call addrAddFunc, addrUpdateFunc and updatePorts, which   *)
(* fill one of two shared stores and send a pointer to it, and a worker    *)
(* applies the store it receives to the kernel.                            *)
(*                                                                         *)
(* Below it lie four modules.  A handler is one step, because the mutex    *)
(* keeps other handlers and the workers out (EventQueue, whose promise is  *)
(* LBChannel); what an informer notifies is the promise of Informer        *)
(* (ObjectEvents); L4Utils gives what L4Compare does; the kernel is the    *)
(* set of routes that LvsManager implements (RouteTable).  Keys of         *)
(* configmaps are valid ports here.                                        *)
(*                                                                         *)
(* A version of a pod is the phase of its life, one of a configmap the set *)
(* of its ports; a store's Addr map is the set of its actions and pods,    *)
(* whose names make the keys of the map.                                   *)
(***************************************************************************)
EXTENDS L4Utils, Sequences, SequencesExt

CONSTANTS Pods,
          Nginx,         \* the pods whose name contains nginxPattern
          IP,            \* the host address of each pod
          Protos,
          PortNumbers,   \* the ports a configmap may name
          Capacity,      \* make(chan *LBStore, 3)
          Environments,  \* the environments the controller may run in
          NoStore,
          Absent         \* no such pod, no such configmap

Doings == {"pods",     \* pods come and go
           "ports",    \* the ports of a configmap change, no pod terminating
           "anytime",  \* they change while a pod terminates, too
           "cms",      \* a configmap is deleted or created
           "crashed",  \* a pod fails and becomes ready again
           "force",    \* a pod is deleted without further updates
           "sharing",  \* a pod starts on a host that another has not left
           "window",   \* all this also between the lists of Initial and the informers
           "gap",      \* a watch is lost, and the informer lists again
           "kill",     \* the controller is killed and restarted
           "list",     \* a List call of a handler fails
           "netlink"}  \* a call to the kernel fails

Phases == {"pending", "running", "ready", "crashed", "terminating", "terminated"}

ASSUME ControllerAssumption ==
    /\ Nginx \subseteq Pods
    /\ DOMAIN IP = Pods
    /\ PortNumbers \subseteq Ports \ {0}
    /\ Capacity \in Nat \ {0}
    /\ NoStore \notin {"plbdata", "clbdata"}
    /\ Absent \notin Phases /\ \A ports \in SUBSET PortNumbers : Absent # ports
    /\ Pods \cap Protos = {} /\ {"pods", "cms"} \cap (Pods \cup Protos) = {}
    /\ Environments \subseteq
          [doings : SUBSET Doings,
           pods : SUBSET Pods,      \* those there are
           protos : SUBSET Protos,  \* those whose configmap is not empty for ever
           hurried : BOOLEAN,  \* a change may come before the last is applied
           max : Nat]          \* bound: changes, crashes and lost watches

VARIABLES env,        \* one of Environments
          pod,        \* API server: the phase of each pod
          cm,         \* API server: per protocol the ports of the configmap
          changes,    \* how often something has happened
          podEvents, seen, podMark,   \* the pod informer (ObjectEvents)
          cmEvents, cmSeen, cmMark,   \* the configmap informer
          Ex, Nw,     \* the port caches of updatePorts
          store,      \* plbdata and clbdata
          queue,      \* the channel lbstore
          applying,   \* the store a worker applies, or NoStore
          todo,       \* the keys of its Addr map not yet visited
          routes,     \* the kernel
          stage,      \* of the process: "down", "starting", "running"
          listed,     \* the informers that have listed
          unheard,    \* their first lists not queued, and the objects of
                      \* these not handled yet
          missed,     \* history: configmaps whose last version no handler was told
          fresh       \* nothing has happened since the process started

apiVars == <<env, pod, cm, changes>>
podVars == <<podEvents, seen, podMark>>
cmVars == <<cmEvents, cmSeen, cmMark>>
cacheVars == <<Ex, Nw, store>>
workerVars == <<applying, todo, routes>>
startVars == <<stage, listed, unheard, missed, fresh>>
vars == <<apiVars, podVars, cmVars, cacheVars, queue, workerVars, startVars>>

PodInformer == INSTANCE ObjectEvents
    WITH Objects <- Pods, Versions <- Phases,
         live <- pod, events <- podEvents, mark <- podMark

CmInformer == INSTANCE ObjectEvents
    WITH Objects <- Protos, Versions <- SUBSET PortNumbers,
         live <- cm, events <- cmEvents, seen <- cmSeen, mark <- cmMark

Chan == INSTANCE LBChannel
    WITH Stores <- {"plbdata", "clbdata"}, First <- "plbdata", channel <- queue

May(doing) == doing \in env.doings

\* Mutant: a pod's readiness is looked at, not its address.
HasIPReady(phase) == phase = "ready"

\* pod.Status.PodIP != "", and GetDeletionTimestamp() != nil.
HasIP(phase) == phase \notin {Absent, "pending"}
Deleting(phase) == phase \in {"terminating", "terminated"}

EmptyPorts == [pr \in Protos |-> EmptyDelta]

\* The keys of the configmap's data.
Data(v) == IF v = Absent THEN {} ELSE v
Configured(pr) == Data(cm[pr])

\* listCm: every port of the configmaps is to be added.
listCm == [pr \in Protos |-> [p \in Configured(pr) |-> addition]]

\* listNginx: the nginx pods that have an address, terminating ones included.
listNginx == {<<addition, p>> : p \in {q \in Nginx : HasIP(pod[q])}}
-----------------------------------------------------------------------------
\* A host has one pod at the start.
Init ==
    /\ env \in Environments
    /\ pod \in {f \in [Pods -> {Absent, "ready"}] :
                   /\ \A p \in Pods \ env.pods : f[p] = Absent
                   /\ \A p, q \in Pods : IP[p] = IP[q] /\ p # q => Absent \in {f[p], f[q]}}
    /\ cm \in {f \in [Protos -> SUBSET PortNumbers] :
                  \A pr \in Protos \ env.protos : f[pr] = {}}
    /\ changes = 0
    /\ PodInformer!Empty /\ CmInformer!Empty
    /\ Ex = [pr \in Protos |-> {}] /\ Nw = [pr \in Protos |-> {}]
    /\ store = [s \in {"plbdata", "clbdata"} |-> [addr |-> {}, ports |-> EmptyPorts]]
    /\ queue = <<>> /\ applying = NoStore /\ todo = {}
    /\ routes = {}
    /\ stage = "down" /\ listed = {} /\ unheard = {}
    /\ missed = {} /\ fresh = FALSE

\* Mutant: the kernel table is not flushed.
UnflushedRoutes == routes

\* What lm.handle.Flush leaves.
FlushedRoutes == {}

\* Mutant: Initial does not fill the port caches.
InitialCacheEmpty == [pr \in Protos |-> {}]

\* tcpExSvc and udpExSvc after Initial.
InitialCache == [pr \in Protos |-> Configured(pr)]

\* NewLoadBalancerController flushes the kernel table; Initial fills the cache
\* and plbdata from one List of each kind and sends plbdata; Run starts the
\* informers.
Start ==
    /\ stage = "down"
    /\ routes' \in {FlushedRoutes} \cup (IF May("netlink") THEN {routes} ELSE {})
    /\ Ex' = InitialCache
    /\ Nw' = [pr \in Protos |-> {}]
    /\ store' = [plbdata |-> [addr |-> listNginx, ports |-> listCm],
                 clbdata |-> [addr |-> {}, ports |-> EmptyPorts]]
    /\ queue' = <<"plbdata">>
    /\ applying' = NoStore
    /\ todo' = {}
    /\ podEvents' = [p \in Pods |-> <<>>] /\ seen' = [p \in Pods |-> Absent]
    /\ podMark' = [p \in Pods |-> 0]
    /\ cmEvents' = [pr \in Protos |-> <<>>] /\ cmSeen' = [pr \in Protos |-> Absent]
    /\ cmMark' = [pr \in Protos |-> 0]
    /\ stage' = "starting"
    /\ listed' = {} /\ unheard' = {} /\ missed' = {}
    /\ fresh' = TRUE
    /\ UNCHANGED apiVars

\* Each informer lists for the first time, and notifies all it finds.  Of what
\* happened before it has received nothing.
FirstList ==
    /\ stage = "starting"
    /\ \/ /\ "pods" \notin listed
          /\ PodInformer!List /\ podMark' = [p \in Pods |-> 1]
          /\ listed' = listed \cup {"pods"}
          /\ unheard' = unheard \cup {"pods"} \cup {p \in Pods : pod[p] # Absent}
          /\ UNCHANGED <<cm, cmVars>>
       \/ /\ "cms" \notin listed
          /\ CmInformer!List /\ cmMark' = [pr \in Protos |-> 1]
          /\ listed' = listed \cup {"cms"}
          /\ unheard' = unheard \cup {"cms"} \cup {pr \in Protos : cm[pr] # Absent}
          /\ UNCHANGED <<pod, podVars>>
    /\ UNCHANGED <<env, changes, cacheVars, queue, workerVars, stage, missed, fresh>>

\* An informer queues what it has listed.  An object that a second list finds
\* gone is not waited for.
Enlist ==
    /\ stage # "down"
    /\ \/ /\ PodInformer!Enlist
          /\ unheard' = unheard \ ({"pods"} \cup {p \in Pods : podEvents'[p] = <<>>})
          /\ UNCHANGED <<cm, cmVars>>
       \/ /\ CmInformer!Enlist
          /\ unheard' = unheard \ ({"cms"} \cup {pr \in Protos : cmEvents'[pr] = <<>>})
          /\ UNCHANGED <<pod, podVars>>
    /\ UNCHANGED <<env, changes, cacheVars, queue, workerVars, stage, listed,
                   missed, fresh>>

\* A handler waits for room in the channel, and its informer with it.
HandlerBlocked ==
    /\ Len(queue) = Capacity
    /\ \/ \E p \in Pods : PodInformer!Next(p) # Absent /\ HasIP(seen[p])
       \/ \E pr \in Protos : Absent \notin {CmInformer!Next(pr), cmSeen[pr]}
                             /\ CmInformer!Next(pr) # cmSeen[pr]

\* WaitForCacheSync returns, unless a blocked handler holds the lock that
\* HasSynced needs (Startup), and Run starts the workers.
Run == /\ stage = "starting"
       /\ listed = {"pods", "cms"}
       /\ unheard = {}
       /\ ~ HandlerBlocked
       /\ stage' = "running"
       /\ UNCHANGED <<apiVars, podVars, cmVars, cacheVars, queue, workerVars,
                      listed, unheard, missed, fresh>>
-----------------------------------------------------------------------------
\* All notifications are handled and every store that was sent is applied.
Settled == /\ stage = "running"
           /\ \A p \in Pods : podEvents[p] = <<>>
           /\ \A pr \in Protos : cmEvents[pr] = <<>>
           /\ queue = <<>> /\ applying = NoStore

\* Something happens to the process or around it.
Happens == /\ changes < env.max
           /\ stage # "down"
           /\ changes' = changes + 1
           /\ fresh' = FALSE

\* An object changes, which the informers have listed.
MayChange ==
    /\ Happens
    /\ \/ May("window") /\ stage = "starting"
       \/ listed = {"pods", "cms"} /\ (env.hurried \/ Settled)

\* The life of a pod, as the API server shows it.
LifeFrom(phase) ==
    CASE phase = Absent        -> {"pending"}
      [] phase = "pending"     -> {"running"}
      [] phase = "running"     -> {"ready"}
      [] phase = "ready"       -> {"terminating"} \cup ({"crashed"} \cap env.doings)
      [] phase = "crashed"     -> {"ready"}
      [] phase = "terminating" -> {"terminated"}
      [] phase = "terminated"  -> {Absent}

\* Nobody else has the ports of the host of p.
HostFree(p) == \A q \in Pods \ {p} : IP[q] = IP[p] => ~ HasIP(pod[q])

PodChanges(p) ==
    /\ MayChange
    /\ May("pods") /\ p \in env.pods
    /\ \/ \E phase \in LifeFrom(pod[p]) :
             /\ phase = "running" => HostFree(p) \/ May("sharing")
             /\ PodInformer!Change(p, phase)
       \/ May("force") /\ PodInformer!Change(p, Absent)
    /\ UNCHANGED <<env, cm, cmVars, cacheVars, queue, workerVars, stage,
                   listed, unheard, missed>>

CmChanges(pr) ==
    /\ MayChange
    /\ May("ports") /\ pr \in env.protos
    /\ May("anytime") \/ \A p \in Pods : ~ Deleting(pod[p])
    /\ \E v \in (SUBSET PortNumbers) \cup (IF May("cms") THEN {Absent} ELSE {}) :
          /\ v # cm[pr]
          /\ CmInformer!Change(pr, v)
    /\ UNCHANGED <<env, pod, podVars, cacheVars, queue, workerVars, stage,
                   listed, unheard, missed>>

\* A watch is lost for a while, and the informer lists again.
WatchLost ==
    /\ Happens
    /\ May("gap")
    /\ \/ "pods" \in listed /\ PodInformer!List /\ UNCHANGED <<cm, cmVars>>
       \/ "cms" \in listed /\ CmInformer!List /\ UNCHANGED <<pod, podVars>>
    /\ UNCHANGED <<env, cacheVars, queue, workerVars, stage,
                   listed, unheard, missed>>

\* The process dies; it loses all but the kernel table.
Kill == /\ Happens
        /\ May("kill")
        /\ stage' = "down"
        /\ UNCHANGED <<env, pod, cm, podVars, cmVars, cacheVars, queue, workerVars,
                       listed, unheard, missed>>
-----------------------------------------------------------------------------
\* A List call inside a handler may fail, and the handler goes on with the map
\* it has.
MayFail(good, stale) == {good} \cup (IF May("list") THEN {stale} ELSE {})

\* addrAddFunc: it takes no lock.  While a worker ranges over the map the new
\* key may be visited or not, or the runtime stops the process ("concurrent
\* map iteration and map write").
AddrAdd(p, phase) ==
    LET key == <<addition, p>>
    IN  IF p \in Nginx /\ HasIP(phase)
        THEN \/ /\ store' = [store EXCEPT !.plbdata.addr = @ \cup {key}]
                /\ todo' \in IF applying = "plbdata" THEN {todo, todo \cup {key}}
                                                     ELSE {todo}
                /\ UNCHANGED <<queue, applying, stage>>
             \/ /\ applying = "plbdata"
                /\ stage' = "down"
                /\ UNCHANGED <<store, todo, queue, applying>>
        ELSE UNCHANGED <<store, todo, queue, applying, stage>>

\* Mutant: the deletion timestamp is not looked at.
UpdateActionAlive(phase) == addition

UpdateAction(phase) == IF Deleting(phase) THEN deletion ELSE addition

\* Mutant: the handler does not wait for room in the channel.
SendNoWait(s) == /\ applying = NoStore
                 /\ queue' = Append(queue, s)
                 /\ UNCHANGED applying

\* Wait for room, send, unlock.
Send(s) == Chan!Put(s)

\* addrUpdateFunc(newobj, oldobj) is called with the old version first, so it
\* acts on that one.  There is no nginxPattern here.
AddrUpdate(p, old) ==
    IF HasIP(old)
    THEN /\ Send("plbdata")
         /\ \E ports \in MayFail(listCm, store.plbdata.ports) :
               store' = [store EXCEPT !.plbdata =
                           [addr |-> {<<UpdateAction(old), p>>}, ports |-> ports]]
         /\ UNCHANGED <<todo, stage>>
    ELSE UNCHANGED <<store, todo, queue, applying, stage>>

\* The pod informer notifies its handler; there is none for a deletion.
PodNotified ==
    /\ stage # "down"
    /\ \E p \in Pods :
          LET next == PodInformer!Next(p)
          IN  /\ PodInformer!Deliver(p)
              /\ CASE next = Absent    -> UNCHANGED <<store, todo, queue, applying, stage>>
                   [] seen[p] = Absent -> AddrAdd(p, next)
                   [] OTHER            -> AddrUpdate(p, seen[p])
              /\ unheard' = unheard \ {p}
    /\ UNCHANGED <<env, changes, cm, cmVars, Ex, Nw, routes, listed, missed, fresh>>

\* updatePorts: the data of the configmap has changed.
UpdatePorts(pr, ports) ==
    LET result == L4Compare(Ex[pr], Nw[pr] \cup ports, store.clbdata.ports[pr])
    IN  /\ Send("clbdata")
        /\ Ex' = [Ex EXCEPT ![pr] = result.old]
        /\ Nw' = [Nw EXCEPT ![pr] = result.new]
        /\ \E addr \in MayFail(listNginx, store.clbdata.addr) :
              store' = [store EXCEPT !.clbdata.addr = addr,
                                     !.clbdata.ports[pr] = result.delta]

\* There is no handler for a configmap that comes or goes.
NotTold(pr, next) ==
    /\ missed' = IF Data(next) = Ex[pr] THEN missed \ {pr} ELSE missed \cup {pr}
    /\ UNCHANGED <<cacheVars, queue, applying>>

\* The configmap informer notifies updatePorts, which does nothing if the data
\* are the same.
CmNotified ==
    /\ stage # "down"
    /\ \E pr \in Protos :
          LET next == CmInformer!Next(pr)
              told == Absent \notin {next, cmSeen[pr]}
          IN  /\ CmInformer!Deliver(pr)
              /\ \/ ~ told /\ NotTold(pr, next)
                 \/ /\ told /\ next = cmSeen[pr]
                    /\ UNCHANGED <<missed, cacheVars, queue, applying>>
                 \/ /\ told /\ next # cmSeen[pr]
                    /\ UpdatePorts(pr, next)
                    /\ missed' = missed \ {pr}
              /\ unheard' = unheard \ {pr}
    /\ UNCHANGED <<env, changes, pod, podVars, todo, routes, stage, listed, fresh>>
-----------------------------------------------------------------------------
\* Mutant: the worker waits while there is one store, not none.
ItemReadyLate == Len(queue) > 1

\* The wait loop of processItem ends.
ItemReady == queue # <<>>

\* processItem receives a pointer ...
Receive == /\ stage = "running"
           /\ ItemReady
           /\ Chan!Take
           /\ todo' = store[applying'].addr
           /\ UNCHANGED <<apiVars, podVars, cmVars, cacheVars, routes, startVars>>

\* Per protocol, the loop over the ports to add, or to delete, at an address.
RoutesAt(addr, ports) ==
    {<<addr, r[2], r[1]>> : r \in {x \in Protos \X PortNumbers : x[2] \in ports[x[1]]}}

\* ... visits the keys of its Addr map in any order: Add and Del for the ports
\* of an address to add, DelRServer for one to delete.  What a call fails to
\* do is logged and left ...
ProcessAddr ==
    /\ stage = "running"
    /\ \E key \in todo :
          LET addr == IP[key[2]]
              ports == store[applying].ports
              new == IF key[1] = addition
                     THEN RoutesAt(addr, [pr \in Protos |-> Adds(ports[pr])]) ELSE {}
              old == IF key[1] = addition
                     THEN RoutesAt(addr, [pr \in Protos |-> Dels(ports[pr])])
                     ELSE {r \in routes : r[1] = addr}
          IN  /\ \E failed \in IF May("netlink") THEN SUBSET (new \cup old) ELSE {{}} :
                    routes' = (routes \cup (new \ failed)) \ (old \ failed)
              /\ todo' = todo \ {key}
    /\ UNCHANGED <<apiVars, podVars, cmVars, cacheVars, queue, applying, startVars>>

\* ... and unlocks.
Finish == /\ stage = "running"
          /\ todo = {}
          /\ Chan!Done
          /\ UNCHANGED <<apiVars, podVars, cmVars, cacheVars, todo, routes, startVars>>

Next == \/ \E p \in Pods : PodChanges(p)
        \/ \E pr \in Protos : CmChanges(pr)
        \/ WatchLost \/ Kill
        \/ Start \/ FirstList \/ Enlist \/ Run
        \/ PodNotified \/ CmNotified
        \/ Receive \/ ProcessAddr \/ Finish

Spec == Init /\ [][Next]_vars

\* The informers list and call their handlers one after the other, a worker
\* that can run does, and whoever runs the controller starts it again; the
\* changes end.
FairSpec == /\ Spec
            /\ WF_vars(Start) /\ WF_vars(FirstList) /\ WF_vars(Enlist) /\ WF_vars(Run)
            /\ WF_vars(PodNotified) /\ WF_vars(CmNotified)
            /\ WF_vars(Receive) /\ WF_vars(ProcessAddr) /\ WF_vars(Finish)
-----------------------------------------------------------------------------
TypeOK == /\ env \in Environments
          /\ pod \in [Pods -> Phases \cup {Absent}] /\ seen \in [Pods -> Phases \cup {Absent}]
          /\ \A p \in Pods : podEvents[p] \in Seq(Phases \cup {Absent})
          /\ \A pr \in Protos :
                /\ {cm[pr], cmSeen[pr]} \subseteq (SUBSET PortNumbers) \cup {Absent}
                /\ cmEvents[pr] \in Seq((SUBSET PortNumbers) \cup {Absent})
                /\ Ex[pr] \subseteq PortNumbers /\ Nw[pr] \subseteq PortNumbers
          /\ \A s \in {"plbdata", "clbdata"} :
                /\ store[s].addr \subseteq Actions \X Pods
                /\ \A pr \in Protos :
                      /\ DOMAIN store[s].ports[pr] \subseteq PortNumbers
                      /\ Range(store[s].ports[pr]) \subseteq Actions
          /\ Len(queue) <= Capacity
          /\ applying \in {"plbdata", "clbdata", NoStore}
          /\ todo \subseteq Actions \X Pods
          /\ routes \subseteq Range(IP) \X PortNumbers \X Protos
          /\ stage \in {"down", "starting", "running"}
          /\ listed \subseteq {"pods", "cms"}
          /\ unheard \subseteq {"pods", "cms"} \cup Pods \cup Protos /\ missed \subseteq Protos

Serves(p) == {<<r[3], r[2]>> : r \in {x \in routes : x[1] = IP[p]}}
ConfiguredPorts == {x \in Protos \X PortNumbers : x[2] \in Configured(x[1])}

\* A change finds the last one applied; there is one pod only.
Calm == ~ env.hurried
Alone == \A p, q \in env.pods : p = q

\* Everything that can happen is one of these.
Only(doings) == env.doings \subseteq doings

\* When everything is applied, a ready nginx pod serves every configured port,
\* whatever else terminates, crashes, is deleted or restarted.
ReadyServed ==
    /\ Settled
    /\ \/ Calm /\ Only({"pods", "ports", "anytime", "crashed", "force", "kill"})
       \/ Alone /\ Only({"pods", "crashed", "force", "kill"})
    => \A p \in Nginx : pod[p] = "ready" => ConfiguredPorts \subseteq Serves(p)

\* ... and no other port, if only nginx pods share hosts.
OnlyConfigured ==
    /\ Settled
    /\ Calm
    /\ \/ Only({"pods", "ports", "crashed"})
       \/ Only({"pods", "ports", "crashed", "sharing"}) /\ env.pods \subseteq Nginx
       \/ Only({"ports", "anytime", "gap", "kill"})
    => \A p \in Nginx : pod[p] = "ready" => Serves(p) \subseteq ConfiguredPorts

\* ... and a host serves nothing once the containers of its pods have stopped.
StoppedUnserved ==
    /\ Settled
    /\ \/ Calm /\ Only({"pods", "ports", "crashed", "cms", "sharing"})
       \/ Alone /\ Only({"pods", "crashed"})
    => \A p \in Nginx :
          (\A q \in Pods : IP[q] = IP[p] => pod[q] \in {"terminated", Absent})
             => Serves(p) = {}

\* Whatever a crash leaves behind, a restarted controller rebuilds the routes
\* from one listing, before anything else happens.
FreshStartSynced ==
    Settled /\ fresh /\ ~ May("netlink") =>
        routes = {<<IP[p], r[2], r[1]>> :
                    p \in {q \in Nginx : HasIP(pod[q])}, r \in ConfiguredPorts}

\* No port of the configmap that was notified last is missing in the cache,
\* unless it came with a notification that reached no handler; and the map to
\* send never contradicts the cache.
CacheComplete ==
    stage = "running" => \A pr \in Protos :
        /\ cmSeen[pr] = cm[pr] /\ pr \notin missed => Configured(pr) \subseteq Ex[pr]
        /\ Adds(store.clbdata.ports[pr]) \subseteq Ex[pr]
        /\ Dels(store.clbdata.ports[pr]) \cap Ex[pr] = {}

\* The controller always gets to the end of its work, unless it never started
\* (Startup).
EventuallySettled == []<>(Settled \/ (stage = "starting" /\ HandlerBlocked))
-----------------------------------------------------------------------------
\* docs/design.md:45-46, "del nginx-controller: same as crash", that is
\* "trigger to sync del": a pod that is gone is taken out of the kernel.
DeletedRemoved ==
    Settled => \A p \in Pods : pod[p] = Absent => Serves(p) = {}
=============================================================================
