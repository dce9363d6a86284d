----------------------------- MODULE PortTracker -----------------------------
(***************************************************************************)
(* The port cache of the configmap handler (updatePorts and L4Compare in   *)
(* pkg/controller) and its effect on the kernel through the channel: per   *)
(* protocol the configmap as last delivered, the maps Ex and Nw, and the   *)
(* map of clbdata that the worker applies.                                 *)
(*                                                                         *)
(* The channel carries the pointer clbdata, so what a worker applies is    *)
(* what the map holds then, not what it held when the pointer was sent.    *)
(* One real server is assumed and never changes; the ports it serves in    *)
(* the kernel are in served.  A handler and a worker exclude each other    *)
(* and the channel is first-in first-out (module EventQueue), so each is   *)
(* one step here.                                                          *)
(***************************************************************************)
EXTENDS L4Utils

CONSTANTS Protos,     \* tcp and udp
          Keys,       \* the keys a configmap may have
          Values,     \* the values a configmap may have
          Capacity    \* make(chan *LBStore, 3)

ASSUME TrackerAssumption ==
    /\ Keys \subseteq Int
    /\ Capacity \in Nat \ {0}

VARIABLES data,     \* per protocol: the configmap as last delivered
          Ex,       \* ExTcp and ExUdp
          Nw,       \* NwTcp and NwUdp
          delta,    \* clbdata.Tcp and clbdata.Udp
          pending,  \* the number of clbdata pointers in the channel
          served,   \* per protocol: the ports the kernel serves
          fate      \* history, per protocol: what became of the last change

vars == <<data, Ex, Nw, delta, pending, served, fate>>

\* applied    a worker has applied the last change of Ex
\* waiting    none has yet
\* overtaken  some change came while the one before it was waiting
Fates == {"applied", "waiting", "overtaken"}

ConfigMaps == UNION {[S -> Values] : S \in SUBSET Keys}

DataPorts(cm) == PortsOf(DOMAIN cm)

\* After Initial and the informer's own first List, which may see a later
\* configmap than Initial did: there is no handler for its Add events.
Init ==
    /\ data \in [Protos -> ConfigMaps]
    /\ \E listed \in [Protos -> SUBSET {k \in Keys : ValidKey(k)}] :
          Ex = [pr \in Protos |-> PortsOf(listed[pr])]
    /\ Nw = [pr \in Protos |-> {}]
    /\ delta = [pr \in Protos |-> EmptyDelta]
    /\ pending = 0
    /\ served = Ex
    /\ fate = [pr \in Protos |-> "applied"]

\* updatePorts(old, new) for the configmap of pr, with old = data[pr].  A
\* resync delivers an equal configmap, and the handler returns early.
UpdatePorts(pr, cm) ==
    LET result == L4Compare(Ex[pr], Nw[pr] \cup DataPorts(cm), delta[pr])
    IN  /\ data[pr] # cm
        /\ pending < Capacity
        /\ data' = [data EXCEPT ![pr] = cm]
        /\ Ex' = [Ex EXCEPT ![pr] = result.old]
        /\ Nw' = [Nw EXCEPT ![pr] = result.new]
        /\ delta' = [delta EXCEPT ![pr] = result.delta]
        /\ pending' = pending + 1
        /\ fate' = [fate EXCEPT ![pr] =
                       IF result.old = Ex[pr] THEN @
                       ELSE IF @ = "applied" THEN "waiting" ELSE "overtaken"]
        /\ UNCHANGED served

\* History: the maps of clbdata are applied.
Applied == [pr \in Protos |-> IF fate[pr] = "waiting" THEN "applied" ELSE fate[pr]]

\* Mutant: the deleted ports of a protocol are not handled.
ProcessAddsOnly ==
    /\ pending > 0
    /\ pending' = pending - 1
    /\ served' = [pr \in Protos |-> served[pr] \cup Adds(delta[pr])]
    /\ fate' = Applied
    /\ UNCHANGED <<data, Ex, Nw, delta>>

\* processItem applies both maps of clbdata to the one real server.
ProcessItem ==
    /\ pending > 0
    /\ pending' = pending - 1
    /\ served' = [pr \in Protos |->
                     (served[pr] \cup Adds(delta[pr])) \ Dels(delta[pr])]
    /\ fate' = Applied
    /\ UNCHANGED <<data, Ex, Nw, delta>>

Next == \/ \E pr \in Protos, cm \in ConfigMaps : UpdatePorts(pr, cm)
        \/ ProcessItem

Spec == Init /\ [][Next]_vars
-----------------------------------------------------------------------------
TypeOK == /\ data \in [Protos -> ConfigMaps]
          /\ Ex \in [Protos -> SUBSET Ports]
          /\ Nw \in [Protos -> SUBSET Ports]
          /\ DOMAIN delta = Protos
          /\ \A pr \in Protos : /\ DOMAIN delta[pr] \subseteq Ports
                                /\ \A p \in DOMAIN delta[pr] :
                                      delta[pr][p] \in Actions
          /\ pending \in 0 .. Capacity
          /\ served \in [Protos -> SUBSET Ports]
          /\ fate \in [Protos -> Fates]

\* Between two updates Nw is empty, or it still holds all of Ex after an
\* update that changed no port; it never holds anything else, so L4Compare
\* cannot re-add a port that a former update removed.
NwEmptyOrEx == \A pr \in Protos : Nw[pr] \in {{}, Ex[pr]}

\* The map of clbdata, which goes to the workers again with every update of
\* the other protocol, never contradicts the cache: it adds only ports that
\* are in Ex and deletes only ports that are not.
DeltaAgreesWithEx ==
    \A pr \in Protos : /\ Adds(delta[pr]) \subseteq Ex[pr]
                       /\ Dels(delta[pr]) \cap Ex[pr] = {}

\* An update never misses a port of the new configmap, whatever earlier
\* updates have left in Nw.
NoMissedAddition ==
    [][\A pr \in Protos : data'[pr] # data[pr] => DataPorts(data'[pr]) \subseteq Ex'[pr]]_vars

\* The map of clbdata is the last change of Ex: an update that changes Ex
\* replaces the map by exactly that change, any other step leaves it alone.
DeltaIsLastChange ==
    [][\A pr \in Protos :
          IF Ex'[pr] = Ex[pr] THEN delta'[pr] = delta[pr]
          ELSE /\ Adds(delta'[pr]) = Ex'[pr] \ Ex[pr]
               /\ Dels(delta'[pr]) = Ex[pr] \ Ex'[pr]]_vars

\* Once the channel is empty the kernel serves the ports of the cache, also
\* after maps were applied repeatedly, unless a change was overtaken by one of
\* the same protocol.  Changes of the other protocol, before, after or in
\* between, do no harm, although they share the store.
KernelFollowsCache ==
    pending = 0 => \A pr \in Protos : fate[pr] # "overtaken" => served[pr] = Ex[pr]
-----------------------------------------------------------------------------
\* README.md:22, "we can simply config tcp/udp configmaps ... then the
\* lvs-nginx-controller will update and reload lvs configs in hot mode": when
\* all updates are applied, the kernel serves the ports of the cache, also
\* when they follow each other quickly.
HotReload == pending = 0 => served = Ex

\* utils.go:71, "need to delete the dead": an update removes from Ex the ports
\* that are not in the new configmap.
DeadPortsDeleted ==
    [][\A pr \in Protos : data'[pr] # data[pr] => Ex'[pr] \subseteq DataPorts(data'[pr])]_vars
==============================================================================
