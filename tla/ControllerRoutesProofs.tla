------------------------ MODULE ControllerRoutesProofs ------------------------
(***************************************************************************)
(* The routes of the kernel for any pods, ports and configmaps and in all  *)
(* environments at once: what ReadyServed, OnlyConfigured and              *)
(* StoppedUnserved say of a settled controller holds in every behaviour.   *)
(*                                                                         *)
(* The part of the inductive invariant that a claim needs depends on what  *)
(* the environment does, and so it comes in three: changes that find the   *)
(* last one applied (PlainInv), watches that are lost and a controller     *)
(* that is killed while no pod changes (StaticInv), and one pod whose      *)
(* changes wait for nothing (AloneInv, DownInv).                           *)
(***************************************************************************)
EXTENDS ControllerProofs

\* The environments in which a change finds the last one applied, no watch is
\* lost, and no call fails.
Plain == Calm /\ env.doings \cap {"gap", "window", "list", "netlink"} = {}

\* Of these, those in which a host has one pod that runs, no configmap comes or
\* goes, and a pod ends its life in order, with the controller alive.
Exclusive == ~ May("sharing")
CmsStay == ~ May("cms")
Orderly == env.doings \cap {"anytime", "force", "kill"} = {}

Follows(phase) == LifeFrom(phase) \cup {v \in {Absent} : May("force")}
Up(phase) == HasIP(phase) /\ phase # "terminated"

Idle == queue = <<>> /\ applying = NoStore /\ todo = {}
PodTold(p) == podEvents[p] = <<>> /\ seen[p] = pod[p]
CmTold(pr) == cmEvents[pr] = <<>> /\ cmSeen[pr] = cm[pr]

\* The keys of the store that was sent last which no worker has visited, and
\* the ports they are visited with.
Due == IF queue # <<>> THEN store[Head(queue)].addr ELSE todo
DuePorts(pr) == store[IF queue # <<>> THEN Head(queue) ELSE applying].ports[pr]

\* A pod has changed, or a configmap, or a store is on its way to the kernel.
PodOnItsWay == /\ Idle
               /\ \A pr \in Protos : CmTold(pr)
               /\ \E p \in Pods : /\ podEvents[p] = <<pod[p]>>
                                  /\ pod[p] \in Follows(seen[p])
                                  /\ \A q \in Pods \ {p} : PodTold(q)
CmOnItsWay == /\ Idle
              /\ \A p \in Pods : PodTold(p)
              /\ May("anytime") \/ \A p \in Pods : ~ Deleting(pod[p])
              /\ \E pr \in Protos : /\ cmEvents[pr] = <<cm[pr]>> /\ cmSeen[pr] # cm[pr]
                                    /\ \A other \in Protos \ {pr} : CmTold(other)
StoreOnItsWay == /\ \A p \in Pods : PodTold(p)
                 /\ \A pr \in Protos : CmTold(pr)
                 /\ \/ Idle
                    \/ \E s \in StoreNames :
                          \/ queue = <<s>> /\ applying = NoStore /\ todo = {}
                          \/ queue = <<>> /\ applying = s /\ todo \subseteq store[s].addr
OneAtATime == /\ \A p \in Pods : podMark[p] = 0
              /\ \A pr \in Protos : cmMark[pr] = 0
              /\ PodOnItsWay \/ CmOnItsWay \/ StoreOnItsWay

OnePerHost(phases) ==
    \A p, q \in Pods : IP[p] = IP[q] /\ HasIP(phases[p]) /\ HasIP(phases[q]) => p = q

\* The cache has the ports of the informer's store, and what is due fits them.
CacheIs == \A pr \in Protos : Ex[pr] = cmSeen[pr] /\ Nw[pr] = {}
DueFits == Due # {} => \A pr \in Protos : /\ Adds(DuePorts(pr)) \subseteq Ex[pr]
                                          /\ Dels(DuePorts(pr)) \cap Ex[pr] = {}

\* A ready nginx pod has every port of the cache, or is due to get it, and no
\* deletion is due for its host.
ReadyRouted ==
    \A p \in Nginx, pr \in Protos : seen[p] = "ready" =>
        \A port \in Ex[pr] : \/ <<IP[p], port, pr>> \in routes
                             \/ <<addition, p>> \in Due /\ port \in Adds(DuePorts(pr))
ReadyKept == \A p, q \in Pods : <<deletion, q>> \in Due /\ IP[p] = IP[q] => seen[p] # "ready"

\* A host with routes has a pod that runs, or its deletion is due; nothing is
\* due to be added to another.
Occupied == /\ \A r \in routes : \E q \in Pods :
                  IP[q] = r[1] /\ (Up(seen[q]) \/ <<deletion, q>> \in Due)
            /\ \A q \in Pods : <<addition, q>> \in Due => Up(seen[q])

\* The host of an nginx pod has only ports of the cache, or the others are due
\* to be deleted.
Clean == \A r \in routes, p \in Nginx :
            IP[p] = r[1] /\ Up(seen[p]) =>
               \/ r[2] \in Ex[r[3]]
               \/ /\ \E q \in Pods : IP[q] = r[1] /\ <<addition, q>> \in Due
                  /\ r[2] \in Dels(DuePorts(r[3]))

OnlyNginxShare == Exclusive \/ env.pods \subseteq Nginx

Following == /\ OneAtATime
             /\ CmsStay => CacheIs /\ DueFits
             /\ CmsStay /\ Exclusive => ReadyRouted
             /\ Exclusive => ReadyKept /\ OnePerHost(seen)
             /\ Orderly => Occupied
             /\ Orderly /\ CmsStay /\ OnlyNginxShare => Clean

\* The API server in any environment.
ServerInv == /\ \A p \in Pods : p \in env.pods \/ pod[p] = Absent
             /\ Exclusive => OnePerHost(pod)
             /\ CmsStay => \A pr \in Protos : cm[pr] # Absent

\* Until something happens, the process starts.
PlainInv == Plain =>
    /\ ~ fresh => stage # "starting"
    /\ Orderly /\ (fresh \/ stage = "down") => \A p \in Pods : pod[p] \in {Absent, "ready"}
    /\ stage = "running" /\ (fresh => Settled) => Following

\* Nothing but the listing has been handled.
FreshRest ==
    fresh /\ stage # "down" =>
        /\ Ex = InitialCache /\ Nw = [pr \in Protos |-> {}]
        /\ store.clbdata = [addr |-> {}, ports |-> EmptyPorts]
        /\ "pods" \in listed => \A p \in Pods : PodTold(p) \/ podEvents[p] # <<>>
        /\ "cms" \in listed => \A pr \in Protos : CmTold(pr) \/ cmEvents[pr] # <<>>
        /\ stage = "running" => listed = {"pods", "cms"}
-----------------------------------------------------------------------------
LEMMA EnvKept == [Next]_vars => env' = env
BY DEF Next, vars, apiVars, PodChanges, CmChanges, WatchLost, Kill, Start, FirstList,
       Enlist, Run, PodNotified, CmNotified, Receive, ProcessAddr, Finish

\* What depends on the environment alone.
LEMMA SameEnv ==
    ASSUME env' = env
    PROVE  /\ Plain' = Plain /\ Exclusive' = Exclusive /\ CmsStay' = CmsStay
           /\ Orderly' = Orderly /\ OnlyNginxShare' = OnlyNginxShare
           /\ \A doing : May(doing)' = May(doing)
           /\ \A phase : Follows(phase)' = Follows(phase)
BY DEF Plain, Calm, Exclusive, CmsStay, Orderly, OnlyNginxShare, May, Follows, LifeFrom

LEMMA ServerInit == Init => ServerInv
<1> SUFFICES ASSUME Init PROVE ServerInv
  OBVIOUS
<1>1. \A p \in Pods : p \in env.pods \/ pod[p] = Absent
  BY DEF Init
<1>2. OnePerHost(pod)
  BY DEF Init, OnePerHost, HasIP
<1>3. \A pr \in Protos : cm[pr] # Absent
  BY ControllerAssumption DEF Init
<1>. QED
  BY <1>1, <1>2, <1>3 DEF ServerInv

\* The life of a pod.
LEMMA Lives ==
    ASSUME NEW phase, NEW next \in LifeFrom(phase), phase \in PodVersions
    PROVE  /\ next \in PodVersions
           /\ HasIP(next) => HasIP(phase) \/ next = "running"
           /\ phase = Absent <=> next = "pending"
           /\ next = Absent <=> phase = "terminated"
           /\ phase = "pending" <=> next = "running"
           /\ next = "ready" => phase \in {"running", "crashed"}
           /\ next = "terminated" <=> phase = "terminating"
BY ControllerAssumption DEF LifeFrom, HasIP, Phases, PodVersions

LEMMA ServerStep == Typed /\ ServerInv /\ [Next]_vars => ServerInv'
<1> SUFFICES ASSUME Typed, ServerInv, [Next]_vars PROVE ServerInv'
  OBVIOUS
<1>0. env' = env
  BY EnvKept
<1>1. CASE UNCHANGED <<pod, cm>>
  BY <1>0, <1>1, SameEnv DEF ServerInv, OnePerHost
<1>2. ASSUME NEW p \in Pods, PodChanges(p) PROVE ServerInv'
  <2>1. PICK v \in PodVersions :
           /\ pod' = [pod EXCEPT ![p] = v] /\ p \in env.pods
           /\ \/ v \in LifeFrom(pod[p]) /\ (v = "running" => HostFree(p) \/ May("sharing"))
              \/ v = Absent
    <3>1. pod[p] \in PodVersions
      BY DEF Typed, PodsTyped, InformerTyped
    <3>. QED
      BY <1>2, <3>1, LifeTyped DEF PodChanges, PodInformer!Change, PodVersions
  <2>2. pod[p] \in PodVersions /\ pod \in [Pods -> PodVersions]
    BY DEF Typed, PodsTyped, InformerTyped
  <2>3. ASSUME Exclusive PROVE OnePerHost(pod')
    <3>1. OnePerHost(pod)
      BY <2>3 DEF ServerInv
    <3>2. HasIP(v) => HasIP(pod[p]) \/ HostFree(p)
      BY <2>1, <2>2, <2>3, Lives DEF Exclusive, HasIP
    <3>3. \A q \in Pods : pod'[q] = IF q = p THEN v ELSE pod[q]
      BY <2>1, <2>2
    <3>. QED
      BY <3>1, <3>2, <3>3 DEF OnePerHost, HostFree
  <2>4. UNCHANGED cm
    BY <1>2 DEF PodChanges
  <2>. QED
    BY <1>0, <2>1, <2>2, <2>3, <2>4, SameEnv DEF ServerInv
<1>3. ASSUME NEW pr \in Protos, CmChanges(pr) PROVE ServerInv'
  <2>1. UNCHANGED pod
    BY <1>3 DEF CmChanges
  <2>2. PICK v \in (SUBSET PortNumbers) \cup (IF May("cms") THEN {Absent} ELSE {}) :
           cm' = [cm EXCEPT ![pr] = v]
    BY <1>3 DEF CmChanges, CmInformer!Change
  <2>3. ASSUME CmsStay PROVE \A other \in Protos : cm'[other] # Absent
    <3>1. v # Absent
      BY <2>2, <2>3, ControllerAssumption DEF CmsStay
    <3>. QED
      BY <2>2, <2>3, <3>1 DEF ServerInv, Typed, CmsTyped, InformerTyped
  <2>. QED
    BY <1>0, <2>1, <2>3, SameEnv DEF ServerInv, OnePerHost
<1>4. ASSUME \/ WatchLost \/ Kill \/ Start \/ FirstList \/ Enlist \/ Run
             \/ PodNotified \/ CmNotified \/ Receive \/ ProcessAddr \/ Finish
             \/ UNCHANGED vars
      PROVE  UNCHANGED <<pod, cm>>
  BY <1>4 DEF WatchLost, Kill, Start, FirstList, Enlist, Run, PodNotified, CmNotified,
              Receive, ProcessAddr, Finish, vars, apiVars, PodInformer!List, CmInformer!List,
              PodInformer!Enlist, CmInformer!Enlist, PodInformer!Deliver, CmInformer!Deliver
<1>. QED
  BY <1>1, <1>2, <1>3, <1>4 DEF Next

-----------------------------------------------------------------------------
\* The first notifications of a pod and of a configmap.
LEMMA FirstOfPod ==
    ASSUME Typed, PodsOnce, NEW p \in Pods, PodInformer!Deliver(p)
    PROVE  /\ podEvents[p] = <<pod[p]>> /\ seen[p] = Absent
           /\ PodInformer!Next(p) = pod[p]
           /\ podEvents' = [podEvents EXCEPT ![p] = <<>>]
           /\ seen' = [seen EXCEPT ![p] = pod[p]]
           /\ UNCHANGED <<pod, podMark>>
<1>1. podEvents[p] = <<pod[p]>> /\ seen[p] = Absent /\ podMark[p] = 0
  BY DEF PodInformer!Deliver, PodsOnce
<1>2. podMark \in [Pods -> Nat]
  BY DEF Typed, PodsTyped, InformerTyped
<1>. QED
  BY <1>1, <1>2, One DEF PodInformer!Deliver, PodInformer!Next

LEMMA FirstOfCm ==
    ASSUME Typed, CmsOnce, NEW pr \in Protos, CmInformer!Deliver(pr)
    PROVE  /\ cmEvents[pr] = <<cm[pr]>> /\ cmSeen[pr] = Absent
           /\ cmEvents' = [cmEvents EXCEPT ![pr] = <<>>]
           /\ cmSeen' = [cmSeen EXCEPT ![pr] = cm[pr]]
           /\ UNCHANGED <<cm, cmMark>>
<1>1. cmEvents[pr] = <<cm[pr]>> /\ cmSeen[pr] = Absent /\ cmMark[pr] = 0
  BY DEF CmInformer!Deliver, CmsOnce
<1>2. cmMark \in [Protos -> Nat]
  BY DEF Typed, CmsTyped, InformerTyped
<1>. QED
  BY <1>1, <1>2, One DEF CmInformer!Deliver

\* A configmap is notified that has not been seen: no handler is told.
LEMMA FirstCmUntold ==
    ASSUME Typed, CmsOnce, CmNotified
    PROVE  /\ UNCHANGED <<cacheVars, queue, applying>>
           /\ \E pr \in Protos : CmInformer!Deliver(pr)
<1>1. PICK pr \in Protos :
         LET next == CmInformer!Next(pr)
             told == Absent \notin {next, cmSeen[pr]}
         IN  /\ CmInformer!Deliver(pr)
             /\ \/ ~ told /\ NotTold(pr, next)
                \/ told
  BY DEF CmNotified
<1>2. cmSeen[pr] = Absent
  BY <1>1, FirstOfCm
<1>. QED
  BY <1>1, <1>2 DEF NotTold

\* A first list is queued: what is not in the queue then is not there.
LEMMA FirstQueuedPods ==
    ASSUME PodsOnce, PodInformer!Enlist, NEW p \in Pods
    PROVE  podEvents'[p] # <<>> \/ PodTold(p)'
<1>1. podMark[p] = 1 /\ podEvents[p] = <<pod[p]>>
  BY DEF PodInformer!Enlist, PodInformer!Listing, PodsOnce
<1>2. podEvents[p] # <<>> /\ seen[p] = Absent /\ podEvents[p][1] = pod[p]
  BY <1>1 DEF PodsOnce
<1>3. /\ UNCHANGED <<pod, seen>>
      /\ podEvents'[p] = IF PodInformer!Dropped(p)
                         THEN PodInformer!Without(podEvents[p], podMark[p])
                         ELSE podEvents[p]
  BY DEF PodInformer!Enlist
<1>4. CASE PodInformer!Dropped(p)
  BY <1>1, <1>2, <1>3, <1>4, WithoutOnly DEF PodInformer!Dropped, PodTold
<1>5. CASE ~ PodInformer!Dropped(p)
  BY <1>2, <1>3, <1>5
<1>. QED
  BY <1>4, <1>5

LEMMA FirstQueuedCms ==
    ASSUME CmsOnce, CmInformer!Enlist, NEW pr \in Protos
    PROVE  cmEvents'[pr] # <<>> \/ CmTold(pr)'
<1>1. cmMark[pr] = 1 /\ cmEvents[pr] = <<cm[pr]>>
  BY DEF CmInformer!Enlist, CmInformer!Listing, CmsOnce
<1>2. cmEvents[pr] # <<>> /\ cmSeen[pr] = Absent /\ cmEvents[pr][1] = cm[pr]
  BY <1>1 DEF CmsOnce
<1>3. /\ UNCHANGED <<cm, cmSeen>>
      /\ cmEvents'[pr] = IF CmInformer!Dropped(pr)
                         THEN CmInformer!Without(cmEvents[pr], cmMark[pr])
                         ELSE cmEvents[pr]
  BY DEF CmInformer!Enlist
<1>4. CASE CmInformer!Dropped(pr)
  BY <1>1, <1>2, <1>3, <1>4, WithoutOnly DEF CmInformer!Dropped, CmTold
<1>5. CASE ~ CmInformer!Dropped(pr)
  BY <1>2, <1>3, <1>5
<1>. QED
  BY <1>4, <1>5

\* What the handlers of the pods do to the stores and the process.
LEMMA PodStores ==
    ASSUME PodNotified
    PROVE  /\ UNCHANGED <<Ex, Nw>> /\ stage' \in {stage, "down"}
           /\ \/ store' = store
              \/ \E v : store' = [store EXCEPT !.plbdata.addr = v]
              \/ \E v : store' = [store EXCEPT !.plbdata = v]
<1>1. PICK p \in Pods :
         LET next == PodInformer!Next(p)
         IN  CASE next = Absent    -> UNCHANGED <<store, todo, queue, applying, stage>>
               [] seen[p] = Absent -> AddrAdd(p, next)
               [] OTHER            -> AddrUpdate(p, seen[p])
  BY DEF PodNotified
<1>2. ASSUME NEW phase, AddrAdd(p, phase)
      PROVE  /\ stage' \in {stage, "down"}
             /\ store' = store \/ \E v : store' = [store EXCEPT !.plbdata.addr = v]
  BY <1>2 DEF AddrAdd
<1>3. ASSUME NEW old, AddrUpdate(p, old)
      PROVE  stage' = stage /\ (store' = store \/ \E v : store' = [store EXCEPT !.plbdata = v])
  BY <1>3 DEF AddrUpdate
<1>. QED
  BY <1>1, <1>2, <1>3 DEF PodNotified

LEMMA FreshRestStep == Typed /\ FreshInv /\ FreshRest /\ [Next]_vars => FreshRest'
<1> SUFFICES ASSUME Typed, FreshInv, FreshRest, [Next]_vars, fresh', stage' # "down"
             PROVE  /\ Ex' = InitialCache' /\ Nw' = [pr \in Protos |-> {}]
                    /\ store'.clbdata = [addr |-> {}, ports |-> EmptyPorts]
                    /\ "pods" \in listed' => \A p \in Pods : PodTold(p)' \/ podEvents'[p] # <<>>
                    /\ "cms" \in listed' => \A pr \in Protos : CmTold(pr)' \/ cmEvents'[pr] # <<>>
                    /\ stage' = "running" => listed' = {"pods", "cms"}
  BY DEF FreshRest
<1>1. CASE Start
  BY <1>1 DEF Start, InitialCache, Configured, apiVars
<1>2. CASE \/ WatchLost \/ Kill
           \/ \E p \in Pods : PodChanges(p)
           \/ \E pr \in Protos : CmChanges(pr)
  <2>1. fresh' = FALSE
    BY <1>2 DEF WatchLost, Kill, PodChanges, CmChanges, MayChange, Happens
  <2>. QED
    BY <2>1
<1> DEFINE Caches == /\ Ex = InitialCache /\ Nw = [pr \in Protos |-> {}]
                     /\ store.clbdata = [addr |-> {}, ports |-> EmptyPorts]
           PodsKnown == "pods" \in listed => \A p \in Pods : PodTold(p) \/ podEvents[p] # <<>>
           CmsKnown == "cms" \in listed => \A pr \in Protos : CmTold(pr) \/ cmEvents[pr] # <<>>
           Lists == stage = "running" => listed = {"pods", "cms"}
<1>3. ASSUME stage # "down", fresh
      PROVE  PodsOnce /\ CmsOnce /\ Caches /\ PodsKnown /\ CmsKnown /\ Lists
  BY <1>3 DEF FreshInv, Rebuilding, FreshRest
<1>4. CASE FirstList
  <2>1. PodsOnce /\ CmsOnce /\ Caches /\ PodsKnown /\ CmsKnown /\ stage' # "running"
    BY <1>3, <1>4 DEF FirstList
  <2>2. UNCHANGED <<pod, cm, Ex, Nw, store>>
    BY <1>4 DEF FirstList, PodInformer!List, CmInformer!List, cacheVars
  <2>3. Ex' = InitialCache' /\ Nw' = [pr \in Protos |-> {}]
        /\ store'.clbdata = [addr |-> {}, ports |-> EmptyPorts]
    BY <2>1, <2>2 DEF InitialCache, Configured
  <2>4. CASE /\ "pods" \notin listed /\ PodInformer!List
             /\ podMark' = [p \in Pods |-> 1] /\ listed' = listed \cup {"pods"}
             /\ UNCHANGED cmVars
    <3>1. \A p \in Pods : podEvents'[p] # <<>>
      BY <2>1, <2>4, PodsListed, One DEF PodsOnce
    <3>2. "cms" \in listed' => \A pr \in Protos : CmTold(pr)' \/ cmEvents'[pr] # <<>>
      BY <2>1, <2>2, <2>4 DEF CmTold, cmVars
    <3>. QED
      BY <2>1, <2>3, <3>1, <3>2
  <2>5. CASE /\ "cms" \notin listed /\ CmInformer!List
             /\ cmMark' = [pr \in Protos |-> 1] /\ listed' = listed \cup {"cms"}
             /\ UNCHANGED podVars
    <3>1. \A pr \in Protos : cmEvents'[pr] # <<>>
      BY <2>1, <2>5, CmsListed, One DEF CmsOnce
    <3>2. "pods" \in listed' => \A p \in Pods : PodTold(p)' \/ podEvents'[p] # <<>>
      BY <2>1, <2>2, <2>5 DEF PodTold, podVars
    <3>. QED
      BY <2>1, <2>3, <3>1, <3>2
  <2>. QED
    BY <1>4, <2>4, <2>5 DEF FirstList
<1>5. CASE Enlist
  <2>1. PodsOnce /\ CmsOnce /\ Caches /\ PodsKnown /\ CmsKnown /\ Lists
        /\ UNCHANGED <<stage, listed>>
    BY <1>3, <1>5 DEF Enlist
  <2>2. UNCHANGED <<pod, cm, Ex, Nw, store>>
    BY <1>5 DEF Enlist, PodInformer!Enlist, CmInformer!Enlist, cacheVars
  <2>3. Ex' = InitialCache' /\ Nw' = [pr \in Protos |-> {}]
        /\ store'.clbdata = [addr |-> {}, ports |-> EmptyPorts]
    BY <2>1, <2>2 DEF InitialCache, Configured
  <2>4. CASE PodInformer!Enlist /\ UNCHANGED cmVars
    <3>1. \A p \in Pods : PodTold(p)' \/ podEvents'[p] # <<>>
      BY <2>1, <2>4, FirstQueuedPods
    <3>2. "cms" \in listed' => \A pr \in Protos : CmTold(pr)' \/ cmEvents'[pr] # <<>>
      BY <2>1, <2>2, <2>4 DEF CmTold, cmVars
    <3>. QED
      BY <2>1, <2>3, <3>1, <3>2
  <2>5. CASE CmInformer!Enlist /\ UNCHANGED podVars
    <3>1. \A pr \in Protos : CmTold(pr)' \/ cmEvents'[pr] # <<>>
      BY <2>1, <2>5, FirstQueuedCms
    <3>2. "pods" \in listed' => \A p \in Pods : PodTold(p)' \/ podEvents'[p] # <<>>
      BY <2>1, <2>2, <2>5 DEF PodTold, podVars
    <3>. QED
      BY <2>1, <2>3, <3>1, <3>2
  <2>. QED
    BY <1>5, <2>4, <2>5 DEF Enlist
<1>6. CASE PodNotified
  <2>1. PodsOnce /\ CmsOnce /\ Caches /\ PodsKnown /\ CmsKnown /\ Lists
        /\ UNCHANGED <<cm, cmVars, listed>> /\ stage' = stage
    BY <1>3, <1>6, PodStores DEF PodNotified
  <2>2. PICK p \in Pods : PodInformer!Deliver(p)
    BY <1>6 DEF PodNotified
  <2>3. /\ podEvents' = [podEvents EXCEPT ![p] = <<>>]
        /\ seen' = [seen EXCEPT ![p] = pod[p]] /\ UNCHANGED pod
    BY <2>1, <2>2, FirstOfPod
  <2>4. store'.clbdata = store.clbdata /\ UNCHANGED <<Ex, Nw>>
    BY <1>6, PodStores DEF Typed, StoresTyped, StoreNames
  <2>5. "pods" \in listed' => \A q \in Pods : PodTold(q)' \/ podEvents'[q] # <<>>
    BY <2>1, <2>3 DEF PodTold, PodsOnce
  <2>6. "cms" \in listed' => \A pr \in Protos : CmTold(pr)' \/ cmEvents'[pr] # <<>>
    BY <2>1 DEF CmTold, cmVars
  <2>. QED
    BY <2>1, <2>4, <2>5, <2>6 DEF InitialCache, Configured
<1>7. CASE CmNotified
  <2>1. PodsOnce /\ CmsOnce /\ Caches /\ PodsKnown /\ CmsKnown /\ Lists
        /\ UNCHANGED <<pod, podVars, listed, stage>>
    BY <1>3, <1>7 DEF CmNotified
  <2>2. UNCHANGED <<Ex, Nw, store>>
    BY <1>7, <2>1, FirstCmUntold DEF cacheVars
  <2>3. PICK pr \in Protos : CmInformer!Deliver(pr)
    BY <1>7 DEF CmNotified
  <2>4. /\ cmEvents' = [cmEvents EXCEPT ![pr] = <<>>]
        /\ cmSeen' = [cmSeen EXCEPT ![pr] = cm[pr]] /\ UNCHANGED cm
    BY <2>1, <2>3, FirstOfCm
  <2>5. "cms" \in listed' => \A other \in Protos : CmTold(other)' \/ cmEvents'[other] # <<>>
    BY <2>1, <2>4 DEF CmTold, CmsOnce
  <2>6. "pods" \in listed' => \A p \in Pods : PodTold(p)' \/ podEvents'[p] # <<>>
    BY <2>1 DEF PodTold, podVars
  <2>. QED
    BY <2>1, <2>2, <2>4, <2>5, <2>6 DEF InitialCache, Configured
<1>8. CASE Run \/ Receive \/ ProcessAddr \/ Finish \/ UNCHANGED vars
  <2>1. /\ UNCHANGED <<pod, cm, podVars, cmVars, cacheVars, listed>>
        /\ stage' = "running" /\ stage # "running" => listed = {"pods", "cms"}
        /\ stage # "down" /\ fresh
    BY <1>8 DEF Run, Receive, ProcessAddr, Finish, vars, apiVars, startVars
  <2>2. Caches /\ PodsKnown /\ CmsKnown /\ Lists
    BY <1>3, <2>1
  <2>3. "pods" \in listed' => \A p \in Pods : PodTold(p)' \/ podEvents'[p] # <<>>
    BY <2>1, <2>2 DEF PodTold, podVars
  <2>4. "cms" \in listed' => \A pr \in Protos : CmTold(pr)' \/ cmEvents'[pr] # <<>>
    BY <2>1, <2>2 DEF CmTold, cmVars
  <2>. QED
    BY <2>1, <2>2, <2>3, <2>4 DEF InitialCache, Configured, cacheVars
<1>. QED
  BY <1>1, <1>2, <1>4, <1>5, <1>6, <1>7, <1>8 DEF Next

-----------------------------------------------------------------------------
\* When everything is handled and applied, the environment has the next move.
LEMMA SettledIdle ==
    ASSUME Typed, OneAtATime, Settled
    PROVE  /\ Idle /\ Due = {}
           /\ \A p \in Pods : PodTold(p)
           /\ \A pr \in Protos : CmTold(pr)
<1>1. todo = {}
  BY DEF Typed, WorkTyped, Settled
<1>2. StoreOnItsWay
  BY One DEF OneAtATime, PodOnItsWay, CmOnItsWay, Settled
<1>. QED
  BY <1>1, <1>2 DEF Idle, Settled, StoreOnItsWay, Due

LEMMA IdleDue == Idle => Due = {}
BY DEF Idle, Due

\* After the first listing has been applied, the kernel follows.
FreshlySettled == /\ Typed /\ ServerInv /\ FreshInv /\ FreshRest /\ Plain /\ fresh /\ Settled
                  /\ Orderly => \A p \in Pods : pod[p] \in {Absent, "ready"}

LEMMA FreshFollowing == FreshlySettled => Following
<1> SUFFICES ASSUME FreshlySettled PROVE Following
  OBVIOUS
<1> USE DEF FreshlySettled
<1>1. Rebuilding /\ ~ May("netlink") /\ stage = "running"
  BY DEF FreshInv, Settled, Plain, May
<1>2. RoutesBut({})
  BY <1>1, One, ControllerAssumption DEF Rebuilding, Building, Settled
<1>3. /\ Ex = InitialCache /\ Nw = [pr \in Protos |-> {}]
      /\ \A p \in Pods : PodTold(p)
      /\ \A pr \in Protos : CmTold(pr)
  BY DEF FreshRest, Settled
<1>4. Idle /\ Due = {}
  BY DEF Typed, WorkTyped, Settled, Idle, Due
<1>5. OneAtATime
  <2>1. \A p \in Pods : podMark[p] = 0
    BY <1>1, <1>3, One DEF Rebuilding, PodsOnce, PodTold
  <2>2. \A pr \in Protos : cmMark[pr] = 0
    BY <1>1, <1>3, One DEF Rebuilding, CmsOnce, CmTold
  <2>. QED
    BY <1>3, <1>4, <2>1, <2>2 DEF OneAtATime, StoreOnItsWay
<1>6. \A pr \in Protos : Ex[pr] = Configured(pr) /\ Nw[pr] = {}
  BY <1>3 DEF InitialCache
<1>7. CmsStay => CacheIs
  BY <1>3, <1>6 DEF CacheIs, ServerInv, Configured, Data, CmTold
<1>8. \A p \in Pods : seen[p] = pod[p]
  BY <1>3 DEF PodTold
<1>9. ReadyRouted
  <2> SUFFICES ASSUME NEW p \in Nginx, NEW pr \in Protos, seen[p] = "ready",
                      NEW port \in Ex[pr]
               PROVE  <<IP[p], port, pr>> \in routes
    BY DEF ReadyRouted
  <2>1. p \in Pods
    BY ControllerAssumption
  <2>2. p \in Addressed
    BY <1>8, <2>1, ControllerAssumption DEF Addressed, HasIP, Phases
  <2>3. <<pr, port>> \in ConfiguredPorts
    BY <1>6 DEF ConfiguredPorts, Typed, StoresTyped
  <2>4. <<IP[p], port, pr>> \in RoutesTo(p)
    BY <2>3 DEF RoutesTo
  <2>. QED
    BY <1>2, <2>2, <2>4 DEF RoutesBut
<1>10. ReadyKept /\ DueFits
  BY <1>4 DEF ReadyKept, DueFits
<1>11. Exclusive => OnePerHost(seen)
  BY <1>8 DEF ServerInv, OnePerHost
<1>12. ASSUME NEW r \in routes
       PROVE  /\ \E p \in Nginx : r[1] = IP[p] /\ HasIP(pod[p])
              /\ r[2] \in Configured(r[3]) /\ r[3] \in Protos
  <2>1. PICK p \in Addressed : r \in RoutesTo(p)
    BY <1>2 DEF RoutesBut
  <2>2. PICK x \in ConfiguredPorts : r = <<IP[p], x[2], x[1]>>
    BY <2>1 DEF RoutesTo
  <2>. QED
    BY <2>2 DEF Addressed, ConfiguredPorts
<1>13. Orderly => Occupied
  <2> SUFFICES ASSUME Orderly, NEW r \in routes
               PROVE  \E q \in Pods : IP[q] = r[1] /\ Up(seen[q])
    BY <1>4 DEF Occupied
  <2>1. PICK p \in Nginx : r[1] = IP[p] /\ HasIP(pod[p])
    BY <1>12
  <2>2. p \in Pods /\ pod[p] = "ready" /\ seen[p] = pod[p]
    BY <1>8, <2>1, ControllerAssumption DEF HasIP
  <2>. QED
    BY <2>1, <2>2 DEF Up
<1>14. Clean
  BY <1>6, <1>12 DEF Clean
<1>. QED
  BY <1>5, <1>7, <1>9, <1>10, <1>11, <1>13, <1>14 DEF Following

LEMMA FreshFollowingNext == (FreshlySettled => Following)'
BY FreshFollowing, PTL

\* Nothing changes what the kernel is to follow.
LEMMA FollowingKept ==
    ASSUME Typed, Following, OneAtATime', UNCHANGED <<env, seen, cmSeen, Ex, Nw, routes>>,
           Due' = Due, Due = {} \/ \A pr \in Protos : DuePorts(pr)' = DuePorts(pr)
    PROVE  Following'
<1>1. /\ Exclusive' = Exclusive /\ CmsStay' = CmsStay /\ Orderly' = Orderly
      /\ OnlyNginxShare' = OnlyNginxShare
  BY SameEnv
<1>2. CacheIs => CacheIs'
  BY DEF CacheIs
<1>3. DueFits => DueFits'
  BY DEF DueFits
<1>4. ReadyRouted => ReadyRouted'
  BY DEF ReadyRouted
<1>5. ReadyKept /\ OnePerHost(seen) => ReadyKept' /\ OnePerHost(seen')
  BY DEF ReadyKept, OnePerHost
<1>6. Occupied => Occupied'
  BY DEF Occupied
<1>7. Clean => Clean'
  <2>1. \A r \in routes : r[3] \in Protos
    BY DEF Typed, WorkTyped
  <2>. QED
    BY <2>1 DEF Clean
<1>. QED
  BY <1>1, <1>2, <1>3, <1>4, <1>5, <1>6, <1>7 DEF Following

\* A pod changes.
LEMMA FollowingPodChanges ==
    ASSUME Typed, Plain, Settled, Following, NEW p \in Pods, PodChanges(p)
    PROVE  Following'
<1>1. OneAtATime
  BY DEF Following
<1>2. /\ Idle /\ Due = {}
      /\ \A q \in Pods : PodTold(q)
      /\ \A pr \in Protos : CmTold(pr)
  BY <1>1, SettledIdle
<1>3. /\ UNCHANGED <<env, cm, cmVars, cacheVars, queue, workerVars>>
  BY DEF PodChanges
<1>4. PICK v \in Follows(pod[p]) :
         /\ pod' = [pod EXCEPT ![p] = v]
         /\ podEvents' = [podEvents EXCEPT ![p] = Append(@, v)]
         /\ UNCHANGED <<seen, podMark>>
  BY DEF PodChanges, PodInformer!Change, Follows
<1>5. podEvents[p] = <<>> /\ seen[p] = pod[p]
  BY <1>2 DEF PodTold
<1>6. pod'[p] = v /\ podEvents'[p] = <<v>>
  <2>1. podEvents'[p] = Append(<<>>, v) /\ pod'[p] = v
    BY <1>4, <1>5 DEF Typed, PodsTyped, InformerTyped
  <2>. QED
    BY <2>1
<1>7. \A q \in Pods \ {p} : PodTold(q)'
  BY <1>2, <1>4 DEF PodTold, Typed, PodsTyped, InformerTyped
<1>8. PodOnItsWay'
  <2>1. Idle' /\ \A pr \in Protos : CmTold(pr)'
    BY <1>2, <1>3 DEF Idle, CmTold, workerVars, cmVars
  <2>2. (pod[p] \in Follows(seen[p]))'
    BY <1>3, <1>4, <1>5, <1>6 DEF Follows, LifeFrom, May
  <2>. QED
    BY <1>6, <1>7, <2>1, <2>2 DEF PodOnItsWay
<1>9. OneAtATime'
  BY <1>1, <1>3, <1>4, <1>8 DEF OneAtATime, cmVars
<1>10. Due' = Due
  BY <1>3 DEF Due, cacheVars, workerVars
<1>. QED
  BY <1>2, <1>3, <1>4, <1>9, <1>10, FollowingKept DEF cmVars, cacheVars, workerVars

\* A configmap changes.
LEMMA FollowingCmChanges ==
    ASSUME Typed, Plain, Settled, Following, NEW pr \in Protos, CmChanges(pr)
    PROVE  Following'
<1>1. OneAtATime
  BY DEF Following
<1>2. /\ Idle /\ Due = {}
      /\ \A p \in Pods : PodTold(p)
      /\ \A other \in Protos : CmTold(other)
  BY <1>1, SettledIdle
<1>3. /\ UNCHANGED <<env, pod, podVars, cacheVars, queue, workerVars>>
  BY DEF CmChanges
<1>4. PICK v : /\ v # cm[pr]
               /\ cm' = [cm EXCEPT ![pr] = v]
               /\ cmEvents' = [cmEvents EXCEPT ![pr] = Append(@, v)]
               /\ UNCHANGED <<cmSeen, cmMark>>
  BY DEF CmChanges, CmInformer!Change
<1>5. cmEvents[pr] = <<>> /\ cmSeen[pr] = cm[pr]
  BY <1>2 DEF CmTold
<1>6. cm'[pr] = v /\ cmEvents'[pr] = <<v>>
  <2>1. cmEvents'[pr] = Append(<<>>, v) /\ cm'[pr] = v
    BY <1>4, <1>5 DEF Typed, CmsTyped, InformerTyped
  <2>. QED
    BY <2>1
<1>7. \A other \in Protos \ {pr} : CmTold(other)'
  BY <1>2, <1>4 DEF CmTold, Typed, CmsTyped, InformerTyped
<1>8. CmOnItsWay'
  <2>1. Idle' /\ \A p \in Pods : PodTold(p)'
    BY <1>2, <1>3 DEF Idle, PodTold, workerVars, podVars
  <2>2. May("anytime")' \/ \A p \in Pods : ~ Deleting(pod'[p])
    BY <1>3, SameEnv DEF CmChanges
  <2>. QED
    BY <1>4, <1>5, <1>6, <1>7, <2>1, <2>2 DEF CmOnItsWay
<1>9. OneAtATime'
  BY <1>1, <1>3, <1>4, <1>8 DEF OneAtATime, podVars
<1>10. Due' = Due
  BY <1>3 DEF Due, cacheVars, workerVars
<1>. QED
  BY <1>2, <1>3, <1>4, <1>9, <1>10, FollowingKept DEF podVars, cacheVars, workerVars

\* The informer notifies the pod that has changed.
LEMMA PodHandled ==
    ASSUME Typed, OneAtATime, NEW p \in Pods, PodInformer!Deliver(p),
           UNCHANGED <<env, cm, cmVars>>
    PROVE  /\ Idle /\ Due = {} /\ \A pr \in Protos : CmTold(pr) /\ CmTold(pr)'
           /\ PodInformer!Next(p) = pod[p] /\ pod[p] \in Follows(seen[p])
           /\ seen'[p] = pod[p] /\ \A q \in Pods \ {p} : seen'[q] = seen[q]
           /\ \A q \in Pods : PodTold(q)' /\ (q # p => PodTold(q))
           /\ \A q \in Pods : podMark'[q] = 0
           /\ \A pr \in Protos : cmMark'[pr] = 0
           /\ UNCHANGED pod
<1>1. podEvents[p] # <<>>
  BY DEF PodInformer!Deliver
<1>2. PodOnItsWay
  BY <1>1 DEF OneAtATime, CmOnItsWay, StoreOnItsWay, PodTold
<1>3. /\ podEvents[p] = <<pod[p]>> /\ pod[p] \in Follows(seen[p])
      /\ \A q \in Pods \ {p} : PodTold(q)
  BY <1>1, <1>2 DEF PodOnItsWay, PodTold
<1>4. podMark[p] = 0 /\ podMark \in [Pods -> Nat]
  BY DEF OneAtATime, Typed, PodsTyped, InformerTyped
<1>5. PodInformer!Next(p) = pod[p]
  BY <1>3, <1>4, One DEF PodInformer!Next
<1>6. /\ podEvents' = [podEvents EXCEPT ![p] = <<>>]
      /\ seen' = [seen EXCEPT ![p] = pod[p]]
      /\ UNCHANGED <<pod, podMark>>
  BY <1>3, <1>4, One DEF PodInformer!Deliver
<1>7. \A q \in Pods : PodTold(q)'
  BY <1>3, <1>6 DEF PodTold, Typed, PodsTyped, InformerTyped
<1>8. /\ seen'[p] = pod[p] /\ \A q \in Pods \ {p} : seen'[q] = seen[q]
  BY <1>6 DEF Typed, PodsTyped, InformerTyped
<1>9. Idle /\ \A pr \in Protos : CmTold(pr)
  BY <1>2 DEF PodOnItsWay
<1>10. \A pr \in Protos : CmTold(pr)' /\ cmMark'[pr] = 0
  BY <1>9 DEF CmTold, cmVars, OneAtATime
<1>. QED
  BY <1>3, <1>5, <1>6, <1>7, <1>8, <1>9, <1>10, IdleDue DEF OneAtATime

\* The informer notifies the configmap that has changed.
LEMMA CmHandled ==
    ASSUME Typed, OneAtATime, NEW pr \in Protos, CmInformer!Deliver(pr),
           UNCHANGED <<env, pod, podVars>>
    PROVE  /\ Idle /\ Due = {} /\ \A p \in Pods : PodTold(p) /\ PodTold(p)'
           /\ CmInformer!Next(pr) = cm[pr] /\ cm[pr] # cmSeen[pr]
           /\ May("anytime") \/ \A p \in Pods : ~ Deleting(pod[p])
           /\ cmSeen'[pr] = cm[pr] /\ \A other \in Protos \ {pr} : cmSeen'[other] = cmSeen[other]
           /\ \A other \in Protos : CmTold(other)' /\ (other # pr => CmTold(other))
           /\ \A p \in Pods : podMark'[p] = 0
           /\ \A other \in Protos : cmMark'[other] = 0
           /\ UNCHANGED cm
<1>1. cmEvents[pr] # <<>>
  BY DEF CmInformer!Deliver
<1>2. CmOnItsWay
  BY <1>1 DEF OneAtATime, PodOnItsWay, StoreOnItsWay, CmTold
<1>3. /\ cmEvents[pr] = <<cm[pr]>> /\ cm[pr] # cmSeen[pr]
      /\ \A other \in Protos \ {pr} : CmTold(other)
  BY <1>1, <1>2 DEF CmOnItsWay, CmTold
<1>4. cmMark[pr] = 0 /\ cmMark \in [Protos -> Nat]
  BY DEF OneAtATime, Typed, CmsTyped, InformerTyped
<1>5. CmInformer!Next(pr) = cm[pr]
  BY <1>3, <1>4, One DEF CmInformer!Next
<1>6. /\ cmEvents' = [cmEvents EXCEPT ![pr] = <<>>]
      /\ cmSeen' = [cmSeen EXCEPT ![pr] = cm[pr]]
      /\ UNCHANGED <<cm, cmMark>>
  BY <1>3, <1>4, One DEF CmInformer!Deliver
<1>7. \A other \in Protos : CmTold(other)'
  BY <1>3, <1>6 DEF CmTold, Typed, CmsTyped, InformerTyped
<1>8. /\ cmSeen'[pr] = cm[pr] /\ \A other \in Protos \ {pr} : cmSeen'[other] = cmSeen[other]
  BY <1>6 DEF Typed, CmsTyped, InformerTyped
<1>9. Idle /\ \A p \in Pods : PodTold(p)
  BY <1>2 DEF CmOnItsWay
<1>10. \A p \in Pods : PodTold(p)' /\ podMark'[p] = 0
  BY <1>9 DEF PodTold, podVars, OneAtATime
<1>. QED
  BY <1>2, <1>3, <1>5, <1>6, <1>7, <1>8, <1>9, <1>10, IdleDue DEF OneAtATime, CmOnItsWay

\* A notification after which nothing is sent.
LEMMA PodQuiet ==
    ASSUME Typed, ServerInv, Following, NEW p \in Pods, PodInformer!Deliver(p),
           UNCHANGED <<env, cm, cmVars, Ex, Nw, routes, store, todo, queue, applying>>,
           pod[p] # "ready", Orderly => ~ Up(seen[p])
    PROVE  Following'
<1>1. OneAtATime
  BY DEF Following
<1>2. /\ Idle /\ Due = {} /\ \A pr \in Protos : CmTold(pr)'
      /\ seen'[p] = pod[p] /\ \A q \in Pods \ {p} : seen'[q] = seen[q]
      /\ \A q \in Pods : PodTold(q)' /\ (q # p => PodTold(q))
      /\ \A q \in Pods : podMark'[q] = 0
      /\ \A pr \in Protos : cmMark'[pr] = 0
      /\ UNCHANGED pod
  BY <1>1, PodHandled
<1>3. OneAtATime' /\ Due' = {}
  BY <1>2 DEF OneAtATime, StoreOnItsWay, Idle, Due
<1>4. CmsStay => CacheIs' /\ DueFits'
  BY <1>3 DEF Following, CacheIs, DueFits, cmVars
<1>5. CmsStay /\ Exclusive => ReadyRouted'
  <2> SUFFICES ASSUME CmsStay, Exclusive, NEW q \in Nginx, NEW pr \in Protos,
                      seen'[q] = "ready", NEW port \in Ex[pr]
               PROVE  <<IP[q], port, pr>> \in routes
    BY DEF ReadyRouted
  <2>1. seen[q] = "ready"
    BY <1>2, ControllerAssumption
  <2>. QED
    BY <1>2, <2>1 DEF Following, ReadyRouted
<1>6. Exclusive => ReadyKept' /\ OnePerHost(seen')
  BY <1>2, <1>3 DEF ReadyKept, OnePerHost, ServerInv, PodTold
<1>7. ASSUME Orderly, NEW r \in routes
      PROVE  \E q \in Pods \ {p} : IP[q] = r[1] /\ Up(seen[q]) /\ seen'[q] = seen[q] /\ pod[q] = seen[q]
  BY <1>2, <1>7 DEF Following, Occupied, PodTold
<1>8. Orderly => Occupied'
  BY <1>3, <1>7 DEF Occupied
<1>9. ASSUME Orderly, CmsStay, OnlyNginxShare PROVE Clean'
  <2> SUFFICES ASSUME NEW r \in routes, NEW q \in Nginx, IP[q] = r[1], Up(seen'[q])
               PROVE  r[2] \in Ex[r[3]]
    BY DEF Clean
  <2>0. q \in Pods
    BY ControllerAssumption
  <2>1. ASSUME Up(seen[q]) PROVE r[2] \in Ex[r[3]]
    BY <1>2, <1>9, <2>1 DEF Following, Clean
  <2>2. CASE q # p
    BY <1>2, <2>0, <2>1, <2>2
  <2>3. CASE q = p
    <3>1. PICK other \in Pods \ {p} : /\ IP[other] = r[1] /\ Up(seen[other])
                                      /\ seen'[other] = seen[other] /\ pod[other] = seen[other]
      BY <1>7, <1>9
    <3>2. CASE Exclusive
      <4>1. OnePerHost(seen')
        BY <1>6, <3>2
      <4>. QED
        BY <2>3, <3>1, <4>1 DEF OnePerHost, Up
    <3>3. CASE env.pods \subseteq Nginx
      <4>1. other \in Nginx
        BY <3>1, <3>3 DEF ServerInv, Up, HasIP
      <4>. QED
        BY <1>2, <1>9, <3>1, <4>1 DEF Following, Clean
    <3>. QED
      BY <1>9, <3>2, <3>3 DEF OnlyNginxShare
  <2>. QED
    BY <2>2, <2>3
<1>. QED
  BY <1>3, <1>4, <1>5, <1>6, <1>8, <1>9, SameEnv DEF Following

\* addrUpdateFunc sends the key of the version before the last.
LEMMA PodUpdated ==
    ASSUME Typed, ServerInv, Plain, Following, NEW p \in Pods, PodInformer!Deliver(p),
           UNCHANGED <<env, cm, cmVars, Ex, Nw, routes>>,
           HasIP(seen[p]), pod[p] # Absent, AddrUpdate(p, seen[p])
    PROVE  Following'
<1>1. OneAtATime
  BY DEF Following
<1>2. /\ Idle /\ Due = {} /\ \A pr \in Protos : CmTold(pr) /\ CmTold(pr)'
      /\ pod[p] \in Follows(seen[p])
      /\ seen'[p] = pod[p] /\ \A q \in Pods \ {p} : seen'[q] = seen[q]
      /\ \A q \in Pods : PodTold(q)' /\ (q # p => PodTold(q))
      /\ \A q \in Pods : podMark'[q] = 0
      /\ \A pr \in Protos : cmMark'[pr] = 0
      /\ UNCHANGED pod
  BY <1>1, PodHandled
<1> DEFINE key == <<UpdateAction(seen[p]), p>>
<1>3. /\ queue' = <<"plbdata">> /\ applying' = NoStore /\ todo' = {}
      /\ store'.plbdata = [addr |-> {key}, ports |-> listCm]
  <2>1. Send("plbdata") /\ UNCHANGED todo
    BY DEF AddrUpdate
  <2>2. queue' = Append(<<>>, "plbdata") /\ applying' = NoStore
    BY <1>2, <2>1 DEF Send, Chan!Put, Idle
  <2>3. store' = [store EXCEPT !.plbdata = [addr |-> {key}, ports |-> listCm]]
    BY DEF AddrUpdate, MayFail, Plain, May
  <2>. QED
    BY <1>2, <2>1, <2>2, <2>3 DEF Idle, Typed, StoresTyped, StoreNames
<1>4. /\ Due' = {key}
      /\ \A pr \in Protos : /\ Adds(DuePorts(pr)') = Configured(pr)
                            /\ Dels(DuePorts(pr)') = {}
  <2>1. Due' = {key}
    BY <1>3, One DEF Due
  <2>2. ASSUME NEW pr \in Protos PROVE DuePorts(pr)' = [port \in Configured(pr) |-> addition]
    BY <1>3, One DEF DuePorts, listCm
  <2>. QED
    BY <2>1, <2>2 DEF Adds, Dels, addition, deletion
<1>5. OneAtATime'
  BY <1>2, <1>3 DEF OneAtATime, StoreOnItsWay, StoreNames
<1>6. ASSUME CmsStay PROVE CacheIs' /\ \A pr \in Protos : Ex[pr] = Configured(pr)
  <2>1. CacheIs'
    BY <1>6 DEF Following, CacheIs, cmVars
  <2>2. \A pr \in Protos : Ex[pr] = cm[pr] /\ cm[pr] # Absent
    BY <1>2, <1>6 DEF Following, CacheIs, CmTold, ServerInv
  <2>. QED
    BY <2>1, <2>2 DEF Configured, Data
<1>7. /\ seen[p] \in {"running", "ready", "crashed", "terminating"}
      /\ IF seen[p] = "terminating" THEN seen'[p] = "terminated" ELSE Up(seen'[p])
      /\ seen'[p] = "ready" => seen[p] \in {"running", "crashed"}
  <2>1. seen[p] \in PodVersions /\ pod[p] \in LifeFrom(seen[p])
    BY <1>2 DEF Follows, Typed, PodsTyped, InformerTyped
  <2>. QED
    BY <1>2, <2>1, ControllerAssumption DEF LifeFrom, Up, HasIP, PodVersions, Phases
<1>8. key = <<IF seen[p] = "terminating" THEN deletion ELSE addition, p>>
  BY <1>7 DEF UpdateAction, Deleting
<1>. HIDE DEF key
<1>9. CmsStay => DueFits'
  BY <1>4, <1>6 DEF DueFits
<1>10. CmsStay /\ Exclusive => ReadyRouted'
  <2> SUFFICES ASSUME CmsStay, Exclusive, NEW q \in Nginx, NEW pr \in Protos,
                      seen'[q] = "ready", NEW port \in Ex[pr]
               PROVE  \/ <<IP[q], port, pr>> \in routes
                      \/ <<addition, q>> \in Due' /\ port \in Adds(DuePorts(pr)')
    BY DEF ReadyRouted
  <2>1. CASE q = p
    BY <1>4, <1>6, <1>7, <1>8, <2>1
  <2>2. CASE q # p
    <3>1. seen[q] = "ready"
      BY <1>2, <2>2, ControllerAssumption
    <3>. QED
      BY <1>2, <3>1 DEF Following, ReadyRouted
  <2>. QED
    BY <2>1, <2>2
<1>11. Exclusive => ReadyKept' /\ OnePerHost(seen')
  <2> SUFFICES ASSUME Exclusive PROVE ReadyKept' /\ OnePerHost(seen')
    OBVIOUS
  <2>1. OnePerHost(seen')
    BY <1>2 DEF OnePerHost, ServerInv, PodTold
  <2>2. ASSUME NEW q1 \in Pods, NEW q2 \in Pods, <<deletion, q2>> \in Due', IP[q1] = IP[q2],
               seen'[q1] = "ready"
        PROVE  FALSE
    <3>1. q2 = p /\ seen'[p] = "terminated"
      BY <1>4, <1>7, <1>8, <2>2 DEF addition, deletion
    <3>2. HasIP(seen'[q1]) /\ HasIP(seen'[p])
      BY <2>2, <3>1, ControllerAssumption DEF HasIP, Phases
    <3>. QED
      BY <2>1, <2>2, <3>1, <3>2 DEF OnePerHost
  <2>. QED
    BY <2>1, <2>2 DEF ReadyKept
<1>12. Orderly => Occupied'
  <2> SUFFICES ASSUME Orderly PROVE Occupied'
    OBVIOUS
  <2>1. ASSUME NEW r \in routes
        PROVE  \E q \in Pods : IP[q] = r[1] /\ (Up(seen'[q]) \/ <<deletion, q>> \in Due')
    <3>1. PICK q \in Pods : IP[q] = r[1] /\ Up(seen[q])
      BY <1>2 DEF Following, Occupied
    <3>. QED
      BY <1>2, <1>4, <1>7, <1>8, <3>1
  <2>2. ASSUME NEW q \in Pods, <<addition, q>> \in Due' PROVE Up(seen'[q])
    BY <1>4, <1>7, <1>8, <2>2 DEF addition, deletion
  <2>. QED
    BY <2>1, <2>2 DEF Occupied
<1>13. Orderly /\ CmsStay /\ OnlyNginxShare => Clean'
  <2> SUFFICES ASSUME Orderly, CmsStay, OnlyNginxShare, NEW r \in routes, NEW q \in Nginx,
                      IP[q] = r[1], Up(seen'[q])
               PROVE  r[2] \in Ex[r[3]]
    BY DEF Clean
  <2>1. Up(seen[q])
    BY <1>2, <1>7, ControllerAssumption DEF Up
  <2>. QED
    BY <1>2, <2>1 DEF Following, Clean
<1>. QED
  BY <1>5, <1>6, <1>9, <1>10, <1>11, <1>12, <1>13, SameEnv DEF Following

LEMMA FollowingPodNotified ==
    ASSUME Typed, ServerInv, Plain, Following, PodNotified
    PROVE  Following' /\ stage' = stage
<1>1. PICK p \in Pods :
         LET next == PodInformer!Next(p)
         IN  /\ PodInformer!Deliver(p)
             /\ CASE next = Absent    -> UNCHANGED <<store, todo, queue, applying, stage>>
                  [] seen[p] = Absent -> AddrAdd(p, next)
                  [] OTHER            -> AddrUpdate(p, seen[p])
  BY DEF PodNotified
<1>2. UNCHANGED <<env, cm, cmVars, Ex, Nw, routes>>
  BY DEF PodNotified
<1>3. /\ Idle /\ PodInformer!Next(p) = pod[p] /\ pod[p] \in Follows(seen[p])
  BY <1>1, <1>2, PodHandled DEF Following
<1>4. seen[p] \in PodVersions /\ pod[p] \in PodVersions
  BY DEF Typed, PodsTyped, InformerTyped
<1>5. CASE pod[p] = Absent
  <2>1. UNCHANGED <<store, todo, queue, applying, stage>>
    BY <1>1, <1>3, <1>5 DEF AddrAdd, HasIP
  <2>2. Orderly => ~ Up(seen[p])
    BY <1>3, <1>4, <1>5, Lives DEF Follows, Orderly, May, Up
  <2>. QED
    BY <1>1, <1>2, <1>5, <2>1, <2>2, PodQuiet, ControllerAssumption DEF Phases
<1>6. CASE pod[p] # Absent /\ ~ HasIP(seen[p])
  <2>1. pod[p] \in LifeFrom(seen[p])
    BY <1>3, <1>6 DEF Follows
  <2>2. pod[p] # "ready" /\ (seen[p] = Absent => ~ HasIP(pod[p])) /\ ~ Up(seen[p])
    BY <1>4, <1>6, <2>1, Lives, ControllerAssumption DEF HasIP, Up, Phases
  <2>3. UNCHANGED <<store, todo, queue, applying, stage>>
    BY <1>1, <1>3, <1>6, <2>2 DEF AddrAdd, AddrUpdate
  <2>. QED
    BY <1>1, <1>2, <2>2, <2>3, PodQuiet
<1>7. CASE pod[p] # Absent /\ HasIP(seen[p])
  <2>1. AddrUpdate(p, seen[p])
    BY <1>1, <1>3, <1>7 DEF HasIP
  <2>. QED
    BY <1>1, <1>2, <1>7, <2>1, PodUpdated DEF AddrUpdate
<1>. QED
  BY <1>5, <1>6, <1>7

\* What updatePorts leaves when the ports it is called with are new to the
\* cache.
LEMMA PortsUpdated ==
    ASSUME Typed, NEW pr \in Protos, NEW ports, UpdatePorts(pr, ports),
           ~ May("list"), Nw[pr] = {}, Ex[pr] # ports
    PROVE  /\ Ex'[pr] = ports /\ Nw'[pr] = {}
           /\ \A other \in Protos \ {pr} : Ex'[other] = Ex[other] /\ Nw'[other] = Nw[other]
           /\ store'.clbdata.addr = listNginx
           /\ Adds(store'.clbdata.ports[pr]) = ports \ Ex[pr]
           /\ Dels(store'.clbdata.ports[pr]) = Ex[pr] \ ports
           /\ \A other \in Protos \ {pr} : store'.clbdata.ports[other] = store.clbdata.ports[other]
           /\ store'.plbdata = store.plbdata
<1> DEFINE r == L4Compare(Ex[pr], Nw[pr] \cup ports, store.clbdata.ports[pr])
<1>1. /\ r.old = ports /\ r.new = {}
      /\ Adds(r.delta) = ports \ Ex[pr] /\ Dels(r.delta) = Ex[pr] \ ports
  <2>1. r = L4Compare(Ex[pr], ports, store.clbdata.ports[pr])
    BY DEF L4Compare
  <2>2. r.new = {}
    BY <2>1 DEF L4Compare
  <2>. HIDE DEF r
  <2>. QED
    BY <2>1, <2>2, L4CompareSpec
<1>2. /\ Ex' = [Ex EXCEPT ![pr] = r.old] /\ Nw' = [Nw EXCEPT ![pr] = r.new]
      /\ store' = [store EXCEPT !.clbdata.addr = listNginx,
                                !.clbdata.ports[pr] = r.delta]
  BY DEF UpdatePorts, MayFail, May
<1>. HIDE DEF r
<1> DEFINE first == [store EXCEPT !.clbdata.addr = listNginx]
<1>3. /\ DOMAIN first = StoreNames /\ DOMAIN first.clbdata = {"addr", "ports"}
      /\ first.clbdata.addr = listNginx /\ first.clbdata.ports = store.clbdata.ports
      /\ first.plbdata = store.plbdata
  BY DEF Typed, StoresTyped, StoreNames
<1>4. store' = [first EXCEPT !.clbdata.ports[pr] = r.delta]
  BY <1>2
<1>. HIDE DEF first
<1>5. /\ store'.clbdata.addr = listNginx /\ store'.clbdata.ports[pr] = r.delta
      /\ \A other \in Protos \ {pr} : store'.clbdata.ports[other] = store.clbdata.ports[other]
      /\ store'.plbdata = store.plbdata
  <2>1. DOMAIN first.clbdata.ports = Protos
    BY <1>3 DEF Typed, StoresTyped, StoreNames
  <2>. QED
    BY <1>3, <1>4, <2>1 DEF StoreNames
<1>. QED
  BY <1>1, <1>2, <1>5 DEF Typed, StoresTyped

\* updatePorts sends the change of the configmap with the addresses of all pods.
LEMMA CmUpdated ==
    ASSUME Typed, ServerInv, CacheInv', Plain, Following,
           NEW pr \in Protos, CmInformer!Deliver(pr),
           UNCHANGED <<env, pod, podVars, todo, routes>>, UpdatePorts(pr, cm[pr])
    PROVE  Following'
<1>1. OneAtATime
  BY DEF Following
<1>2. /\ Idle /\ Due = {} /\ \A p \in Pods : PodTold(p) /\ PodTold(p)'
      /\ cm[pr] # cmSeen[pr]
      /\ May("anytime") \/ \A p \in Pods : ~ Deleting(pod[p])
      /\ cmSeen'[pr] = cm[pr] /\ \A other \in Protos \ {pr} : cmSeen'[other] = cmSeen[other]
      /\ \A other \in Protos : CmTold(other)'
      /\ \A p \in Pods : podMark'[p] = 0
      /\ \A other \in Protos : cmMark'[other] = 0
  BY <1>1, CmHandled
<1>3. UNCHANGED seen /\ ~ May("list")
  BY DEF podVars, Plain, May
<1>4. queue' = <<"clbdata">> /\ applying' = NoStore /\ todo' = {}
  <2>1. queue' = Append(<<>>, "clbdata") /\ applying' = NoStore
    BY <1>2 DEF UpdatePorts, Send, Chan!Put, Idle
  <2>. QED
    BY <1>2, <2>1 DEF Idle
<1>5. store'.clbdata.addr = listNginx
  <2>1. DOMAIN store = StoreNames /\ DOMAIN store.clbdata = {"addr", "ports"}
    BY DEF Typed, StoresTyped, StoreNames
  <2>2. PICK delta : store' = [store EXCEPT !.clbdata.addr = listNginx,
                                            !.clbdata.ports[pr] = delta]
    BY <1>3 DEF UpdatePorts, MayFail
  <2>. QED
    BY <2>1, <2>2 DEF StoreNames
<1>6. /\ Due' = listNginx
      /\ \A other \in Protos : DuePorts(other)' = store'.clbdata.ports[other]
  BY <1>4, <1>5, One DEF Due, DuePorts
<1>7. OneAtATime'
  BY <1>2, <1>4 DEF OneAtATime, StoreOnItsWay, StoreNames
<1>8. DueFits'
  BY <1>6 DEF DueFits, CacheInv, MapAgrees
<1>9. ASSUME CmsStay
      PROVE  /\ Ex'[pr] = cm[pr] /\ Nw'[pr] = {}
             /\ \A other \in Protos \ {pr} : Ex'[other] = Ex[other] /\ Nw'[other] = Nw[other]
             /\ Adds(DuePorts(pr)') = cm[pr] \ Ex[pr]
             /\ Dels(DuePorts(pr)') = Ex[pr] \ cm[pr]
  <2>1. Nw[pr] = {} /\ Ex[pr] # cm[pr]
    BY <1>2, <1>9 DEF Following, CacheIs
  <2>. QED
    BY <1>3, <1>6, <2>1, PortsUpdated
<1>10. CmsStay => CacheIs'
  <2> SUFFICES ASSUME CmsStay, NEW other \in Protos
               PROVE  Ex'[other] = cmSeen'[other] /\ Nw'[other] = {}
    BY DEF CacheIs
  <2>1. CASE other = pr
    BY <1>2, <1>9, <2>1
  <2>2. CASE other # pr
    BY <1>2, <1>9, <2>2 DEF Following, CacheIs
  <2>. QED
    BY <2>1, <2>2
<1>11. CmsStay /\ Exclusive => ReadyRouted'
  <2> SUFFICES ASSUME CmsStay, Exclusive, NEW p \in Nginx, NEW other \in Protos,
                      seen[p] = "ready", NEW port \in Ex'[other]
               PROVE  \/ <<IP[p], port, other>> \in routes
                      \/ <<addition, p>> \in Due' /\ port \in Adds(DuePorts(other)')
    BY <1>3 DEF ReadyRouted
  <2>1. CASE port \in Ex[other]
    BY <1>2, <2>1 DEF Following, ReadyRouted
  <2>2. CASE port \notin Ex[other]
    <3>1. other = pr /\ port \in Adds(DuePorts(other)')
      BY <1>9, <2>2
    <3>2. pod[p] = "ready"
      BY <1>2, ControllerAssumption DEF PodTold
    <3>3. <<addition, p>> \in listNginx
      BY <3>2, ControllerAssumption DEF listNginx, HasIP, Phases
    <3>. QED
      BY <1>6, <3>1, <3>3
  <2>. QED
    BY <2>1, <2>2
<1>12. Exclusive => ReadyKept' /\ OnePerHost(seen')
  <2>1. ReadyKept'
    BY <1>6 DEF ReadyKept, listNginx, addition, deletion
  <2>. QED
    BY <1>3, <2>1 DEF Following, OnePerHost
<1>13. Orderly => Occupied'
  <2> SUFFICES ASSUME Orderly PROVE Occupied'
    OBVIOUS
  <2>1. \A r \in routes : \E q \in Pods : IP[q] = r[1] /\ Up(seen[q])
    BY <1>2 DEF Following, Occupied
  <2>2. ASSUME NEW q \in Pods, <<addition, q>> \in Due' PROVE Up(seen[q])
    <3>1. HasIP(pod[q]) /\ ~ Deleting(pod[q]) /\ seen[q] = pod[q]
      BY <1>2, <1>6, <2>2 DEF listNginx, Orderly, May, PodTold
    <3>. QED
      BY <3>1 DEF Up, Deleting
  <2>. QED
    BY <1>3, <2>1, <2>2 DEF Occupied
<1>14. Orderly /\ CmsStay /\ OnlyNginxShare => Clean'
  <2> SUFFICES ASSUME Orderly, CmsStay, OnlyNginxShare, NEW r \in routes, NEW p \in Nginx,
                      IP[p] = r[1], Up(seen[p])
               PROVE  \/ r[2] \in Ex'[r[3]]
                      \/ /\ \E q \in Pods : IP[q] = r[1] /\ <<addition, q>> \in Due'
                         /\ r[2] \in Dels(DuePorts(r[3])')
    BY <1>3 DEF Clean
  <2>1. r[2] \in Ex[r[3]] /\ r[3] \in Protos
    BY <1>2 DEF Following, Clean, Typed, WorkTyped
  <2>2. p \in Pods /\ <<addition, p>> \in Due'
    BY <1>2, <1>6, ControllerAssumption DEF listNginx, PodTold, Up
  <2>. QED
    BY <1>9, <2>1, <2>2
<1>. QED
  BY <1>7, <1>8, <1>10, <1>11, <1>12, <1>13, <1>14, SameEnv DEF Following

LEMMA FollowingCmNotified ==
    ASSUME Typed, ServerInv, CacheInv', Plain, Following, CmNotified
    PROVE  Following'
<1>1. PICK pr \in Protos :
         LET next == CmInformer!Next(pr)
             told == Absent \notin {next, cmSeen[pr]}
         IN  /\ CmInformer!Deliver(pr)
             /\ \/ ~ told /\ NotTold(pr, next)
                \/ /\ told /\ next = cmSeen[pr]
                   /\ UNCHANGED <<missed, cacheVars, queue, applying>>
                \/ /\ told /\ next # cmSeen[pr]
                   /\ UpdatePorts(pr, next)
                   /\ missed' = missed \ {pr}
  BY DEF CmNotified
<1>2. UNCHANGED <<env, pod, podVars, todo, routes>>
  BY DEF CmNotified
<1>3. /\ Idle /\ Due = {} /\ \A p \in Pods : PodTold(p) /\ PodTold(p)'
      /\ CmInformer!Next(pr) = cm[pr] /\ cm[pr] # cmSeen[pr]
      /\ \A other \in Protos : CmTold(other)'
      /\ \A p \in Pods : podMark'[p] = 0
      /\ \A other \in Protos : cmMark'[other] = 0
  BY <1>1, <1>2, CmHandled DEF Following
<1>4. CASE Absent \notin {cm[pr], cmSeen[pr]}
  BY <1>1, <1>2, <1>3, <1>4, CmUpdated
<1>5. CASE Absent \in {cm[pr], cmSeen[pr]}
  <2>1. UNCHANGED <<cacheVars, queue, applying>>
    BY <1>1, <1>3, <1>5 DEF NotTold
  <2>2. ~ CmsStay
    <3>1. Ex[pr] # Absent
      BY ControllerAssumption DEF Typed, StoresTyped
    <3>. QED
      BY <1>5, <3>1 DEF Following, CacheIs, ServerInv
  <2>3. OneAtATime' /\ Due' = {} /\ UNCHANGED seen
    BY <1>2, <1>3, <2>1 DEF OneAtATime, StoreOnItsWay, Idle, Due, podVars
  <2>4. Exclusive => ReadyKept' /\ OnePerHost(seen')
    BY <2>3 DEF ReadyKept, OnePerHost, Following
  <2>5. Orderly => Occupied'
    BY <1>2, <1>3, <2>3 DEF Following, Occupied
  <2>. QED
    BY <1>2, <2>2, <2>3, <2>4, <2>5, SameEnv DEF Following
<1>. QED
  BY <1>4, <1>5

\* The worker receives the store ...
LEMMA FollowingReceive ==
    ASSUME Typed, Following, Receive
    PROVE  Following'
<1>1. UNCHANGED <<apiVars, podVars, cmVars, cacheVars, routes>>
  BY DEF Receive
<1>2. queue # <<>>
  BY DEF Receive, ItemReady
<1>3. PICK s \in StoreNames : /\ queue = <<s>>
                              /\ \A p \in Pods : PodTold(p)
                              /\ \A pr \in Protos : CmTold(pr)
  BY <1>2 DEF Following, OneAtATime, PodOnItsWay, CmOnItsWay, StoreOnItsWay, Idle
<1>4. queue' = <<>> /\ applying' = s /\ todo' = store[s].addr
  BY <1>1, <1>3, One DEF Receive, Chan!Take
<1>5. OneAtATime'
  <2>1. StoreOnItsWay'
    BY <1>1, <1>3, <1>4 DEF StoreOnItsWay, PodTold, CmTold, apiVars, podVars, cmVars, cacheVars
  <2>. QED
    BY <1>1, <2>1 DEF Following, OneAtATime, podVars, cmVars
<1>6. Due' = Due /\ \A pr \in Protos : DuePorts(pr)' = DuePorts(pr)
  BY <1>1, <1>2, <1>3, <1>4, One DEF Due, DuePorts, cacheVars
<1>. QED
  BY <1>1, <1>5, <1>6, FollowingKept DEF apiVars, podVars, cmVars, cacheVars

\* ... and unlocks when it has visited all keys.
LEMMA FollowingFinish ==
    ASSUME Typed, Following, Finish
    PROVE  Following'
<1>1. UNCHANGED <<apiVars, podVars, cmVars, cacheVars, queue, todo, routes>>
  BY DEF Finish, Chan!Done
<1>2. applying # NoStore /\ applying' = NoStore /\ todo = {}
  BY DEF Finish, Chan!Done
<1>3. /\ queue = <<>>
      /\ \A p \in Pods : PodTold(p)
      /\ \A pr \in Protos : CmTold(pr)
  BY <1>2 DEF Following, OneAtATime, PodOnItsWay, CmOnItsWay, StoreOnItsWay, Idle
<1>4. OneAtATime'
  <2>1. StoreOnItsWay'
    BY <1>1, <1>2, <1>3 DEF StoreOnItsWay, Idle, PodTold, CmTold, apiVars, podVars, cmVars
  <2>. QED
    BY <1>1, <2>1 DEF Following, OneAtATime, podVars, cmVars
<1>5. Due = {} /\ Due' = {}
  BY <1>1, <1>2, <1>3 DEF Due
<1>. QED
  BY <1>1, <1>4, <1>5, FollowingKept DEF apiVars, podVars, cmVars, cacheVars

\* What one key adds or deletes.
LEMMA RoutesAtIs ==
    ASSUME NEW addr, NEW ports, NEW r
    PROVE  r \in RoutesAt(addr, ports) <=>
             \E pr \in Protos, port \in PortNumbers : port \in ports[pr] /\ r = <<addr, port, pr>>
<1>1. ASSUME NEW pr \in Protos, NEW port \in PortNumbers, port \in ports[pr]
      PROVE  <<addr, port, pr>> \in RoutesAt(addr, ports)
  <2> DEFINE x == <<pr, port>>
  <2>1. x \in {y \in Protos \X PortNumbers : y[2] \in ports[y[1]]} /\ x[1] = pr /\ x[2] = port
    BY <1>1
  <2>. HIDE DEF x
  <2>2. <<addr, x[2], x[1]>> \in RoutesAt(addr, ports)
    BY <2>1 DEF RoutesAt
  <2>. QED
    BY <2>1, <2>2
<1>2. ASSUME r \in RoutesAt(addr, ports)
      PROVE  \E pr \in Protos, port \in PortNumbers : port \in ports[pr] /\ r = <<addr, port, pr>>
  <2>1. PICK x \in Protos \X PortNumbers : x[2] \in ports[x[1]] /\ r = <<addr, x[2], x[1]>>
    BY <1>2 DEF RoutesAt
  <2>. QED
    BY <2>1
<1>. QED
  BY <1>1, <1>2

\* What one key does to the routes when no call fails.
LEMMA KeyVisited ==
    ASSUME Typed, ~ May("netlink"), ProcessAddr
    PROVE  \E key \in todo :
              LET at == IP[key[2]]
                  ports == store[applying].ports
              IN  /\ todo' = todo \ {key}
                  /\ \A r : r \in routes' =>
                        \/ r \in routes /\ \/ r[1] # at
                                           \/ key[1] = addition /\ r[2] \notin Dels(ports[r[3]])
                        \/ /\ key[1] = addition /\ r[1] = at /\ r[3] \in Protos
                           /\ r[2] \in Adds(ports[r[3]])
                  /\ \A r \in routes :
                        \/ r[1] = at /\ \/ key[1] # addition
                                        \/ r[2] \in Dels(ports[r[3]])
                        \/ r \in routes'
                  /\ \A pr \in Protos : \A port \in Adds(ports[pr]) \ Dels(ports[pr]) :
                        key[1] = addition => <<at, port, pr>> \in routes'
<1> DEFINE ports == store[applying].ports
           adds == [pr \in Protos |-> Adds(ports[pr])]
           dels == [pr \in Protos |-> Dels(ports[pr])]
<1>1. PICK key \in todo :
         /\ todo' = todo \ {key}
         /\ key[1] = addition => routes' = (routes \cup RoutesAt(IP[key[2]], adds))
                                             \ RoutesAt(IP[key[2]], dels)
         /\ key[1] # addition => routes' = routes \ {r \in routes : r[1] = IP[key[2]]}
  BY DEF ProcessAddr
<1> DEFINE at == IP[key[2]]
<1>2. /\ \A pr \in Protos : Adds(ports[pr]) \subseteq PortNumbers
      /\ \A r \in routes : r \in Range(IP) \X PortNumbers \X Protos
  <2>1. applying \in StoreNames
    BY <1>1 DEF Typed, WorkTyped
  <2>2. \A pr \in Protos : ports[pr] \in Deltas
    BY <2>1 DEF Typed, StoresTyped
  <2>. QED
    BY <2>2 DEF Deltas, Adds, Typed, WorkTyped
<1>3. ASSUME NEW r, r \in RoutesAt(at, adds)
      PROVE  r[1] = at /\ r[3] \in Protos /\ r[2] \in Adds(ports[r[3]])
  <2>1. PICK pr \in Protos, port \in PortNumbers : port \in adds[pr] /\ r = <<at, port, pr>>
    <3>. HIDE DEF adds
    <3>. QED
      BY <1>3, RoutesAtIs
  <2>. QED
    BY <2>1
<1>4. ASSUME NEW r, r \in RoutesAt(at, dels)
      PROVE  r[1] = at /\ r[3] \in Protos /\ r[2] \in Dels(ports[r[3]])
  <2>1. PICK pr \in Protos, port \in PortNumbers : port \in dels[pr] /\ r = <<at, port, pr>>
    <3>. HIDE DEF dels
    <3>. QED
      BY <1>4, RoutesAtIs
  <2>. QED
    BY <2>1
<1>5. ASSUME NEW pr \in Protos, NEW port \in PortNumbers
      PROVE  /\ port \in Adds(ports[pr]) => <<at, port, pr>> \in RoutesAt(at, adds)
             /\ port \in Dels(ports[pr]) => <<at, port, pr>> \in RoutesAt(at, dels)
  <2>1. adds[pr] = Adds(ports[pr]) /\ dels[pr] = Dels(ports[pr])
    OBVIOUS
  <2>. HIDE DEF adds, dels
  <2>. QED
    BY <2>1, RoutesAtIs
<1>. HIDE DEF adds, dels, at
<1>6. ASSUME NEW r \in routes, r[1] = at, r[2] \in Dels(ports[r[3]])
      PROVE  r \in RoutesAt(at, dels)
  <2>1. r = <<at, r[2], r[3]>> /\ r[2] \in PortNumbers /\ r[3] \in Protos
    BY <1>2, <1>6
  <2>. QED
    BY <1>5, <1>6, <2>1
<1>7. CASE key[1] = addition
  <2>1. routes' = (routes \cup RoutesAt(at, adds)) \ RoutesAt(at, dels)
    BY <1>1, <1>7 DEF at
  <2>2. ASSUME NEW r \in routes'
        PROVE  \/ r \in routes /\ (r[1] # at \/ r[2] \notin Dels(ports[r[3]]))
               \/ r[1] = at /\ r[3] \in Protos /\ r[2] \in Adds(ports[r[3]])
    BY <1>3, <1>6, <2>1
  <2>3. ASSUME NEW r \in routes
        PROVE  (r[1] = at /\ r[2] \in Dels(ports[r[3]])) \/ r \in routes'
    BY <1>4, <2>1
  <2>4. ASSUME NEW pr \in Protos, NEW port \in Adds(ports[pr]) \ Dels(ports[pr])
        PROVE  <<at, port, pr>> \in routes'
    BY <1>2, <1>4, <1>5, <2>1
  <2>. QED
    BY <1>1, <1>7, <2>2, <2>3, <2>4 DEF at
<1>8. CASE key[1] # addition
  BY <1>1, <1>8 DEF at
<1>. QED
  BY <1>7, <1>8

\* ... visits a key of it ...
LEMMA FollowingProcess ==
    ASSUME Typed, Plain, Following, ProcessAddr
    PROVE  Following'
<1>1. UNCHANGED <<apiVars, podVars, cmVars, cacheVars, queue, applying>>
  BY DEF ProcessAddr
<1>2. PICK s \in StoreNames : /\ queue = <<>> /\ applying = s /\ todo \subseteq store[s].addr
                              /\ \A p \in Pods : PodTold(p)
                              /\ \A pr \in Protos : CmTold(pr)
  BY DEF ProcessAddr, Following, OneAtATime, PodOnItsWay, CmOnItsWay, StoreOnItsWay, Idle
<1>3. ~ May("netlink")
  BY DEF Plain, May
<1>4. PICK key \in todo :
         /\ todo' = todo \ {key}
         /\ \A r : r \in routes' =>
               \/ r \in routes /\ \/ r[1] # IP[key[2]]
                                  \/ key[1] = addition /\ r[2] \notin Dels(DuePorts(r[3]))
               \/ /\ key[1] = addition /\ r[1] = IP[key[2]] /\ r[3] \in Protos
                  /\ r[2] \in Adds(DuePorts(r[3]))
         /\ \A r \in routes :
               \/ r[1] = IP[key[2]] /\ \/ key[1] # addition
                                       \/ r[2] \in Dels(DuePorts(r[3]))
               \/ r \in routes'
         /\ \A pr \in Protos : \A port \in Adds(DuePorts(pr)) \ Dels(DuePorts(pr)) :
               key[1] = addition => <<IP[key[2]], port, pr>> \in routes'
  BY <1>2, <1>3, KeyVisited DEF DuePorts
<1>5. Due = todo /\ Due' = Due \ {key} /\ \A pr \in Protos : DuePorts(pr)' = DuePorts(pr)
  BY <1>1, <1>2, <1>4 DEF Due, DuePorts, cacheVars
<1>6. OneAtATime'
  <2>1. StoreOnItsWay'
    BY <1>1, <1>2, <1>4 DEF StoreOnItsWay, PodTold, CmTold, apiVars, podVars, cmVars, cacheVars
  <2>. QED
    BY <1>1, <2>1 DEF Following, OneAtATime, podVars, cmVars
<1>7. UNCHANGED <<seen, cmSeen, Ex, Nw, env>>
  BY <1>1 DEF apiVars, podVars, cmVars, cacheVars
<1>8. PICK q \in Pods : key = <<key[1], q>> /\ q = key[2] /\ key[1] \in {addition, deletion}
  BY DEF Typed, WorkTyped, Keys, Actions
<1>9. addition # deletion
  BY DEF addition, deletion
<1>10. CmsStay => CacheIs' /\ DueFits'
  BY <1>5, <1>7 DEF Following, CacheIs, DueFits
<1>11. CmsStay /\ Exclusive => ReadyRouted'
  <2> SUFFICES ASSUME CmsStay, Exclusive, NEW p \in Nginx, NEW pr \in Protos,
                      seen[p] = "ready", NEW port \in Ex[pr]
               PROVE  \/ <<IP[p], port, pr>> \in routes'
                      \/ <<addition, p>> \in Due' /\ port \in Adds(DuePorts(pr))
    BY <1>5, <1>7 DEF ReadyRouted
  <2>1. port \notin Dels(DuePorts(pr))
    BY <1>5 DEF Following, DueFits
  <2>2. CASE <<IP[p], port, pr>> \in routes
    <3>1. key[1] = addition \/ IP[p] # IP[q]
      BY <1>5, <1>8, ControllerAssumption DEF Following, ReadyKept
    <3>. QED
      BY <1>4, <1>8, <2>1, <2>2, <3>1
  <2>3. CASE <<addition, p>> \in Due /\ port \in Adds(DuePorts(pr))
    BY <1>4, <1>5, <1>8, <2>1, <2>3
  <2>. QED
    BY <2>2, <2>3 DEF Following, ReadyRouted
<1>12. Exclusive => ReadyKept' /\ OnePerHost(seen')
  BY <1>5, <1>7 DEF Following, ReadyKept, OnePerHost
<1>13. Orderly => Occupied'
  <2> SUFFICES ASSUME Orderly PROVE Occupied'
    OBVIOUS
  <2>1. ASSUME NEW r \in routes'
        PROVE  \E p \in Pods : IP[p] = r[1] /\ (Up(seen[p]) \/ <<deletion, p>> \in Due')
    <3>1. CASE r \in routes /\ (r[1] # IP[q] \/ key[1] = addition)
      <4>1. PICK p \in Pods : IP[p] = r[1] /\ (Up(seen[p]) \/ <<deletion, p>> \in Due)
        BY <3>1 DEF Following, Occupied
      <4>. QED
        BY <1>5, <1>8, <1>9, <3>1, <4>1
    <3>2. CASE key[1] = addition /\ r[1] = IP[q]
      BY <1>5, <1>8, <3>2 DEF Following, Occupied
    <3>. QED
      BY <1>4, <1>8, <3>1, <3>2
  <2>2. \A p \in Pods : <<addition, p>> \in Due' => Up(seen[p])
    BY <1>5 DEF Following, Occupied
  <2>. QED
    BY <1>7, <2>1, <2>2 DEF Occupied
<1>14. Orderly /\ CmsStay /\ OnlyNginxShare => Clean'
  <2> SUFFICES ASSUME Orderly, CmsStay, OnlyNginxShare, NEW r \in routes', NEW p \in Nginx,
                      IP[p] = r[1], Up(seen[p])
               PROVE  \/ r[2] \in Ex[r[3]]
                      \/ /\ \E other \in Pods : IP[other] = r[1] /\ <<addition, other>> \in Due'
                         /\ r[2] \in Dels(DuePorts(r[3])')
    BY <1>7 DEF Clean
  <2>1. CASE /\ r \in routes
             /\ r[1] # IP[q] \/ r[2] \notin Dels(DuePorts(r[3]))
    <3>1. \/ r[2] \in Ex[r[3]]
          \/ /\ \E other \in Pods : IP[other] = r[1] /\ <<addition, other>> \in Due
             /\ r[2] \in Dels(DuePorts(r[3]))
      BY <2>1 DEF Following, Clean
    <3>2. r[3] \in Protos
      BY <2>1 DEF Typed, WorkTyped
    <3>. QED
      BY <1>5, <1>8, <2>1, <3>1, <3>2
  <2>2. CASE r[3] \in Protos /\ r[2] \in Adds(DuePorts(r[3]))
    BY <1>5, <2>2 DEF Following, DueFits
  <2>. QED
    BY <1>4, <1>8, <2>1, <2>2
<1>. QED
  BY <1>6, <1>7, <1>10, <1>11, <1>12, <1>13, <1>14, SameEnv DEF Following

\* In a plain environment an object changes only when everything is applied,
\* and no watch is lost.
LEMMA PlainChanges ==
    ASSUME Plain
    PROVE  /\ MayChange => Settled
           /\ ~ WatchLost
BY DEF Plain, Calm, May, MayChange, WatchLost

\* While the process runs, every step keeps the kernel following.
LEMMA FollowingStep ==
    ASSUME Typed, CacheInv', ServerInv, Plain, Following, stage = "running", stage' = "running",
           [Next]_vars
    PROVE  Following'
<1>1. ASSUME NEW p \in Pods, PodChanges(p) PROVE Following'
  BY <1>1, PlainChanges, FollowingPodChanges DEF PodChanges
<1>2. ASSUME NEW pr \in Protos, CmChanges(pr) PROVE Following'
  BY <1>2, PlainChanges, FollowingCmChanges DEF CmChanges
<1>3. CASE WatchLost \/ Kill \/ Start \/ FirstList \/ Enlist \/ Run
  <2>1. ~ Enlist
    BY DEF Following, OneAtATime, Enlist, PodInformer!Enlist, PodInformer!Listing,
           CmInformer!Enlist, CmInformer!Listing
  <2>. QED
    BY <1>3, <2>1, PlainChanges DEF Kill, Start, FirstList, Run
<1>4. CASE UNCHANGED vars
  <2>1. UNCHANGED <<apiVars, podVars, cmVars, cacheVars, queue, workerVars>>
    BY <1>4 DEF vars
  <2>2. Due' = Due /\ \A pr \in Protos : DuePorts(pr)' = DuePorts(pr)
    BY <2>1 DEF Due, DuePorts, cacheVars, workerVars
  <2>3. OneAtATime'
    <3>1. PodOnItsWay => PodOnItsWay'
      BY <2>1 DEF PodOnItsWay, Idle, CmTold, PodTold, Follows, LifeFrom, May, apiVars,
                  podVars, cmVars, workerVars
    <3>2. CmOnItsWay => CmOnItsWay'
      BY <2>1 DEF CmOnItsWay, Idle, CmTold, PodTold, May, apiVars, podVars, cmVars, workerVars
    <3>3. StoreOnItsWay => StoreOnItsWay'
      BY <2>1 DEF StoreOnItsWay, Idle, CmTold, PodTold, apiVars, podVars, cmVars,
                  cacheVars, workerVars
    <3>. QED
      BY <2>1, <3>1, <3>2, <3>3 DEF Following, OneAtATime, podVars, cmVars
  <2>. QED
    BY <2>1, <2>2, <2>3, FollowingKept DEF apiVars, podVars, cmVars, cacheVars, workerVars
<1>. QED
  BY <1>1, <1>2, <1>3, <1>4, FollowingPodNotified, FollowingCmNotified, FollowingReceive,
     FollowingProcess, FollowingFinish DEF Next

\* Only a change ends what a fresh start has listed, and only a kill or a change
\* of the address map in a range ends the process.
LEMMA FreshnessEnds ==
    ASSUME Plain, [Next]_vars
    PROVE  /\ fresh /\ ~ fresh' => (Settled /\ stage' = stage) \/ stage' = "down"
           /\ ~ fresh /\ fresh' => Start
           /\ stage' = "starting" /\ stage # "starting" => fresh'
           /\ stage' = "running" => stage \in {"starting", "running"}
           /\ stage' = "running" /\ stage = "starting" => fresh' = fresh
           /\ stage' = "down" /\ stage # "down" => Kill \/ PodNotified
           /\ \/ pod' = pod
              \/ Settled /\ ~ fresh' /\ stage' = stage
<1>1. ASSUME NEW p \in Pods, PodChanges(p)
      PROVE  Settled /\ ~ fresh' /\ stage' = stage
  BY <1>1, PlainChanges DEF PodChanges, MayChange, Happens
<1>2. ASSUME NEW pr \in Protos, CmChanges(pr)
      PROVE  Settled /\ ~ fresh' /\ stage' = stage /\ pod' = pod
  BY <1>2, PlainChanges DEF CmChanges, MayChange, Happens
<1>3. CASE Start
  BY <1>3 DEF Start, apiVars
<1>4. CASE Kill
  BY <1>4 DEF Kill, Happens
<1>5. CASE PodNotified
  <2>1. UNCHANGED <<pod, fresh>> /\ stage' \in {stage, "down"} /\ stage # "down"
    BY <1>5, PodStores DEF PodNotified, PodInformer!Deliver
  <2>. QED
    BY <1>5, <2>1
<1>6. CASE Run
  BY <1>6 DEF Run, apiVars
<1>7. ASSUME \/ FirstList \/ Enlist \/ CmNotified \/ Receive \/ ProcessAddr \/ Finish
             \/ UNCHANGED vars
      PROVE  UNCHANGED <<pod, fresh, stage>>
  BY <1>7 DEF FirstList, Enlist, CmNotified, Receive, ProcessAddr, Finish, vars, apiVars,
              startVars, PodInformer!List, PodInformer!Enlist
<1>. QED
  BY <1>1, <1>2, <1>3, <1>4, <1>5, <1>6, <1>7, PlainChanges DEF Next, Settled

LEMMA PlainInit == Init => PlainInv
BY DEF Init, PlainInv

LEMMA PlainStep ==
    ASSUME Typed, Typed', CacheInv', ServerInv, ServerInv', FreshInv', FreshRest', PlainInv,
           [Next]_vars
    PROVE  PlainInv'
<1> SUFFICES ASSUME Plain PROVE PlainInv'
  BY EnvKept, SameEnv DEF PlainInv
<1>0. env' = env /\ Plain'
  BY EnvKept, SameEnv
<1>1. ~ fresh' => stage' # "starting"
  BY FreshnessEnds DEF PlainInv, Settled
<1>2. stage = "running" /\ ~ fresh => Following
  BY DEF PlainInv
<1>3. ASSUME stage' = "running", ~ fresh' PROVE stage = "running" /\ Following
  <2>1. stage = "running" /\ (fresh => Settled)
    BY <1>3, FreshnessEnds DEF PlainInv, Settled
  <2>. QED
    BY <2>1 DEF PlainInv
<1>4. ASSUME Orderly, fresh' \/ stage' = "down" PROVE \A p \in Pods : pod'[p] \in {Absent, "ready"}
  <2>1. pod' = pod
    BY <1>4, FreshnessEnds DEF Settled
  <2>2. CASE fresh \/ stage = "down"
    BY <1>4, <2>1, <2>2 DEF PlainInv
  <2>3. CASE ~ fresh /\ stage # "down"
    <3>1. PodNotified /\ stage' # stage
      BY <1>4, <2>3, FreshnessEnds DEF Orderly, Kill, Start, May
    <3>2. stage = "running"
      BY <2>3 DEF PlainInv, Typed, StartTyped
    <3>. QED
      BY <1>2, <2>3, <3>1, <3>2, FollowingPodNotified
  <2>. QED
    BY <2>2, <2>3
<1>5. ASSUME stage' = "running", fresh' => Settled' PROVE Following'
  <2>1. CASE fresh'
    <3>1. Orderly' => \A p \in Pods : (pod[p] \in {Absent, "ready"})'
      BY <1>0, <1>4, <2>1, SameEnv
    <3>. QED
      BY <1>0, <1>5, <2>1, <3>1, FreshFollowingNext DEF FreshlySettled
  <2>2. CASE ~ fresh'
    BY <1>3, <1>5, <2>2, FollowingStep
  <2>. QED
    BY <2>1, <2>2
<1>. QED
  BY <1>0, <1>1, <1>4, <1>5, SameEnv DEF PlainInv
-----------------------------------------------------------------------------
\* The environments in which no pod comes or goes, and in which a change finds
\* the last one applied: watches may be lost, and the controller killed.
Static == Calm /\ Only({"ports", "anytime", "gap", "kill"})

Sent(s) == \E i \in 1 .. Len(queue) : queue[i] = s

\* All that is queued of a configmap is its last version, and the cache has the
\* version that was notified last, or Initial's.
CmsComing == \A pr \in Protos :
                /\ \A i \in 1 .. Len(cmEvents[pr]) : cmEvents[pr][i] = cm[pr]
                /\ "cms" \in listed /\ cmEvents[pr] = <<>> => cmSeen[pr] = cm[pr]
CacheIsSeen == \A pr \in Protos :
                  Nw[pr] = {} /\ Ex[pr] = IF cmSeen[pr] = Absent THEN cm[pr] ELSE cmSeen[pr]

\* The maps that go to the kernel have all addresses, and all ports.
SentComplete == /\ Sent("clbdata") => store.clbdata.addr = listNginx
                /\ Sent("plbdata") \/ applying = "plbdata" => store.plbdata.ports = listCm

\* A route is about to be deleted.
Deletes(r) == /\ Ex[r[3]] = cm[r[3]] /\ r[2] \in Dels(store.clbdata.ports[r[3]])
              /\ \/ Sent("clbdata")
                 \/ applying = "clbdata" /\ \E q \in Pods : IP[q] = r[1] /\ <<addition, q>> \in todo

\* The address of an nginx pod has no other routes but such.
NoneElse == \A r \in routes, p \in Nginx :
               r[1] = IP[p] /\ HasIP(pod[p]) => r[2] \in Ex[r[3]] \cup cm[r[3]] \/ Deletes(r)

StaticRest == /\ stage = "running" => "cms" \in listed
              /\ CmsComing /\ CacheIsSeen /\ SentComplete /\ NoneElse
StaticInv == Static /\ stage # "down" => StaticRest

LEMMA StaticInit == Init => StaticInv
BY DEF Init, StaticInv

\* What such an environment excludes.
LEMMA StaticExcludes ==
    ASSUME Static
    PROVE  /\ CmsStay /\ ~ May("pods") /\ ~ May("window") /\ ~ May("list") /\ ~ May("netlink")
           /\ MayChange => Settled
BY DEF Static, Calm, Only, CmsStay, May, MayChange

\* What is sent when a handler sends, and when a worker receives.
LEMMA SentNow ==
    ASSUME Typed
    PROVE  /\ \A s \in StoreNames : Send(s) => \A t : Sent(t)' <=> Sent(t) \/ t = s
           /\ Chan!Take => \A t : Sent(t) <=> Sent(t)' \/ t = applying'
<1>0. queue \in Seq(StoreNames) /\ Len(queue) \in Nat
  BY LenProperties DEF Typed, WorkTyped
<1>1. ASSUME NEW s \in StoreNames, Send(s), NEW t PROVE Sent(t)' <=> Sent(t) \/ t = s
  <2>1. /\ Len(queue') = Len(queue) + 1 /\ queue'[Len(queue) + 1] = s
        /\ \A i \in 1 .. Len(queue) : queue'[i] = queue[i]
    BY <1>0, <1>1, AppendProperties DEF Send, Chan!Put
  <2>. QED
    BY <1>0, <2>1 DEF Sent
<1>2. ASSUME Chan!Take, NEW t PROVE Sent(t) <=> Sent(t)' \/ t = applying'
  <2>1. queue # <<>> /\ applying' = Head(queue) /\ queue' = Tail(queue)
    BY <1>2 DEF Chan!Take
  <2>2. /\ Len(queue') = Len(queue) - 1 /\ applying' = queue[1] /\ Len(queue) > 0
        /\ \A i \in 1 .. Len(queue') : queue'[i] = queue[i + 1]
    BY <1>0, <2>1, HeadTailProperties, EmptySeq
  <2>3. Sent(t)' => Sent(t)
    BY <1>0, <2>2 DEF Sent
  <2>4. ASSUME Sent(t), t # applying' PROVE Sent(t)'
    <3>1. PICK i \in 1 .. Len(queue) : queue[i] = t
      BY <2>4 DEF Sent
    <3>2. i # 1 /\ i - 1 \in 1 .. Len(queue') /\ queue'[i - 1] = t
      BY <1>0, <2>2, <2>4, <3>1
    <3>. QED
      BY <3>2 DEF Sent
  <2>. QED
    BY <1>0, <2>2, <2>3, <2>4 DEF Sent
<1>. QED
  BY <1>1, <1>2

\* Nothing that the routes depend on changes but what goes to the kernel.
LEMMA StaticKept ==
    ASSUME Static, StaticRest, stage' = "running" => "cms" \in listed',
           UNCHANGED <<env, pod, cm, Ex, Nw, cmSeen, routes>>, CmsComing',
           store'.clbdata = store.clbdata, todo \subseteq todo', applying' = applying,
           \A s : Sent(s) => Sent(s)', Sent("clbdata")' => Sent("clbdata"),
           Sent("plbdata")' \/ applying = "plbdata" => store'.plbdata.ports = listCm
    PROVE  StaticInv'
<1>1. /\ listNginx' = listNginx /\ listCm' = listCm
  BY SameListing
<1>2. CacheIsSeen' /\ SentComplete'
  BY <1>1 DEF StaticRest, CacheIsSeen, SentComplete
<1>3. \A r : Deletes(r) => Deletes(r)'
  BY DEF Deletes
<1>4. NoneElse'
  BY <1>3 DEF StaticRest, NoneElse
<1>. QED
  BY <1>2, <1>4 DEF StaticInv, StaticRest

\* The configmap informer lists: what it lists is the last version.
LEMMA StaticLists ==
    ASSUME Typed, CmsComing, CmInformer!List
    PROVE  CmsComing'
<1>1. PICK n \in CmInformer!Received :
         cmEvents' = [o \in Protos |-> Append(SubSeq(cmEvents[o], 1, n[o]), cm[o])]
  BY DEF CmInformer!List
<1>2. UNCHANGED <<cm, cmSeen>>
  BY DEF CmInformer!List
<1>3. ASSUME NEW pr \in Protos
      PROVE  /\ cmEvents'[pr] # <<>>
             /\ \A i \in 1 .. Len(cmEvents'[pr]) : cmEvents'[pr][i] = cm[pr]
  <2>1. cmEvents[pr] \in Seq(CmVersions) /\ cm[pr] \in CmVersions
    BY DEF Typed, CmsTyped, InformerTyped
  <2>2. n[pr] \in 0 .. Len(cmEvents[pr])
    <3>1. n[pr] <= Len(cmEvents[pr]) /\ \E q \in Protos : n[pr] \in 0 .. Len(cmEvents[q])
      BY <1>1 DEF CmInformer!Received, CmInformer!Lengths
    <3>. QED
      BY <2>1, <3>1, LenProperties
  <2>3. cmEvents'[pr] = Append(SubSeq(cmEvents[pr], 1, n[pr]), cm[pr])
    BY <1>1
  <2>4. /\ Len(cmEvents'[pr]) = n[pr] + 1
        /\ \A i \in 1 .. n[pr] : cmEvents'[pr][i] = cmEvents[pr][i]
        /\ cmEvents'[pr][n[pr] + 1] = cm[pr]
    BY <2>1, <2>2, <2>3, ListedSeq
  <2>5. \A i \in 1 .. n[pr] : cmEvents[pr][i] = cm[pr]
    BY <2>1, <2>2, LenProperties DEF CmsComing
  <2>6. cmEvents'[pr] # <<>>
    BY <2>1, <2>2, <2>3, ListedSeq, AppendProperties
  <2>7. ASSUME NEW i \in 1 .. Len(cmEvents'[pr]) PROVE cmEvents'[pr][i] = cm[pr]
    <3>1. i \in 1 .. n[pr] \/ i = n[pr] + 1
      BY <2>2, <2>4
    <3>. QED
      BY <2>4, <2>5, <3>1
  <2>. QED
    BY <2>6, <2>7
<1>. QED
  BY <1>2, <1>3 DEF CmsComing

\* ... and queues it all: none of it is a deletion.
LEMMA StaticEnlists ==
    ASSUME Typed, CmsComing, \A pr \in Protos : cm[pr] # Absent, CmInformer!Enlist
    PROVE  UNCHANGED <<cm, cmSeen>> /\ \A pr \in Protos : cmEvents'[pr] = cmEvents[pr]
<1>1. ASSUME NEW pr \in Protos PROVE ~ CmInformer!Dropped(pr)
  <2>1. cmMark[pr] \in 1 .. Len(cmEvents[pr]) /\ Len(cmEvents[pr]) \in Nat
    BY LenProperties DEF CmInformer!Enlist, CmInformer!Listing, Typed, CmsTyped, InformerTyped
  <2>. QED
    BY <2>1 DEF CmsComing, CmInformer!Dropped
<1>. QED
  BY <1>1 DEF CmInformer!Enlist

\* The first lists and the later ones, and what they queue.
LEMMA StaticListing ==
    ASSUME Typed, ServerInv, Static, StaticRest, FirstList \/ Enlist \/ WatchLost
    PROVE  StaticInv'
<1>1. UNCHANGED <<env, pod, cm, cacheVars, queue, workerVars, stage, cmSeen>>
  BY DEF FirstList, Enlist, WatchLost, PodInformer!List, PodInformer!Enlist,
         CmInformer!List, CmInformer!Enlist, cmVars
<1>2. \A pr \in Protos : cm[pr] # Absent
  BY StaticExcludes DEF ServerInv
<1>3. CmsComing'
  <2>1. CASE CmInformer!List
    BY <2>1, StaticLists DEF StaticRest
  <2>2. CASE Enlist /\ CmInformer!Enlist
    <3>1. UNCHANGED <<cm, cmSeen, listed>> /\ \A pr \in Protos : cmEvents'[pr] = cmEvents[pr]
      BY <1>2, <2>2, StaticEnlists DEF StaticRest, Enlist
    <3>. QED
      BY <3>1 DEF StaticRest, CmsComing
  <2>3. CASE UNCHANGED cmVars /\ ("cms" \in listed' => "cms" \in listed)
    BY <1>1, <2>3 DEF StaticRest, CmsComing, cmVars
  <2>. QED
    BY <2>1, <2>2, <2>3 DEF FirstList, Enlist, WatchLost
<1>4. stage' = "running" => "cms" \in listed'
  BY <1>1 DEF FirstList, Enlist, WatchLost, StaticRest
<1>. QED
  BY <1>1, <1>3, <1>4, StaticKept DEF cacheVars, workerVars, Sent, StaticRest, SentComplete

\* Only configmaps change, and only when everything is applied.
LEMMA StaticChanges ==
    ASSUME Typed, ServerInv, Static, StaticRest, NEW pr \in Protos, CmChanges(pr)
    PROVE  StaticInv'
<1>1. /\ UNCHANGED <<env, pod, podVars, cacheVars, queue, workerVars, stage, listed, cmSeen>>
      /\ Settled
  BY StaticExcludes DEF CmChanges, CmInformer!Change
<1>2. PICK v : /\ cm' = [cm EXCEPT ![pr] = v]
               /\ cmEvents' = [cmEvents EXCEPT ![pr] = Append(@, v)]
  BY DEF CmChanges, CmInformer!Change
<1>3. /\ "cms" \in listed /\ queue = <<>> /\ applying = NoStore
      /\ \A o \in Protos : cmEvents[o] = <<>> /\ cmSeen[o] = cm[o] /\ Ex[o] = cm[o] /\ cm[o] # Absent
  BY <1>1, StaticExcludes DEF Settled, StaticRest, CmsComing, CacheIsSeen, ServerInv
<1>4. /\ cmEvents \in [Protos -> Seq(CmVersions)] /\ cm \in [Protos -> CmVersions]
  BY DEF Typed, CmsTyped, InformerTyped
<1>5. CmsComing'
  <2>1. cmEvents'[pr] = <<v>> /\ cm'[pr] = v
    <3>1. cmEvents'[pr] = Append(<<>>, v) /\ cm'[pr] = v
      BY <1>2, <1>3, <1>4
    <3>2. Append(<<>>, v) = <<v>>
      OBVIOUS
    <3>. QED
      BY <3>1, <3>2, Zenon
  <2>2. \A o \in Protos \ {pr} : cmEvents'[o] = cmEvents[o] /\ cm'[o] = cm[o]
    BY <1>2, <1>4
  <2>3. ASSUME NEW o \in Protos \ {pr} PROVE cmSeen'[o] = cm'[o] /\ cmEvents'[o] = <<>>
    BY <1>1, <1>3, <2>2
  <2>4. Len(<<v>>) = 1 /\ <<v>>[1] = v /\ <<v>> # <<>> /\ Len(<<>>) = 0
    OBVIOUS
  <2>. QED
    BY <2>1, <2>3, <2>4 DEF CmsComing
<1>6. CacheIsSeen'
  BY <1>1, <1>3 DEF StaticRest, CacheIsSeen, cacheVars
<1>7. ~ Sent("clbdata") /\ ~ Sent("plbdata") /\ applying # "clbdata" /\ applying # "plbdata"
  BY <1>3, ControllerAssumption DEF Sent
<1>8. SentComplete'
  BY <1>1, <1>7 DEF SentComplete, Sent, workerVars
<1>9. NoneElse'
  <2>1. ASSUME NEW r \in routes, NEW p \in Nginx, r[1] = IP[p], HasIP(pod[p])
        PROVE  r[2] \in Ex[r[3]]
    <3>1. r[3] \in Protos
      BY DEF Typed, WorkTyped
    <3>. QED
      BY <1>3, <1>7, <2>1, <3>1 DEF StaticRest, NoneElse, Deletes
  <2>. QED
    BY <1>1, <2>1 DEF NoneElse, cacheVars, workerVars
<1>. QED
  BY <1>1, <1>3, <1>5, <1>6, <1>8, <1>9 DEF StaticInv, StaticRest

\* The pod informer notifies.
LEMMA StaticPodNotified ==
    ASSUME Typed, Static, StaticRest, PodNotified
    PROVE  StaticInv'
<1> SUFFICES ASSUME stage' # "down" PROVE StaticInv'
  BY DEF StaticInv
<1>1. PICK p \in Pods :
         LET next == PodInformer!Next(p)
         IN  /\ PodInformer!Deliver(p)
             /\ CASE next = Absent    -> UNCHANGED <<store, todo, queue, applying, stage>>
                  [] seen[p] = Absent -> AddrAdd(p, next)
                  [] OTHER            -> AddrUpdate(p, seen[p])
  BY DEF PodNotified
<1>2. UNCHANGED <<env, pod, cm, cmVars, Ex, Nw, routes, listed>>
  BY <1>1 DEF PodNotified, PodInformer!Deliver
<1>3. store \in [StoreNames -> [addr : SUBSET Keys, ports : [Protos -> Deltas]]]
  BY DEF Typed, StoresTyped
<1>4. /\ store'.clbdata = store.clbdata /\ todo \subseteq todo' /\ applying' = applying
      /\ \A s : Sent(s) => Sent(s)'
      /\ Sent("clbdata")' => Sent("clbdata")
      /\ Sent("plbdata")' \/ applying = "plbdata" => store'.plbdata.ports = listCm
      /\ stage' = stage
  <2>1. CASE UNCHANGED <<store, todo, queue, applying, stage>>
    BY <2>1 DEF Sent, StaticRest, SentComplete
  <2>2. ASSUME NEW phase, AddrAdd(p, phase), ~ UNCHANGED <<store, todo, queue, applying, stage>>
        PROVE  /\ store' = [store EXCEPT !.plbdata.addr = @ \cup {<<addition, p>>}]
               /\ todo \subseteq todo' /\ UNCHANGED <<queue, applying, stage>>
    <3>1. stage' # "down"
      OBVIOUS
    <3>. QED
      BY <2>2, <3>1 DEF AddrAdd
  <2>3. ASSUME NEW phase, AddrAdd(p, phase), ~ UNCHANGED <<store, todo, queue, applying, stage>>
        PROVE  /\ store'.clbdata = store.clbdata /\ store'.plbdata.ports = store.plbdata.ports
               /\ todo \subseteq todo' /\ UNCHANGED <<queue, applying, stage>>
    BY <1>3, <2>2, <2>3 DEF StoreNames
  <2>4. ASSUME NEW old, AddrUpdate(p, old), ~ UNCHANGED <<store, todo, queue, applying, stage>>
        PROVE  /\ store'.clbdata = store.clbdata /\ store'.plbdata.ports = listCm
               /\ Send("plbdata") /\ UNCHANGED <<todo, stage>>
    BY <1>3, <2>4, StaticExcludes DEF StoreNames, AddrUpdate, MayFail
  <2>5. ASSUME Send("plbdata") PROVE applying' = applying /\ \A t : Sent(t)' <=> Sent(t) \/ t = "plbdata"
    BY <2>5, SentNow DEF StoreNames, Send, Chan!Put
  <2>6. CASE /\ store'.clbdata = store.clbdata /\ store'.plbdata.ports = store.plbdata.ports
             /\ todo \subseteq todo' /\ UNCHANGED <<queue, applying, stage>>
    BY <2>6 DEF Sent, StaticRest, SentComplete
  <2>7. CASE /\ store'.clbdata = store.clbdata /\ store'.plbdata.ports = listCm
             /\ Send("plbdata") /\ UNCHANGED <<todo, stage>>
    BY <2>5, <2>7
  <2>. QED
    BY <1>1, <2>1, <2>3, <2>4, <2>6, <2>7
<1>5. CmsComing'
  BY <1>2 DEF StaticRest, CmsComing, cmVars
<1>. QED
  BY <1>2, <1>4, <1>5, StaticKept DEF StaticRest, cmVars

\* updatePorts sends what has to be deleted to every address.
LEMMA StaticPortsUpdated ==
    ASSUME Typed, ServerInv, Static, StaticRest, CmsComing', NEW pr \in Protos,
           cmSeen[pr] # Absent, cm[pr] # cmSeen[pr], UpdatePorts(pr, cm[pr]),
           cmSeen' = [cmSeen EXCEPT ![pr] = cm[pr]],
           UNCHANGED <<env, pod, cm, todo, routes, stage, listed>>
    PROVE  StaticInv'
<1>1. ~ May("list") /\ Nw[pr] = {} /\ Ex[pr] = cmSeen[pr] /\ cm[pr] # Absent
  BY StaticExcludes DEF StaticRest, CacheIsSeen, ServerInv
<1>2. /\ Ex'[pr] = cm[pr] /\ Nw'[pr] = {}
      /\ \A other \in Protos \ {pr} : Ex'[other] = Ex[other] /\ Nw'[other] = Nw[other]
      /\ store'.clbdata.addr = listNginx
      /\ Dels(store'.clbdata.ports[pr]) = Ex[pr] \ cm[pr]
      /\ \A other \in Protos \ {pr} : store'.clbdata.ports[other] = store.clbdata.ports[other]
      /\ store'.plbdata = store.plbdata
  BY <1>1, PortsUpdated
<1>3. /\ cmSeen'[pr] = cm[pr]
      /\ \A other \in Protos \ {pr} : cmSeen'[other] = cmSeen[other]
  BY DEF Typed, CmsTyped, InformerTyped
<1>4. applying' = applying /\ applying = NoStore /\ \A t : Sent(t)' <=> Sent(t) \/ t = "clbdata"
  BY SentNow DEF UpdatePorts, StoreNames, Send, Chan!Put
<1>5. CacheIsSeen'
  BY <1>1, <1>2, <1>3 DEF StaticRest, CacheIsSeen
<1>6. SentComplete'
  BY <1>2, <1>4, SameListing DEF StaticRest, SentComplete
<1>7. NoneElse'
  <2> SUFFICES ASSUME NEW r \in routes, NEW p \in Nginx, r[1] = IP[p], HasIP(pod[p]),
                      r[2] \notin Ex'[r[3]] \cup cm[r[3]]
               PROVE  Deletes(r)'
    BY DEF NoneElse
  <2>1. r[3] \in Protos
    BY DEF Typed, WorkTyped
  <2>2. Sent("clbdata")'
    BY <1>4
  <2>3. CASE r[3] = pr
    <3>1. ~ Deletes(r)
      BY <1>1, <2>3 DEF Deletes
    <3>2. r[2] \in Ex[pr]
      BY <2>3, <3>1 DEF StaticRest, NoneElse
    <3>. QED
      BY <1>2, <2>2, <2>3, <3>2 DEF Deletes
  <2>4. CASE r[3] # pr
    <3>1. Deletes(r)
      BY <1>2, <2>1, <2>4 DEF StaticRest, NoneElse
    <3>. QED
      BY <1>2, <2>1, <2>2, <2>4, <3>1 DEF Deletes
  <2>. QED
    BY <2>3, <2>4
<1>. QED
  BY <1>5, <1>6, <1>7 DEF StaticInv, StaticRest

\* The configmap informer notifies: what is handled is the last version.
LEMMA StaticCmNotified ==
    ASSUME Typed, ServerInv, Static, StaticRest, CmNotified
    PROVE  StaticInv'
<1>1. PICK pr \in Protos :
         LET next == CmInformer!Next(pr)
             told == Absent \notin {next, cmSeen[pr]}
         IN  /\ CmInformer!Deliver(pr)
             /\ \/ ~ told /\ NotTold(pr, next)
                \/ /\ told /\ next = cmSeen[pr]
                   /\ UNCHANGED <<missed, cacheVars, queue, applying>>
                \/ /\ told /\ next # cmSeen[pr]
                   /\ UpdatePorts(pr, next)
  BY DEF CmNotified
<1>2. UNCHANGED <<env, pod, podVars, todo, routes, stage, listed, cm>>
  BY <1>1 DEF CmNotified, CmInformer!Deliver
<1>3. /\ cmEvents[pr] # <<>> /\ cmEvents[pr] \in Seq(CmVersions) /\ cm[pr] # Absent
      /\ cmSeen \in [Protos -> CmVersions] /\ cmEvents \in [Protos -> Seq(CmVersions)]
  BY <1>1, StaticExcludes DEF CmInformer!Deliver, Typed, CmsTyped, InformerTyped, ServerInv
<1>4. /\ Len(cmEvents[pr]) \in Nat /\ Len(cmEvents[pr]) # 0 /\ Head(cmEvents[pr]) = cmEvents[pr][1]
      /\ Len(Tail(cmEvents[pr])) = Len(cmEvents[pr]) - 1
      /\ \A i \in 1 .. Len(cmEvents[pr]) - 1 : Tail(cmEvents[pr])[i] = cmEvents[pr][i + 1]
  BY <1>3, HeadTailProperties, LenProperties, EmptySeq
<1>5. CmInformer!Next(pr) = cm[pr] /\ Head(cmEvents[pr]) = cm[pr]
  BY <1>1, <1>3, <1>4 DEF StaticRest, CmsComing, CmInformer!Next, CmInformer!Deliver
<1>6. /\ cmSeen' = [cmSeen EXCEPT ![pr] = cm[pr]]
      /\ cmEvents'[pr] = Tail(cmEvents[pr])
      /\ \A other \in Protos \ {pr} : cmEvents'[other] = cmEvents[other]
  BY <1>1, <1>3, <1>5 DEF CmInformer!Deliver
<1>7. CmsComing'
  <2>1. \A i \in 1 .. Len(cmEvents'[pr]) : cmEvents'[pr][i] = cm[pr]
    BY <1>4, <1>6 DEF StaticRest, CmsComing
  <2>2. cmSeen'[pr] = cm[pr] /\ \A other \in Protos \ {pr} : cmSeen'[other] = cmSeen[other]
    BY <1>3, <1>6
  <2>. QED
    BY <1>2, <1>6, <2>1, <2>2 DEF StaticRest, CmsComing
<1>8. CASE cmSeen[pr] # Absent /\ cm[pr] # cmSeen[pr]
  <2>1. UpdatePorts(pr, cm[pr])
    BY <1>1, <1>3, <1>5, <1>8
  <2>. QED
    BY <1>2, <1>6, <1>7, <1>8, <2>1, StaticPortsUpdated
<1>9. CASE cmSeen[pr] \in {Absent, cm[pr]}
  <2>1. UNCHANGED <<cacheVars, queue, applying>>
    BY <1>1, <1>3, <1>5, <1>9 DEF NotTold
  <2>2. CacheIsSeen'
    BY <1>2, <1>3, <1>6, <1>9, <2>1 DEF StaticRest, CacheIsSeen, cacheVars
  <2>3. SentComplete' /\ NoneElse'
    BY <1>2, <2>1, SameListing DEF StaticRest, SentComplete, NoneElse, Deletes, Sent, cacheVars
  <2>. QED
    BY <1>2, <1>7, <2>2, <2>3 DEF StaticInv, StaticRest
<1>. QED
  BY <1>8, <1>9

\* A worker receives a store ...
LEMMA StaticReceive ==
    ASSUME Typed, Static, StaticRest, Receive
    PROVE  StaticInv'
<1>1. UNCHANGED <<apiVars, podVars, cmVars, cacheVars, routes, startVars>>
  BY DEF Receive
<1>2. /\ applying' \in StoreNames /\ applying = NoStore /\ todo' = store[applying'].addr
      /\ \A t : Sent(t) <=> Sent(t)' \/ t = applying'
  <2>1. Chan!Take /\ Head(queue) \in StoreNames
    BY HeadTailProperties DEF Receive, Chan!Take, Typed, WorkTyped
  <2>. QED
    BY <2>1, SentNow DEF Receive, Chan!Take
<1>3. CacheIsSeen' /\ CmsComing'
  BY <1>1 DEF StaticRest, CacheIsSeen, CmsComing, apiVars, cmVars, cacheVars, startVars
<1>4. listNginx' = listNginx /\ listCm' = listCm
  BY <1>1, SameListing DEF apiVars
<1>5. SentComplete'
  BY <1>1, <1>2, <1>4, ControllerAssumption DEF StaticRest, SentComplete, cacheVars
<1>6. ASSUME NEW r \in routes, NEW p \in Nginx, r[1] = IP[p], HasIP(pod[p]), Deletes(r)
      PROVE  Deletes(r)'
  <2>1. Sent("clbdata")
    BY <1>2, <1>6, ControllerAssumption DEF Deletes
  <2>2. CASE applying' = "clbdata"
    <3>1. p \in Pods /\ <<addition, p>> \in todo'
      BY <1>2, <1>6, <2>1, <2>2, ControllerAssumption DEF StaticRest, SentComplete, listNginx
    <3>. QED
      BY <1>1, <1>6, <2>2, <3>1 DEF Deletes, apiVars, cacheVars
  <2>3. CASE applying' # "clbdata"
    BY <1>1, <1>2, <1>6, <2>1, <2>3 DEF Deletes, apiVars, cacheVars
  <2>. QED
    BY <2>2, <2>3
<1>7. NoneElse'
  BY <1>1, <1>6 DEF StaticRest, NoneElse, apiVars, cacheVars
<1>. QED
  BY <1>1, <1>3, <1>5, <1>7 DEF StaticInv, StaticRest, startVars

\* ... visits a key: what it adds is in the cache, or configured ...
LEMMA StaticProcess ==
    ASSUME Typed, CacheInv, ServerInv, Static, StaticRest, ProcessAddr
    PROVE  StaticInv'
<1>1. UNCHANGED <<apiVars, podVars, cmVars, cacheVars, queue, applying, startVars>>
  BY DEF ProcessAddr
<1> DEFINE ports == store[applying].ports
<1>2. ~ May("netlink") /\ \A pr \in Protos : cm[pr] # Absent
  BY StaticExcludes DEF ServerInv
<1>3. PICK key \in todo :
         /\ todo' = todo \ {key}
         /\ \A r : r \in routes' =>
               \/ r \in routes /\ \/ r[1] # IP[key[2]]
                                  \/ key[1] = addition /\ r[2] \notin Dels(ports[r[3]])
               \/ /\ key[1] = addition /\ r[1] = IP[key[2]] /\ r[3] \in Protos
                  /\ r[2] \in Adds(ports[r[3]])
  BY <1>2, KeyVisited
<1>4. applying \in StoreNames
  BY <1>3 DEF Typed, WorkTyped
<1>5. ASSUME NEW pr \in Protos PROVE Adds(ports[pr]) \subseteq Ex[pr] \cup cm[pr]
  <2>1. CASE applying = "clbdata"
    BY <2>1 DEF CacheInv, MapAgrees
  <2>2. CASE applying = "plbdata"
    <3>1. ports[pr] = [p \in Configured(pr) |-> addition]
      BY <2>2 DEF StaticRest, SentComplete, listCm
    <3>2. Configured(pr) = cm[pr]
      BY <1>2 DEF Configured, Data
    <3>. QED
      BY <3>1, <3>2 DEF Adds
  <2>. QED
    BY <1>4, <2>1, <2>2 DEF StoreNames
<1>6. CacheIsSeen' /\ CmsComing'
  BY <1>1 DEF StaticRest, CacheIsSeen, CmsComing, apiVars, cmVars, cacheVars, startVars
<1>7. SentComplete'
  BY <1>1, SameListing DEF StaticRest, SentComplete, Sent, apiVars, cacheVars
<1>8. NoneElse'
  <2> SUFFICES ASSUME NEW r \in routes', NEW p \in Nginx, r[1] = IP[p], HasIP(pod[p]),
                      r[2] \notin Ex[r[3]] \cup cm[r[3]]
               PROVE  Deletes(r)'
    BY <1>1 DEF NoneElse, apiVars, cacheVars
  <2>1. /\ r \in routes
        /\ r[1] # IP[key[2]] \/ r[2] \notin Dels(ports[r[3]])
    BY <1>3, <1>5
  <2>2. Deletes(r)
    BY <2>1 DEF StaticRest, NoneElse
  <2>3. CASE Sent("clbdata")
    BY <1>1, <2>2, <2>3 DEF Deletes, Sent, apiVars, cacheVars
  <2>4. CASE ~ Sent("clbdata")
    <3>1. PICK q \in Pods : IP[q] = r[1] /\ <<addition, q>> \in todo
      BY <2>2, <2>4 DEF Deletes
    <3>2. applying = "clbdata" /\ r[2] \in Dels(ports[r[3]])
      BY <2>2, <2>4 DEF Deletes
    <3>3. <<addition, q>> \in todo'
      BY <1>3, <2>1, <3>1, <3>2
    <3>. QED
      BY <1>1, <2>2, <3>1, <3>2, <3>3 DEF Deletes, apiVars, cacheVars
  <2>. QED
    BY <2>3, <2>4
<1>. QED
  BY <1>1, <1>6, <1>7, <1>8 DEF StaticInv, StaticRest, startVars

\* ... and is done.
LEMMA StaticFinish ==
    ASSUME Static, StaticRest, Finish
    PROVE  StaticInv'
<1>1. /\ UNCHANGED <<apiVars, podVars, cmVars, cacheVars, todo, routes, startVars, queue>>
      /\ applying' = NoStore /\ todo = {}
  BY DEF Finish, Chan!Done
<1>2. CacheIsSeen' /\ CmsComing'
  BY <1>1 DEF StaticRest, CacheIsSeen, CmsComing, apiVars, cmVars, cacheVars, startVars
<1>3. SentComplete'
  BY <1>1, SameListing, ControllerAssumption DEF StaticRest, SentComplete, Sent, apiVars, cacheVars
<1>4. NoneElse'
  BY <1>1 DEF StaticRest, NoneElse, Deletes, Sent, apiVars, cacheVars
<1>. QED
  BY <1>1, <1>2, <1>3, <1>4 DEF StaticInv, StaticRest, startVars

\* The process starts.
LEMMA StaticStart ==
    ASSUME Static, ServerInv, Start
    PROVE  StaticInv'
<1>1. ~ May("netlink") /\ \A pr \in Protos : cm[pr] # Absent
  BY StaticExcludes DEF ServerInv
<1>2. routes' = {} /\ UNCHANGED <<pod, cm>> /\ listed' = {} /\ stage' # "running"
  BY <1>1 DEF Start, FlushedRoutes, apiVars
<1>3. CmsComing'
  BY <1>2 DEF Start, CmsComing
<1>4. CacheIsSeen'
  BY <1>1, <1>2 DEF Start, CacheIsSeen, InitialCache, Configured, Data
<1>5. SentComplete'
  <2>1. ~ Sent("clbdata")' /\ store'.plbdata.ports = listCm
    BY DEF Start, Sent
  <2>. QED
    BY <1>2, <2>1, SameListing DEF SentComplete
<1>. QED
  BY <1>2, <1>3, <1>4, <1>5 DEF StaticInv, StaticRest, NoneElse

LEMMA StaticStep == Typed /\ CacheInv /\ ServerInv /\ StaticInv /\ [Next]_vars => StaticInv'
<1> SUFFICES ASSUME Typed, CacheInv, ServerInv, StaticInv, [Next]_vars, Static PROVE StaticInv'
  BY EnvKept DEF StaticInv, Static, Calm, Only
<1>1. stage = "down" \/ StaticRest
  BY DEF StaticInv
<1>2. CASE \E p \in Pods : PodChanges(p)
  BY <1>2, StaticExcludes DEF PodChanges
<1>3. CASE Kill
  BY <1>3 DEF Kill, StaticInv
<1>4. CASE Run
  <2>1. StaticRest /\ UNCHANGED <<apiVars, podVars, cmVars, cacheVars, queue, workerVars, listed>>
    BY <1>1, <1>4 DEF Run
  <2>2. listed = {"pods", "cms"}
    BY <1>4 DEF Run
  <2>. QED
    BY <2>1, <2>2, SameListing DEF StaticInv, StaticRest, CmsComing, CacheIsSeen, SentComplete, NoneElse,
       Deletes, Sent, apiVars, cmVars, cacheVars, workerVars
<1>5. CASE UNCHANGED vars
  <2>1. UNCHANGED <<apiVars, podVars, cmVars, cacheVars, queue, workerVars, listed, stage>>
    BY <1>5 DEF vars, startVars
  <2>. QED
    BY <1>1, <2>1, SameListing DEF StaticInv, StaticRest, CmsComing, CacheIsSeen, SentComplete, NoneElse,
       Deletes, Sent, apiVars, cmVars, cacheVars, workerVars
<1>6. CASE stage = "down" /\ ~ Start /\ ~ UNCHANGED vars
  <2>1. ~ ProcessAddr /\ ~ Finish /\ ~ Receive /\ ~ FirstList
    BY <1>6 DEF ProcessAddr, Finish, Receive, FirstList
  <2>2. ~ (\E pr \in Protos : CmChanges(pr)) /\ ~ WatchLost /\ ~ Enlist /\ ~ PodNotified /\ ~ CmNotified
    BY <1>6 DEF CmChanges, MayChange, Happens, WatchLost, Enlist, PodNotified, CmNotified
  <2>. QED
    BY <1>2, <1>3, <1>4, <1>6, <2>1, <2>2 DEF Next
<1>. QED
  BY <1>1, <1>2, <1>3, <1>4, <1>5, <1>6, StaticListing, StaticChanges, StaticPodNotified, StaticCmNotified,
     StaticReceive, StaticProcess, StaticFinish, StaticStart DEF Next

\* When everything is applied, such an environment leaves no other route.
LEMMA StaticSettled ==
    ASSUME Typed, ServerInv, StaticInv, Static, Settled, NEW p \in Nginx, pod[p] = "ready"
    PROVE  Serves(p) \subseteq ConfiguredPorts
<1>1. StaticRest /\ "cms" \in listed
  BY DEF StaticInv, StaticRest, Settled
<1>2. \A pr \in Protos : cm[pr] # Absent /\ Ex[pr] = cm[pr]
  BY <1>1, StaticExcludes DEF StaticRest, CmsComing, CacheIsSeen, ServerInv, Settled
<1>3. ~ Sent("clbdata") /\ applying # "clbdata" /\ HasIP(pod[p])
  BY ControllerAssumption DEF Settled, Sent, HasIP, Phases
<1>4. ASSUME NEW r \in routes, r[1] = IP[p]
      PROVE  <<r[3], r[2]>> \in ConfiguredPorts
  <2>1. r[3] \in Protos /\ r[2] \in PortNumbers
    BY DEF Typed, WorkTyped
  <2>2. r[2] \in cm[r[3]]
    BY <1>1, <1>2, <1>3, <1>4, <2>1 DEF StaticRest, NoneElse, Deletes
  <2>3. r[2] \in Configured(r[3])
    BY <1>2, <2>1, <2>2 DEF Configured, Data
  <2>. QED
    BY <2>1, <2>3 DEF ConfiguredPorts
<1>. QED
  BY <1>4 DEF Serves
-----------------------------------------------------------------------------
\* The environments with one pod at most, in which no configmap changes, no
\* watch is lost and no call fails.  Changes need not wait for anything.
Solitary == Alone /\ Only({"pods", "crashed", "force", "kill"})
Unforced == Alone /\ Only({"pods", "crashed"})

\* The first notification of p has not been handled, if there is to be one.
Waiting(p) == "pods" \notin listed \/ podMark[p] # 0 \/ p \in unheard

\* What the informer lists of p first, and the keys it has in Initial's map.
Listed(p) == IF "pods" \in listed THEN podEvents[p][1] ELSE pod[p]
FirstKeys(p) == {<<addition, q>> : q \in {r \in Nginx : r = p /\ HasIP(Listed(p))}}

\* Initial's map waits then, with the address that is listed.
WaitsRight(p) ==
    Waiting(p) =>
       /\ stage = "starting" /\ queue = <<"plbdata">> /\ applying = NoStore /\ routes = {}
       /\ seen[p] = Absent /\ podMark[p] \in {0, 1}
       /\ store.plbdata.addr = FirstKeys(p)
       /\ "pods" \notin listed => podEvents[p] = <<>> /\ podMark[p] = 0 /\ p \notin unheard
       /\ "pods" \in listed => podEvents[p] # <<>> /\ (p \in unheard <=> Listed(p) # Absent)
       /\ Unforced => Listed(p) \in {Absent, "ready"}

\* The queued versions follow each other, but for the first list.
Chain(p) ==
    /\ \A i \in 1 .. Len(podEvents[p]) :
          i > 1 \/ ~ Waiting(p) => podEvents[p][i] \in Follows(PodInformer!After(p, i - 1))
    /\ podEvents[p] # <<>> \/ ~ Waiting(p) => pod[p] = PodInformer!After(p, Len(podEvents[p]))

\* The last map adds p, and its host has all ports once that is done.
Full(p) == \A x \in ConfiguredPorts : <<IP[p], x[2], x[1]>> \in routes
Serving(p) == IF queue # <<>> THEN store.plbdata.addr = {<<addition, p>>}
              ELSE <<deletion, p>> \notin todo /\ (<<addition, p>> \in todo \/ Full(p))

\* The last map deletes p, and nothing is left once that is done.
Clearing(p) == IF queue # <<>>
               THEN \/ store.plbdata.addr = {<<deletion, p>>}
                    \/ store.plbdata.addr = {} /\ todo = {} /\ routes = {}
               ELSE todo \subseteq {<<deletion, p>>} /\ (todo = {} => routes = {})

Followed(p) == /\ WaitsRight(p) /\ Chain(p)
               /\ ~ Waiting(p) /\ seen[p] = "ready" /\ p \in Nginx => Serving(p)
               /\ Unforced /\ ~ Waiting(p) /\ seen[p] \in {"terminated", Absent} => Clearing(p)

\* Only plbdata is ever sent; it and the kernel know one pod.
PlbdataOnly == /\ ~ Sent("clbdata") /\ applying # "clbdata"
               /\ store.plbdata.ports = listCm
               /\ store.plbdata.addr \cup todo \subseteq Actions \X env.pods
               /\ \A r \in routes : \E p \in env.pods : r[1] = IP[p]
NoOtherPod == \A q \in Pods \ env.pods :
                 /\ seen[q] = Absent /\ podMark[q] \in {0, 1}
                 /\ podEvents[q] = IF podMark[q] = 0 THEN <<>> ELSE <<Absent>>

AloneRest == /\ CmsOnce /\ PlbdataOnly /\ NoOtherPod
             /\ \A q \in Pods : podMark[q] # 0 => "pods" \in unheard
             /\ \A p \in env.pods : Followed(p)
             /\ stage = "running" => \A q \in Pods : ~ Waiting(q)
AloneInv == Solitary /\ stage # "down" => AloneRest
DownInv == Unforced /\ stage = "down" => \A p \in Pods : pod[p] \in {Absent, "ready"}

LEMMA AloneInit == Init => AloneInv /\ DownInv
BY DEF Init, AloneInv, DownInv

\* What such an environment excludes.
LEMMA AloneExcludes ==
    ASSUME Solitary
    PROVE  /\ CmsStay
           /\ \A doing \in {"ports", "gap", "window", "list", "netlink"} : ~ May(doing)
           /\ \A p, q \in env.pods : p = q
BY DEF Solitary, Alone, Only, CmsStay, May

LEMMA AloneEnv ==
    ASSUME env' = env
    PROVE  Solitary' = Solitary /\ Unforced' = Unforced
BY DEF Solitary, Unforced, Alone, Only

LEMMA EnvPods == ASSUME Typed PROVE env.pods \subseteq Pods
BY ControllerAssumption DEF Typed, StartTyped

\* What is known of p changes with its events and what goes to the kernel.
LEMMA FollowedKept ==
    ASSUME NEW p, Followed(p),
           UNCHANGED <<env, pod[p], podEvents[p], seen[p], podMark[p], cm, store, queue,
                       applying, todo, routes>>,
           ("pods" \in listed') <=> ("pods" \in listed), (p \in unheard') <=> (p \in unheard),
           stage' = stage \/ ~ Waiting(p)
    PROVE  Followed(p)'
<1>1. Waiting(p)' <=> Waiting(p)
  BY DEF Waiting
<1>2. \A n : PodInformer!After(p, n)' = PodInformer!After(p, n)
  BY DEF PodInformer!After
<1>3. Chain(p)'
  BY <1>1, <1>2, SameEnv DEF Followed, Chain
<1>4. WaitsRight(p)'
  BY <1>1, AloneEnv DEF Followed, WaitsRight, FirstKeys, Listed
<1>5. Serving(p) => Serving(p)'
  BY DEF Serving, Full, ConfiguredPorts, Configured
<1>6. Clearing(p) => Clearing(p)'
  BY DEF Clearing
<1>. QED
  BY <1>1, <1>3, <1>4, <1>5, <1>6, AloneEnv DEF Followed

LEMMA LastBut ==
    ASSUME NEW n \in Nat, n # 0, n # 1
    PROVE  n - 1 \in 1 .. n - 1 /\ (n - 1) + 1 = n /\ n - 1 # 0
OBVIOUS

\* The first of the queued versions leaves the queue.
LEMMA ChainNext ==
    ASSUME NEW p \in Pods, Chain(p), podEvents[p] \in Seq(PodVersions), podEvents[p] # <<>>,
           Len(podEvents'[p]) = Len(podEvents[p]) - 1,
           \A i \in 1 .. Len(podEvents[p]) - 1 : podEvents'[p][i] = podEvents[p][i + 1],
           seen'[p] = podEvents[p][1], pod'[p] = pod[p], env' = env
    PROVE  /\ Chain(p)'
           /\ ~ Waiting(p) => podEvents[p][1] \in Follows(seen[p])
<1>1. Len(podEvents[p]) \in Nat /\ Len(podEvents[p]) # 0
  BY LenProperties, EmptySeq
<1>2. \A i \in 0 .. Len(podEvents[p]) - 1 : PodInformer!After(p, i)' = PodInformer!After(p, i + 1)
  BY <1>1 DEF PodInformer!After
<1>3. ASSUME NEW i \in 1 .. Len(podEvents'[p])
      PROVE  podEvents'[p][i] \in Follows(PodInformer!After(p, i - 1)')
  <2>1. i + 1 \in 1 .. Len(podEvents[p]) /\ i + 1 > 1 /\ i - 1 \in 0 .. Len(podEvents[p]) - 1
    BY <1>1
  <2>2. podEvents[p][i + 1] \in Follows(PodInformer!After(p, (i + 1) - 1))
    BY <2>1 DEF Chain
  <2>. QED
    BY <1>1, <1>2, <2>1, <2>2
<1>4. (pod[p] = PodInformer!After(p, Len(podEvents[p])))'
  <2>1. pod[p] = podEvents[p][Len(podEvents[p])]
    BY <1>1 DEF Chain, PodInformer!After
  <2>2. CASE Len(podEvents[p]) = 1
    BY <1>1, <2>1, <2>2 DEF PodInformer!After
  <2>3. CASE Len(podEvents[p]) # 1
    <3> DEFINE n == Len(podEvents[p]) - 1
    <3>1. n \in 1 .. Len(podEvents[p]) - 1 /\ n + 1 = Len(podEvents[p]) /\ n # 0
      BY <1>1, <2>3, LastBut
    <3>2. podEvents'[p][n] = podEvents[p][Len(podEvents[p])] /\ Len(podEvents'[p]) = n
      BY <3>1
    <3>. HIDE DEF n
    <3>. QED
      BY <2>1, <3>1, <3>2 DEF PodInformer!After
  <2>. QED
    BY <2>2, <2>3
<1>5. Chain(p)'
  BY <1>3, <1>4, SameEnv DEF Chain
<1>6. ~ Waiting(p) => podEvents[p][1] \in Follows(seen[p])
  BY <1>1 DEF Chain, PodInformer!After
<1>. QED
  BY <1>5, <1>6

\* The pods, the stores and the kernel stay as they are.
LEMMA AloneKept ==
    ASSUME Typed, AloneRest, CmsOnce',
           UNCHANGED <<env, pod, cm, podVars, store, queue, workerVars>>,
           ("pods" \in listed') <=> ("pods" \in listed),
           \A p \in Pods : (p \in unheard') <=> (p \in unheard),
           "pods" \in unheard => "pods" \in unheard',
           stage' = stage \/ \A p \in Pods : ~ Waiting(p)
    PROVE  AloneInv'
<1>0. env.pods \subseteq Pods
  BY EnvPods
<1>1. PlbdataOnly'
  BY SameListing DEF AloneRest, PlbdataOnly, Sent, workerVars
<1>2. NoOtherPod'
  BY DEF AloneRest, NoOtherPod, podVars
<1>3. \A q \in Pods : podMark'[q] # 0 => "pods" \in unheard'
  BY DEF AloneRest, podVars
<1>4. ASSUME NEW p \in env.pods PROVE Followed(p)'
  <2>1. p \in Pods /\ Followed(p)
    BY <1>0, <1>4 DEF AloneRest
  <2>. QED
    BY <2>1, FollowedKept DEF podVars, workerVars
<1>5. \A q \in Pods : Waiting(q)' <=> Waiting(q)
  BY DEF Waiting, podVars
<1>6. stage' = "running" => \A q \in Pods : ~ Waiting(q)'
  BY <1>5 DEF AloneRest
<1>. QED
  BY <1>1, <1>2, <1>3, <1>4, <1>6 DEF AloneInv, AloneRest

\* A pod changes, and its handler will be told so in its turn.
LEMMA AlonePodChanges ==
    ASSUME Typed, Solitary, AloneRest, NEW p \in Pods, PodChanges(p)
    PROVE  AloneInv'
<1>1. /\ UNCHANGED <<env, cm, cmVars, store, queue, workerVars, stage, listed, unheard, seen, podMark>>
      /\ listed = {"pods", "cms"} /\ p \in env.pods
  BY AloneExcludes DEF PodChanges, MayChange, Happens, PodInformer!Change, cacheVars
<1>2. PICK v \in Follows(pod[p]) : /\ pod' = [pod EXCEPT ![p] = v]
                                   /\ podEvents' = [podEvents EXCEPT ![p] = Append(@, v)]
  BY DEF PodChanges, PodInformer!Change, Follows
<1>3. pod \in [Pods -> PodVersions] /\ podEvents \in [Pods -> Seq(PodVersions)] /\ v \in PodVersions
  <2>1. pod \in [Pods -> PodVersions] /\ podEvents \in [Pods -> Seq(PodVersions)]
    BY DEF Typed, PodsTyped, InformerTyped
  <2>2. pod[p] \in PodVersions
    BY <2>1
  <2>. QED
    BY <1>2, <2>1, <2>2, LifeTyped DEF Follows, PodVersions
<1> DEFINE n == Len(podEvents[p])
<1>4. /\ pod'[p] = v /\ n \in Nat /\ Len(podEvents'[p]) = n + 1
      /\ podEvents'[p][n + 1] = v /\ \A i \in 1 .. n : podEvents'[p][i] = podEvents[p][i]
      /\ podEvents[p] # <<>> => n # 0
      /\ podEvents'[p] # <<>>
  <2>1. podEvents[p] \in Seq(PodVersions) /\ podEvents'[p] = Append(podEvents[p], v) /\ pod'[p] = v
    BY <1>2, <1>3
  <2>. QED
    BY <1>3, <2>1, AppendProperties, LenProperties, EmptySeq
<1>5. ASSUME NEW q \in Pods PROVE Waiting(q)' <=> Waiting(q)
  BY <1>1 DEF Waiting
<1>6. Followed(p) /\ (Waiting(p) => podEvents[p] # <<>>)
  BY <1>1 DEF AloneRest, Followed, WaitsRight
<1>. HIDE DEF n
<1>7. Chain(p)'
  <2>1. \A i \in 0 .. n : PodInformer!After(p, i)' = PodInformer!After(p, i)
    BY <1>1, <1>4 DEF PodInformer!After
  <2>2. pod[p] = PodInformer!After(p, n)
    BY <1>6 DEF Followed, Chain, n
  <2>3. ASSUME NEW i \in 1 .. n + 1, i > 1 \/ ~ Waiting(p)
        PROVE  podEvents'[p][i] \in Follows(PodInformer!After(p, i - 1)')
    <3>1. CASE i = n + 1
      <4>1. i - 1 = n
        BY <1>4, <3>1
      <4>. QED
        BY <1>2, <1>4, <2>1, <2>2, <3>1, <4>1
    <3>2. CASE i # n + 1
      <4>1. i \in 1 .. n /\ i - 1 \in 0 .. n
        BY <1>4, <3>2
      <4>2. podEvents[p][i] \in Follows(PodInformer!After(p, i - 1))
        BY <1>6, <2>3, <4>1 DEF Followed, Chain, n
      <4>. QED
        BY <1>4, <2>1, <4>1, <4>2
    <3>. QED
      BY <3>1, <3>2
  <2>4. (pod[p] = PodInformer!After(p, Len(podEvents[p])))'
    BY <1>4 DEF PodInformer!After
  <2>. QED
    BY <1>1, <1>4, <1>5, <2>3, <2>4, SameEnv DEF Chain
<1>8. Followed(p)'
  <2>1. Waiting(p) => Listed(p)' = Listed(p)
    BY <1>1, <1>3, <1>4, <1>6, LenProperties, EmptySeq DEF Listed, n
  <2>2. WaitsRight(p)'
    BY <1>1, <1>4, <1>5, <1>6, <2>1, AloneEnv DEF Followed, WaitsRight, FirstKeys, workerVars
  <2>3. (Serving(p) => Serving(p)') /\ (Clearing(p) => Clearing(p)')
    BY <1>1 DEF Serving, Clearing, Full, ConfiguredPorts, Configured, workerVars
  <2>. QED
    BY <1>1, <1>5, <1>6, <1>7, <2>2, <2>3, AloneEnv DEF Followed
<1>9. ASSUME NEW q \in env.pods PROVE Followed(q)'
  BY <1>1, <1>8, <1>9, AloneExcludes
<1>10. NoOtherPod'
  BY <1>1, <1>2, <1>3 DEF AloneRest, NoOtherPod
<1>11. PlbdataOnly'
  BY <1>1 DEF AloneRest, PlbdataOnly, Sent, listCm, Configured, workerVars
<1>12. CmsOnce'
  BY <1>1 DEF AloneRest, CmsOnce, cmVars
<1>. QED
  BY <1>1, <1>5, <1>9, <1>10, <1>11, <1>12 DEF AloneInv, AloneRest

\* Initial lists the pods, and the informer does.
LEMMA AloneStart ==
    ASSUME Typed, ServerInv, DownInv, Solitary, stage = "down", Start
    PROVE  AloneInv'
<1>0. env.pods \subseteq Pods /\ ~ May("netlink")
  BY EnvPods, AloneExcludes
<1>1. /\ UNCHANGED <<env, pod, cm>> /\ routes' = {} /\ listed' = {} /\ unheard' = {}
      /\ podEvents' = [p \in Pods |-> <<>>] /\ seen' = [p \in Pods |-> Absent]
      /\ podMark' = [p \in Pods |-> 0] /\ stage' = "starting"
      /\ queue' = <<"plbdata">> /\ applying' = NoStore /\ todo' = {}
      /\ store'.plbdata = [addr |-> listNginx, ports |-> listCm]
  BY <1>0 DEF Start, FlushedRoutes, apiVars
<1>2. listNginx \subseteq Actions \X env.pods
  <2>1. \A q \in Nginx : HasIP(pod[q]) => q \in env.pods
    BY ControllerAssumption DEF ServerInv, HasIP
  <2>. QED
    BY <2>1 DEF listNginx, Actions
<1>3. PlbdataOnly'
  <2>1. listCm' = listCm
    BY <1>1, SameListing
  <2>2. ~ Sent("clbdata")'
    BY <1>1 DEF Sent
  <2>. QED
    BY <1>1, <1>2, <2>1, <2>2, ControllerAssumption DEF PlbdataOnly
<1>4. NoOtherPod'
  BY <1>1 DEF NoOtherPod
<1>5. CmsOnce'
  BY <1>1 DEF Start, CmsOnce
<1>6. ASSUME NEW p \in env.pods PROVE Followed(p)'
  <2>1. p \in Pods /\ Waiting(p)' /\ Listed(p)' = pod[p]
    BY <1>0, <1>1 DEF Waiting, Listed
  <2>2. listNginx = FirstKeys(p)'
    <3>1. \A q \in Nginx : HasIP(pod[q]) => q = p
      BY <1>0, ControllerAssumption, AloneExcludes DEF ServerInv, HasIP
    <3>2. {q \in Nginx : HasIP(pod[q])} = {r \in Nginx : r = p /\ HasIP(pod[p])}
      BY <3>1
    <3>. QED
      BY <2>1, <3>2 DEF listNginx, FirstKeys
  <2>3. Unforced => pod[p] \in {Absent, "ready"}
    BY <2>1 DEF DownInv
  <2>4. WaitsRight(p)'
    BY <1>1, <2>1, <2>2, <2>3, AloneEnv DEF WaitsRight
  <2>5. Chain(p)'
    BY <1>1, <2>1 DEF Chain
  <2>. QED
    BY <2>1, <2>4, <2>5 DEF Followed
<1>. QED
  BY <1>1, <1>3, <1>4, <1>5, <1>6 DEF AloneInv, AloneRest

LEMMA AloneFirstList ==
    ASSUME Typed, ServerInv, Solitary, AloneRest, FirstList
    PROVE  AloneInv'
<1>0. env.pods \subseteq Pods
  BY EnvPods
<1>1. CmsOnce'
  BY FirstCms DEF AloneRest
<1>2. UNCHANGED <<env, pod, cm, seen, store, queue, workerVars, stage>>
  BY DEF FirstList, PodInformer!List, CmInformer!List, podVars, cacheVars
<1>3. CASE /\ UNCHANGED <<pod, podVars>> /\ listed' = listed \cup {"cms"}
           /\ unheard' = unheard \cup {"cms"} \cup {pr \in Protos : cm[pr] # Absent}
  BY <1>1, <1>2, <1>3, AloneKept, ControllerAssumption
<1>4. CASE /\ "pods" \notin listed
           /\ PodInformer!List /\ podMark' = [p \in Pods |-> 1]
           /\ listed' = listed \cup {"pods"}
           /\ unheard' = unheard \cup {"pods"} \cup {p \in Pods : pod[p] # Absent}
  <2>1. \A p \in Pods : podEvents[p] = <<>>
    <3>1. \A p \in Pods : podMark[p] = 0
      BY <1>4 DEF PodInformer!List, PodInformer!Listing
    <3>2. \A p \in env.pods : podEvents[p] = <<>>
      BY <1>4 DEF AloneRest, Followed, WaitsRight, Waiting
    <3>. QED
      BY <3>1, <3>2 DEF AloneRest, NoOtherPod
  <2>2. podEvents' = [p \in Pods |-> <<pod[p]>>]
    BY <1>4, <2>1, PodsListed DEF Typed, PodsTyped, InformerTyped
  <2>3. ASSUME NEW p \in Pods
        PROVE  /\ podEvents'[p] # <<>> /\ podEvents'[p][1] = pod[p]
               /\ Len(podEvents'[p]) = 1 /\ podMark'[p] = 1 /\ Waiting(p)'
    <3>1. podEvents'[p] = <<pod[p]>> /\ podMark'[p] = 1
      BY <1>4, <2>2
    <3>. QED
      BY <3>1 DEF Waiting
  <2>4. NoOtherPod'
    BY <1>2, <1>4, <2>2 DEF AloneRest, NoOtherPod, ServerInv
  <2>5. ASSUME NEW p \in env.pods PROVE Followed(p)'
    <3>1. p \in Pods /\ Followed(p) /\ Waiting(p)
      BY <1>0, <1>4 DEF AloneRest, Waiting
    <3>2. Listed(p)' = Listed(p) /\ Listed(p) = pod[p]
      BY <1>4, <2>3, <3>1 DEF Listed
    <3>3. FirstKeys(p)' = FirstKeys(p)
      BY <3>2 DEF FirstKeys
    <3>4. (p \in unheard') <=> pod[p] # Absent
      BY <1>4, <3>1, ControllerAssumption DEF Followed, WaitsRight
    <3>5. WaitsRight(p)'
      BY <1>2, <1>4, <2>3, <3>1, <3>2, <3>3, <3>4, AloneEnv DEF Followed, WaitsRight, workerVars
    <3>6. Chain(p)'
      BY <1>2, <2>3, <3>1 DEF Chain, PodInformer!After
    <3>. QED
      BY <2>3, <3>1, <3>5, <3>6 DEF Followed
  <2>6. PlbdataOnly'
    BY <1>2, SameListing DEF AloneRest, PlbdataOnly, Sent, workerVars
  <2>7. stage' # "running" /\ "pods" \in unheard'
    BY <1>2, <1>4 DEF FirstList
  <2>. QED
    BY <1>1, <1>2, <1>4, <2>4, <2>5, <2>6, <2>7 DEF AloneInv, AloneRest
<1>. QED
  BY <1>3, <1>4 DEF FirstList

\* What the informer has listed gets into its queue; a pod that is not there
\* is not waited for.
LEMMA AloneEnlist ==
    ASSUME Typed, Solitary, AloneRest, Enlist
    PROVE  AloneInv'
<1>0. env.pods \subseteq Pods
  BY EnvPods
<1>1. CmsOnce'
  BY EnlistedCms DEF AloneRest
<1>2. UNCHANGED <<env, pod, cm, seen, store, queue, workerVars, stage, listed>>
  BY DEF Enlist, PodInformer!Enlist, CmInformer!Enlist, podVars, cacheVars
<1>3. CASE /\ UNCHANGED <<pod, podVars>>
           /\ unheard' = unheard \ ({"cms"} \cup {pr \in Protos : cmEvents'[pr] = <<>>})
  BY <1>1, <1>2, <1>3, AloneKept, ControllerAssumption
<1>4. CASE /\ PodInformer!Enlist
           /\ unheard' = unheard \ ({"pods"} \cup {p \in Pods : podEvents'[p] = <<>>})
  <2>1. /\ \A o \in Pods : podMark[o] \in 1 .. Len(podEvents[o]) /\ podEvents[o] \in Seq(PodVersions)
        /\ podMark' = [o \in Pods |-> 0]
    BY <1>4 DEF Typed, PodsTyped, InformerTyped, PodInformer!Enlist, PodInformer!Listing
  <2>2. ASSUME NEW p \in Pods
        PROVE  /\ podMark[p] = 1 /\ Waiting(p) /\ seen[p] = Absent /\ podMark'[p] = 0
               /\ podEvents[p] # <<>> /\ Len(podEvents[p]) \in Nat
    <3>1. podMark[p] # 0 /\ podMark[p] \in Int /\ Len(podEvents[p]) \in Nat
      BY <2>1, LenProperties
    <3>2. Waiting(p)
      BY <3>1 DEF Waiting
    <3>3. p \in env.pods => Followed(p)
      BY DEF AloneRest
    <3>4. podMark[p] = 1 /\ seen[p] = Absent
      BY <3>1, <3>2, <3>3 DEF AloneRest, Followed, WaitsRight, NoOtherPod
    <3>5. podEvents[p] # <<>>
      BY <2>1, <3>4
    <3>. QED
      BY <2>1, <3>1, <3>2, <3>4, <3>5
  <2>3. ASSUME NEW p \in Pods
        PROVE  IF podEvents[p][1] = Absent
               THEN /\ podEvents'[p] \in Seq(PodVersions)
                    /\ Len(podEvents'[p]) = Len(podEvents[p]) - 1
                    /\ \A i \in 1 .. Len(podEvents[p]) - 1 : podEvents'[p][i] = podEvents[p][i + 1]
               ELSE podEvents'[p] = podEvents[p]
    <3>1. podEvents'[p] = IF podEvents[p][1] = Absent
                          THEN PodInformer!Without(podEvents[p], 1) ELSE podEvents[p]
      BY <1>4, <2>2 DEF PodInformer!Enlist, PodInformer!Dropped
    <3>2. LET rest == PodInformer!Without(podEvents[p], 1)
          IN  /\ rest \in Seq(PodVersions) /\ Len(rest) = Len(podEvents[p]) - 1
              /\ \A i \in 1 .. Len(podEvents[p]) - 1 : rest[i] = podEvents[p][i + 1]
      <4>1. 1 \in 1 .. Len(podEvents[p])
        BY <2>1, <2>2
      <4>. QED
        BY <2>1, <4>1, WithoutSeq DEF PodInformer!Without
    <3>. QED
      BY <3>1, <3>2
  <2>4. NoOtherPod'
    <3> SUFFICES ASSUME NEW q \in Pods \ env.pods PROVE podEvents'[q] = <<>>
      BY <1>2, <2>1, <2>2 DEF AloneRest, NoOtherPod
    <3>1. podEvents[q] = <<Absent>>
      BY <2>2 DEF AloneRest, NoOtherPod
    <3>2. podEvents'[q] \in Seq(PodVersions) /\ Len(podEvents'[q]) = 0
      BY <2>3, <3>1
    <3>. QED
      BY <3>2, EmptySeq
  <2>5. ASSUME NEW p \in env.pods PROVE Followed(p)'
    <3>1. p \in Pods /\ Followed(p) /\ Waiting(p)
      BY <1>0, <2>2 DEF AloneRest
    <3>2. "pods" \in listed /\ Listed(p) = podEvents[p][1]
      BY <2>2, <3>1 DEF Followed, WaitsRight, Listed
    <3>3. CASE Listed(p) = Absent
      <4>1. ~ Waiting(p)'
        BY <1>2, <1>4, <2>2, <3>1, <3>2, <3>3 DEF Waiting, Followed, WaitsRight
      <4>2. Chain(p)'
        BY <1>2, <2>1, <2>2, <2>3, <3>1, <3>2, <3>3, ChainNext DEF Followed
      <4>3. FirstKeys(p) = {}
        BY <3>3 DEF FirstKeys, HasIP
      <4>4. todo = {}
        BY <3>1 DEF Followed, WaitsRight, Typed, WorkTyped
      <4>5. Clearing(p)'
        BY <1>2, <3>1, <4>3, <4>4 DEF Followed, WaitsRight, Clearing, workerVars
      <4>6. seen'[p] = Absent
        BY <1>2, <2>2, <3>1
      <4>. QED
        BY <4>1, <4>2, <4>5, <4>6, ControllerAssumption DEF Followed, WaitsRight, Phases
    <3>4. CASE Listed(p) # Absent
      <4>1. podEvents'[p] = podEvents[p] /\ podMark'[p] = 0
        BY <2>2, <2>3, <3>1, <3>2, <3>4
      <4>2. p \in unheard /\ p \in unheard'
        BY <1>4, <2>2, <3>1, <3>2, <3>4, <4>1, ControllerAssumption DEF Followed, WaitsRight
      <4>3. Waiting(p)' /\ Listed(p)' = Listed(p)
        BY <1>2, <4>1, <4>2 DEF Waiting, Listed
      <4>4. WaitsRight(p)'
        BY <1>2, <3>1, <3>2, <3>4, <4>1, <4>2, <4>3, AloneEnv
           DEF Followed, WaitsRight, FirstKeys, workerVars
      <4>5. Chain(p)'
        BY <1>2, <3>1, <4>1, <4>3, SameEnv DEF Followed, Chain, PodInformer!After
      <4>. QED
        BY <4>3, <4>4, <4>5 DEF Followed
    <3>. QED
      BY <3>3, <3>4
  <2>6. PlbdataOnly'
    BY <1>2, SameListing DEF AloneRest, PlbdataOnly, Sent, workerVars
  <2>7. stage' = "running" => \A q \in Pods : FALSE
    BY <1>2, <2>2 DEF AloneRest
  <2>. QED
    BY <1>1, <1>2, <2>1, <2>4, <2>5, <2>6, <2>7 DEF AloneInv, AloneRest
<1>. QED
  BY <1>3, <1>4 DEF Enlist

\* The first notification repeats what Initial has listed; a later one sends
\* a map with the one key of p.
LEMMA AlonePodNotified ==
    ASSUME Typed, Solitary, AloneRest, PodNotified
    PROVE  AloneInv' /\ stage' = stage
<1>0. env.pods \subseteq Pods
  BY EnvPods
<1>1. PICK p \in Pods :
         LET next == PodInformer!Next(p)
         IN  /\ PodInformer!Deliver(p)
             /\ CASE next = Absent    -> UNCHANGED <<store, todo, queue, applying, stage>>
                  [] seen[p] = Absent -> AddrAdd(p, next)
                  [] OTHER            -> AddrUpdate(p, seen[p])
             /\ unheard' = unheard \ {p}
  BY DEF PodNotified
<1>2. UNCHANGED <<env, pod, cm, cmVars, routes, listed>>
  BY <1>1 DEF PodNotified, PodInformer!Deliver
<1> DEFINE next == podEvents[p][1]
<1>3. /\ podEvents[p] \in Seq(PodVersions) /\ podEvents[p] # <<>> /\ Len(podEvents[p]) \in Nat
      /\ next \in PodVersions /\ seen[p] \in PodVersions
      /\ podMark[p] # 1 /\ PodInformer!Next(p) = next
      /\ Len(podEvents'[p]) = Len(podEvents[p]) - 1
      /\ \A i \in 1 .. Len(podEvents[p]) - 1 : podEvents'[p][i] = podEvents[p][i + 1]
      /\ seen'[p] = next
  <2>1. /\ podEvents \in [Pods -> Seq(PodVersions)] /\ seen \in [Pods -> PodVersions]
        /\ podEvents[p] # <<>> /\ podMark[p] # 1
    BY <1>1 DEF Typed, PodsTyped, InformerTyped, PodInformer!Deliver
  <2>2. podEvents'[p] = Tail(podEvents[p]) /\ seen'[p] = Head(podEvents[p])
    BY <1>1, <2>1 DEF PodInformer!Deliver
  <2>3. Head(podEvents[p]) = next /\ Head(podEvents[p]) \in PodVersions
    BY <2>1, HeadTailProperties
  <2>. QED
    BY <2>1, <2>2, <2>3, HeadTailProperties, LenProperties DEF PodInformer!Next
<1>4. \A q \in Pods \ {p} : podEvents'[q] = podEvents[q] /\ seen'[q] = seen[q] /\ podMark'[q] = podMark[q]
  BY <1>1 DEF PodInformer!Deliver, Typed, PodsTyped, InformerTyped
<1>. HIDE DEF next
<1>5. p \in env.pods
  BY <1>3 DEF AloneRest, NoOtherPod
<1>6. Followed(p)
  BY <1>5 DEF AloneRest
<1>7. podMark[p] = 0 /\ podMark'[p] = 0
  <2>1. podMark[p] = 0
    <3>1. CASE Waiting(p)
      BY <1>3, <1>6, <3>1 DEF Followed, WaitsRight
    <3>2. CASE ~ Waiting(p)
      BY <3>2 DEF Waiting
    <3>. QED
      BY <3>1, <3>2
  <2>. QED
    BY <1>1, <2>1 DEF PodInformer!Deliver, Typed, PodsTyped, InformerTyped
<1>8. "pods" \in listed /\ ~ Waiting(p)'
  <2>1. "pods" \in listed
    BY <1>3, <1>6 DEF Followed, WaitsRight, Waiting
  <2>. QED
    BY <1>1, <1>2, <1>7, <2>1 DEF Waiting
<1>9. Chain(p)' /\ (~ Waiting(p) => next \in Follows(seen[p]))
  BY <1>2, <1>3, <1>6, ChainNext DEF Followed, next
<1>10. store \in [StoreNames -> [addr : SUBSET Keys, ports : [Protos -> Deltas]]]
  BY DEF Typed, StoresTyped
<1> DEFINE Goal == /\ stage' = stage /\ PlbdataOnly'
                   /\ seen'[p] = "ready" /\ p \in Nginx => Serving(p)'
                   /\ Unforced /\ seen'[p] \in {"terminated", Absent} => Clearing(p)'
<1>11. ASSUME UNCHANGED <<store, todo, queue, applying, stage>>
       PROVE  /\ stage' = stage /\ PlbdataOnly'
              /\ Serving(p) => Serving(p)'
              /\ Clearing(p) => Clearing(p)'
  BY <1>2, <1>11, SameListing DEF AloneRest, PlbdataOnly, Sent, Serving, Clearing, Full
<1>12. ASSUME Waiting(p) PROVE Goal
  <2>1. /\ queue = <<"plbdata">> /\ applying = NoStore /\ seen[p] = Absent
        /\ store.plbdata.addr = FirstKeys(p) /\ Listed(p) = next /\ next # Absent
        /\ Unforced => next \in {Absent, "ready"}
    <3>1. Listed(p) = next
      BY <1>8 DEF Listed, next
    <3>2. p \in unheard
      BY <1>7, <1>8, <1>12 DEF Waiting
    <3>. QED
      BY <1>6, <1>8, <1>12, <3>1, <3>2 DEF Followed, WaitsRight
  <2>2. AddrAdd(p, next)
    BY <1>1, <1>3, <2>1
  <2>3. Unforced => next \notin {"terminated", Absent}
    BY <2>1
  <2>4. CASE p \in Nginx /\ HasIP(next)
    <3>1. /\ store' = [store EXCEPT !.plbdata.addr = @ \cup {<<addition, p>>}]
          /\ UNCHANGED <<todo, queue, applying, stage>>
      BY <2>1, <2>2, <2>4, ControllerAssumption DEF AddrAdd
    <3>2. FirstKeys(p) = {<<addition, p>>}
      <4>1. {r \in Nginx : r = p /\ HasIP(Listed(p))} = {p}
        BY <2>1, <2>4
      <4>. QED
        BY <4>1 DEF FirstKeys
    <3>3. store'.plbdata.addr = {<<addition, p>>} /\ store'.plbdata.ports = store.plbdata.ports
      BY <1>10, <2>1, <3>1, <3>2 DEF StoreNames
    <3>4. PlbdataOnly'
      <4>1. PlbdataOnly /\ UNCHANGED <<listCm, env, routes>>
        BY <1>2, SameListing DEF AloneRest
      <4>2. ~ Sent("clbdata")'
        BY <3>1, <4>1 DEF PlbdataOnly, Sent
      <4>3. (store.plbdata.addr \cup todo \subseteq Actions \X env.pods)'
        BY <1>5, <3>1, <3>3, <4>1 DEF PlbdataOnly, Actions
      <4>. QED
        BY <3>1, <3>3, <4>1, <4>2, <4>3 DEF PlbdataOnly
    <3>5. Serving(p)'
      BY <2>1, <3>1, <3>3 DEF Serving
    <3>. QED
      BY <1>3, <2>3, <3>1, <3>4, <3>5
  <2>5. CASE ~ (p \in Nginx /\ HasIP(next))
    <3>1. UNCHANGED <<store, todo, queue, applying, stage>>
      BY <2>2, <2>5 DEF AddrAdd
    <3>2. next # "ready" \/ p \notin Nginx
      BY <2>5, ControllerAssumption DEF HasIP, Phases
    <3>. QED
      BY <1>3, <1>11, <2>3, <3>1, <3>2
  <2>. QED
    BY <2>4, <2>5
<1>13. ASSUME ~ Waiting(p) PROVE Goal
  <2>1. /\ next \in Follows(seen[p])
        /\ next # Absent => next \in LifeFrom(seen[p])
        /\ Unforced => next \in LifeFrom(seen[p])
    BY <1>9, <1>13 DEF Follows, Unforced, Only, May
  <2>2. CASE next = Absent
    <3>1. UNCHANGED <<store, todo, queue, applying, stage>>
      BY <1>1, <1>3, <2>2 DEF AddrAdd, HasIP
    <3>2. Unforced => Clearing(p)
      <4>1. Unforced => seen[p] = "terminated"
        BY <1>3, <2>1, <2>2, Lives
      <4>. QED
        BY <1>6, <1>13, <4>1 DEF Followed
    <3>. QED
      BY <1>3, <1>11, <2>2, <3>1, <3>2, ControllerAssumption DEF Phases
  <2>3. CASE next # Absent /\ seen[p] = Absent
    <3>1. next = "pending"
      BY <1>3, <2>1, <2>3, Lives
    <3>2. UNCHANGED <<store, todo, queue, applying, stage>>
      BY <1>1, <1>3, <2>3, <3>1 DEF AddrAdd, HasIP
    <3>. QED
      BY <1>3, <1>11, <2>3, <3>1, <3>2
  <2>4. CASE next # Absent /\ seen[p] # Absent /\ ~ HasIP(seen[p])
    <3>1. next = "running"
      BY <1>3, <2>1, <2>4, Lives DEF HasIP
    <3>2. UNCHANGED <<store, todo, queue, applying, stage>>
      BY <1>1, <1>3, <2>4 DEF AddrUpdate
    <3>. QED
      BY <1>3, <1>11, <2>4, <3>1, <3>2
  <2>5. CASE next # Absent /\ HasIP(seen[p])
    <3>1. AddrUpdate(p, seen[p])
      BY <1>1, <1>3, <2>5 DEF HasIP
    <3>2. /\ Send("plbdata") /\ UNCHANGED <<todo, stage>>
          /\ store'.plbdata.ports = listCm
          /\ store'.plbdata.addr = {<<UpdateAction(seen[p]), p>>}
      BY <1>10, <2>5, <3>1, AloneExcludes DEF AddrUpdate, MayFail, StoreNames
    <3>3. /\ applying = NoStore /\ applying' = NoStore /\ todo = {} /\ queue' # <<>>
          /\ ~ Sent("clbdata")'
      <4>1. queue \in Seq(StoreNames) /\ queue' = Append(queue, "plbdata")
            /\ applying = NoStore /\ applying' = NoStore /\ todo = {}
        BY <3>2 DEF Send, Chan!Put, Typed, WorkTyped
      <4>2. queue' # <<>>
        BY <4>1, AppendProperties DEF StoreNames
      <4>3. ~ Sent("clbdata")'
        BY <3>2, SentNow DEF AloneRest, PlbdataOnly, StoreNames
      <4>. QED
        BY <4>1, <4>2, <4>3
    <3>4. PlbdataOnly'
      BY <1>2, <1>5, <3>2, <3>3, SameListing, ControllerAssumption
         DEF AloneRest, PlbdataOnly, UpdateAction, Actions
    <3>5. next = "ready" => Serving(p)'
      <4>1. next = "ready" => seen[p] \in {"running", "crashed"}
        BY <1>3, <2>1, <2>5, Lives
      <4>. QED
        BY <3>2, <3>3, <4>1 DEF UpdateAction, Deleting, Serving
    <3>6. next = "terminated" => Clearing(p)'
      <4>1. next = "terminated" => seen[p] = "terminating"
        BY <1>3, <2>1, <2>5, Lives
      <4>. QED
        BY <3>2, <3>3, <4>1 DEF UpdateAction, Deleting, Clearing
    <3>. QED
      BY <1>3, <2>5, <3>2, <3>4, <3>5, <3>6
  <2>. QED
    BY <2>2, <2>3, <2>4, <2>5
<1>14. Goal
  BY <1>12, <1>13
<1>15. WaitsRight(p)' /\ Followed(p)'
  BY <1>8, <1>9, <1>14, AloneEnv, <1>2 DEF Followed, WaitsRight
<1>16. \A q \in Pods : Waiting(q)' => Waiting(q)
  BY <1>1, <1>2, <1>4, <1>7 DEF Waiting
<1>17. NoOtherPod'
  BY <1>2, <1>4, <1>5 DEF AloneRest, NoOtherPod
<1>18. CmsOnce'
  BY <1>2 DEF AloneRest, CmsOnce, cmVars
<1>19. \A q \in Pods : podMark'[q] # 0 => "pods" \in unheard'
  BY <1>1, <1>4, <1>7, ControllerAssumption DEF AloneRest
<1>20. \A q \in env.pods : q = p
  BY <1>5, AloneExcludes
<1>. QED
  BY <1>2, <1>14, <1>15, <1>16, <1>17, <1>18, <1>19, <1>20 DEF AloneInv, AloneRest

\* No configmap is notified but those that are listed first.
LEMMA AloneCmNotified ==
    ASSUME Typed, Solitary, AloneRest, CmNotified
    PROVE  AloneInv'
<1>1. CmsOnce' /\ UNCHANGED <<cm, store, queue, applying>>
  BY CmsTold DEF AloneRest
<1>2. /\ UNCHANGED <<env, pod, podVars, todo, routes, stage, listed>>
      /\ \E pr \in Protos : unheard' = unheard \ {pr}
  BY DEF CmNotified
<1>. QED
  BY <1>1, <1>2, AloneKept, ControllerAssumption DEF workerVars

\* A worker receives plbdata ...
LEMMA AloneReceive ==
    ASSUME Typed, Solitary, AloneRest, Receive
    PROVE  AloneInv'
<1>0. env.pods \subseteq Pods
  BY EnvPods
<1>1. /\ UNCHANGED <<apiVars, podVars, cmVars, cacheVars, routes, startVars>>
      /\ stage = "running" /\ queue # <<>>
  BY DEF Receive, ItemReady
<1>2. applying' = "plbdata" /\ todo' = store.plbdata.addr /\ ~ Sent("clbdata")'
  <2>1. Chan!Take /\ Head(queue) \in StoreNames
    BY HeadTailProperties DEF Receive, Chan!Take, Typed, WorkTyped
  <2>2. applying' \in StoreNames
    BY <2>1 DEF Chan!Take
  <2>3. applying' # "clbdata" /\ ~ Sent("clbdata")'
    BY <2>1, SentNow DEF AloneRest, PlbdataOnly
  <2>. QED
    BY <2>2, <2>3 DEF Receive, StoreNames
<1>3. UNCHANGED <<env, pod, cm, cmEvents, cmSeen, cmMark, podEvents, seen, podMark, store, stage, listed, unheard>>
  BY <1>1 DEF apiVars, podVars, cmVars, cacheVars, startVars
<1>4. \A q \in Pods : ~ Waiting(q) /\ ~ Waiting(q)'
  BY <1>1, <1>3 DEF AloneRest, Waiting
<1>5. ASSUME NEW p \in env.pods PROVE Followed(p)'
  <2>1. p \in Pods /\ Followed(p)
    BY <1>0 DEF AloneRest
  <2>2. Chain(p)'
    BY <1>3, <1>4, <2>1, SameEnv DEF Followed, Chain, PodInformer!After
  <2>3. Serving(p) => Serving(p)'
    BY <1>1, <1>2, <1>3 DEF Serving, addition, deletion
  <2>4. Clearing(p) => Clearing(p)'
    BY <1>1, <1>2, <1>3 DEF Clearing
  <2>. QED
    BY <1>3, <1>4, <2>1, <2>2, <2>3, <2>4, AloneEnv DEF Followed, WaitsRight
<1>6. PlbdataOnly'
  BY <1>1, <1>2, <1>3, SameListing DEF AloneRest, PlbdataOnly
<1>7. NoOtherPod' /\ CmsOnce'
  BY <1>3 DEF AloneRest, NoOtherPod, CmsOnce
<1>. QED
  BY <1>3, <1>4, <1>5, <1>6, <1>7 DEF AloneInv, AloneRest

\* ... visits a key, which adds all configured ports or deletes what there is ...
LEMMA AloneProcess ==
    ASSUME Typed, Solitary, AloneRest, ProcessAddr
    PROVE  AloneInv'
<1>0. env.pods \subseteq Pods /\ ~ May("netlink") /\ \A p, q \in env.pods : p = q
  BY EnvPods, AloneExcludes
<1>1. /\ UNCHANGED <<apiVars, podVars, cmVars, cacheVars, queue, applying, startVars>>
      /\ stage = "running"
  BY DEF ProcessAddr
<1>2. UNCHANGED <<env, pod, cm, cmEvents, cmSeen, cmMark, podEvents, seen, podMark, store, stage, listed, unheard>>
  BY <1>1 DEF apiVars, podVars, cmVars, cacheVars, startVars
<1>3. applying = "plbdata" /\ store[applying].ports = listCm
  <2>1. applying # NoStore
    BY DEF ProcessAddr, Typed, WorkTyped
  <2>. QED
    BY <2>1 DEF AloneRest, PlbdataOnly, Typed, WorkTyped, StoreNames
<1>4. PICK key \in todo :
         /\ todo' = todo \ {key}
         /\ \A r : r \in routes' =>
               \/ r \in routes /\ (r[1] # IP[key[2]] \/ key[1] = addition)
               \/ key[1] = addition /\ r[1] = IP[key[2]]
         /\ \A pr \in Protos : \A port \in Adds(listCm[pr]) \ Dels(listCm[pr]) :
               key[1] = addition => <<IP[key[2]], port, pr>> \in routes'
  BY <1>0, <1>3, KeyVisited
<1>5. PICK p \in env.pods : key[2] = p /\ key = <<key[1], p>> /\ key[1] \in Actions
  BY DEF AloneRest, PlbdataOnly
<1>6. \A q \in Pods : ~ Waiting(q) /\ ~ Waiting(q)'
  BY <1>1, <1>2 DEF AloneRest, Waiting
<1>7. PlbdataOnly'
  BY <1>1, <1>2, <1>4, <1>5, SameListing DEF AloneRest, PlbdataOnly, Sent
<1>8. key[1] = addition => Full(p)'
  <2> SUFFICES ASSUME key[1] = addition, NEW x \in ConfiguredPorts
               PROVE  <<IP[p], x[2], x[1]>> \in routes'
    BY <1>2 DEF Full, ConfiguredPorts, Configured
  <2>1. x[1] \in Protos /\ x[2] \in Configured(x[1])
    BY DEF ConfiguredPorts
  <2>2. x[2] \in Adds(listCm[x[1]]) \ Dels(listCm[x[1]])
    BY <2>1 DEF listCm, Adds, Dels, addition, deletion
  <2>. QED
    BY <1>4, <1>5, <2>1, <2>2
<1>9. Followed(p)'
  <2>1. p \in Pods /\ Followed(p)
    BY <1>0 DEF AloneRest
  <2>2. Chain(p)'
    BY <1>2, <1>6, <2>1, SameEnv DEF Followed, Chain, PodInformer!After
  <2>3. Serving(p) => Serving(p)'
    <3>1. CASE queue # <<>>
      BY <1>1, <1>2, <3>1 DEF Serving
    <3>2. CASE queue = <<>> /\ <<deletion, p>> \notin todo
      BY <1>1, <1>4, <1>5, <1>8, <3>2 DEF Serving, Actions
    <3>. QED
      BY <3>1, <3>2 DEF Serving
  <2>4. Clearing(p) => Clearing(p)'
    <3>1. CASE queue # <<>>
      BY <1>1, <1>2, <1>4, <3>1 DEF Clearing
    <3>2. CASE queue = <<>> /\ todo \subseteq {<<deletion, p>>}
      <4>1. key = <<deletion, p>> /\ todo' = {} /\ key[1] # addition
        BY <1>4, <3>2 DEF addition, deletion
      <4>2. routes' = {}
        BY <1>0, <1>4, <1>5, <4>1 DEF AloneRest, PlbdataOnly
      <4>. QED
        BY <1>1, <3>2, <4>1, <4>2 DEF Clearing
    <3>. QED
      BY <3>1, <3>2 DEF Clearing
  <2>. QED
    BY <1>2, <1>6, <2>1, <2>2, <2>3, <2>4, AloneEnv DEF Followed, WaitsRight
<1>10. ASSUME NEW q \in env.pods PROVE Followed(q)'
  <2>1. q = p
    BY <1>0
  <2>. QED
    BY <1>9, <2>1
<1>11. NoOtherPod' /\ CmsOnce'
  BY <1>2 DEF AloneRest, NoOtherPod, CmsOnce
<1>. QED
  BY <1>2, <1>6, <1>7, <1>10, <1>11 DEF AloneInv, AloneRest

\* ... and is done.
LEMMA AloneFinish ==
    ASSUME Typed, Solitary, AloneRest, Finish
    PROVE  AloneInv'
<1>0. env.pods \subseteq Pods
  BY EnvPods
<1>1. /\ UNCHANGED <<apiVars, podVars, cmVars, cacheVars, queue, todo, routes, startVars>>
      /\ applying' = NoStore
  BY DEF Finish, Chan!Done
<1>2. UNCHANGED <<env, pod, cm, cmEvents, cmSeen, cmMark, podEvents, seen, podMark, store, stage, listed, unheard>>
  BY <1>1 DEF apiVars, podVars, cmVars, cacheVars, startVars
<1>3. stage = "running" /\ \A q \in Pods : ~ Waiting(q) /\ ~ Waiting(q)'
  BY <1>2 DEF Finish, AloneRest, Waiting
<1>4. ASSUME NEW p \in env.pods PROVE Followed(p)'
  <2>1. p \in Pods /\ Followed(p)
    BY <1>0 DEF AloneRest
  <2>2. Chain(p)'
    BY <1>2, <1>3, <2>1, SameEnv DEF Followed, Chain, PodInformer!After
  <2>3. (Serving(p) => Serving(p)') /\ (Clearing(p) => Clearing(p)')
    BY <1>1, <1>2 DEF Serving, Clearing, Full, ConfiguredPorts, Configured
  <2>. QED
    BY <1>2, <1>3, <2>1, <2>2, <2>3, AloneEnv DEF Followed, WaitsRight
<1>5. PlbdataOnly'
  BY <1>1, <1>2, SameListing, ControllerAssumption DEF AloneRest, PlbdataOnly, Sent
<1>6. NoOtherPod' /\ CmsOnce'
  BY <1>2 DEF AloneRest, NoOtherPod, CmsOnce
<1>. QED
  BY <1>2, <1>3, <1>4, <1>5, <1>6 DEF AloneInv, AloneRest

\* The handlers are synced when both lists have been handled.
LEMMA AloneRun ==
    ASSUME Typed, AloneRest, Run \/ UNCHANGED vars
    PROVE  AloneInv'
<1>1. /\ UNCHANGED <<env, pod, cm, podVars, cmVars, store, queue, workerVars, listed, unheard>>
      /\ Run \/ stage' = stage
  BY DEF Run, vars, apiVars, cacheVars, startVars
<1>2. CmsOnce'
  BY <1>1 DEF AloneRest, CmsOnce, cmVars
<1>3. stage' = stage \/ \A p \in Pods : ~ Waiting(p)
  BY <1>1 DEF Run, AloneRest, Waiting
<1>. QED
  BY <1>1, <1>2, <1>3, AloneKept

LEMMA AloneStep ==
    Typed /\ ServerInv /\ DownInv /\ AloneInv /\ [Next]_vars => AloneInv' /\ DownInv'
<1> SUFFICES ASSUME Typed, ServerInv, DownInv, AloneInv, [Next]_vars, Solitary
             PROVE  AloneInv' /\ DownInv'
  BY EnvKept, AloneEnv DEF AloneInv, DownInv, Solitary, Unforced, Only
<1>0. env' = env
  BY EnvKept
<1>1. CASE stage = "down"
  <2>1. Start \/ UNCHANGED vars
    <3>1. /\ ~ (\E p \in Pods : PodChanges(p)) /\ ~ (\E pr \in Protos : CmChanges(pr))
          /\ ~ WatchLost /\ ~ Kill /\ ~ FirstList /\ ~ Enlist /\ ~ Run
      BY <1>1 DEF PodChanges, CmChanges, MayChange, WatchLost, Kill, Happens, FirstList, Enlist, Run
    <3>2. ~ PodNotified /\ ~ CmNotified /\ ~ Receive /\ ~ ProcessAddr /\ ~ Finish
      BY <1>1 DEF PodNotified, CmNotified, Receive, ProcessAddr, Finish
    <3>. QED
      BY <3>1, <3>2 DEF Next
  <2>2. CASE Start
    <3>1. stage' # "down"
      BY <2>2 DEF Start
    <3>. QED
      BY <1>1, <2>2, <3>1, AloneStart DEF DownInv
  <2>3. CASE UNCHANGED vars
    <3>1. UNCHANGED <<stage, pod>>
      BY <2>3 DEF vars, startVars, apiVars
    <3>. QED
      BY <1>0, <1>1, <3>1, AloneEnv DEF AloneInv, DownInv
  <2>. QED
    BY <2>1, <2>2, <2>3
<1>2. CASE stage # "down"
  <2>0. AloneRest
    BY <1>2 DEF AloneInv
  <2>1. CASE Kill
    <3>1. stage' = "down" /\ ~ Unforced
      BY <2>1 DEF Kill, Unforced, Only, May
    <3>. QED
      BY <1>0, <3>1, AloneEnv DEF AloneInv, DownInv
  <2>2. ASSUME NEW pr \in Protos PROVE ~ CmChanges(pr) /\ ~ WatchLost
    BY AloneExcludes DEF CmChanges, WatchLost
  <2>3. CASE WatchLost
    BY <2>3, AloneExcludes DEF WatchLost
  <2>4. CASE Start
    BY <1>2, <2>4 DEF Start
  <2>5. CASE stage' = stage \/ stage' = "running"
    <3>1. AloneInv'
      BY <2>0, <2>1, <2>2, <2>3, <2>4, AlonePodChanges, AloneFirstList, AloneEnlist, AloneRun,
         AlonePodNotified, AloneCmNotified, AloneReceive, AloneProcess, AloneFinish DEF Next
    <3>. QED
      BY <1>2, <2>5, <3>1 DEF DownInv
  <2>6. Kill \/ WatchLost \/ Start \/ stage' = stage \/ stage' = "running"
    <3>1. PodNotified => stage' = stage
      BY <2>0, AlonePodNotified
    <3>2. \A p \in Pods : PodChanges(p) => stage' = stage
      BY DEF PodChanges
    <3>3. FirstList \/ Enlist \/ CmNotified \/ Receive \/ ProcessAddr \/ Finish \/ UNCHANGED vars
             => stage' = stage
      BY DEF FirstList, Enlist, CmNotified, Receive, ProcessAddr, Finish, vars, startVars
    <3>4. Run => stage' = "running"
      BY DEF Run
    <3>. QED
      BY <2>2, <3>1, <3>2, <3>3, <3>4 DEF Next
  <2>. QED
    BY <2>1, <2>3, <2>4, <2>5, <2>6
<1>. QED
  BY <1>1, <1>2

\* When everything is applied, what the informer has is there.
LEMMA AloneSettled ==
    ASSUME Typed, Solitary, AloneInv, Settled, NEW p \in env.pods
    PROVE  /\ AloneRest /\ Followed(p) /\ ~ Waiting(p) /\ seen[p] = pod[p]
           /\ queue = <<>> /\ todo = {}
<1>1. AloneRest /\ p \in Pods /\ queue = <<>> /\ todo = {} /\ podEvents[p] = <<>>
  BY EnvPods DEF AloneInv, Settled, Typed, WorkTyped
<1>2. ~ Waiting(p) /\ Followed(p)
  BY <1>1 DEF AloneRest, Settled
<1>3. Len(podEvents[p]) = 0
  BY <1>1
<1>4. pod[p] = seen[p]
  BY <1>2, <1>3 DEF Followed, Chain, PodInformer!After
<1>. QED
  BY <1>1, <1>2, <1>4

-----------------------------------------------------------------------------
\* All of it together.
RoutesInv == /\ Typed /\ CacheInv /\ FreshInv /\ FreshRest
             /\ ServerInv /\ PlainInv /\ StaticInv /\ AloneInv /\ DownInv

LEMMA RoutesInit == Init => RoutesInv
<1>1. Init => FreshInv /\ FreshRest
  BY DEF Init, FreshInv, FreshRest
<1>. QED
  BY <1>1, TypedInit, CacheInit, ServerInit, PlainInit, StaticInit, AloneInit DEF RoutesInv

LEMMA RoutesStep == RoutesInv /\ [Next]_vars => RoutesInv'
<1> SUFFICES ASSUME RoutesInv, [Next]_vars PROVE RoutesInv'
  OBVIOUS
<1> USE DEF RoutesInv
<1>1. Typed' /\ CacheInv' /\ FreshInv' /\ FreshRest' /\ ServerInv'
  BY TypedStep, CacheStep, FreshStep, FreshRestStep, ServerStep
<1>2. PlainInv'
  BY <1>1, PlainStep
<1>3. StaticInv' /\ AloneInv' /\ DownInv'
  BY StaticStep, AloneStep
<1>. QED
  BY <1>1, <1>2, <1>3

LEMMA RoutesKept == Spec => []RoutesInv
BY RoutesInit, RoutesStep, PTL DEF Spec

\* What the environments of the claims are.
LEMMA Claimed ==
    /\ Calm /\ Only({"pods", "ports", "anytime", "crashed", "force", "kill"})
          => Plain /\ CmsStay /\ Exclusive
    /\ Calm /\ Only({"pods", "ports", "crashed"})
          => Plain /\ CmsStay /\ Orderly /\ OnlyNginxShare
    /\ Calm /\ Only({"pods", "ports", "crashed", "sharing"}) /\ env.pods \subseteq Nginx
          => Plain /\ CmsStay /\ Orderly /\ OnlyNginxShare
    /\ Calm /\ Only({"pods", "ports", "crashed", "cms", "sharing"}) => Plain /\ Orderly
    /\ Unforced => Solitary
BY DEF Only, Plain, CmsStay, Exclusive, Orderly, OnlyNginxShare, Unforced, Solitary, May

\* What follows when everything is applied in a plain environment.
LEMMA PlainSettled ==
    ASSUME RoutesInv, Plain, Settled
    PROVE  /\ Following /\ Due = {}
           /\ \A p \in Pods : seen[p] = pod[p]
           /\ \A pr \in Protos : cmSeen[pr] = cm[pr]
<1>1. Following
  BY DEF RoutesInv, PlainInv, Settled
<1>. QED
  BY <1>1, SettledIdle DEF RoutesInv, Following, PodTold, CmTold

\* In any environment of the claim a ready nginx pod ends up with every
\* configured port: its addition is due from the moment its handler has seen
\* it run until a worker has added every port, and no deletion is due for its
\* host.
THEOREM ReadyAlwaysServed == Spec => []ReadyServed
<1>1. RoutesInv => ReadyServed
  <2> SUFFICES ASSUME RoutesInv, Settled, NEW p \in Nginx, pod[p] = "ready",
                      NEW x \in ConfiguredPorts,
                      \/ Calm /\ Only({"pods", "ports", "anytime", "crashed", "force", "kill"})
                      \/ Solitary
               PROVE  x \in Serves(p)
    BY DEF ReadyServed, Solitary
  <2>0. p \in Pods /\ x \in Protos \X PortNumbers /\ x[2] \in Configured(x[1])
    BY ControllerAssumption DEF ConfiguredPorts
  <2>1. CASE Calm /\ Only({"pods", "ports", "anytime", "crashed", "force", "kill"})
    <3>1. Plain /\ CmsStay /\ Exclusive
      BY <2>1, Claimed
    <3>2. Following /\ Due = {} /\ seen[p] = "ready" /\ cmSeen[x[1]] = cm[x[1]] /\ cm[x[1]] # Absent
      BY <2>0, <3>1, PlainSettled DEF RoutesInv, ServerInv
    <3>3. x[2] \in Ex[x[1]]
      BY <2>0, <3>1, <3>2 DEF Following, CacheIs, Configured, Data
    <3>4. <<IP[p], x[2], x[1]>> \in routes
      BY <2>0, <3>1, <3>2, <3>3 DEF Following, ReadyRouted
    <3>. QED
      BY <2>0, <3>4 DEF Serves
  <2>2. CASE Solitary
    <3>1. p \in env.pods
      BY <2>0, ControllerAssumption DEF RoutesInv, ServerInv, Phases
    <3>2. Followed(p) /\ ~ Waiting(p) /\ seen[p] = "ready" /\ queue = <<>> /\ todo = {}
      BY <2>2, <3>1, AloneSettled DEF RoutesInv
    <3>3. <<IP[p], x[2], x[1]>> \in routes
      BY <3>2 DEF Followed, Serving, Full
    <3>. QED
      BY <2>0, <3>3 DEF Serves
  <2>. QED
    BY <2>1, <2>2
<1>. QED
  BY <1>1, RoutesKept, PTL

\* ... and with no other port: what leaves a configmap is deleted from every
\* host that has a pod, and what is added later is in the cache.
THEOREM OnlyConfiguredServed == Spec => []OnlyConfigured
<1>1. RoutesInv => OnlyConfigured
  <2> SUFFICES ASSUME RoutesInv, Settled, Calm, NEW p \in Nginx, pod[p] = "ready",
                      \/ Only({"pods", "ports", "crashed"})
                      \/ Only({"pods", "ports", "crashed", "sharing"}) /\ env.pods \subseteq Nginx
                      \/ Static
               PROVE  Serves(p) \subseteq ConfiguredPorts
    BY DEF OnlyConfigured, Static
  <2>0. p \in Pods
    BY ControllerAssumption
  <2>1. CASE Static
    BY <2>1, StaticSettled DEF RoutesInv
  <2>2. CASE Plain /\ CmsStay /\ Orderly /\ OnlyNginxShare
    <3>1. /\ Following /\ Due = {} /\ Up(seen[p])
          /\ \A pr \in Protos : Ex[pr] = cm[pr] /\ cm[pr] # Absent
      <4>1. Following /\ Due = {} /\ seen[p] = "ready" /\ \A pr \in Protos : cmSeen[pr] = cm[pr]
        BY <2>0, <2>2, PlainSettled
      <4>. QED
        BY <2>2, <4>1, ControllerAssumption
           DEF RoutesInv, ServerInv, Following, CacheIs, Up, HasIP, Phases
    <3>2. ASSUME NEW r \in routes, r[1] = IP[p]
          PROVE  <<r[3], r[2]>> \in ConfiguredPorts
      <4>1. r[3] \in Protos /\ r[2] \in PortNumbers
        BY DEF RoutesInv, Typed, WorkTyped
      <4>2. r[2] \in Ex[r[3]]
        BY <2>2, <3>1, <3>2 DEF Following, Clean
      <4>3. r[2] \in Configured(r[3])
        BY <3>1, <4>1, <4>2 DEF Configured, Data
      <4>. QED
        BY <4>1, <4>3 DEF ConfiguredPorts
    <3>. QED
      BY <3>2 DEF Serves
  <2>. QED
    BY <2>1, <2>2, Claimed
<1>. QED
  BY <1>1, RoutesKept, PTL

\* ... and a host whose pods have all stopped has no route left: the deletion
\* of the last one is due until a worker has carried it out.
THEOREM StoppedNeverServed == Spec => []StoppedUnserved
<1>1. RoutesInv => StoppedUnserved
  <2> SUFFICES ASSUME RoutesInv, Settled, NEW p \in Nginx,
                      \A q \in Pods : IP[q] = IP[p] => pod[q] \in {"terminated", Absent},
                      NEW r \in routes, r[1] = IP[p],
                      \/ Calm /\ Only({"pods", "ports", "crashed", "cms", "sharing"})
                      \/ Unforced
               PROVE  FALSE
    BY DEF StoppedUnserved, Unforced, Serves
  <2>1. CASE Calm /\ Only({"pods", "ports", "crashed", "cms", "sharing"})
    <3>1. Following /\ Due = {} /\ Orderly /\ \A q \in Pods : seen[q] = pod[q]
      BY <2>1, Claimed, PlainSettled
    <3>2. PICK q \in Pods : IP[q] = IP[p] /\ Up(seen[q])
      BY <3>1 DEF Following, Occupied
    <3>. QED
      BY <3>1, <3>2 DEF Up, HasIP
  <2>2. CASE Unforced
    <3>1. AloneInv /\ Solitary /\ Typed /\ stage # "down"
      BY <2>2, Claimed DEF RoutesInv, Settled
    <3>2. PICK q \in env.pods : IP[q] = IP[p]
      BY <3>1 DEF AloneInv, AloneRest, PlbdataOnly
    <3>3. Followed(q) /\ ~ Waiting(q) /\ seen[q] \in {"terminated", Absent} /\ queue = <<>> /\ todo = {}
      BY <3>1, <3>2, AloneSettled, EnvPods
    <3>. QED
      BY <2>2, <3>3 DEF Followed, Clearing
  <2>. QED
    BY <2>1, <2>2
<1>. QED
  BY <1>1, RoutesKept, PTL
==============================================================================
