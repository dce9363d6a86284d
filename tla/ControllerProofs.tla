-------------------------- MODULE ControllerProofs --------------------------
(***************************************************************************)
(* The types and the port caches of the whole controller, and what a fresh *)
(* start builds, for any pods, protocols, ports and environments.          *)
(***************************************************************************)
EXTENDS Controller, L4UtilsProofs, SequenceTheorems

PodVersions == Phases \cup {Absent}
CmVersions == (SUBSET PortNumbers) \cup {Absent}
StoreNames == {"plbdata", "clbdata"}
Keys == Actions \X Pods
Deltas == UNION {[ports -> Actions] : ports \in SUBSET PortNumbers}

\* What an informer has of the objects O, whose versions are in V: a list is
\* queued of no object, or of all.
InformerTyped(O, V, live, events, before, mark) ==
    /\ live \in [O -> V] /\ before \in [O -> V]
    /\ events \in [O -> Seq(V)] /\ mark \in [O -> Nat]
    /\ \/ \A o \in O : mark[o] = 0
       \/ \A o \in O : mark[o] \in 1 .. Len(events[o])

\* An object changes.
LEMMA ChangeTyped ==
    ASSUME NEW O, NEW V, NEW live, NEW events, NEW before, NEW mark,
           InformerTyped(O, V, live, events, before, mark),
           NEW o \in O, NEW v \in V
    PROVE  InformerTyped(O, V, [live EXCEPT ![o] = v],
                         [events EXCEPT ![o] = Append(@, v)], before, mark)
<1> DEFINE new == [events EXCEPT ![o] = Append(@, v)]
<1>1. Append(events[o], v) \in Seq(V) /\ Len(Append(events[o], v)) = Len(events[o]) + 1
  BY AppendProperties DEF InformerTyped
<1>2. new \in [O -> Seq(V)]
  BY <1>1 DEF InformerTyped
<1>3. \A p \in O : Len(new[p]) \in {Len(events[p]), Len(events[p]) + 1} /\ Len(events[p]) \in Nat
  BY <1>1, LenProperties DEF InformerTyped
<1>4. [live EXCEPT ![o] = v] \in [O -> V]
  BY DEF InformerTyped
<1>. HIDE DEF new
<1>5. \/ \A p \in O : mark[p] = 0
      \/ \A p \in O : mark[p] \in 1 .. Len(new[p])
  <2>1. CASE \A p \in O : mark[p] \in 1 .. Len(events[p])
    BY <1>3, <2>1
  <2>. QED
    BY <2>1 DEF InformerTyped
<1>. QED
  BY <1>2, <1>4, <1>5 DEF InformerTyped, new

\* The handler of an object is called.
LEMMA DeliverTyped ==
    ASSUME NEW O, NEW V, NEW live, NEW events, NEW before, NEW mark,
           InformerTyped(O, V, live, events, before, mark),
           NEW o \in O, events[o] # <<>>, mark[o] # 1
    PROVE  InformerTyped(O, V, live, [events EXCEPT ![o] = Tail(@)],
                         [before EXCEPT ![o] = Head(events[o])],
                         [mark EXCEPT ![o] = IF @ = 0 THEN 0 ELSE @ - 1])
<1> DEFINE new == [events EXCEPT ![o] = Tail(@)]
           left == [mark EXCEPT ![o] = IF @ = 0 THEN 0 ELSE @ - 1]
<1>1. /\ Head(events[o]) \in V /\ Tail(events[o]) \in Seq(V)
      /\ Len(Tail(events[o])) = Len(events[o]) - 1
  BY HeadTailProperties DEF InformerTyped
<1>2. new \in [O -> Seq(V)] /\ [before EXCEPT ![o] = Head(events[o])] \in [O -> V]
  BY <1>1 DEF InformerTyped
<1>3. \A p \in O : /\ Len(events[p]) \in Nat
                   /\ Len(new[p]) = IF p = o THEN Len(events[p]) - 1 ELSE Len(events[p])
  BY <1>1, LenProperties DEF InformerTyped
<1>4. left \in [O -> Nat]
  BY DEF InformerTyped
<1>5. \A p \in O : left[p] = IF p = o /\ mark[p] # 0 THEN mark[p] - 1 ELSE mark[p]
  BY DEF InformerTyped
<1>. HIDE DEF new, left
<1>6. \/ \A p \in O : left[p] = 0
      \/ \A p \in O : left[p] \in 1 .. Len(new[p])
  <2>1. CASE \A p \in O : mark[p] = 0
    BY <1>5, <2>1
  <2>2. CASE \A p \in O : mark[p] \in 1 .. Len(events[p])
    BY <1>3, <1>5, <2>2
  <2>. QED
    BY <2>1, <2>2 DEF InformerTyped
<1>. QED
  BY <1>2, <1>4, <1>6 DEF InformerTyped, new, left

\* A prefix of a sequence and one more member.
LEMMA ListedSeq ==
    ASSUME NEW V, NEW s \in Seq(V), NEW n \in 0 .. Len(s), NEW v \in V
    PROVE  /\ Append(SubSeq(s, 1, n), v) \in Seq(V)
           /\ Len(Append(SubSeq(s, 1, n), v)) = n + 1
           /\ \A i \in 1 .. n : Append(SubSeq(s, 1, n), v)[i] = s[i]
           /\ Append(SubSeq(s, 1, n), v)[n + 1] = v
<1>1. \A i \in 1 .. n : s[i] \in V
  BY ElementOfSeq, LenProperties
<1>2. n \in Int /\ n >= 0
  BY LenProperties
<1>3. /\ SubSeq(s, 1, n) \in Seq(V) /\ Len(SubSeq(s, 1, n)) = n
      /\ \A i \in 1 .. n : SubSeq(s, 1, n)[i] = s[i]
  BY <1>1, <1>2, SubSeqProperties
<1>. QED
  BY <1>2, <1>3, AppendProperties

\* One member is taken out.
LEMMA WithoutSeq ==
    ASSUME NEW V, NEW s \in Seq(V), NEW n \in 1 .. Len(s)
    PROVE  LET rest == SubSeq(s, 1, n - 1) \o SubSeq(s, n + 1, Len(s))
           IN  /\ rest \in Seq(V)
               /\ Len(rest) = Len(s) - 1
               /\ \A i \in 1 .. Len(s) - 1 : rest[i] = IF i < n THEN s[i] ELSE s[i + 1]
<1> DEFINE left == SubSeq(s, 1, n - 1)
           right == SubSeq(s, n + 1, Len(s))
<1>1. Len(s) \in Nat /\ n \in Int /\ 1 <= n /\ n <= Len(s)
  BY LenProperties
<1>2. \A i \in 1 .. Len(s) : s[i] \in V
  BY ElementOfSeq
<1>3. left \in Seq(V) /\ Len(left) = n - 1 /\ \A i \in 1 .. n - 1 : left[i] = s[i]
  <2>1. n - 1 \in Int /\ \A i \in 1 .. n - 1 : s[i] \in V
    BY <1>1, <1>2
  <2>. QED
    BY <1>1, <2>1, SubSeqProperties
<1>4. right \in Seq(V) /\ Len(right) = Len(s) - n /\ \A i \in 1 .. Len(s) - n : right[i] = s[i + n]
  <2>1. n + 1 \in Int /\ \A i \in n + 1 .. Len(s) : s[i] \in V
    BY <1>1, <1>2
  <2>2. /\ right \in Seq(V)
        /\ Len(right) = IF n + 1 <= Len(s) THEN Len(s) - (n + 1) + 1 ELSE 0
        /\ \A i \in 1 .. Len(s) - (n + 1) + 1 : right[i] = s[(n + 1) + i - 1]
    BY <1>1, <2>1, SubSeqProperties
  <2>. QED
    BY <1>1, <2>2
<1>. HIDE DEF left, right
<1>6. /\ left \o right \in Seq(V) /\ Len(left \o right) = Len(left) + Len(right)
      /\ \A i \in 1 .. Len(left) + Len(right) : (left \o right)[i] =
            IF i <= Len(left) THEN left[i] ELSE right[i - Len(left)]
  BY <1>3, <1>4, ConcatProperties
<1>7. \A i \in 1 .. Len(s) - 1 : (left \o right)[i] = IF i < n THEN s[i] ELSE s[i + 1]
  BY <1>1, <1>3, <1>4, <1>6
<1>8. Len(left \o right) = Len(s) - 1
  BY <1>1, <1>3, <1>4, <1>6
<1>. QED
  BY <1>6, <1>7, <1>8, Zenon DEF left, right
-----------------------------------------------------------------------------
\* The types of all variables, and how they go together.
PodsTyped == InformerTyped(Pods, PodVersions, pod, podEvents, seen, podMark)
CmsTyped == InformerTyped(Protos, CmVersions, cm, cmEvents, cmSeen, cmMark)

StoresTyped == /\ Ex \in [Protos -> SUBSET PortNumbers]
               /\ Nw \in [Protos -> SUBSET PortNumbers]
               /\ store \in [StoreNames -> [addr : SUBSET Keys, ports : [Protos -> Deltas]]]

WorkTyped == /\ queue \in Seq(StoreNames) /\ Len(queue) <= Capacity
             /\ applying \in StoreNames \cup {NoStore}
             /\ todo \subseteq Keys
             /\ applying = NoStore => todo = {}
             /\ routes \subseteq Range(IP) \X PortNumbers \X Protos

StartTyped == /\ env \in Environments /\ changes \in Nat
              /\ stage \in {"down", "starting", "running"}
              /\ listed \subseteq {"pods", "cms"}
              /\ unheard \subseteq {"pods", "cms"} \cup Pods \cup Protos
              /\ missed \subseteq Protos

Typed == PodsTyped /\ CmsTyped /\ StoresTyped /\ WorkTyped /\ StartTyped

\* What an informer may do, and the API server to its objects.
PodInformerSteps ==
    \/ \E p \in Pods, v \in PodVersions : PodInformer!Change(p, v)
    \/ \E p \in Pods : PodInformer!Deliver(p)
    \/ PodInformer!List \/ PodInformer!Enlist
    \/ UNCHANGED <<pod, podVars>>

CmInformerSteps ==
    \/ \E pr \in Protos, v \in CmVersions : CmInformer!Change(pr, v)
    \/ \E pr \in Protos : CmInformer!Deliver(pr)
    \/ CmInformer!List \/ CmInformer!Enlist
    \/ UNCHANGED <<cm, cmVars>>

\* The versions a pod can have next.
LEMMA LifeTyped ==
    ASSUME NEW phase \in PodVersions
    PROVE  LifeFrom(phase) \subseteq PodVersions
BY ControllerAssumption DEF LifeFrom, PodVersions, Phases

\* Every step of the controller is one of these for either informer.
LEMMA StepsOfInformers ==
    ASSUME PodsTyped, [Next]_vars
    PROVE  Start \/ (PodInformerSteps /\ CmInformerSteps)
<1>1. CASE \E p \in Pods : PodChanges(p)
  <2>1. PICK p \in Pods : PodChanges(p)
    BY <1>1
  <2>2. pod[p] \in PodVersions
    BY DEF PodsTyped, InformerTyped
  <2>3. \E v \in PodVersions : PodInformer!Change(p, v)
    BY <2>1, <2>2, LifeTyped DEF PodChanges, PodVersions
  <2>. QED
    BY <2>1, <2>3 DEF PodInformerSteps, CmInformerSteps, PodChanges, cmVars
<1>2. CASE \E pr \in Protos : CmChanges(pr)
  BY <1>2 DEF CmChanges, PodInformerSteps, CmInformerSteps, CmVersions
<1>3. CASE WatchLost
  BY <1>3 DEF WatchLost, PodInformerSteps, CmInformerSteps, CmInformer!List, PodInformer!List
<1>4. CASE Kill \/ Run
  BY <1>4 DEF Kill, Run, PodInformerSteps, CmInformerSteps, apiVars
<1>5. CASE FirstList
  BY <1>5 DEF FirstList, PodInformerSteps, CmInformerSteps, CmInformer!List, PodInformer!List
<1>6. CASE Enlist
  BY <1>6 DEF Enlist, PodInformerSteps, CmInformerSteps, CmInformer!Enlist, PodInformer!Enlist
<1>7. CASE PodNotified
  BY <1>7 DEF PodNotified, PodInformerSteps, CmInformerSteps
<1>8. CASE CmNotified
  BY <1>8 DEF CmNotified, PodInformerSteps, CmInformerSteps
<1>9. CASE Receive \/ ProcessAddr \/ Finish
  BY <1>9 DEF Receive, ProcessAddr, Finish, PodInformerSteps, CmInformerSteps, apiVars
<1>10. CASE UNCHANGED vars
  BY <1>10 DEF vars, PodInformerSteps, CmInformerSteps, apiVars
<1>. QED
  BY <1>1, <1>2, <1>3, <1>4, <1>5, <1>6, <1>7, <1>8, <1>9, <1>10 DEF Next

LEMMA PodsTypedStep == ASSUME PodsTyped, PodInformerSteps PROVE PodsTyped'
<1>1. ASSUME NEW p \in Pods, NEW v \in PodVersions, PodInformer!Change(p, v)
      PROVE  PodsTyped'
  BY <1>1, ChangeTyped DEF PodsTyped, PodInformer!Change
<1>2. ASSUME NEW p \in Pods, PodInformer!Deliver(p) PROVE PodsTyped'
  BY <1>2, DeliverTyped DEF PodsTyped, PodInformer!Deliver
<1>3. CASE PodInformer!List
  <2>1. PICK n \in PodInformer!Received :
           /\ podEvents' = [o \in Pods |-> Append(SubSeq(podEvents[o], 1, n[o]), pod[o])]
           /\ podMark' = [o \in Pods |-> n[o] + 1]
    BY <1>3 DEF PodInformer!List
  <2>2. ASSUME NEW o \in Pods PROVE n[o] \in 0 .. Len(podEvents[o])
    <3>1. n[o] <= Len(podEvents[o]) /\ \E q \in Pods : n[o] \in 0 .. Len(podEvents[q])
      BY <2>1 DEF PodInformer!Received, PodInformer!Lengths
    <3>. QED
      BY <3>1, LenProperties DEF PodsTyped, InformerTyped
  <2>3. ASSUME NEW o \in Pods
        PROVE  /\ Append(SubSeq(podEvents[o], 1, n[o]), pod[o]) \in Seq(PodVersions)
               /\ n[o] + 1 \in Nat
               /\ n[o] + 1 \in 1 .. Len(Append(SubSeq(podEvents[o], 1, n[o]), pod[o]))
    BY <2>2, ListedSeq, LenProperties DEF PodsTyped, InformerTyped
  <2>4. podEvents' \in [Pods -> Seq(PodVersions)] /\ podMark' \in [Pods -> Nat]
    BY <2>1, <2>3
  <2>5. \A o \in Pods : podMark'[o] \in 1 .. Len(podEvents'[o])
    BY <2>1, <2>3
  <2>. QED
    BY <1>3, <2>4, <2>5 DEF PodsTyped, InformerTyped, PodInformer!List
<1>4. CASE PodInformer!Enlist
  <2>1. \A o \in Pods : podMark[o] \in 1 .. Len(podEvents[o]) /\ podEvents[o] \in Seq(PodVersions)
    BY <1>4 DEF PodsTyped, InformerTyped, PodInformer!Enlist, PodInformer!Listing
  <2>2. \A o \in Pods : PodInformer!Without(podEvents[o], podMark[o]) \in Seq(PodVersions)
    BY <2>1, WithoutSeq DEF PodInformer!Without
  <2>3. podEvents' \in [Pods -> Seq(PodVersions)]
    BY <1>4, <2>1, <2>2 DEF PodInformer!Enlist
  <2>4. UNCHANGED <<pod, seen>> /\ podMark' = [o \in Pods |-> 0]
    BY <1>4 DEF PodInformer!Enlist
  <2>. QED
    BY <2>3, <2>4 DEF PodsTyped, InformerTyped
<1>5. CASE UNCHANGED <<pod, podVars>>
  BY <1>5 DEF PodsTyped, podVars
<1>. QED
  BY <1>1, <1>2, <1>3, <1>4, <1>5 DEF PodInformerSteps

LEMMA CmsTypedStep == ASSUME CmsTyped, CmInformerSteps PROVE CmsTyped'
<1>1. ASSUME NEW pr \in Protos, NEW v \in CmVersions, CmInformer!Change(pr, v)
      PROVE  CmsTyped'
  BY <1>1, ChangeTyped DEF CmsTyped, CmInformer!Change
<1>2. ASSUME NEW pr \in Protos, CmInformer!Deliver(pr) PROVE CmsTyped'
  BY <1>2, DeliverTyped DEF CmsTyped, CmInformer!Deliver
<1>3. CASE CmInformer!List
  <2>1. PICK n \in CmInformer!Received :
           /\ cmEvents' = [o \in Protos |-> Append(SubSeq(cmEvents[o], 1, n[o]), cm[o])]
           /\ cmMark' = [o \in Protos |-> n[o] + 1]
    BY <1>3 DEF CmInformer!List
  <2>2. ASSUME NEW o \in Protos PROVE n[o] \in 0 .. Len(cmEvents[o])
    <3>1. n[o] <= Len(cmEvents[o]) /\ \E q \in Protos : n[o] \in 0 .. Len(cmEvents[q])
      BY <2>1 DEF CmInformer!Received, CmInformer!Lengths
    <3>. QED
      BY <3>1, LenProperties DEF CmsTyped, InformerTyped
  <2>3. ASSUME NEW o \in Protos
        PROVE  /\ Append(SubSeq(cmEvents[o], 1, n[o]), cm[o]) \in Seq(CmVersions)
               /\ n[o] + 1 \in Nat
               /\ n[o] + 1 \in 1 .. Len(Append(SubSeq(cmEvents[o], 1, n[o]), cm[o]))
    BY <2>2, ListedSeq, LenProperties DEF CmsTyped, InformerTyped
  <2>4. cmEvents' \in [Protos -> Seq(CmVersions)] /\ cmMark' \in [Protos -> Nat]
    BY <2>1, <2>3
  <2>5. \A o \in Protos : cmMark'[o] \in 1 .. Len(cmEvents'[o])
    BY <2>1, <2>3
  <2>. QED
    BY <1>3, <2>4, <2>5 DEF CmsTyped, InformerTyped, CmInformer!List
<1>4. CASE CmInformer!Enlist
  <2>1. \A o \in Protos : cmMark[o] \in 1 .. Len(cmEvents[o]) /\ cmEvents[o] \in Seq(CmVersions)
    BY <1>4 DEF CmsTyped, InformerTyped, CmInformer!Enlist, CmInformer!Listing
  <2>2. \A o \in Protos : CmInformer!Without(cmEvents[o], cmMark[o]) \in Seq(CmVersions)
    BY <2>1, WithoutSeq DEF CmInformer!Without
  <2>3. cmEvents' \in [Protos -> Seq(CmVersions)]
    BY <1>4, <2>1, <2>2 DEF CmInformer!Enlist
  <2>4. UNCHANGED <<cm, cmSeen>> /\ cmMark' = [o \in Protos |-> 0]
    BY <1>4 DEF CmInformer!Enlist
  <2>. QED
    BY <2>3, <2>4 DEF CmsTyped, InformerTyped
<1>5. CASE UNCHANGED <<cm, cmVars>>
  BY <1>5 DEF CmsTyped, cmVars
<1>. QED
  BY <1>1, <1>2, <1>3, <1>4, <1>5 DEF CmInformerSteps

\* Deltas, and the maps that handlers make.
LEMMA DeltaTyped ==
    ASSUME NEW old \in SUBSET PortNumbers, NEW new \in SUBSET PortNumbers
    PROVE  Delta(old, new) \in Deltas
<1> DEFINE ports == (new \ old) \cup (old \ new)
<1>1. ports \in SUBSET PortNumbers
  OBVIOUS
<1>2. Delta(old, new) \in [ports -> Actions]
  BY DEF Delta, Actions
<1>. QED
  BY <1>1, <1>2 DEF Deltas

LEMMA ListingsTyped ==
    ASSUME CmsTyped
    PROVE  /\ \A pr \in Protos : Configured(pr) \subseteq PortNumbers
           /\ listCm \in [Protos -> Deltas]
           /\ listNginx \subseteq Keys
           /\ EmptyPorts \in [Protos -> Deltas]
<1>1. ASSUME NEW pr \in Protos PROVE Configured(pr) \in SUBSET PortNumbers
  <2>1. cm[pr] \in CmVersions
    BY DEF CmsTyped, InformerTyped
  <2>2. CASE cm[pr] = Absent
    BY <2>2 DEF Configured, Data
  <2>3. CASE cm[pr] # Absent
    <3>1. cm[pr] \in SUBSET PortNumbers
      BY <2>1, <2>3 DEF CmVersions
    <3>2. Configured(pr) = cm[pr]
      BY <2>3 DEF Configured, Data
    <3>. QED
      BY <3>1, <3>2, Zenon
  <2>. QED
    BY <2>2, <2>3
<1>2. ASSUME NEW pr \in Protos PROVE [p \in Configured(pr) |-> addition] \in Deltas
  <2>1. [p \in Configured(pr) |-> addition] \in [Configured(pr) -> Actions]
    BY DEF Actions
  <2>. QED
    BY <1>1, <2>1 DEF Deltas
<1>3. listCm \in [Protos -> Deltas]
  BY <1>2 DEF listCm
<1>4. listNginx \subseteq Keys
  BY ControllerAssumption DEF listNginx, Keys, Actions
<1>5. EmptyPorts \in [Protos -> Deltas]
  <2>1. EmptyDelta \in [{} -> Actions]
    BY DEF EmptyDelta
  <2>2. EmptyDelta \in Deltas
    BY <2>1 DEF Deltas
  <2>. QED
    BY <2>2 DEF EmptyPorts
<1>. QED
  BY <1>1, <1>3, <1>4, <1>5

LEMMA StoresTypedStep == Typed /\ [Next]_vars => StoresTyped'
<1> SUFFICES ASSUME Typed, [Next]_vars PROVE StoresTyped'
  OBVIOUS
<1> USE DEF StoreNames
<1>0. StoresTyped /\ CmsTyped
  BY DEF Typed
<1>1. CASE UNCHANGED cacheVars
  BY <1>0, <1>1 DEF StoresTyped, cacheVars
<1>2. CASE Start
  <2>1. [pr \in Protos |-> Configured(pr)] \in [Protos -> SUBSET PortNumbers]
    BY <1>0, ListingsTyped
  <2>2. store' \in [StoreNames -> [addr : SUBSET Keys, ports : [Protos -> Deltas]]]
    <3>1. store' = [plbdata |-> [addr |-> listNginx, ports |-> listCm],
                    clbdata |-> [addr |-> {}, ports |-> EmptyPorts]]
      BY <1>2 DEF Start
    <3>. QED
      BY <1>0, <3>1, ListingsTyped
  <2>. QED
    BY <1>2, <2>1, <2>2 DEF Start, StoresTyped, InitialCache
<1>3. CASE PodNotified
  <2>1. PICK p \in Pods :
           LET next == PodInformer!Next(p)
           IN  CASE next = Absent    -> UNCHANGED <<store, todo, queue, applying, stage>>
                 [] seen[p] = Absent -> AddrAdd(p, next)
                 [] OTHER            -> AddrUpdate(p, seen[p])
    BY <1>3 DEF PodNotified
  <2>2. UNCHANGED <<Ex, Nw>>
    BY <1>3 DEF PodNotified
  <2>3. ASSUME NEW phase, AddrAdd(p, phase) PROVE StoresTyped'
    <3>1. <<addition, p>> \in Keys
      BY DEF Keys, Actions
    <3>2. \/ UNCHANGED store
          \/ store' = [store EXCEPT !.plbdata.addr = @ \cup {<<addition, p>>}]
      BY <2>3 DEF AddrAdd
    <3>. QED
      BY <1>0, <2>2, <3>1, <3>2 DEF StoresTyped
  <2>4. ASSUME NEW old, AddrUpdate(p, old) PROVE StoresTyped'
    <3>1. {<<UpdateAction(old), p>>} \subseteq Keys
      BY DEF Keys, Actions, UpdateAction
    <3>2. \A ports \in MayFail(listCm, store.plbdata.ports) : ports \in [Protos -> Deltas]
      BY <1>0, ListingsTyped DEF MayFail, StoresTyped
    <3>3. \/ UNCHANGED store
          \/ \E ports \in MayFail(listCm, store.plbdata.ports) :
                store' = [store EXCEPT !.plbdata =
                            [addr |-> {<<UpdateAction(old), p>>}, ports |-> ports]]
      BY <2>4 DEF AddrUpdate
    <3>. QED
      BY <1>0, <2>2, <3>1, <3>2, <3>3 DEF StoresTyped
  <2>. QED
    BY <1>0, <2>1, <2>2, <2>3, <2>4 DEF StoresTyped
<1>4. CASE CmNotified
  <2>1. PICK pr \in Protos :
           \/ UNCHANGED cacheVars
           \/ CmInformer!Next(pr) # Absent /\ UpdatePorts(pr, CmInformer!Next(pr))
    BY <1>4 DEF CmNotified, NotTold
  <2>2. CASE CmInformer!Next(pr) # Absent /\ UpdatePorts(pr, CmInformer!Next(pr))
    <3> DEFINE ports == CmInformer!Next(pr)
               r == L4Compare(Ex[pr], Nw[pr] \cup ports, store.clbdata.ports[pr])
    <3>1. ports \in SUBSET PortNumbers
      <4>1. cmEvents[pr] # <<>> /\ cmEvents[pr] \in Seq(CmVersions) /\ ports = Head(cmEvents[pr])
        BY <1>0, <2>2 DEF CmInformer!Next, CmsTyped, InformerTyped
      <4>2. ports \in CmVersions
        BY <4>1, HeadTailProperties
      <4>. QED
        BY <2>2, <4>2 DEF CmVersions
    <3>2. Ex[pr] \in SUBSET PortNumbers /\ Nw[pr] \in SUBSET PortNumbers
      BY <1>0 DEF StoresTyped
    <3>3. /\ r.old \in SUBSET PortNumbers /\ r.new \in SUBSET PortNumbers
          /\ r.delta \in Deltas
      <4>1. Delta(Ex[pr], Nw[pr] \cup ports) \in Deltas
        BY <3>1, <3>2, DeltaTyped
      <4>2. store.clbdata.ports[pr] \in Deltas
        BY <1>0 DEF StoresTyped
      <4>. QED
        BY <3>1, <3>2, <4>1, <4>2 DEF L4Compare
    <3>4. \A addr \in MayFail(listNginx, store.clbdata.addr) : addr \subseteq Keys
      BY <1>0, ListingsTyped DEF MayFail, StoresTyped
    <3>5. /\ Ex' = [Ex EXCEPT ![pr] = r.old] /\ Nw' = [Nw EXCEPT ![pr] = r.new]
          /\ \E addr \in MayFail(listNginx, store.clbdata.addr) :
                store' = [store EXCEPT !.clbdata.addr = addr,
                                       !.clbdata.ports[pr] = r.delta]
      BY <2>2 DEF UpdatePorts
    <3>. HIDE DEF r, ports
    <3>6. Ex' \in [Protos -> SUBSET PortNumbers] /\ Nw' \in [Protos -> SUBSET PortNumbers]
      BY <1>0, <3>3, <3>5 DEF StoresTyped
    <3>7. PICK addr \in SUBSET Keys :
             store' = [store EXCEPT !.clbdata.addr = addr, !.clbdata.ports[pr] = r.delta]
      BY <3>4, <3>5
    <3> DEFINE first == [store EXCEPT !.clbdata.addr = addr]
    <3>8. first \in [StoreNames -> [addr : SUBSET Keys, ports : [Protos -> Deltas]]]
      BY <1>0 DEF StoresTyped
    <3>9. store' = [first EXCEPT !.clbdata.ports[pr] = r.delta]
      BY <3>7
    <3>. HIDE DEF first
    <3>10. [first.clbdata.ports EXCEPT ![pr] = r.delta] \in [Protos -> Deltas]
      BY <3>3, <3>8
    <3>11. store' \in [StoreNames -> [addr : SUBSET Keys, ports : [Protos -> Deltas]]]
      BY <3>8, <3>9, <3>10
    <3>. QED
      BY <3>6, <3>11 DEF StoresTyped
  <2>. QED
    BY <1>1, <2>1, <2>2
<1>5. CASE UNCHANGED vars
  BY <1>1, <1>5 DEF vars
<1>6. ASSUME \/ \E p \in Pods : PodChanges(p)
             \/ \E pr \in Protos : CmChanges(pr)
             \/ WatchLost \/ Kill \/ FirstList \/ Enlist \/ Run
             \/ Receive \/ ProcessAddr \/ Finish
      PROVE  UNCHANGED cacheVars
  BY <1>6 DEF PodChanges, CmChanges, WatchLost, Kill, FirstList, Enlist, Run,
              Receive, ProcessAddr, Finish
<1>. QED
  BY <1>1, <1>2, <1>3, <1>4, <1>5, <1>6 DEF Next

\* A store is sent if there is room.
LEMMA SendTyped ==
    ASSUME WorkTyped, NEW s \in StoreNames, Send(s)
    PROVE  queue' \in Seq(StoreNames) /\ Len(queue') <= Capacity /\ applying = NoStore
<1>1. Append(queue, s) \in Seq(StoreNames) /\ Len(Append(queue, s)) = Len(queue) + 1
  BY AppendProperties DEF WorkTyped
<1>2. Len(queue) < Capacity /\ queue' = Append(queue, s) /\ applying = NoStore
  BY DEF Send, Chan!Put
<1>3. Len(queue) \in Nat /\ Capacity \in Nat
  BY ControllerAssumption, LenProperties DEF WorkTyped
<1>. QED
  BY <1>1, <1>2, <1>3

LEMMA RoutesAtTyped ==
    ASSUME NEW p \in Pods, NEW ports
    PROVE  RoutesAt(IP[p], ports) \subseteq Range(IP) \X PortNumbers \X Protos
<1>1. IP[p] \in Range(IP)
  BY ControllerAssumption DEF Range
<1>. QED
  BY <1>1 DEF RoutesAt

LEMMA WorkTypedStep == Typed /\ [Next]_vars => WorkTyped'
<1> SUFFICES ASSUME Typed, [Next]_vars PROVE WorkTyped'
  OBVIOUS
<1> USE DEF StoreNames
<1>0. WorkTyped /\ StoresTyped /\ CmsTyped
  BY DEF Typed
<1>1. CASE UNCHANGED <<queue, workerVars>>
  BY <1>0, <1>1 DEF WorkTyped, workerVars
<1>2. CASE Start
  <2>1. <<"plbdata">> \in Seq(StoreNames) /\ Len(<<"plbdata">>) = 1 /\ 1 <= Capacity
    BY ControllerAssumption
  <2>2. routes' \subseteq Range(IP) \X PortNumbers \X Protos
    BY <1>0, <1>2 DEF Start, FlushedRoutes, WorkTyped
  <2>3. queue' = <<"plbdata">> /\ applying' = NoStore /\ todo' = {}
    BY <1>2 DEF Start
  <2>. QED
    BY <2>1, <2>2, <2>3 DEF WorkTyped
<1>3. CASE PodNotified
  <2>1. PICK p \in Pods :
           LET next == PodInformer!Next(p)
           IN  CASE next = Absent    -> UNCHANGED <<store, todo, queue, applying, stage>>
                 [] seen[p] = Absent -> AddrAdd(p, next)
                 [] OTHER            -> AddrUpdate(p, seen[p])
    BY <1>3 DEF PodNotified
  <2>2. UNCHANGED routes
    BY <1>3 DEF PodNotified
  <2>3. ASSUME NEW phase, AddrAdd(p, phase) PROVE WorkTyped'
    <3>1. <<addition, p>> \in Keys
      BY DEF Keys, Actions
    <3>2. /\ UNCHANGED <<queue, applying>>
          /\ todo' \in {todo, todo \cup {<<addition, p>>}}
          /\ todo' # todo => applying = "plbdata"
      BY <2>3 DEF AddrAdd
    <3>. QED
      BY <1>0, <2>2, <3>1, <3>2, ControllerAssumption DEF WorkTyped
  <2>4. ASSUME NEW old, AddrUpdate(p, old) PROVE WorkTyped'
    <3>1. CASE HasIP(old)
      <4>1. Send("plbdata") /\ UNCHANGED todo
        BY <2>4, <3>1 DEF AddrUpdate
      <4>2. UNCHANGED applying
        BY <4>1 DEF Send, Chan!Put
      <4>. QED
        BY <1>0, <2>2, <4>1, <4>2, SendTyped DEF WorkTyped
    <3>2. CASE ~ HasIP(old)
      BY <1>0, <2>2, <2>4, <3>2 DEF AddrUpdate, WorkTyped
    <3>. QED
      BY <3>1, <3>2
  <2>. QED
    BY <1>0, <2>1, <2>2, <2>3, <2>4 DEF WorkTyped
<1>4. CASE CmNotified
  <2>1. UNCHANGED <<todo, routes>>
    BY <1>4 DEF CmNotified
  <2>2. UNCHANGED <<queue, applying>> \/ Send("clbdata")
    BY <1>4 DEF CmNotified, NotTold, UpdatePorts
  <2>3. UNCHANGED applying
    BY <2>2 DEF Send, Chan!Put
  <2>. QED
    BY <1>0, <2>1, <2>2, <2>3, SendTyped DEF WorkTyped
<1>5. CASE Receive
  <2>1. queue # <<>> /\ applying' = Head(queue) /\ queue' = Tail(queue)
    BY <1>5 DEF Receive, Chan!Take
  <2>2. /\ Head(queue) \in StoreNames /\ Tail(queue) \in Seq(StoreNames)
        /\ Len(Tail(queue)) = Len(queue) - 1
    BY <1>0, <2>1, HeadTailProperties DEF WorkTyped
  <2>3. todo' \subseteq Keys /\ UNCHANGED routes
    BY <1>0, <1>5, <2>1, <2>2 DEF Receive, StoresTyped
  <2>4. Len(queue) \in Nat /\ Capacity \in Nat
    BY <1>0, ControllerAssumption, LenProperties DEF WorkTyped
  <2>5. Len(queue') <= Capacity /\ applying' # NoStore
    BY <1>0, <2>1, <2>2, <2>4, ControllerAssumption DEF WorkTyped
  <2>. QED
    BY <1>0, <2>1, <2>2, <2>3, <2>5 DEF WorkTyped
<1>6. CASE ProcessAddr
  <2>1. UNCHANGED <<queue, applying>> /\ todo' \subseteq todo
    BY <1>6 DEF ProcessAddr
  <2>2. PICK key \in todo :
           \E new, old, failed :
              /\ new = {} \/ \E ports : new = RoutesAt(IP[key[2]], ports)
              /\ routes' = (routes \cup (new \ failed)) \ (old \ failed)
    BY <1>6 DEF ProcessAddr
  <2>3. key[2] \in Pods
    BY <1>0 DEF WorkTyped, Keys
  <2>4. routes' \subseteq Range(IP) \X PortNumbers \X Protos
    BY <1>0, <2>2, <2>3, RoutesAtTyped DEF WorkTyped
  <2>. QED
    BY <1>0, <2>1, <2>4 DEF WorkTyped
<1>7. CASE Finish
  <2>1. UNCHANGED <<queue, todo, routes>> /\ todo = {} /\ applying' = NoStore
    BY <1>7 DEF Finish, Chan!Done
  <2>. QED
    BY <1>0, <2>1 DEF WorkTyped
<1>8. ASSUME \/ \E p \in Pods : PodChanges(p)
             \/ \E pr \in Protos : CmChanges(pr)
             \/ WatchLost \/ Kill \/ FirstList \/ Enlist \/ Run
             \/ UNCHANGED vars
      PROVE  UNCHANGED <<queue, workerVars>>
  BY <1>8 DEF PodChanges, CmChanges, WatchLost, Kill, FirstList, Enlist, Run, vars
<1>. QED
  BY <1>1, <1>2, <1>3, <1>4, <1>5, <1>6, <1>7, <1>8 DEF Next

LEMMA StartTypedStep == Typed /\ [Next]_vars => StartTyped'
<1> SUFFICES ASSUME Typed, [Next]_vars PROVE StartTyped'
  OBVIOUS
<1>0. StartTyped /\ StoresTyped
  BY DEF Typed
<1>1. CASE UNCHANGED <<env, changes, startVars>>
  BY <1>0, <1>1 DEF StartTyped, startVars
<1>2. CASE Start
  BY <1>0, <1>2 DEF Start, StartTyped, apiVars
<1>3. CASE \/ \E p \in Pods : PodChanges(p)
           \/ \E pr \in Protos : CmChanges(pr)
           \/ WatchLost \/ Kill
  <2>1. UNCHANGED <<env, listed, unheard, missed>> /\ changes' = changes + 1
    BY <1>3 DEF PodChanges, CmChanges, WatchLost, Kill, MayChange, Happens
  <2>2. stage' \in {stage, "down"}
    BY <1>3 DEF PodChanges, CmChanges, WatchLost, Kill, MayChange, Happens
  <2>. QED
    BY <1>0, <2>1, <2>2 DEF StartTyped
<1>4. CASE FirstList
  BY <1>0, <1>4 DEF FirstList, StartTyped
<1>5. CASE Enlist
  BY <1>0, <1>5 DEF Enlist, StartTyped
<1>6. CASE Run
  BY <1>0, <1>6 DEF Run, StartTyped, apiVars
<1>7. CASE PodNotified
  <2>1. UNCHANGED <<env, changes, listed, missed>> /\ unheard' \subseteq unheard
    BY <1>7 DEF PodNotified
  <2>2. stage' \in {stage, "down"}
    BY <1>7 DEF PodNotified, AddrAdd, AddrUpdate
  <2>. QED
    BY <1>0, <2>1, <2>2 DEF StartTyped
<1>8. CASE CmNotified
  <2>1. /\ UNCHANGED <<env, changes, listed, stage>> /\ unheard' \subseteq unheard
        /\ missed' \subseteq missed \cup Protos
    BY <1>8 DEF CmNotified, NotTold
  <2>. QED
    BY <1>0, <2>1 DEF StartTyped
<1>9. CASE Receive \/ ProcessAddr \/ Finish \/ UNCHANGED vars
  BY <1>1, <1>9 DEF Receive, ProcessAddr, Finish, vars, apiVars
<1>. QED
  BY <1>2, <1>3, <1>4, <1>5, <1>6, <1>7, <1>8, <1>9 DEF Next

LEMMA TypedInit == Init => Typed
<1> SUFFICES ASSUME Init PROVE Typed
  OBVIOUS
<1>0. \A V : <<>> \in Seq(V) /\ Len(<<>>) = 0
  BY EmptySeq
<1>1. PodsTyped
  <2>1. pod \in [Pods -> PodVersions]
    BY DEF Init, PodVersions, Phases
  <2>2. /\ podEvents = [o \in Pods |-> <<>>] /\ seen = [o \in Pods |-> Absent]
        /\ podMark = [o \in Pods |-> 0]
    BY DEF Init, PodInformer!Empty
  <2>. QED
    BY <1>0, <2>1, <2>2 DEF PodsTyped, InformerTyped, PodVersions
<1>2. CmsTyped
  <2>1. cm \in [Protos -> CmVersions]
    BY DEF Init, CmVersions
  <2>2. /\ cmEvents = [o \in Protos |-> <<>>] /\ cmSeen = [o \in Protos |-> Absent]
        /\ cmMark = [o \in Protos |-> 0]
    BY DEF Init, CmInformer!Empty
  <2>. QED
    BY <1>0, <2>1, <2>2 DEF CmsTyped, InformerTyped, CmVersions
<1>3. StoresTyped
  <2>1. store = [s \in StoreNames |-> [addr |-> {}, ports |-> EmptyPorts]]
    BY DEF Init, StoreNames
  <2>2. EmptyPorts \in [Protos -> Deltas]
    BY <1>2, ListingsTyped
  <2>. QED
    BY <2>1, <2>2 DEF Init, StoresTyped
<1>4. WorkTyped
  <2>1. 0 <= Capacity
    BY ControllerAssumption
  <2>. QED
    BY <1>0, <2>1 DEF Init, WorkTyped
<1>5. StartTyped
  BY DEF Init, StartTyped
<1>. QED
  BY <1>1, <1>2, <1>3, <1>4, <1>5 DEF Typed

LEMMA TypedStep == Typed /\ [Next]_vars => Typed'
<1> SUFFICES ASSUME Typed, [Next]_vars PROVE Typed'
  OBVIOUS
<1>1. PodsTyped' /\ CmsTyped'
  <2>1. CASE Start
    <3>0. <<>> \in Seq(PodVersions) /\ <<>> \in Seq(CmVersions)
      BY EmptySeq
    <3>1. PodsTyped'
      BY <2>1, <3>0 DEF Start, Typed, PodsTyped, InformerTyped, PodVersions, apiVars
    <3>2. CmsTyped'
      BY <2>1, <3>0 DEF Start, Typed, CmsTyped, InformerTyped, CmVersions, apiVars
    <3>. QED
      BY <3>1, <3>2
  <2>2. CASE PodInformerSteps /\ CmInformerSteps
    BY <2>2, PodsTypedStep, CmsTypedStep DEF Typed
  <2>. QED
    BY <2>1, <2>2, StepsOfInformers DEF Typed
<1>. QED
  BY <1>1, StoresTypedStep, WorkTypedStep, StartTypedStep DEF Typed

\* The types of the whole controller, in every environment.
THEOREM TypeCorrect == Spec => []TypeOK
<1>1. Typed => TypeOK
  <2> SUFFICES ASSUME Typed PROVE TypeOK
    OBVIOUS
  <2>1. \A delta \in Deltas : DOMAIN delta \subseteq PortNumbers /\ Range(delta) \subseteq Actions
    BY DEF Deltas, Range
  <2>2. \A p \in Pods : podEvents[p] \in Seq(Phases \cup {Absent})
    BY DEF Typed, PodsTyped, InformerTyped, PodVersions
  <2>3. \A pr \in Protos :
           /\ {cm[pr], cmSeen[pr]} \subseteq (SUBSET PortNumbers) \cup {Absent}
           /\ cmEvents[pr] \in Seq((SUBSET PortNumbers) \cup {Absent})
           /\ Ex[pr] \subseteq PortNumbers /\ Nw[pr] \subseteq PortNumbers
    BY DEF Typed, CmsTyped, InformerTyped, CmVersions, StoresTyped
  <2>4. \A s \in {"plbdata", "clbdata"} :
           /\ store[s].addr \subseteq Actions \X Pods
           /\ \A pr \in Protos : /\ DOMAIN store[s].ports[pr] \subseteq PortNumbers
                                  /\ Range(store[s].ports[pr]) \subseteq Actions
    BY <2>1 DEF Typed, StoresTyped, StoreNames, Keys
  <2>5. pod \in [Pods -> Phases \cup {Absent}] /\ seen \in [Pods -> Phases \cup {Absent}]
    BY DEF Typed, PodsTyped, InformerTyped, PodVersions
  <2>. QED
    BY <2>2, <2>3, <2>4, <2>5 DEF Typed, WorkTyped, StartTyped, StoreNames, Keys, TypeOK
<1>. QED
  BY <1>1, TypedInit, TypedStep, PTL DEF Spec
-----------------------------------------------------------------------------
\* The shape of the maps that updatePorts works on.
MapsOK == /\ DOMAIN store = {"plbdata", "clbdata"}
          /\ DOMAIN store.clbdata = {"addr", "ports"}
          /\ DOMAIN store.clbdata.ports = Protos
          /\ DOMAIN Ex = Protos /\ DOMAIN Nw = Protos /\ DOMAIN cmSeen = Protos

\* An update that changes no port leaves Nw filled, with Ex.
NwHarmless == \A pr \in Protos : Nw[pr] \in {{}, Ex[pr]}

\* The cache has the ports of the version in the informer's store, unless this
\* came without a call of updatePorts.
CacheFollows == \A pr \in Protos : pr \notin missed => Data(cmSeen[pr]) \subseteq Ex[pr]

\* The map of clbdata never contradicts the cache.
MapAgrees == \A pr \in Protos : /\ Adds(store.clbdata.ports[pr]) \subseteq Ex[pr]
                                /\ Dels(store.clbdata.ports[pr]) \cap Ex[pr] = {}

CacheInv == MapsOK /\ NwHarmless /\ CacheFollows /\ MapAgrees

\* Nothing changes what CacheInv is about.
LEMMA CacheKept ==
    ASSUME CacheInv, UNCHANGED <<Ex, Nw, cmSeen, missed>>,
           DOMAIN store' = DOMAIN store, store'.clbdata = store.clbdata
    PROVE  CacheInv'
BY DEF CacheInv, MapsOK, NwHarmless, CacheFollows, MapAgrees

\* The maps that NewLoadBalancerController makes.
LEMMA EmptyMaps ==
    /\ DOMAIN EmptyPorts = Protos
    /\ \A pr \in Protos : Adds(EmptyPorts[pr]) = {} /\ Dels(EmptyPorts[pr]) = {}
BY DEF EmptyPorts, EmptyDelta, Adds, Dels

\* Before the first start.
LEMMA CacheInit == Init => CacheInv
<1> SUFFICES ASSUME Init PROVE CacheInv
  OBVIOUS
<1>1. MapsOK
  BY EmptyMaps DEF Init, MapsOK, CmInformer!Empty
<1>2. NwHarmless
  BY DEF Init, NwHarmless
<1>3. CacheFollows
  BY DEF Init, CacheFollows, CmInformer!Empty, Data
<1>4. MapAgrees
  BY EmptyMaps DEF Init, MapAgrees
<1>. QED
  BY <1>1, <1>2, <1>3, <1>4 DEF CacheInv

\* Initial fills the cache; the informers' stores are empty.
LEMMA CacheStart == Start => CacheInv'
<1> SUFFICES ASSUME Start PROVE CacheInv'
  OBVIOUS
<1>0. store' = [plbdata |-> [addr |-> listNginx, ports |-> listCm],
                clbdata |-> [addr |-> {}, ports |-> EmptyPorts]]
  BY DEF Start
<1>1. MapsOK'
  BY <1>0, EmptyMaps DEF Start, MapsOK, InitialCache
<1>2. NwHarmless'
  BY DEF Start, NwHarmless
<1>3. CacheFollows'
  BY DEF Start, CacheFollows, Data
<1>4. MapAgrees'
  BY <1>0, EmptyMaps DEF MapAgrees
<1>. QED
  BY <1>1, <1>2, <1>3, <1>4 DEF CacheInv

\* updatePorts leaves the cache with the new ports and Nw empty or equal to it,
\* and the map with the change, if there is one.
LEMMA CacheUpdate ==
    ASSUME CacheInv, NEW pr \in Protos, NEW ports, UpdatePorts(pr, ports)
    PROVE  /\ DOMAIN store' = DOMAIN store /\ DOMAIN store'.clbdata = {"addr", "ports"}
           /\ DOMAIN store'.clbdata.ports = Protos
           /\ DOMAIN Ex' = Protos /\ DOMAIN Nw' = Protos
           /\ ports \subseteq Ex'[pr] /\ Nw'[pr] \in {{}, Ex'[pr]}
           /\ Adds(store'.clbdata.ports[pr]) \subseteq Ex'[pr]
           /\ Dels(store'.clbdata.ports[pr]) \cap Ex'[pr] = {}
           /\ \A other \in Protos \ {pr} :
                 /\ Ex'[other] = Ex[other] /\ Nw'[other] = Nw[other]
                 /\ store'.clbdata.ports[other] = store.clbdata.ports[other]
<1> DEFINE new == Nw[pr] \cup ports
           r == L4Compare(Ex[pr], new, store.clbdata.ports[pr])
<1>1. /\ r.old = new
      /\ r.new \in {{}, new}
      /\ Ex[pr] = new => r.delta = store.clbdata.ports[pr]
      /\ Ex[pr] # new => /\ Adds(r.delta) = new \ Ex[pr]
                         /\ Dels(r.delta) = Ex[pr] \ new
  <2> HIDE DEF new
  <2>. QED
    BY L4CompareSpec
<1>2. PICK addr : store' = [store EXCEPT !.clbdata.addr = addr,
                                         !.clbdata.ports[pr] = r.delta]
  BY DEF UpdatePorts
<1>3. Ex' = [Ex EXCEPT ![pr] = r.old] /\ Nw' = [Nw EXCEPT ![pr] = r.new]
  BY DEF UpdatePorts
<1>. HIDE DEF r
<1>4. /\ DOMAIN store' = DOMAIN store /\ DOMAIN store'.clbdata = {"addr", "ports"}
      /\ store'.clbdata.ports = [store.clbdata.ports EXCEPT ![pr] = r.delta]
  BY <1>2 DEF CacheInv, MapsOK
<1>5. /\ DOMAIN store'.clbdata.ports = Protos
      /\ store'.clbdata.ports[pr] = r.delta
      /\ \A other \in Protos \ {pr} :
            store'.clbdata.ports[other] = store.clbdata.ports[other]
  BY <1>4 DEF CacheInv, MapsOK
<1>6. /\ DOMAIN Ex' = Protos /\ DOMAIN Nw' = Protos
      /\ Ex'[pr] = new /\ Nw'[pr] = r.new
      /\ \A other \in Protos \ {pr} : Ex'[other] = Ex[other] /\ Nw'[other] = Nw[other]
  BY <1>1, <1>3 DEF CacheInv, MapsOK
<1>7. /\ Adds(r.delta) \subseteq new
      /\ Dels(r.delta) \cap new = {}
  <2>1. CASE Ex[pr] = new
    BY <1>1, <2>1 DEF CacheInv, MapAgrees
  <2>2. CASE Ex[pr] # new
    BY <1>1, <2>2
  <2>. QED
    BY <2>1, <2>2
<1>. QED
  BY <1>1, <1>4, <1>5, <1>6, <1>7

\* The configmap informer calls updatePorts, or takes note of a version that no
\* handler is told of.
LEMMA CacheNotified == ASSUME CacheInv, CmNotified PROVE CacheInv'
<1>1. PICK pr \in Protos :
         LET next == CmInformer!Next(pr)
             told == Absent \notin {next, cmSeen[pr]}
         IN  /\ CmInformer!Deliver(pr)
             /\ \/ ~ told /\ NotTold(pr, next)
                \/ /\ told /\ next = cmSeen[pr]
                   /\ UNCHANGED <<missed, cacheVars, queue, applying>>
                \/ /\ told /\ next # cmSeen[pr]
                   /\ UpdatePorts(pr, next)
                   /\ missed' = missed \ {pr}
  BY DEF CmNotified
<1> DEFINE next == CmInformer!Next(pr)
<1>2. /\ DOMAIN cmSeen' = Protos /\ cmSeen'[pr] = next
      /\ \A other \in Protos \ {pr} : cmSeen'[other] = cmSeen[other]
  BY <1>1 DEF CmInformer!Deliver, CmInformer!Next, CacheInv, MapsOK
<1>. HIDE DEF next
<1>3. CASE Absent \in {next, cmSeen[pr]}
  <2>1. NotTold(pr, next)
    BY <1>1, <1>3 DEF next
  <2>2. UNCHANGED cacheVars
    BY <2>1 DEF NotTold
  <2>3. CacheFollows'
    BY <1>2, <2>1, <2>2 DEF CacheInv, CacheFollows, NotTold, cacheVars
  <2>. QED
    BY <1>2, <2>2, <2>3 DEF CacheInv, MapsOK, NwHarmless, MapAgrees, cacheVars
<1>4. CASE Absent \notin {next, cmSeen[pr]} /\ next = cmSeen[pr]
  <2>1. UNCHANGED <<missed, cacheVars>>
    BY <1>1, <1>4 DEF next
  <2>2. CacheFollows'
    BY <1>2, <1>4, <2>1 DEF CacheInv, CacheFollows, cacheVars
  <2>. QED
    BY <1>2, <2>1, <2>2 DEF CacheInv, MapsOK, NwHarmless, MapAgrees, cacheVars
<1>5. CASE Absent \notin {next, cmSeen[pr]} /\ next # cmSeen[pr]
  <2>1. UpdatePorts(pr, next) /\ missed' = missed \ {pr}
    BY <1>1, <1>5 DEF next
  <2>2. /\ DOMAIN store' = DOMAIN store /\ DOMAIN store'.clbdata = {"addr", "ports"}
        /\ DOMAIN store'.clbdata.ports = Protos
        /\ DOMAIN Ex' = Protos /\ DOMAIN Nw' = Protos
        /\ next \subseteq Ex'[pr] /\ Nw'[pr] \in {{}, Ex'[pr]}
        /\ Adds(store'.clbdata.ports[pr]) \subseteq Ex'[pr]
        /\ Dels(store'.clbdata.ports[pr]) \cap Ex'[pr] = {}
        /\ \A other \in Protos \ {pr} :
              /\ Ex'[other] = Ex[other] /\ Nw'[other] = Nw[other]
              /\ store'.clbdata.ports[other] = store.clbdata.ports[other]
    BY <2>1, CacheUpdate
  <2>3. CacheFollows'
    BY <1>2, <1>5, <2>1, <2>2 DEF CacheInv, CacheFollows, Data
  <2>4. NwHarmless' /\ MapAgrees'
    BY <2>2 DEF CacheInv, NwHarmless, MapAgrees
  <2>. QED
    BY <1>2, <2>2, <2>3, <2>4 DEF CacheInv, MapsOK
<1>. QED
  BY <1>3, <1>4, <1>5

\* The handlers of the pods fill plbdata only.
LEMMA CachePods == ASSUME CacheInv, PodNotified PROVE CacheInv'
<1>1. UNCHANGED <<cmSeen, Ex, Nw, missed>>
  BY DEF PodNotified, cmVars
<1>2. \/ store' = store
      \/ \E v : store' = [store EXCEPT !.plbdata.addr = v]
      \/ \E v : store' = [store EXCEPT !.plbdata = v]
  <2>1. PICK p \in Pods :
           LET next == PodInformer!Next(p)
           IN  CASE next = Absent    -> UNCHANGED <<store, todo, queue, applying, stage>>
                 [] seen[p] = Absent -> AddrAdd(p, next)
                 [] OTHER            -> AddrUpdate(p, seen[p])
    BY DEF PodNotified
  <2>2. ASSUME NEW phase, AddrAdd(p, phase)
        PROVE  store' = store \/ \E v : store' = [store EXCEPT !.plbdata.addr = v]
    BY <2>2 DEF AddrAdd
  <2>3. ASSUME NEW old, AddrUpdate(p, old)
        PROVE  store' = store \/ \E v : store' = [store EXCEPT !.plbdata = v]
    BY <2>3 DEF AddrUpdate
  <2>. QED
    BY <2>1, <2>2, <2>3
<1>3. DOMAIN store' = DOMAIN store /\ store'.clbdata = store.clbdata
  BY <1>2 DEF CacheInv, MapsOK
<1>. QED
  BY <1>1, <1>3, CacheKept

\* No other step has to do with the caches.
LEMMA CacheStep == CacheInv /\ [Next]_vars => CacheInv'
<1> SUFFICES ASSUME CacheInv, [Next]_vars PROVE CacheInv'
  OBVIOUS
<1>1. ASSUME UNCHANGED <<cmSeen, missed, cacheVars>> PROVE CacheInv'
  BY <1>1, CacheKept DEF cacheVars
<1>2. ASSUME NEW p \in Pods, PodChanges(p) PROVE CacheInv'
  BY <1>1, <1>2 DEF PodChanges, cmVars
<1>3. ASSUME NEW pr \in Protos, CmChanges(pr) PROVE CacheInv'
  BY <1>1, <1>3 DEF CmChanges, CmInformer!Change
<1>4. CASE WatchLost
  BY <1>1, <1>4 DEF WatchLost, CmInformer!List, cmVars
<1>5. CASE Kill
  BY <1>1, <1>5 DEF Kill, cmVars
<1>6. CASE FirstList
  BY <1>1, <1>6 DEF FirstList, CmInformer!List, cmVars
<1>7. CASE Enlist
  BY <1>1, <1>7 DEF Enlist, CmInformer!Enlist, cmVars
<1>8. CASE Run
  BY <1>1, <1>8 DEF Run, cmVars
<1>9. CASE Receive
  BY <1>1, <1>9 DEF Receive, cmVars, startVars
<1>10. CASE ProcessAddr
  BY <1>1, <1>10 DEF ProcessAddr, cmVars, startVars
<1>11. CASE Finish
  BY <1>1, <1>11 DEF Finish, cmVars, startVars
<1>12. CASE UNCHANGED vars
  BY <1>1, <1>12 DEF vars, cmVars, startVars
<1>. QED
  BY <1>2, <1>3, <1>4, <1>5, <1>6, <1>7, <1>8, <1>9, <1>10, <1>11, <1>12,
     CacheStart, CachePods, CacheNotified DEF Next

\* Whatever is killed, restarted, lost or listed again: a version of a configmap
\* that a handler was told is in the cache, and the map to send agrees with it.
THEOREM CacheCorrect == Spec => []CacheComplete
<1>1. CacheInv => CacheComplete
  BY DEF CacheInv, CacheFollows, MapAgrees, CacheComplete, Configured
<1>. QED
  BY <1>1, CacheInit, CacheStep, PTL DEF Spec
-----------------------------------------------------------------------------
\* A first list: every object is notified once, in the version it still has.
PodsOnce == /\ DOMAIN podEvents = Pods /\ DOMAIN podMark = Pods /\ DOMAIN seen = Pods
            /\ \A p \in Pods : /\ podEvents[p] \in {<<>>, <<pod[p]>>}
                               /\ podEvents[p] # <<>> => seen[p] = Absent
            /\ \/ \A p \in Pods : podMark[p] = 0
               \/ \A p \in Pods : podMark[p] = 1 /\ podEvents[p] = <<pod[p]>>
            /\ "pods" \notin listed =>
                  \A p \in Pods : podEvents[p] = <<>> /\ seen[p] = Absent

CmsOnce == /\ DOMAIN cmEvents = Protos /\ DOMAIN cmMark = Protos /\ DOMAIN cmSeen = Protos
           /\ \A pr \in Protos : /\ cmEvents[pr] \in {<<>>, <<cm[pr]>>}
                                 /\ cmEvents[pr] # <<>> => cmSeen[pr] = Absent
           /\ \/ \A pr \in Protos : cmMark[pr] = 0
              \/ \A pr \in Protos : cmMark[pr] = 1 /\ cmEvents[pr] = <<cm[pr]>>
           /\ "cms" \notin listed =>
                 \A pr \in Protos : cmEvents[pr] = <<>> /\ cmSeen[pr] = Absent

\* Sequences of one version.
LEMMA One ==
    ASSUME NEW v
    PROVE  /\ <<v>> # <<>> /\ Head(<<v>>) = v /\ Tail(<<v>>) = <<>>
           /\ Append(SubSeq(<<>>, 1, 0), v) = <<v>>
<1>1. <<v>> # <<>> /\ Head(<<v>>) = v /\ Tail(<<v>>) = <<>>
  OBVIOUS
<1>2. SubSeq(<<>>, 1, 0) = <<>>
  BY SubSeqEmpty
<1>3. Append(<<>>, v) = <<v>>
  OBVIOUS
<1>. QED
  BY <1>1, <1>2, <1>3

\* A list that finds an object gone takes back its one notification.
LEMMA WithoutOnly ==
    ASSUME NEW v
    PROVE  /\ PodInformer!Without(<<v>>, 1) = <<>>
           /\ CmInformer!Without(<<v>>, 1) = <<>>
<1>1. Len(<<v>>) = 1
  OBVIOUS
<1>2. SubSeq(<<v>>, 1, 1 - 1) = <<>>
  BY SubSeqEmpty
<1>3. SubSeq(<<v>>, 1 + 1, Len(<<v>>)) = <<>>
  BY <1>1, SubSeqEmpty
<1>4. <<>> \o <<>> = <<>>
  OBVIOUS
<1>. QED
  BY <1>2, <1>3, <1>4 DEF PodInformer!Without, CmInformer!Without

\* A list by an informer that has received nothing yet.
LEMMA PodsListed ==
    ASSUME DOMAIN podEvents = Pods, \A p \in Pods : podEvents[p] = <<>>,
           PodInformer!List, podMark' = [p \in Pods |-> 1]
    PROVE  podEvents' = [p \in Pods |-> <<pod[p]>>]
<1>1. PICK n \in PodInformer!Received :
         podEvents' = [p \in Pods |-> Append(SubSeq(podEvents[p], 1, n[p]), pod[p])]
  BY DEF PodInformer!List
<1>2. ASSUME NEW p \in Pods PROVE n[p] = 0
  <2>1. n[p] <= 0 /\ \E q \in Pods : n[p] \in 0 .. Len(podEvents[q])
    BY <1>1 DEF PodInformer!Received, PodInformer!Lengths
  <2>. QED
    BY <2>1
<1>. QED
  BY <1>1, <1>2, One

\* The same for the configmaps.
LEMMA CmsListed ==
    ASSUME DOMAIN cmEvents = Protos, \A pr \in Protos : cmEvents[pr] = <<>>,
           CmInformer!List, cmMark' = [pr \in Protos |-> 1]
    PROVE  cmEvents' = [pr \in Protos |-> <<cm[pr]>>]
<1>1. PICK n \in CmInformer!Received :
         cmEvents' = [pr \in Protos |-> Append(SubSeq(cmEvents[pr], 1, n[pr]), cm[pr])]
  BY DEF CmInformer!List
<1>2. ASSUME NEW pr \in Protos PROVE n[pr] = 0
  <2>1. n[pr] <= 0 /\ \E q \in Protos : n[pr] \in 0 .. Len(cmEvents[q])
    BY <1>1 DEF CmInformer!Received, CmInformer!Lengths
  <2>. QED
    BY <2>1
<1>. QED
  BY <1>1, <1>2, One

\* The routes a listing is to give, and how far the worker has come with them:
\* the pods whose key is in left may lack theirs.
Addressed == {p \in Nginx : HasIP(pod[p])}
RoutesTo(p) == {<<IP[p], r[2], r[1]>> : r \in ConfiguredPorts}
RoutesBut(left) ==
    /\ \A t \in routes : \E p \in Addressed : t \in RoutesTo(p)
    /\ \A p \in Addressed : <<addition, p>> \notin left => RoutesTo(p) \subseteq routes

\* Initial's store waits, is applied, or has been.
Building == \/ /\ queue = <<"plbdata">> /\ applying = NoStore
               /\ todo = {} /\ routes = {}
            \/ /\ queue = <<>> /\ applying = "plbdata"
               /\ todo \subseteq listNginx /\ RoutesBut(todo)
            \/ /\ queue = <<>> /\ applying = NoStore
               /\ todo = {} /\ RoutesBut({})

\* Nothing that happens before the first event takes anything from Initial's
\* listing, which is what the two first lists see again.
Rebuilding == /\ PodsOnce /\ CmsOnce
              /\ store.plbdata = [addr |-> listNginx, ports |-> listCm]
              /\ ~ May("netlink") => Building

FreshInv == fresh /\ stage # "down" => Rebuilding

\* What depends on the API server alone.
LEMMA SameListing ==
    ASSUME UNCHANGED <<pod, cm>>
    PROVE  /\ listNginx' = listNginx /\ listCm' = listCm
           /\ Addressed' = Addressed /\ ConfiguredPorts' = ConfiguredPorts
           /\ \A p : RoutesTo(p)' = RoutesTo(p)
BY DEF listNginx, listCm, Addressed, ConfiguredPorts, Configured, RoutesTo

\* Initial's listing.
LEMMA FreshStart == Start => FreshInv'
<1> SUFFICES ASSUME Start PROVE Rebuilding'
  BY DEF FreshInv
<1>1. PodsOnce' /\ CmsOnce'
  BY DEF Start, PodsOnce, CmsOnce
<1>2. store'.plbdata = [addr |-> listNginx', ports |-> listCm']
  BY SameListing DEF Start, apiVars
<1>3. ASSUME ~ May("netlink")' PROVE Building'
  <2>1. ~ May("netlink")
    BY <1>3 DEF Start, apiVars, May
  <2>. QED
    BY <2>1 DEF Start, Building, FlushedRoutes
<1>. QED
  BY <1>1, <1>2, <1>3 DEF Rebuilding

\* The informers' first lists ...
LEMMA FreshLists == ASSUME PodsOnce, FirstList PROVE PodsOnce'
<1>1. CASE /\ "pods" \notin listed
           /\ PodInformer!List /\ podMark' = [p \in Pods |-> 1]
           /\ listed' = listed \cup {"pods"}
  <2>1. podEvents' = [p \in Pods |-> <<pod[p]>>]
    BY <1>1, PodsListed DEF PodsOnce
  <2>2. UNCHANGED <<pod, seen>>
    BY <1>1 DEF PodInformer!List
  <2>. QED
    BY <1>1, <2>1, <2>2 DEF PodsOnce
<1>2. CASE listed' = listed \cup {"cms"} /\ UNCHANGED <<pod, podVars>>
  BY <1>2 DEF PodsOnce, podVars
<1>. QED
  BY <1>1, <1>2 DEF FirstList

LEMMA FirstCms == ASSUME CmsOnce, FirstList PROVE CmsOnce'
<1>1. CASE /\ "cms" \notin listed
           /\ CmInformer!List /\ cmMark' = [pr \in Protos |-> 1]
           /\ listed' = listed \cup {"cms"}
  <2>1. cmEvents' = [pr \in Protos |-> <<cm[pr]>>]
    BY <1>1, CmsListed DEF CmsOnce
  <2>2. UNCHANGED <<cm, cmSeen>>
    BY <1>1 DEF CmInformer!List
  <2>. QED
    BY <1>1, <2>1, <2>2 DEF CmsOnce
<1>2. CASE listed' = listed \cup {"pods"} /\ UNCHANGED <<cm, cmVars>>
  BY <1>2 DEF CmsOnce, cmVars
<1>. QED
  BY <1>1, <1>2 DEF FirstList

\* ... and queue them, but for what the list does not find.
LEMMA FreshEnlists == ASSUME PodsOnce, Enlist PROVE PodsOnce'
<1>1. CASE PodInformer!Enlist /\ UNCHANGED listed
  <2>1. UNCHANGED <<pod, seen>> /\ podMark' = [p \in Pods |-> 0]
    BY <1>1 DEF PodInformer!Enlist
  <2>2. \A p \in Pods : podMark[p] = 1 /\ podEvents[p] = <<pod[p]>>
    BY <1>1 DEF PodInformer!Enlist, PodInformer!Listing, PodsOnce
  <2>3. DOMAIN podEvents' = Pods
    BY <1>1 DEF PodInformer!Enlist
  <2>4. ASSUME NEW p \in Pods PROVE podEvents'[p] \in {<<>>, podEvents[p]}
    <3>1. PodInformer!Without(podEvents[p], podMark[p]) = <<>>
      BY <2>2, WithoutOnly
    <3>. QED
      BY <1>1, <3>1 DEF PodInformer!Enlist
  <2>5. "pods" \in listed \/ \A p \in Pods : FALSE
    BY <2>2, One DEF PodsOnce
  <2>. QED
    BY <1>1, <2>1, <2>2, <2>3, <2>4, <2>5 DEF PodsOnce
<1>2. CASE UNCHANGED <<pod, podVars, listed>>
  BY <1>2 DEF PodsOnce, podVars
<1>. QED
  BY <1>1, <1>2 DEF Enlist

LEMMA EnlistedCms == ASSUME CmsOnce, Enlist PROVE CmsOnce'
<1>1. CASE CmInformer!Enlist /\ UNCHANGED listed
  <2>1. UNCHANGED <<cm, cmSeen>> /\ cmMark' = [pr \in Protos |-> 0]
    BY <1>1 DEF CmInformer!Enlist
  <2>2. \A pr \in Protos : cmMark[pr] = 1 /\ cmEvents[pr] = <<cm[pr]>>
    BY <1>1 DEF CmInformer!Enlist, CmInformer!Listing, CmsOnce
  <2>3. DOMAIN cmEvents' = Protos
    BY <1>1 DEF CmInformer!Enlist
  <2>4. ASSUME NEW pr \in Protos PROVE cmEvents'[pr] \in {<<>>, cmEvents[pr]}
    <3>1. CmInformer!Without(cmEvents[pr], cmMark[pr]) = <<>>
      BY <2>2, WithoutOnly
    <3>. QED
      BY <1>1, <3>1 DEF CmInformer!Enlist
  <2>5. "cms" \in listed \/ \A pr \in Protos : FALSE
    BY <2>2, One DEF CmsOnce
  <2>. QED
    BY <1>1, <2>1, <2>2, <2>3, <2>4, <2>5 DEF CmsOnce
<1>2. CASE UNCHANGED <<cm, cmVars, listed>>
  BY <1>2 DEF CmsOnce, cmVars
<1>. QED
  BY <1>1, <1>2 DEF Enlist

\* The pod informer notifies what Initial has listed already: the key that
\* addrAddFunc writes is there, and if a worker visits it again that does not
\* matter.
LEMMA FreshPods == ASSUME MapsOK, Rebuilding, PodNotified, stage' # "down" PROVE Rebuilding'
<1>1. PICK p \in Pods :
         LET next == PodInformer!Next(p)
         IN  /\ PodInformer!Deliver(p)
             /\ CASE next = Absent    -> UNCHANGED <<store, todo, queue, applying, stage>>
                  [] seen[p] = Absent -> AddrAdd(p, next)
                  [] OTHER            -> AddrUpdate(p, seen[p])
  BY DEF PodNotified
<1>2. UNCHANGED <<env, cm, cmVars, routes, listed>>
  BY DEF PodNotified
<1>3. UNCHANGED pod
  BY <1>1 DEF PodInformer!Deliver
<1>4. podEvents[p] = <<pod[p]>> /\ seen[p] = Absent /\ podMark[p] = 0
  BY <1>1 DEF PodInformer!Deliver, Rebuilding, PodsOnce
<1>5. /\ PodInformer!Next(p) = pod[p]
      /\ podEvents' = [podEvents EXCEPT ![p] = <<>>]
      /\ podMark' = [podMark EXCEPT ![p] = 0]
      /\ DOMAIN seen' = Pods
      /\ \A q \in Pods \ {p} : seen'[q] = seen[q]
  BY <1>1, <1>4, One DEF PodInformer!Deliver, PodInformer!Next, Rebuilding, PodsOnce
<1>6. "pods" \in listed
  BY <1>4, One DEF Rebuilding, PodsOnce
<1>7. \A q \in Pods : podMark[q] = 0
  BY <1>4 DEF Rebuilding, PodsOnce
<1>8. PodsOnce'
  BY <1>2, <1>3, <1>5, <1>6, <1>7 DEF Rebuilding, PodsOnce
<1>9. CmsOnce'
  BY <1>2 DEF Rebuilding, CmsOnce, cmVars
<1>10. \/ UNCHANGED <<store, todo, queue, applying>>
       \/ AddrAdd(p, pod[p])
  BY <1>1, <1>4, <1>5
<1>11. CASE UNCHANGED <<store, todo, queue, applying>>
  <2>1. store'.plbdata = [addr |-> listNginx', ports |-> listCm']
    BY <1>2, <1>3, <1>11, SameListing DEF Rebuilding
  <2>2. ASSUME ~ May("netlink")' PROVE Building'
    <3>1. Building
      BY <1>2, <2>2 DEF Rebuilding, May
    <3>. QED
      BY <1>2, <1>3, <1>11, <3>1, SameListing DEF Building, RoutesBut
  <2>. QED
    BY <1>8, <1>9, <2>1, <2>2 DEF Rebuilding
<1>12. CASE AddrAdd(p, pod[p]) /\ ~ UNCHANGED <<store, todo, queue, applying>>
  <2> DEFINE key == <<addition, p>>
  <2>1. /\ p \in Nginx /\ HasIP(pod[p])
        /\ store' = [store EXCEPT !.plbdata.addr = @ \cup {key}]
        /\ todo' \in IF applying = "plbdata" THEN {todo, todo \cup {key}} ELSE {todo}
        /\ UNCHANGED <<queue, applying>>
    <3>1. stage' # "down"
      OBVIOUS
    <3>. QED
      BY <1>12, <3>1 DEF AddrAdd
  <2>2. key \in listNginx
    BY <2>1 DEF listNginx
  <2>. HIDE DEF key
  <2>3. store.plbdata = [addr |-> listNginx, ports |-> listCm]
    BY DEF Rebuilding
  <2>4. store'.plbdata = [addr |-> listNginx \cup {key}, ports |-> listCm]
    BY <2>1, <2>3 DEF MapsOK
  <2>5. store'.plbdata = [addr |-> listNginx', ports |-> listCm']
    <3>1. listNginx \cup {key} = listNginx
      BY <2>2
    <3>. QED
      BY <1>2, <1>3, <2>4, <3>1, SameListing
  <2>6. ASSUME ~ May("netlink")' PROVE Building'
    <3>1. Building
      BY <1>2, <2>6 DEF Rebuilding, May
    <3>2. \A left : RoutesBut(left) => RoutesBut(left \cup {key})
      BY DEF RoutesBut
    <3>3. /\ listNginx' = listNginx
          /\ \A left : RoutesBut(left) => RoutesBut(left)'
      BY <1>2, <1>3, SameListing DEF RoutesBut
    <3>4. CASE applying = "plbdata" /\ todo' = todo \cup {key}
      <4>1. queue = <<>> /\ todo \subseteq listNginx /\ RoutesBut(todo)
        BY <3>1, <3>4, ControllerAssumption DEF Building
      <4>. QED
        BY <2>1, <2>2, <3>2, <3>3, <3>4, <4>1 DEF Building, RoutesBut
    <3>5. CASE todo' = todo
      BY <1>2, <1>3, <2>1, <3>1, <3>5, SameListing DEF Building, RoutesBut
    <3>. QED
      BY <2>1, <3>4, <3>5
  <2>. QED
    BY <1>8, <1>9, <2>5, <2>6 DEF Rebuilding
<1>. QED
  BY <1>10, <1>11, <1>12

\* The configmap informer notifies only creations, for which there is no handler.
LEMMA CmsTold ==
    ASSUME CmsOnce, CmNotified
    PROVE  CmsOnce' /\ UNCHANGED <<cm, store, queue, applying>>
<1>1. PICK pr \in Protos :
         LET next == CmInformer!Next(pr)
             told == Absent \notin {next, cmSeen[pr]}
         IN  /\ CmInformer!Deliver(pr)
             /\ \/ ~ told /\ NotTold(pr, next)
                \/ told
  BY DEF CmNotified
<1>2. UNCHANGED <<cm, listed>>
  BY <1>1 DEF CmNotified, CmInformer!Deliver
<1>3. cmEvents[pr] = <<cm[pr]>> /\ cmSeen[pr] = Absent /\ cmMark[pr] = 0
  BY <1>1 DEF CmInformer!Deliver, CmsOnce
<1>4. /\ cmEvents' = [cmEvents EXCEPT ![pr] = <<>>]
      /\ cmMark' = [cmMark EXCEPT ![pr] = 0]
      /\ DOMAIN cmSeen' = Protos
      /\ \A other \in Protos \ {pr} : cmSeen'[other] = cmSeen[other]
  BY <1>1, <1>3, One DEF CmInformer!Deliver, CmsOnce
<1>5. "cms" \in listed
  BY <1>3, One DEF CmsOnce
<1>6. \A other \in Protos : cmMark[other] = 0
  BY <1>3 DEF CmsOnce
<1>7. CmsOnce'
  BY <1>2, <1>4, <1>5, <1>6 DEF CmsOnce
<1>8. UNCHANGED <<store, queue, applying>>
  <2>1. NotTold(pr, CmInformer!Next(pr))
    BY <1>1, <1>3
  <2>. QED
    BY <2>1 DEF NotTold, cacheVars
<1>. QED
  BY <1>2, <1>7, <1>8

LEMMA FreshCms == ASSUME Rebuilding, CmNotified PROVE Rebuilding'
<1>1. UNCHANGED <<env, pod, podVars, todo, routes, listed>>
  BY DEF CmNotified
<1>2. CmsOnce' /\ UNCHANGED <<cm, store, queue, applying>>
  BY CmsTold DEF Rebuilding
<1>3. PodsOnce'
  BY <1>1 DEF Rebuilding, PodsOnce, podVars
<1>4. store'.plbdata = [addr |-> listNginx', ports |-> listCm']
  BY <1>1, <1>2, SameListing DEF Rebuilding
<1>5. ASSUME ~ May("netlink")' PROVE Building'
  <2>1. Building
    BY <1>1, <1>5 DEF Rebuilding, May
  <2>. QED
    BY <1>1, <1>2, <2>1, SameListing DEF Building, RoutesBut
<1>. QED
  BY <1>2, <1>3, <1>4, <1>5 DEF Rebuilding

\* A worker receives Initial's store ...
LEMMA FreshReceive == ASSUME Rebuilding, ~ May("netlink"), Receive PROVE Building'
<1>1. UNCHANGED <<pod, cm, routes>>
  BY DEF Receive, apiVars
<1>2. queue = <<"plbdata">> /\ routes = {}
  BY DEF Rebuilding, Building, Receive, ItemReady
<1>3. applying' = "plbdata" /\ queue' = <<>>
  BY <1>2, One DEF Receive, Chan!Take
<1>4. todo' = listNginx
  BY <1>3 DEF Receive, Rebuilding
<1>5. \A p \in Addressed : <<addition, p>> \in listNginx
  BY DEF Addressed, listNginx
<1>6. RoutesBut(todo)'
  BY <1>1, <1>2, <1>4, <1>5, SameListing DEF RoutesBut
<1>. QED
  BY <1>1, <1>3, <1>4, <1>6, SameListing DEF Building

\* ... adds the configured ports of every address in it ...
LEMMA FreshProcess == ASSUME Rebuilding, ~ May("netlink"), ProcessAddr PROVE Building'
<1>1. UNCHANGED <<pod, cm, queue, applying>>
  BY DEF ProcessAddr, apiVars
<1>2. /\ queue = <<>> /\ applying = "plbdata"
      /\ todo \subseteq listNginx /\ RoutesBut(todo)
  BY DEF Rebuilding, Building, ProcessAddr
<1>3. store[applying].ports = listCm
  BY <1>2 DEF Rebuilding
<1> DEFINE adds == [pr \in Protos |-> Adds(listCm[pr])]
           dels == [pr \in Protos |-> Dels(listCm[pr])]
<1>4. PICK key \in todo :
         /\ key[1] = addition => routes' = (routes \cup RoutesAt(IP[key[2]], adds))
                                             \ RoutesAt(IP[key[2]], dels)
         /\ todo' = todo \ {key}
  BY <1>3 DEF ProcessAddr
<1>5. PICK p \in Addressed : key = <<addition, p>>
  BY <1>2 DEF listNginx, Addressed
<1>6. RoutesAt(IP[p], adds) = RoutesTo(p)
  <2>1. {r \in Protos \X PortNumbers : r[2] \in adds[r[1]]} = ConfiguredPorts
    BY DEF listCm, Adds, ConfiguredPorts
  <2>. QED
    BY <2>1 DEF RoutesAt, RoutesTo
<1>7. RoutesAt(IP[p], dels) = {}
  <2>1. {r \in Protos \X PortNumbers : r[2] \in dels[r[1]]} = {}
    BY DEF listCm, Dels, addition, deletion
  <2>. QED
    BY <2>1 DEF RoutesAt
<1>. HIDE DEF adds, dels
<1>8. routes' = routes \cup RoutesTo(p)
  BY <1>4, <1>5, <1>6, <1>7
<1>9. \A t \in routes' : \E q \in Addressed : t \in RoutesTo(q)
  BY <1>2, <1>8 DEF RoutesBut
<1>10. ASSUME NEW q \in Addressed, <<addition, q>> \notin todo'
       PROVE  RoutesTo(q) \subseteq routes'
  <2>1. CASE q = p
    BY <1>8, <2>1
  <2>2. CASE q # p
    <3>1. <<addition, q>> \notin todo
      BY <1>4, <1>5, <1>10, <2>2
    <3>. QED
      BY <1>2, <1>8, <3>1 DEF RoutesBut
  <2>. QED
    BY <2>1, <2>2
<1>11. RoutesBut(todo)'
  BY <1>1, <1>9, <1>10, SameListing DEF RoutesBut
<1>12. todo' \subseteq listNginx'
  BY <1>1, <1>2, <1>4, SameListing
<1>. QED
  BY <1>1, <1>2, <1>11, <1>12 DEF Building

\* ... and is done.
LEMMA FreshFinish == ASSUME Rebuilding, ~ May("netlink"), Finish PROVE Building'
<1>1. UNCHANGED <<pod, cm, queue, todo, routes>> /\ applying' = NoStore
  BY DEF Finish, Chan!Done, apiVars
<1>2. queue = <<>> /\ todo = {} /\ RoutesBut({})
  <2>1. applying # NoStore /\ todo = {}
    BY DEF Finish, Chan!Done
  <2>. QED
    BY <2>1 DEF Rebuilding, Building
<1>3. RoutesBut({})'
  BY <1>1, <1>2, SameListing DEF RoutesBut
<1>. QED
  BY <1>1, <1>2, <1>3 DEF Building

\* Whatever leaves the API server, the stores and the worker alone.
LEMMA FreshKept ==
    ASSUME Rebuilding, PodsOnce', CmsOnce',
           UNCHANGED <<env, pod, cm, store, queue, workerVars>>
    PROVE  Rebuilding'
<1>1. ASSUME ~ May("netlink")' PROVE Building'
  <2>1. Building
    BY <1>1 DEF Rebuilding, May
  <2>2. \A left : RoutesBut(left) => RoutesBut(left)'
    BY SameListing DEF RoutesBut, workerVars
  <2>. QED
    BY <2>1, <2>2, SameListing DEF Building, RoutesBut, workerVars
<1>2. store'.plbdata = [addr |-> listNginx', ports |-> listCm']
  BY SameListing DEF Rebuilding
<1>. QED
  BY <1>1, <1>2 DEF Rebuilding

\* The steps of the worker leave the informers alone.
LEMMA FreshWorker ==
    ASSUME Rebuilding, Receive \/ ProcessAddr \/ Finish
    PROVE  Rebuilding'
<1>1. UNCHANGED <<apiVars, podVars, cmVars, cacheVars, startVars>>
  BY DEF Receive, ProcessAddr, Finish
<1>2. PodsOnce' /\ CmsOnce'
  BY <1>1 DEF Rebuilding, PodsOnce, CmsOnce, apiVars, podVars, cmVars, startVars
<1>3. store'.plbdata = [addr |-> listNginx', ports |-> listCm']
  BY <1>1, SameListing DEF Rebuilding, apiVars, cacheVars
<1>4. ASSUME ~ May("netlink")' PROVE Building'
  <2>1. ~ May("netlink")
    BY <1>1, <1>4 DEF May, apiVars
  <2>. QED
    BY <2>1, FreshReceive, FreshProcess, FreshFinish
<1>. QED
  BY <1>2, <1>3, <1>4 DEF Rebuilding

\* Every step keeps it, or is one of the events that end it.
LEMMA FreshStep == CacheInv /\ FreshInv /\ [Next]_vars => FreshInv'
<1> SUFFICES ASSUME CacheInv, FreshInv, [Next]_vars, fresh', stage' # "down"
             PROVE  Rebuilding'
  BY DEF FreshInv
<1>1. CASE Start
  BY <1>1, FreshStart DEF FreshInv
<1>2. CASE \/ WatchLost \/ Kill
           \/ \E p \in Pods : PodChanges(p)
           \/ \E pr \in Protos : CmChanges(pr)
  <2>1. fresh' = FALSE
    BY <1>2 DEF WatchLost, Kill, PodChanges, CmChanges, MayChange, Happens
  <2>. QED
    BY <2>1
<1>3. ASSUME stage # "down", fresh PROVE Rebuilding
  BY <1>3 DEF FreshInv
<1>4. CASE FirstList
  <2>1. Rebuilding /\ UNCHANGED <<env, pod, cm, store, queue, workerVars>>
    BY <1>3, <1>4 DEF FirstList, cacheVars, PodInformer!List, CmInformer!List
  <2>. QED
    BY <1>4, <2>1, FreshLists, FirstCms, FreshKept DEF Rebuilding
<1>5. CASE Enlist
  <2>1. Rebuilding /\ UNCHANGED <<env, pod, cm, store, queue, workerVars>>
    BY <1>3, <1>5 DEF Enlist, cacheVars, PodInformer!Enlist, CmInformer!Enlist
  <2>. QED
    BY <1>5, <2>1, FreshEnlists, EnlistedCms, FreshKept DEF Rebuilding
<1>6. CASE Run \/ UNCHANGED vars
  <2>1. /\ Rebuilding
        /\ UNCHANGED <<apiVars, podVars, cmVars, store, queue, workerVars, listed>>
    BY <1>3, <1>6 DEF Run, vars, cacheVars, startVars
  <2>2. PodsOnce' /\ CmsOnce'
    BY <2>1 DEF Rebuilding, PodsOnce, CmsOnce, apiVars, podVars, cmVars
  <2>. QED
    BY <2>1, <2>2, FreshKept DEF apiVars
<1>7. CASE PodNotified
  BY <1>3, <1>7, FreshPods DEF PodNotified, CacheInv
<1>8. CASE CmNotified
  BY <1>3, <1>8, FreshCms DEF CmNotified
<1>9. CASE Receive \/ ProcessAddr \/ Finish
  <2>1. Rebuilding
    BY <1>3, <1>9 DEF Receive, ProcessAddr, Finish, startVars
  <2>. QED
    BY <1>9, <2>1, FreshWorker
<1>. QED
  BY <1>1, <1>2, <1>4, <1>5, <1>6, <1>7, <1>8, <1>9 DEF Next

\* After a crash at any point, with any routes left behind and any order of the
\* informers, the handlers and the worker, the first listing ends with exactly
\* the routes it asks for.
THEOREM FreshStartExact == Spec => []FreshStartSynced
<1>1. Init => FreshInv
  BY DEF Init, FreshInv
<1>2. FreshInv => FreshStartSynced
  <2> SUFFICES ASSUME FreshInv, Settled, fresh, ~ May("netlink")
               PROVE  routes = {<<IP[p], r[2], r[1]>> :
                                  p \in {q \in Nginx : HasIP(pod[q])}, r \in ConfiguredPorts}
    BY DEF FreshStartSynced
  <2>1. queue = <<>> /\ applying = NoStore /\ stage # "down"
    BY DEF Settled
  <2>2. RoutesBut({})
    BY <2>1, One, ControllerAssumption DEF FreshInv, Rebuilding, Building
  <2>3. \A t : t \in routes <=> \E p \in Addressed : t \in RoutesTo(p)
    BY <2>2 DEF RoutesBut
  <2>. QED
    BY <2>3 DEF RoutesTo, Addressed
<1>. QED
  BY <1>1, <1>2, CacheInit, CacheStep, FreshStep, PTL DEF Spec
=============================================================================
