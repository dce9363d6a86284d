-------------------------- MODULE PortTrackerProofs --------------------------
(***************************************************************************)
(* The invariants of PortTracker for any keys, any protocols and any       *)
(* capacity of the channel.                                                *)
(***************************************************************************)
EXTENDS PortTracker, L4UtilsProofs, TLAPS

\* Unless a change was overtaken, the kernel serves the cache, or the channel
\* holds a pointer and applying the map of clbdata gives the cache.
Synced == \A pr \in Protos :
    /\ fate[pr] = "applied" => served[pr] = Ex[pr]
    /\ fate[pr] = "waiting" =>
          /\ pending > 0
          /\ (served[pr] \cup Adds(delta[pr])) \ Dels(delta[pr]) = Ex[pr]

Inv == TypeOK /\ NwEmptyOrEx /\ DeltaAgreesWithEx /\ Synced

\* What an update does to the maps of its protocol, and that it leaves those
\* of the others alone.
LEMMA UpdateEffect ==
    ASSUME TypeOK, NwEmptyOrEx, NEW pr \in Protos, NEW cm \in ConfigMaps,
           UpdatePorts(pr, cm)
    PROVE  /\ Ex'[pr] = Nw[pr] \cup DataPorts(cm)
           /\ Ex'[pr] \in SUBSET Ports
           /\ Nw'[pr] \in {{}, Ex'[pr]}
           /\ Ex'[pr] = Ex[pr] => delta'[pr] = delta[pr]
           /\ Ex'[pr] # Ex[pr] =>
                 /\ DOMAIN delta'[pr] \in SUBSET Ports
                 /\ \A p \in DOMAIN delta'[pr] : delta'[pr][p] \in Actions
                 /\ Adds(delta'[pr]) = Ex'[pr] \ Ex[pr]
                 /\ Dels(delta'[pr]) = Ex[pr] \ Ex'[pr]
           /\ \A other \in Protos \ {pr} :
                 /\ Ex'[other] = Ex[other] /\ Nw'[other] = Nw[other]
                 /\ delta'[other] = delta[other] /\ data'[other] = data[other]
           /\ data'[pr] = cm
           /\ Ex' \in [Protos -> SUBSET Ports]
           /\ Nw' \in [Protos -> SUBSET Ports]
           /\ fate' = [fate EXCEPT ![pr] =
                          IF Ex'[pr] = Ex[pr] THEN @
                          ELSE IF @ = "applied" THEN "waiting" ELSE "overtaken"]
<1> DEFINE new == Nw[pr] \cup DataPorts(cm)
           r == L4Compare(Ex[pr], new, delta[pr])
<1>1. Ex[pr] \in SUBSET Ports /\ new \in SUBSET Ports
  BY PortsOfType DEF TypeOK, DataPorts
<1>2. /\ r.old = new
      /\ r.new \in {{}, new}
      /\ Ex[pr] = new => r.delta = delta[pr]
      /\ Ex[pr] # new =>
            /\ DOMAIN r.delta = (new \ Ex[pr]) \cup (Ex[pr] \ new)
            /\ \A p \in DOMAIN r.delta : r.delta[p] \in Actions
            /\ Adds(r.delta) = new \ Ex[pr]
            /\ Dels(r.delta) = Ex[pr] \ new
  <2> HIDE DEF new
  <2>. QED
    BY L4CompareSpec
<1>3. /\ Ex' = [Ex EXCEPT ![pr] = r.old]
      /\ Nw' = [Nw EXCEPT ![pr] = r.new]
      /\ delta' = [delta EXCEPT ![pr] = r.delta]
      /\ data' = [data EXCEPT ![pr] = cm]
      /\ fate' = [fate EXCEPT ![pr] =
                     IF r.old = Ex[pr] THEN @
                     ELSE IF @ = "applied" THEN "waiting" ELSE "overtaken"]
  BY DEF UpdatePorts
<1>4. pr \in DOMAIN delta /\ pr \in DOMAIN data
  BY DEF TypeOK
<1> HIDE DEF r, new
<1>5. Ex'[pr] = r.old /\ Nw'[pr] = r.new /\ data'[pr] = cm /\ delta'[pr] = r.delta
  BY <1>3, <1>4 DEF TypeOK
<1>6. \A other \in Protos \ {pr} :
         /\ Ex'[other] = Ex[other] /\ Nw'[other] = Nw[other]
         /\ delta'[other] = delta[other] /\ data'[other] = data[other]
  BY <1>3 DEF TypeOK
<1>7. Ex' \in [Protos -> SUBSET Ports] /\ Nw' \in [Protos -> SUBSET Ports]
  BY <1>1, <1>2, <1>3 DEF TypeOK
<1>8. Ex'[pr] = Nw[pr] \cup DataPorts(cm)
  BY <1>2, <1>5 DEF new
<1>9. fate' = [fate EXCEPT ![pr] =
                  IF Ex'[pr] = Ex[pr] THEN @
                  ELSE IF @ = "applied" THEN "waiting" ELSE "overtaken"]
  BY <1>3, <1>5
<1>. QED
  BY <1>1, <1>2, <1>5, <1>6, <1>7, <1>8, <1>9
-----------------------------------------------------------------------------
\* Initial leaves Nw and the map of clbdata empty, and the kernel as the cache.
LEMMA InitInv == Init => Inv
<1> SUFFICES ASSUME Init PROVE Inv
  OBVIOUS
<1>0. /\ DOMAIN EmptyDelta = {}
      /\ Adds(EmptyDelta) = {} /\ Dels(EmptyDelta) = {}
  BY DEF EmptyDelta, Adds, Dels
<1>1. PICK listed \in [Protos -> SUBSET {k \in Keys : ValidKey(k)}] :
         Ex = [pr \in Protos |-> PortsOf(listed[pr])]
  BY DEF Init
<1>2. Ex \in [Protos -> SUBSET Ports]
  BY <1>1, PortsOfType
<1>3. TypeOK
  BY <1>0, <1>2, TrackerAssumption DEF Init, TypeOK, Fates
<1>4. NwEmptyOrEx /\ DeltaAgreesWithEx
  BY <1>0 DEF Init, NwEmptyOrEx, DeltaAgreesWithEx
<1>5. Synced
  BY DEF Init, Synced
<1>. QED
  BY <1>3, <1>4, <1>5 DEF Inv

\* updatePorts and processItem preserve the invariant.
LEMMA InvStep == Inv /\ [Next]_vars => Inv'
<1> SUFFICES ASSUME Inv, [Next]_vars PROVE Inv'
  OBVIOUS
<1>0. TypeOK /\ NwEmptyOrEx /\ DeltaAgreesWithEx /\ Synced
  BY DEF Inv
<1>1. ASSUME NEW pr \in Protos, NEW cm \in ConfigMaps, UpdatePorts(pr, cm)
      PROVE  Inv'
  <2>1. /\ Ex'[pr] = Nw[pr] \cup DataPorts(cm)
        /\ Ex'[pr] \in SUBSET Ports
        /\ Nw'[pr] \in {{}, Ex'[pr]}
        /\ Ex'[pr] = Ex[pr] => delta'[pr] = delta[pr]
        /\ Ex'[pr] # Ex[pr] =>
              /\ DOMAIN delta'[pr] \in SUBSET Ports
              /\ \A p \in DOMAIN delta'[pr] : delta'[pr][p] \in Actions
              /\ Adds(delta'[pr]) = Ex'[pr] \ Ex[pr]
              /\ Dels(delta'[pr]) = Ex[pr] \ Ex'[pr]
        /\ \A other \in Protos \ {pr} :
              /\ Ex'[other] = Ex[other] /\ Nw'[other] = Nw[other]
              /\ delta'[other] = delta[other]
        /\ Ex' \in [Protos -> SUBSET Ports]
        /\ Nw' \in [Protos -> SUBSET Ports]
        /\ fate' = [fate EXCEPT ![pr] =
                       IF Ex'[pr] = Ex[pr] THEN @
                       ELSE IF @ = "applied" THEN "waiting" ELSE "overtaken"]
    BY <1>0, <1>1, UpdateEffect
  <2>2. /\ pending < Capacity /\ pending' = pending + 1
        /\ served' = served
        /\ data' = [data EXCEPT ![pr] = cm]
        /\ DOMAIN delta' = DOMAIN delta
    BY <1>1 DEF UpdatePorts
  <2>3. TypeOK'
    <3>1. data' \in [Protos -> ConfigMaps]
      BY <1>0, <2>2 DEF TypeOK
    <3>2. pending' \in 0 .. Capacity
      BY <1>0, <2>2, TrackerAssumption DEF TypeOK
    <3>3. served' \in [Protos -> SUBSET Ports]
      BY <1>0, <2>2 DEF TypeOK
    <3>5. DOMAIN delta' = Protos
      BY <1>0, <2>2 DEF TypeOK
    <3>6. fate' \in [Protos -> Fates]
      BY <1>0, <2>1 DEF TypeOK, Fates
    <3>4. \A o \in Protos : /\ DOMAIN delta'[o] \subseteq Ports
                            /\ \A p \in DOMAIN delta'[o] : delta'[o][p] \in Actions
      BY <1>0, <2>1 DEF TypeOK
    <3>. QED
      BY <2>1, <3>1, <3>2, <3>3, <3>4, <3>5, <3>6 DEF TypeOK
  <2>4. NwEmptyOrEx'
    BY <1>0, <2>1 DEF NwEmptyOrEx
  <2>5. DeltaAgreesWithEx'
    BY <1>0, <2>1 DEF DeltaAgreesWithEx
  <2>6. Synced'
    <3> SUFFICES ASSUME NEW o \in Protos
                 PROVE  /\ fate'[o] = "applied" => served'[o] = Ex'[o]
                        /\ fate'[o] = "waiting" =>
                              /\ pending' > 0
                              /\ (served'[o] \cup Adds(delta'[o])) \ Dels(delta'[o])
                                    = Ex'[o]
      BY DEF Synced
    <3>1. pending' > 0
      BY <1>0, <2>2 DEF TypeOK
    <3>2. fate[o] \in Fates /\ o \in DOMAIN fate
      BY <1>0 DEF TypeOK
    <3>3. CASE Ex'[o] = Ex[o]
      <4>1. fate'[o] = fate[o] /\ delta'[o] = delta[o]
        BY <2>1, <3>2, <3>3
      <4>. QED
        BY <1>0, <2>2, <3>1, <3>3, <4>1 DEF Synced
    <3>4. CASE Ex'[o] # Ex[o]
      <4>1. o = pr
        BY <2>1, <3>4
      <4>2. fate'[o] = IF fate[o] = "applied" THEN "waiting" ELSE "overtaken"
        BY <2>1, <3>2, <3>4, <4>1
      <4>3. fate[o] = "applied" => served[o] = Ex[o]
        BY <1>0 DEF Synced
      <4>. QED
        BY <2>1, <2>2, <3>1, <3>4, <4>1, <4>2, <4>3
    <3>. QED
      BY <3>3, <3>4
  <2>. QED
    BY <2>3, <2>4, <2>5, <2>6 DEF Inv
<1>2. CASE ProcessItem
  <2>1. /\ pending > 0 /\ pending' = pending - 1
        /\ served' = [pr \in Protos |->
                         (served[pr] \cup Adds(delta[pr])) \ Dels(delta[pr])]
        /\ fate' = Applied
        /\ UNCHANGED <<data, Ex, Nw, delta>>
    BY <1>2 DEF ProcessItem
  <2>2. \A pr \in Protos : Adds(delta[pr]) \subseteq Ports
    BY <1>0 DEF TypeOK, Adds
  <2>3. TypeOK'
    BY <1>0, <2>1, <2>2, TrackerAssumption DEF TypeOK, Applied, Fates
  <2>4. NwEmptyOrEx' /\ DeltaAgreesWithEx'
    BY <1>0, <2>1 DEF NwEmptyOrEx, DeltaAgreesWithEx
  <2>5. Synced'
    <3> SUFFICES ASSUME NEW o \in Protos
                 PROVE  /\ fate'[o] # "waiting"
                        /\ fate'[o] = "applied" => served'[o] = Ex'[o]
      BY DEF Synced
    <3>1. fate'[o] = IF fate[o] = "waiting" THEN "applied" ELSE fate[o]
      BY <2>1 DEF Applied
    <3>2. served'[o] = (served[o] \cup Adds(delta[o])) \ Dels(delta[o])
      BY <2>1
    <3>. QED
      BY <1>0, <2>1, <3>1, <3>2 DEF Synced, DeltaAgreesWithEx
  <2>. QED
    BY <2>3, <2>4, <2>5 DEF Inv
<1>3. CASE UNCHANGED vars
  BY <1>0, <1>3 DEF vars, Inv, TypeOK, NwEmptyOrEx, DeltaAgreesWithEx, Synced
<1>. QED
  BY <1>1, <1>2, <1>3 DEF Next

\* The inductive invariant holds in every reachable state.
THEOREM Invariance == Spec => []Inv
<1>1. Init => Inv
  BY InitInv
<1>2. Inv /\ [Next]_vars => Inv'
  BY InvStep
<1>. QED
  BY <1>1, <1>2, PTL DEF Spec
-----------------------------------------------------------------------------
\* Every port the controller remembers or hands to the kernel is a uint16,
\* also where a key of the configmap wraps around.
THEOREM TypeCorrect == Spec => []TypeOK
<1>1. Inv => TypeOK
  BY DEF Inv
<1>. QED
  BY <1>1, Invariance, PTL

\* Nw is empty or equal to Ex between any two updates.
THEOREM NoStrayPorts == Spec => []NwEmptyOrEx
<1>1. Inv => NwEmptyOrEx
  BY DEF Inv
<1>. QED
  BY <1>1, Invariance, PTL

\* The map of clbdata never contradicts the cache, so re-sending it is
\* harmless.
THEOREM DeltaHarmless == Spec => []DeltaAgreesWithEx
<1>1. Inv => DeltaAgreesWithEx
  BY DEF Inv
<1>. QED
  BY <1>1, Invariance, PTL

\* Whenever the channel is empty the kernel serves exactly the ports of the
\* cache, for each protocol none of whose changes was overtaken.
THEOREM KernelFollows == Spec => []KernelFollowsCache
<1>1. Inv => KernelFollowsCache
  BY DEF Inv, Synced, KernelFollowsCache, TypeOK, Fates
<1>. QED
  BY <1>1, Invariance, PTL

\* No update misses a port of the new configmap.
THEOREM AdditionsReachEx == Spec => NoMissedAddition
<1>1. Inv /\ [Next]_vars =>
        [\A pr \in Protos : data'[pr] # data[pr]
             => DataPorts(data'[pr]) \subseteq Ex'[pr]]_vars
  <2> SUFFICES ASSUME Inv, [Next]_vars, NEW pr \in Protos, data'[pr] # data[pr]
               PROVE  DataPorts(data'[pr]) \subseteq Ex'[pr]
    OBVIOUS
  <2>1. PICK o \in Protos, cm \in ConfigMaps : UpdatePorts(o, cm)
    BY DEF Next, ProcessItem, vars
  <2>2. /\ Ex'[o] = Nw[o] \cup DataPorts(cm)
        /\ \A other \in Protos \ {o} : data'[other] = data[other]
        /\ data'[o] = cm
    BY <2>1, UpdateEffect DEF Inv
  <2>. QED
    BY <2>2
<1>. QED
  BY <1>1, Invariance, PTL DEF Spec, NoMissedAddition

\* The map of clbdata is always the last change of the cache.
THEOREM DeltaExact == Spec => DeltaIsLastChange
<1>1. Inv /\ [Next]_vars =>
        [\A pr \in Protos :
            IF Ex'[pr] = Ex[pr] THEN delta'[pr] = delta[pr]
            ELSE /\ Adds(delta'[pr]) = Ex'[pr] \ Ex[pr]
                 /\ Dels(delta'[pr]) = Ex[pr] \ Ex'[pr]]_vars
  <2> SUFFICES ASSUME Inv, [Next]_vars, NEW pr \in Protos
               PROVE  IF Ex'[pr] = Ex[pr] THEN delta'[pr] = delta[pr]
                      ELSE /\ Adds(delta'[pr]) = Ex'[pr] \ Ex[pr]
                           /\ Dels(delta'[pr]) = Ex[pr] \ Ex'[pr]
    OBVIOUS
  <2>1. CASE UNCHANGED <<Ex, delta>>
    BY <2>1
  <2>2. ASSUME NEW o \in Protos, NEW cm \in ConfigMaps, UpdatePorts(o, cm)
        PROVE  IF Ex'[pr] = Ex[pr] THEN delta'[pr] = delta[pr]
               ELSE /\ Adds(delta'[pr]) = Ex'[pr] \ Ex[pr]
                    /\ Dels(delta'[pr]) = Ex[pr] \ Ex'[pr]
    <3>1. /\ Ex'[o] = Ex[o] => delta'[o] = delta[o]
          /\ Ex'[o] # Ex[o] => /\ Adds(delta'[o]) = Ex'[o] \ Ex[o]
                               /\ Dels(delta'[o]) = Ex[o] \ Ex'[o]
          /\ \A other \in Protos \ {o} :
                Ex'[other] = Ex[other] /\ delta'[other] = delta[other]
      BY <2>2, UpdateEffect DEF Inv
    <3>. QED
      BY <3>1
  <2>. QED
    BY <2>1, <2>2 DEF Next, ProcessItem, vars
<1>. QED
  BY <1>1, Invariance, PTL DEF Spec, DeltaIsLastChange
=============================================================================
