-------------------- MODULE ConfigurationInformersProofs --------------------
(***************************************************************************)
(* The generated client, for any users, objects, writes and lost watches:  *)
(* concurrent edits, the waiting for the caches, and what listers show.    *)
(***************************************************************************)
EXTENDS ConfigurationInformers, SequenceTheorems, TLAPS

\* A list is queued of no object, or of all.
MarksOK == \/ \A o \in Objects : mark[o] = 0
           \/ \A o \in Objects : mark[o] \in 1 .. Len(events[o])

\* Sequences of members of S, whatever S is.
LEMMA ListedSeq ==
    ASSUME NEW S, NEW s \in Seq(S), NEW n \in 0 .. Len(s), NEW v \in S
    PROVE  /\ Append(SubSeq(s, 1, n), v) \in Seq(S)
           /\ n + 1 \in 1 .. Len(Append(SubSeq(s, 1, n), v))
<1>1. \A i \in 1 .. n : s[i] \in S
  BY ElementOfSeq, LenProperties
<1>2. n \in Int /\ n >= 0
  BY LenProperties
<1>3. SubSeq(s, 1, n) \in Seq(S) /\ Len(SubSeq(s, 1, n)) = n
  BY <1>1, <1>2, SubSeqProperties
<1>. QED
  BY <1>2, <1>3

\* One element is taken out.
LEMMA WithoutSeq ==
    ASSUME NEW S, NEW s \in Seq(S), NEW n \in 1 .. Len(s)
    PROVE  /\ Shared!Without(s, n) \in Seq(S)
           /\ Len(Shared!Without(s, n)) = Len(s) - 1
<1> DEFINE left == SubSeq(s, 1, n - 1)
           right == SubSeq(s, n + 1, Len(s))
<1>1. Len(s) \in Nat /\ n \in Int /\ 1 <= n /\ n <= Len(s)
  BY LenProperties
<1>2. \A i \in 1 .. Len(s) : s[i] \in S
  BY ElementOfSeq
<1>3. left \in Seq(S) /\ Len(left) = n - 1
  <2>1. n - 1 \in Int /\ \A i \in 1 .. n - 1 : s[i] \in S
    BY <1>1, <1>2
  <2>. QED
    BY <1>1, <2>1, SubSeqProperties
<1>4. right \in Seq(S) /\ Len(right) = Len(s) - n
  <2>1. n + 1 \in Int /\ \A i \in n + 1 .. Len(s) : s[i] \in S
    BY <1>1, <1>2
  <2>2. /\ right \in Seq(S)
        /\ Len(right) = IF n + 1 <= Len(s) THEN Len(s) - (n + 1) + 1 ELSE 0
    BY <1>1, <2>1, SubSeqProperties
  <2>. QED
    BY <1>1, <2>2
<1>5. Shared!Without(s, n) = left \o right
  BY DEF Shared!Without
<1>. HIDE DEF left, right
<1>6. left \o right \in Seq(S) /\ Len(left \o right) = Len(left) + Len(right)
  BY <1>3, <1>4, ConcatProperties
<1>. QED
  BY <1>1, <1>3, <1>4, <1>5, <1>6

\* What the steps of an informer do to one object, whose versions are all in S.
LEMMA Listed ==
    ASSUME TypeOK, Shared!List, NEW o \in Objects, NEW S,
           events[o] \in Seq(S), live[o] \in S
    PROVE  /\ events'[o] \in Seq(S)
           /\ mark'[o] \in 1 .. Len(events'[o])
           /\ events[o] = <<>> => events'[o] = <<live[o]>> /\ mark'[o] = 1
<1>1. PICK n \in Shared!Received :
         /\ events' = [p \in Objects |-> Append(SubSeq(events[p], 1, n[p]), live[p])]
         /\ mark' = [p \in Objects |-> n[p] + 1]
  BY DEF Shared!List
<1>2. n[o] \in 0 .. Len(events[o])
  <2>1. n[o] <= Len(events[o]) /\ \E p \in Objects : n[o] \in 0 .. Len(events[p])
    BY <1>1 DEF Shared!Received, Shared!Lengths
  <2>. QED
    BY <2>1, LenProperties
<1>3. /\ events'[o] = Append(SubSeq(events[o], 1, n[o]), live[o])
      /\ mark'[o] = n[o] + 1
  BY <1>1
<1>4. events'[o] \in Seq(S) /\ mark'[o] \in 1 .. Len(events'[o])
  BY <1>2, <1>3, ListedSeq
<1>5. ASSUME events[o] = <<>> PROVE events'[o] = <<live[o]>> /\ mark'[o] = 1
  <2>1. n[o] = 0
    BY <1>2, <1>5
  <2>2. SubSeq(events[o], 1, n[o]) = <<>>
    BY <2>1, SubSeqEmpty
  <2>3. Append(<<>>, live[o]) = <<live[o]>>
    OBVIOUS
  <2>4. events'[o] = <<live[o]>>
    BY <1>3, <2>2, <2>3, Zenon
  <2>5. mark'[o] = 1
    BY <1>3, <2>1
  <2>. QED
    BY <2>4, <2>5
<1>. QED
  BY <1>4, <1>5

\* Queueing a list leaves no event of an object only if it was listed as gone, and the
\* informer has never had it.
LEMMA Enlisted ==
    ASSUME TypeOK, MarksOK, Shared!Enlist, NEW o \in Objects, NEW S, events[o] \in Seq(S)
    PROVE  /\ mark[o] \in 1 .. Len(events[o])
           /\ events'[o] \in Seq(S)
           /\ mark'[o] = 0
           /\ events'[o] = <<>> => /\ mark[o] = 1
                                   /\ events[o][1] = Absent /\ events[o][1] \in S
                                   /\ seen[o] = Absent
<1>1. mark[o] \in 1 .. Len(events[o])
  BY DEF MarksOK, Shared!Enlist, Shared!Listing
<1>2. /\ events'[o] = IF Shared!Dropped(o) THEN Shared!Without(events[o], mark[o])
                                           ELSE events[o]
      /\ mark'[o] = 0
  BY DEF Shared!Enlist
<1>3. /\ Shared!Without(events[o], mark[o]) \in Seq(S)
      /\ Len(Shared!Without(events[o], mark[o])) = Len(events[o]) - 1
  BY <1>1, WithoutSeq
<1>4. ASSUME events'[o] = <<>>
      PROVE  mark[o] = 1 /\ events[o][1] = Absent /\ events[o][1] \in S /\ seen[o] = Absent
  <2>1. Len(events[o]) \in Nat /\ Len(events[o]) >= 1
    BY <1>1, LenProperties
  <2>2. Shared!Dropped(o) /\ Shared!Without(events[o], mark[o]) = <<>>
    BY <1>2, <1>4, <2>1
  <2>3. Len(events[o]) = 1
    BY <1>3, <2>1, <2>2
  <2>4. mark[o] = 1
    BY <1>1, <2>3
  <2>5. events[o][1] \in S
    BY <2>3, ElementOfSeq
  <2>. QED
    BY <2>2, <2>4, <2>5 DEF Shared!Dropped
<1>. QED
  BY <1>1, <1>2, <1>3, <1>4

\* The handler is called with the oldest event of p.
LEMMA Delivered ==
    ASSUME TypeOK, MarksOK, NEW p \in Objects, Shared!Deliver(p),
           NEW o \in Objects, NEW S, events[o] \in Seq(S)
    PROVE  /\ events'[o] \in Seq(S)
           /\ seen'[o] \in (IF o = p THEN S ELSE {seen[o]})
           /\ mark'[o] \in Nat
           /\ mark[o] = 0 => mark'[o] = 0
           /\ mark[o] # 0 => mark'[o] \in 1 .. Len(events'[o])
<1>1. CASE o # p
  BY <1>1 DEF TypeOK, Shared!Deliver, MarksOK
<1>2. CASE o = p
  <2>1. events[o] # <<>> /\ mark[o] # 1
    BY <1>2 DEF Shared!Deliver
  <2>2. /\ events'[o] = Tail(events[o])
        /\ seen'[o] = Head(events[o])
        /\ mark'[o] = IF mark[o] = 0 THEN 0 ELSE mark[o] - 1
    BY <1>2 DEF Shared!Deliver, TypeOK
  <2>3. /\ Tail(events[o]) \in Seq(S) /\ Head(events[o]) \in S
        /\ Len(Tail(events[o])) = Len(events[o]) - 1
        /\ Len(events[o]) \in Nat
    BY <2>1
  <2>4. mark[o] \in Nat /\ (mark[o] # 0 => mark[o] \in 1 .. Len(events[o]))
    BY DEF TypeOK, MarksOK
  <2>. QED
    BY <1>2, <2>1, <2>2, <2>3, <2>4
<1>. QED
  BY <1>1, <1>2
-----------------------------------------------------------------------------
\* The factory makes one informer and starts it once; before that it has seen
\* nothing.
StartedOnce ==
    /\ made = informers
    /\ running = IF startedInformers THEN informers ELSE None
    /\ startedInformers => informers # None
    /\ \/ startedInformers
       \/ /\ ~ populated
          /\ \A o \in Objects : mark[o] = 0 /\ events[o] = <<>> /\ seen[o] = Absent

\* Whoever waits or has waited did so for this informer, and who is told that
\* it has synced is told so when everything in its first list is handled.
WaitsRight ==
    \A u \in Users :
        /\ wait[u].state # "idle" => startedInformers /\ wait[u].informer = informers
        /\ wait[u].state = "synced" => populated /\ unheard = {}

\* The resourceVersion of c has been given, and if it is the one o has now then
\* the edits that o has now are all in c.
UpToDate(o, c) ==
    c # Absent =>
        /\ c.resourceVersion <= writes
        /\ live[o] # Absent /\ live[o].resourceVersion = c.resourceVersion
              => live[o].edits \subseteq c.edits

Copies(o) == {c \in Contents : UpToDate(o, c)}

\* This holds of every copy of an object, wherever it is.
CopiesRight ==
    /\ \A o \in Objects : /\ live[o] \in Copies(o) /\ seen[o] \in Copies(o)
                          /\ events[o] \in Seq(Copies(o))
    /\ \A u \in Users :
          working[u] # Absent => UpToDate(working[u].object, working[u].content)

\* Until its first list is queued, the informer has nothing but that list.
FirstListOnly ==
    populated \/ \A o \in Objects :
        /\ seen[o] = Absent
        /\ \/ mark[o] = 0 /\ events[o] = <<>>
           \/ mark[o] = 1 /\ (o \in unheard \/ Absent \in possible[o])

\* What the informer has received of an object was so since the start; what it
\* shows was so, too, unless it has still to handle the object.
SeenPossible ==
    startedInformers => \A o \in Objects :
        /\ live[o] \in possible[o]
        /\ events[o] \in Seq(possible[o])
        /\ populated /\ o \notin unheard => seen[o] \in possible[o]

Inv == /\ TypeOK /\ MarksOK /\ StartedOnce /\ WaitsRight
       /\ CopiesRight /\ FirstListOnly /\ SeenPossible
-----------------------------------------------------------------------------
\* A step of the typed client that the API server accepts: no edit of the
\* version it replaces is lost.
Writes(o, v) ==
    /\ Write(o, v)
    /\ v # Absent => /\ v.resourceVersion = writes + 1
                     /\ live[o] # Absent => live[o].edits \subseteq v.edits

\* What the users do with objects: they write, or take a copy that is right.
Holdings == [object : Objects, content : Configurations] \cup {Absent}

ClientStep ==
    /\ UNCHANGED Others
    /\ \/ /\ \E o \in Objects, v \in Contents : Writes(o, v)
          /\ \/ UNCHANGED working
             \/ \E u \in Users : working' = [working EXCEPT ![u] = Absent]
       \/ /\ UNCHANGED <<serverVars, events, seen, mark>>
          /\ \E u \in Users, w \in Holdings :
                /\ working' = [working EXCEPT ![u] = w]
                /\ w # Absent => UpToDate(w.object, w.content)

\* The versions that Create and Patch store.
LEMMA StoredType ==
    ASSUME TypeOK, writes < MaxWrites, NEW edits \in SUBSET Users
    PROVE  /\ Stored(edits) \in Configurations
           /\ Stored(edits).resourceVersion = writes + 1
           /\ Stored(edits).edits = edits
<1>1. writes + 1 \in 0 .. MaxWrites
  BY ConfigurationInformersAssumption DEF TypeOK
<1>. QED
  BY <1>1 DEF Stored, Configurations

\* The steps of the typed client are client steps.
LEMMA CreateStep == ASSUME TypeOK, NEW o \in Objects, Create(o) PROVE ClientStep
<1>1. live[o] = Absent /\ Write(o, Stored({})) /\ UNCHANGED <<Others, working>>
  BY DEF Create
<1>2. writes < MaxWrites
  BY <1>1 DEF Write
<1>3. Stored({}) \in Contents /\ Stored({}).resourceVersion = writes + 1
  BY <1>2, StoredType DEF Contents
<1>4. Writes(o, Stored({}))
  BY <1>1, <1>3 DEF Writes
<1>. QED
  BY <1>1, <1>3, <1>4 DEF ClientStep

\* A deletion replaces no version.
LEMMA DeleteStep == ASSUME TypeOK, NEW o \in Objects, Delete(o) PROVE ClientStep
<1>1. Write(o, Absent) /\ UNCHANGED <<Others, working>>
  BY DEF Delete
<1>2. Writes(o, Absent) /\ Absent \in Contents
  BY <1>1 DEF Writes, Contents
<1>. QED
  BY <1>1, <1>2 DEF ClientStep

\* A patch keeps the edits of what it finds.
LEMMA PatchStep == ASSUME TypeOK, NEW o \in Objects, Patch(o) PROVE ClientStep
<1> DEFINE v == Stored(live[o].edits)
<1>1. live[o] # Absent /\ Write(o, v) /\ UNCHANGED <<Others, working>>
  BY DEF Patch
<1>2. writes < MaxWrites
  BY <1>1 DEF Write
<1>3. live[o].edits \in SUBSET Users
  BY <1>1 DEF TypeOK, Contents, Configurations
<1>4. v \in Contents /\ v.resourceVersion = writes + 1 /\ v.edits = live[o].edits
  BY <1>2, <1>3, StoredType DEF Contents
<1>. HIDE DEF v
<1>5. Writes(o, v)
  BY <1>1, <1>4 DEF Writes
<1>. QED
  BY <1>1, <1>4, <1>5 DEF ClientStep

\* An update is accepted only for the version it names, and all copies of this
\* version have its edits.
LEMMA UpdateStep == ASSUME TypeOK, CopiesRight, NEW u \in Users, Update(u) PROVE ClientStep
<1> DEFINE o == working[u].object
           content == working[u].content
           v == Stored(content.edits)
<1>1. /\ working[u] # Absent
      /\ IF Accepted(o, content) THEN Write(o, v)
                                 ELSE UNCHANGED <<serverVars, events, seen, mark>>
      /\ working' = [working EXCEPT ![u] = Absent]
      /\ UNCHANGED Others
  BY DEF Update
<1>2. o \in Objects /\ content \in Configurations /\ UpToDate(o, content)
  BY <1>1 DEF TypeOK, CopiesRight
<1>3. CASE ~ Accepted(o, content)
  <2>1. UNCHANGED <<serverVars, events, seen, mark>>
    BY <1>1, <1>3
  <2>2. Absent \in Holdings
    BY DEF Holdings
  <2>. QED
    BY <1>1, <2>1, <2>2 DEF ClientStep
<1>4. CASE Accepted(o, content)
  <2>1. Write(o, v) /\ writes < MaxWrites
    BY <1>1, <1>4 DEF Write
  <2>2. content.edits \in SUBSET Users
    BY <1>2 DEF Configurations
  <2>3. v \in Contents /\ v.resourceVersion = writes + 1 /\ v.edits = content.edits
    BY <2>1, <2>2, StoredType DEF Contents
  <2>4. content # Absent
    BY <1>2, ConfigurationInformersAssumption
  <2>5. live[o].edits \subseteq content.edits
    BY <1>2, <1>4, <2>4 DEF Accepted, UpToDate
  <2>. HIDE DEF v, content, o
  <2>6. Writes(o, v)
    BY <2>1, <2>3, <2>5 DEF Writes
  <2>. QED
    BY <1>1, <1>2, <2>3, <2>6 DEF ClientStep
<1>. QED
  BY <1>3, <1>4

\* A copy with one more edit is as right as what it was made of.
LEMMA EditedRight ==
    ASSUME NEW u \in Users, NEW o \in Objects, NEW c \in Configurations, UpToDate(o, c),
           c # Absent
    PROVE  /\ [object |-> o, content |-> Edited(u, c)] \in Holdings
           /\ UpToDate(o, Edited(u, c))
<1>1. /\ Edited(u, c) \in Configurations
      /\ Edited(u, c).resourceVersion = c.resourceVersion
      /\ Edited(u, c).edits = c.edits \cup {u}
  BY DEF Edited, Configurations
<1>. QED
  BY <1>1 DEF Holdings, UpToDate

\* What the users take from the lister or the server is right.
LEMMA EditSteps ==
    ASSUME TypeOK, CopiesRight, NEW u \in Users, NEW o \in Objects,
           EditFromLister(u, o) \/ EditFromGet(u, o)
    PROVE  ClientStep
<1>1. CASE EditFromLister(u, o)
  <2>1. seen[o] # Absent
    BY <1>1 DEF EditFromLister, Indexed
  <2>2. seen[o] \in Configurations /\ UpToDate(o, seen[o])
    BY <2>1 DEF TypeOK, Contents, CopiesRight, Copies
  <2>3. UNCHANGED seen
    BY <1>1 DEF EditFromLister, Original, TypeOK
  <2> DEFINE w == [object |-> o, content |-> Edited(u, seen[o])]
  <2>4. w \in Holdings /\ UpToDate(w.object, w.content)
    BY <2>1, <2>2, EditedRight
  <2>5. working' = [working EXCEPT ![u] = w] /\ UNCHANGED <<serverVars, events, mark, Others>>
    BY <1>1 DEF EditFromLister
  <2>. HIDE DEF w
  <2>. QED
    BY <2>3, <2>4, <2>5 DEF ClientStep
<1>2. CASE EditFromGet(u, o)
  <2>1. live[o] # Absent
    BY <1>2 DEF EditFromGet
  <2>2. live[o] \in Configurations /\ UpToDate(o, live[o])
    BY <2>1 DEF TypeOK, Contents, CopiesRight, Copies
  <2> DEFINE w == [object |-> o, content |-> Edited(u, live[o])]
  <2>3. w \in Holdings /\ UpToDate(w.object, w.content)
    BY <2>1, <2>2, EditedRight
  <2>4. /\ working' = [working EXCEPT ![u] = w]
        /\ UNCHANGED <<serverVars, events, seen, mark, Others>>
    BY <1>2 DEF EditFromGet
  <2>. HIDE DEF w
  <2>. QED
    BY <2>3, <2>4 DEF ClientStep
<1>. QED
  BY <1>1, <1>2

\* The steps of the module, as the lemmas below distinguish them.
LEMMA Steps ==
    ASSUME TypeOK, CopiesRight, [Next]_vars
    PROVE  \/ ClientStep
           \/ \E u \in Users : Request(u) \/ Wait(u) \/ WaitReturns(u)
           \/ \E o \in Objects : HandleDeltas(o)
           \/ Start \/ Stop \/ FirstList \/ ListAgain \/ Enlist
           \/ UNCHANGED vars
BY CreateStep, DeleteStep, PatchStep, UpdateStep, EditSteps DEF Next

\* The API server accepts a write.
LEMMA Written ==
    ASSUME TypeOK, NEW o \in Objects, NEW v \in Contents, Write(o, v)
    PROVE  /\ writes' = writes + 1 /\ writes' \in 0 .. MaxWrites
           /\ live' = [live EXCEPT ![o] = v]
           /\ UNCHANGED <<seen, mark>>
           /\ \/ UNCHANGED events
              \/ /\ populated \/ \E p \in Objects : mark[p] # 0
                 /\ events' = [events EXCEPT ![o] = Append(@, v)]
           /\ possible' = [possible EXCEPT ![o] = IF startedInformers THEN @ \cup {v} ELSE @]
<1>1. writes < MaxWrites /\ writes' = writes + 1
  BY DEF Write
<1>2. writes' \in 0 .. MaxWrites
  BY <1>1, ConfigurationInformersAssumption DEF TypeOK
<1>. QED
  BY <1>1, <1>2 DEF Write, Shared!Change, Shared!Listing

\* Nothing but the informer changes.
LEMMA TypeKept ==
    ASSUME TypeOK, UNCHANGED <<serverVars, factoryVars, userVars, running, breaks>>,
           events' \in [Objects -> Seq(Contents)], mark' \in [Objects -> Nat],
           seen' \in [Objects -> Contents],
           unheard' \subseteq Objects, populated' \in BOOLEAN
    PROVE  TypeOK'
BY DEF TypeOK, serverVars, factoryVars, userVars, Contents, Configurations

\* Types: the steps of the client, and then all.
LEMMA TypeClient == ASSUME TypeOK, ClientStep PROVE TypeOK'
<1>1. UNCHANGED Others
  BY DEF ClientStep
<1>2. working' \in [Users -> Holdings]
  BY DEF ClientStep, TypeOK, Holdings
<1>3. CASE \E o \in Objects, v \in Contents : Writes(o, v)
  <2>1. PICK o \in Objects, v \in Contents : Write(o, v)
    BY <1>3 DEF Writes
  <2>2. /\ writes' \in 0 .. MaxWrites
        /\ live' = [live EXCEPT ![o] = v]
        /\ UNCHANGED <<seen, mark>>
        /\ \/ UNCHANGED events
           \/ events' = [events EXCEPT ![o] = Append(@, v)]
        /\ possible' = [possible EXCEPT ![o] = IF startedInformers THEN @ \cup {v} ELSE @]
    BY <2>1, Written
  <2>3. live' \in [Objects -> Contents]
    BY <2>2 DEF TypeOK
  <2>4. events' \in [Objects -> Seq(Contents)]
    <3>1. events \in [Objects -> Seq(Contents)]
      BY DEF TypeOK
    <3>2. Append(events[o], v) \in Seq(Contents)
      BY <3>1
    <3>. QED
      BY <2>2, <3>1, <3>2
  <2>5. possible' \in [Objects -> SUBSET Contents]
    BY <2>2 DEF TypeOK
  <2>. QED
    BY <1>1, <1>2, <2>2, <2>3, <2>4, <2>5
    DEF TypeOK, Others, factoryVars, Contents, Configurations, Holdings
<1>4. CASE UNCHANGED <<serverVars, events, seen, mark>>
  BY <1>1, <1>2, <1>4
  DEF TypeOK, Others, factoryVars, serverVars, Contents, Configurations, Holdings
<1>. QED
  BY <1>3, <1>4 DEF ClientStep

\* What a list or its queueing does to the events keeps their type.
LEMMA TypeEvents ==
    ASSUME TypeOK, MarksOK, Shared!List \/ Shared!Enlist
    PROVE  events' \in [Objects -> Seq(Contents)] /\ mark' \in [Objects -> Nat]
<1>1. CASE Shared!List
  <2>1. PICK n \in Shared!Received :
           /\ events' = [p \in Objects |-> Append(SubSeq(events[p], 1, n[p]), live[p])]
           /\ mark' = [p \in Objects |-> n[p] + 1]
    BY <1>1 DEF Shared!List
  <2>2. ASSUME NEW o \in Objects
        PROVE  events'[o] \in Seq(Contents) /\ mark'[o] \in 1 .. Len(events'[o])
    BY <1>1, Listed DEF TypeOK
  <2>. QED
    BY <2>1, <2>2
<1>2. CASE Shared!Enlist
  <2>1. ASSUME NEW o \in Objects PROVE events'[o] \in Seq(Contents)
    BY <1>2, Enlisted DEF TypeOK
  <2>. QED
    BY <1>2, <2>1 DEF Shared!Enlist
<1>. QED
  BY <1>1, <1>2

\* The type invariant and each further part of Inv is kept by every step.
LEMMA TypeStep == Inv /\ [Next]_vars => TypeOK'
<1> SUFFICES ASSUME Inv, [Next]_vars PROVE TypeOK'
  OBVIOUS
<1>. USE DEF Inv
<1>1. CASE ClientStep
  BY <1>1, TypeClient
<1>2. ASSUME NEW u \in Users, Request(u) PROVE TypeOK'
  <2>1. /\ \/ UNCHANGED <<informers, made>>
           \/ informers = None /\ informers' = made + 1 /\ made' = made + 1
        /\ lister' = [lister EXCEPT ![u] = informers']
        /\ UNCHANGED <<serverVars, informerVars, startedInformers, stopped, wait, working>>
    BY <1>2 DEF Request, InformerFor
  <2>2. made' \in 0 .. 1 /\ informers' \in 0 .. made'
    BY <2>1 DEF TypeOK, StartedOnce, None
  <2>3. running' \in {None, informers'} /\ lister' \in [Users -> {None, informers'}]
    BY <2>1 DEF TypeOK, informerVars
  <2>4. wait' \in [Users -> [state : {"idle", "waiting", "synced"},
                             informer : {None, informers'}]]
    BY <2>1 DEF TypeOK
  <2>. QED
    BY <2>1, <2>2, <2>3, <2>4
    DEF TypeOK, serverVars, informerVars, Contents, Configurations
<1>3. ASSUME NEW u \in Users, Wait(u) \/ WaitReturns(u) PROVE TypeOK'
  <2>1. wait' \in [Users -> [state : {"idle", "waiting", "synced"},
                             informer : {None, informers}]]
    <3> DEFINE W == [state : {"idle", "waiting", "synced"}, informer : {None, informers}]
    <3>1. wait \in [Users -> W]
      BY DEF TypeOK
    <3>2. wait[u] \in W /\ Idle \in W /\ [state |-> "waiting", informer |-> informers] \in W
      BY <3>1 DEF Idle
    <3>3. [wait[u] EXCEPT !.state = "synced"] \in W
      BY <3>2
    <3>4. \E w \in W : wait' = [wait EXCEPT ![u] = w]
      BY <1>3, <3>2, <3>3 DEF Wait, WaitReturns
    <3>. QED
      BY <3>1, <3>4
  <2>2. UNCHANGED <<serverVars, informerVars, factoryVars, lister, working>>
    BY <1>3 DEF Wait, WaitReturns
  <2>. QED
    BY <2>1, <2>2
    DEF TypeOK, serverVars, informerVars, factoryVars, Contents, Configurations
<1>4. ASSUME NEW o \in Objects, HandleDeltas(o) PROVE TypeOK'
  <2>1. Shared!Deliver(o)
    BY <1>4 DEF HandleDeltas
  <2>2. ASSUME NEW p \in Objects
        PROVE  events'[p] \in Seq(Contents) /\ seen'[p] \in Contents /\ mark'[p] \in Nat
    <3>1. events[p] \in Seq(Contents) /\ seen[p] \in Contents
      BY DEF TypeOK
    <3>. QED
      BY <2>1, <3>1, Delivered
  <2>3. /\ DOMAIN events' = Objects /\ events' = [p \in Objects |-> events'[p]]
        /\ DOMAIN seen' = Objects /\ seen' = [p \in Objects |-> seen'[p]]
        /\ DOMAIN mark' = Objects /\ mark' = [p \in Objects |-> mark'[p]]
    BY <2>1 DEF Shared!Deliver, TypeOK
  <2>4. /\ events' \in [Objects -> Seq(Contents)] /\ mark' \in [Objects -> Nat]
        /\ seen' \in [Objects -> Contents]
    BY <2>2, <2>3
  <2>5. UNCHANGED live
    BY <2>1 DEF Shared!Deliver
  <2>6. unheard' \subseteq Objects /\ populated' \in BOOLEAN
    BY <1>4 DEF HandleDeltas, TypeOK
  <2>. QED
    BY <1>4, <2>4, <2>5, <2>6, TypeKept DEF HandleDeltas, serverVars
<1>5. CASE Start
  <2>1. /\ startedInformers' = TRUE /\ running' = informers
        /\ populated' = FALSE /\ unheard' = {}
        /\ events' = [o \in Objects |-> <<>>] /\ mark' = [o \in Objects |-> 0]
        /\ possible' = [o \in Objects |-> {live[o]}]
        /\ UNCHANGED <<live, writes, seen, breaks, informers, made, stopped, userVars>>
    BY <1>5 DEF Start, Startable
  <2>2. events' \in [Objects -> Seq(Contents)] /\ mark' \in [Objects -> Nat]
    BY <2>1
  <2>3. possible' \in [Objects -> SUBSET Contents]
    BY <2>1 DEF TypeOK
  <2>. QED
    BY <2>1, <2>2, <2>3 DEF TypeOK, userVars, Contents, Configurations
<1>6. CASE Stop
  BY <1>6 DEF Stop, TypeOK, serverVars, informerVars, userVars, Contents, Configurations
<1>7. CASE FirstList
  <2>1. events' \in [Objects -> Seq(Contents)] /\ mark' \in [Objects -> Nat]
    BY <1>7, TypeEvents DEF FirstList
  <2>2. UNCHANGED <<live, seen>>
    BY <1>7 DEF FirstList, Shared!List
  <2>3. unheard' \subseteq Objects /\ populated' \in BOOLEAN /\ seen' \in [Objects -> Contents]
    BY <1>7, <2>2 DEF FirstList, TypeOK
  <2>. QED
    BY <1>7, <2>1, <2>2, <2>3, TypeKept DEF FirstList, serverVars
<1>8. CASE ListAgain
  <2>1. events' \in [Objects -> Seq(Contents)] /\ mark' \in [Objects -> Nat]
    BY <1>8, TypeEvents DEF ListAgain
  <2>2. UNCHANGED <<live, seen>>
    BY <1>8 DEF ListAgain, Shared!List
  <2>3. breaks' \in 0 .. MaxBreaks
    BY <1>8, ConfigurationInformersAssumption DEF ListAgain, TypeOK
  <2>. QED
    BY <1>8, <2>1, <2>2, <2>3
    DEF ListAgain, TypeOK, factoryVars, userVars, Contents, Configurations
<1>9. CASE Enlist
  <2>1. events' \in [Objects -> Seq(Contents)] /\ mark' \in [Objects -> Nat]
    BY <1>9, TypeEvents DEF Enlist
  <2>2. UNCHANGED <<live, seen>>
    BY <1>9 DEF Enlist, Shared!Enlist
  <2>3. unheard' \subseteq Objects /\ populated' \in BOOLEAN /\ seen' \in [Objects -> Contents]
    BY <1>9, <2>2 DEF Enlist, TypeOK
  <2>. QED
    BY <1>9, <2>1, <2>2, <2>3, TypeKept DEF Enlist, serverVars
<1>10. CASE UNCHANGED vars
  BY <1>10 DEF vars, TypeOK, serverVars, informerVars, factoryVars, userVars,
               Contents, Configurations
<1>. QED
  BY <1>1, <1>2, <1>3, <1>4, <1>5, <1>6, <1>7, <1>8, <1>9, <1>10, Steps

\* Lists mark all objects, and deliveries move the marks along.
LEMMA MarksStep == Inv /\ [Next]_vars => MarksOK'
<1> SUFFICES ASSUME Inv, [Next]_vars PROVE MarksOK'
  OBVIOUS
<1>. USE DEF Inv
<1>1. CASE ClientStep
  <2>1. UNCHANGED mark /\ \A p \in Objects : Len(events[p]) <= Len(events'[p])
    <3>1. ASSUME NEW o \in Objects, NEW v \in Contents, Write(o, v)
          PROVE  UNCHANGED mark /\ \A p \in Objects : Len(events[p]) <= Len(events'[p])
      <4>1. UNCHANGED events \/ events' = [events EXCEPT ![o] = Append(@, v)]
        BY <3>1, Written
      <4>2. \A p \in Objects : events[p] \in Seq(Contents)
        BY DEF TypeOK
      <4>3. Len(Append(events[o], v)) = Len(events[o]) + 1
        BY <4>2
      <4>4. DOMAIN events = Objects
        BY DEF TypeOK
      <4>5. \A p \in Objects : Len(events[p]) \in Nat
        BY <4>2, LenProperties
      <4>6. ASSUME NEW p \in Objects PROVE Len(events[p]) <= Len(events'[p])
        <5>1. CASE UNCHANGED events
          BY <4>5, <5>1
        <5>2. CASE events' = [events EXCEPT ![o] = Append(@, v)]
          BY <4>3, <4>4, <4>5, <5>2
        <5>. QED
          BY <4>1, <5>1, <5>2
      <4>. QED
        BY <3>1, <4>6, Written
    <3>2. CASE UNCHANGED <<events, mark>>
      <4>1. \A p \in Objects : Len(events[p]) \in Nat
        BY LenProperties DEF TypeOK
      <4>. QED
        BY <3>2, <4>1
    <3>. QED
      BY <1>1, <3>1, <3>2 DEF ClientStep, Writes
  <2>2. \A p \in Objects : Len(events[p]) \in Nat
    BY LenProperties DEF TypeOK
  <2>3. \A p \in Objects : Len(events'[p]) \in Nat
    <3>1. TypeOK'
      BY <1>1, TypeClient
    <3>. QED
      BY <3>1, LenProperties DEF TypeOK
  <2>. QED
    BY <2>1, <2>2, <2>3 DEF MarksOK
<1>2. CASE FirstList \/ ListAgain
  <2>1. Shared!List
    BY <1>2 DEF FirstList, ListAgain
  <2>2. ASSUME NEW o \in Objects PROVE mark'[o] \in 1 .. Len(events'[o])
    <3>1. events[o] \in Seq(Contents) /\ live[o] \in Contents
      BY DEF TypeOK
    <3>. QED
      BY <2>1, <3>1, Listed
  <2>. QED
    BY <2>2 DEF MarksOK
<1>3. CASE Enlist
  BY <1>3 DEF Enlist, Shared!Enlist, MarksOK
<1>4. ASSUME NEW p \in Objects, HandleDeltas(p) PROVE MarksOK'
  <2>1. Shared!Deliver(p)
    BY <1>4 DEF HandleDeltas
  <2>2. ASSUME NEW o \in Objects
        PROVE  /\ mark[o] = 0 => mark'[o] = 0
               /\ mark[o] # 0 => mark'[o] \in 1 .. Len(events'[o])
    <3>1. events[o] \in Seq(Contents)
      BY DEF TypeOK
    <3>. QED
      BY <2>1, <3>1, Delivered
  <2>3. CASE \A o \in Objects : mark[o] = 0
    BY <2>2, <2>3 DEF MarksOK
  <2>4. CASE \A o \in Objects : mark[o] \in 1 .. Len(events[o])
    BY <2>2, <2>4 DEF MarksOK
  <2>. QED
    BY <2>3, <2>4 DEF MarksOK
<1>5. CASE Start
  BY <1>5 DEF Start, MarksOK
<1>6. CASE UNCHANGED <<events, mark>>
  BY <1>6 DEF MarksOK
<1>7. ASSUME NEW u \in Users, Request(u) \/ Wait(u) \/ WaitReturns(u) PROVE MarksOK'
  BY <1>6, <1>7 DEF Request, Wait, WaitReturns, informerVars
<1>8. CASE Stop \/ UNCHANGED vars
  BY <1>6, <1>8 DEF Stop, vars, informerVars
<1>. QED
  BY <1>1, <1>2, <1>3, <1>4, <1>5, <1>7, <1>8, Steps

\* There is never a second informer, nor a second start.
LEMMA StartedStep == Inv /\ [Next]_vars => StartedOnce'
<1> SUFFICES ASSUME Inv, [Next]_vars PROVE StartedOnce'
  OBVIOUS
<1>. USE DEF Inv
<1>1. CASE UNCHANGED <<informers, made, running, startedInformers>>
  <2>1. CASE startedInformers
    BY <1>1, <2>1 DEF StartedOnce
  <2>2. CASE ~ startedInformers
    <3>1. /\ running = None /\ ~ populated
          /\ \A o \in Objects : mark[o] = 0 /\ events[o] = <<>> /\ seen[o] = Absent
      BY <2>2 DEF StartedOnce
    <3>2. /\ populated' = populated
          /\ \A o \in Objects : mark'[o] = 0 /\ events'[o] = <<>> /\ seen'[o] = Absent
      <4>1. CASE ClientStep
        <5>1. ASSUME NEW o \in Objects, NEW v \in Contents, Write(o, v)
              PROVE  UNCHANGED <<events, seen, mark>>
          BY <3>1, <5>1, Written
        <5>2. UNCHANGED <<events, seen, mark, populated>>
          BY <4>1, <5>1 DEF ClientStep, Writes, Others
        <5>. QED
          BY <3>1, <5>2
      <4>2. ASSUME NEW u \in Users, Request(u) \/ Wait(u) \/ WaitReturns(u)
            PROVE  UNCHANGED <<events, seen, mark, populated>>
        BY <4>2 DEF Request, Wait, WaitReturns, informerVars
      <4>3. ASSUME NEW o \in Objects, HandleDeltas(o) PROVE FALSE
        BY <3>1, <4>3 DEF HandleDeltas, Shared!Deliver
      <4>4. CASE FirstList \/ ListAgain
        BY <3>1, <4>4 DEF FirstList, ListAgain
      <4>5. CASE Enlist
        BY <3>1, <4>5 DEF Enlist, Shared!Enlist, Shared!Listing
      <4>6. CASE Start
        BY <1>1, <2>2, <4>6 DEF Start
      <4>7. CASE Stop \/ UNCHANGED vars
        BY <3>1, <4>7 DEF Stop, vars, informerVars
      <4>. QED
        BY <3>1, <4>1, <4>2, <4>3, <4>4, <4>5, <4>6, <4>7, Steps
    <3>. QED
      BY <1>1, <2>2, <3>1, <3>2 DEF StartedOnce
  <2>. QED
    BY <2>1, <2>2
<1>2. ASSUME NEW u \in Users, Request(u) PROVE StartedOnce'
  <2>1. /\ \/ UNCHANGED <<informers, made>>
           \/ informers = None /\ informers' = made + 1 /\ made' = made + 1
        /\ UNCHANGED <<informerVars, startedInformers>>
    BY <1>2 DEF Request, InformerFor
  <2>2. CASE UNCHANGED <<informers, made>>
    BY <1>1, <2>1, <2>2 DEF informerVars
  <2>3. CASE informers = None /\ informers' = made + 1 /\ made' = made + 1
    <3>1. ~ startedInformers /\ informers' = 1 /\ made' = 1
      BY <2>3 DEF StartedOnce, None
    <3>. QED
      BY <2>1, <3>1 DEF StartedOnce, informerVars
  <2>. QED
    BY <2>1, <2>2, <2>3
<1>3. CASE Start
  BY <1>3 DEF Start, Startable, StartedOnce
<1>4. CASE \/ ClientStep \/ Stop \/ FirstList \/ ListAgain \/ Enlist
           \/ \E u \in Users : Wait(u) \/ WaitReturns(u)
           \/ \E o \in Objects : HandleDeltas(o)
           \/ UNCHANGED vars
  BY <1>1, <1>4 DEF ClientStep, Others, Stop, FirstList, ListAgain, Enlist, Wait,
                    WaitReturns, HandleDeltas, vars, informerVars, factoryVars
<1>. QED
  BY <1>2, <1>3, <1>4, Steps

\* Nothing unsyncs the informer.
LEMMA WaitsStep == Inv /\ [Next]_vars => WaitsRight'
<1> SUFFICES ASSUME Inv, [Next]_vars PROVE WaitsRight'
  OBVIOUS
<1>. USE DEF Inv
<1>1. ASSUME UNCHANGED <<wait, informers, startedInformers>>,
             populated => populated' /\ unheard' \subseteq unheard
      PROVE  WaitsRight'
  BY <1>1 DEF WaitsRight
<1>2. CASE ClientStep \/ Stop \/ UNCHANGED vars
  BY <1>1, <1>2 DEF ClientStep, Others, Stop, vars, informerVars, factoryVars, userVars
<1>3. CASE FirstList \/ ListAgain \/ Enlist
  BY <1>1, <1>3 DEF FirstList, ListAgain, Enlist, factoryVars, userVars
<1>4. ASSUME NEW o \in Objects, HandleDeltas(o) PROVE WaitsRight'
  BY <1>1, <1>4 DEF HandleDeltas, factoryVars, userVars
<1>5. ASSUME NEW u \in Users, Request(u) PROVE WaitsRight'
  <2>1. UNCHANGED <<wait, startedInformers, populated, unheard>>
    BY <1>5 DEF Request, informerVars
  <2>2. startedInformers => informers' = informers
    BY <1>5 DEF Request, InformerFor, StartedOnce
  <2>. QED
    BY <2>1, <2>2 DEF WaitsRight
<1>6. CASE Start
  <2>1. ~ startedInformers /\ UNCHANGED wait
    BY <1>6 DEF Start, Startable, userVars
  <2>. QED
    BY <2>1 DEF WaitsRight
<1>7. ASSUME NEW u \in Users, Wait(u) PROVE WaitsRight'
  <2>1. /\ startedInformers
        /\ UNCHANGED <<informers, startedInformers, populated, unheard>>
        /\ wait' = [wait EXCEPT ![u] = [state |-> "waiting", informer |-> informers]]
    BY <1>7 DEF Wait, informerVars, factoryVars
  <2>2. DOMAIN wait = Users
    BY DEF TypeOK
  <2>. QED
    BY <2>1, <2>2 DEF WaitsRight
<1>8. ASSUME NEW u \in Users, WaitReturns(u) PROVE WaitsRight'
  <2>1. /\ wait[u].state = "waiting"
        /\ \/ /\ HasSynced(wait[u].informer)
              /\ wait' = [wait EXCEPT ![u] = [@ EXCEPT !.state = "synced"]]
           \/ wait' = [wait EXCEPT ![u] = Idle]
        /\ UNCHANGED <<informers, startedInformers, populated, unheard>>
    BY <1>8 DEF WaitReturns, informerVars, factoryVars
  <2>2. DOMAIN wait = Users /\ \A w \in Users : DOMAIN wait[w] = {"state", "informer"}
    BY DEF TypeOK
  <2>3. CASE wait' = [wait EXCEPT ![u] = Idle]
    BY <2>1, <2>2, <2>3 DEF WaitsRight, Idle
  <2>4. CASE /\ HasSynced(wait[u].informer)
             /\ wait' = [wait EXCEPT ![u] = [@ EXCEPT !.state = "synced"]]
    <3>1. populated /\ unheard = {}
      BY <2>4 DEF HasSynced
    <3>2. wait'[u].informer = wait[u].informer
      BY <2>2, <2>4
    <3>3. \A w \in Users \ {u} : wait'[w] = wait[w]
      BY <2>2, <2>4
    <3>. QED
      BY <2>1, <3>1, <3>2, <3>3 DEF WaitsRight
  <2>. QED
    BY <2>1, <2>3, <2>4
<1>. QED
  BY <1>2, <1>3, <1>4, <1>5, <1>6, <1>7, <1>8, Steps

\* Without a write, copies stay right.
LEMMA CopiesSame ==
    ASSUME UNCHANGED <<live, writes>>
    PROVE  /\ \A o : Copies(o)' = Copies(o)
           /\ \A o, c : UpToDate(o, c) => UpToDate(o, c)'
BY DEF Copies, UpToDate, Contents, Configurations

\* A write gives a version that no copy has.
LEMMA CopiesWritten ==
    ASSUME TypeOK, NEW o \in Objects, NEW v \in Contents, Writes(o, v)
    PROVE  /\ v \in Copies(o)'
           /\ \A p \in Objects : Copies(p) \subseteq Copies(p)'
           /\ \A p \in Objects, c \in Configurations : UpToDate(p, c) => UpToDate(p, c)'
<1>1. /\ writes' = writes + 1
      /\ live' = [live EXCEPT ![o] = v]
  BY Written DEF Writes
<1>2. writes \in Nat /\ DOMAIN live = Objects
  BY ConfigurationInformersAssumption DEF TypeOK
<1>3. v # Absent => v.resourceVersion = writes + 1
  BY DEF Writes
<1>4. ASSUME NEW p \in Objects, NEW c \in Configurations, UpToDate(p, c)
      PROVE  UpToDate(p, c)'
  <2>1. c # Absent => c.resourceVersion <= writes /\ c.resourceVersion \in Nat
    BY <1>4 DEF UpToDate, Configurations
  <2>2. CASE p = o
    BY <1>1, <1>2, <1>3, <2>1, <2>2 DEF UpToDate
  <2>3. CASE p # o
    BY <1>1, <1>2, <1>4, <2>1, <2>3 DEF UpToDate
  <2>. QED
    BY <2>2, <2>3
<1>5. ASSUME NEW p \in Objects PROVE Copies(p) \subseteq Copies(p)'
  <2>1. UpToDate(p, Absent)'
    BY DEF UpToDate
  <2>. QED
    BY <1>4, <2>1 DEF Copies, Contents
<1>6. UpToDate(o, v)'
  BY <1>1, <1>2, <1>3 DEF UpToDate
<1>. QED
  BY <1>4, <1>5, <1>6 DEF Copies

\* All copies stay right, also those in the informer's queue.
LEMMA CopiesStep == Inv /\ [Next]_vars => CopiesRight'
<1> SUFFICES ASSUME Inv, [Next]_vars PROVE CopiesRight'
  OBVIOUS
<1>. USE DEF Inv
<1>1. ASSUME UNCHANGED <<live, writes, working>>,
             \A o \in Objects : seen'[o] \in Copies(o) /\ events'[o] \in Seq(Copies(o))
      PROVE  CopiesRight'
  BY <1>1, CopiesSame DEF CopiesRight
<1>2. ASSUME NEW o \in Objects
      PROVE  /\ live[o] \in Copies(o) /\ seen[o] \in Copies(o)
             /\ events[o] \in Seq(Copies(o))
  BY DEF CopiesRight
<1>3. CASE ClientStep
  <2>1. CASE /\ \E o \in Objects, v \in Contents : Writes(o, v)
             /\ \/ UNCHANGED working
                \/ \E u \in Users : working' = [working EXCEPT ![u] = Absent]
    <3>1. PICK o \in Objects, v \in Contents : Writes(o, v)
      BY <2>1
    <3>2. /\ v \in Copies(o)'
          /\ \A p \in Objects : Copies(p) \subseteq Copies(p)'
          /\ \A p \in Objects, c \in Configurations : UpToDate(p, c) => UpToDate(p, c)'
      BY <3>1, CopiesWritten
    <3>3. /\ live' = [live EXCEPT ![o] = v]
          /\ UNCHANGED <<seen, mark>>
          /\ UNCHANGED events \/ events' = [events EXCEPT ![o] = Append(@, v)]
      BY <3>1, Written DEF Writes
    <3>4. DOMAIN live = Objects /\ DOMAIN events = Objects
      BY DEF TypeOK
    <3>5. ASSUME NEW p \in Objects
          PROVE  /\ live'[p] \in Copies(p)' /\ seen'[p] \in Copies(p)'
                 /\ events'[p] \in Seq(Copies(p)')
      <4>1. live'[p] \in Copies(p)' /\ seen'[p] \in Copies(p)'
        BY <1>2, <3>2, <3>3, <3>4
      <4>2. events[p] \in Seq(Copies(p)')
        BY <1>2, <3>2, SeqMonotonic
      <4>3. p = o => Append(events[p], v) \in Seq(Copies(p)')
        BY <3>2, <4>2
      <4>4. events'[p] \in {events[p], Append(events[p], v)} /\ (p # o => events'[p] = events[p])
        BY <3>3, <3>4
      <4>. QED
        BY <4>1, <4>2, <4>3, <4>4
    <3>6. ASSUME NEW u \in Users, working'[u] # Absent
          PROVE  UpToDate(working[u].object, working[u].content)' /\ working'[u] = working[u]
      <4>1. working'[u] = working[u]
        BY <2>1, <3>6 DEF TypeOK
      <4>2. /\ working[u].object \in Objects /\ working[u].content \in Configurations
            /\ UpToDate(working[u].object, working[u].content)
        BY <3>6, <4>1 DEF CopiesRight, TypeOK
      <4>. QED
        BY <3>2, <4>1, <4>2
    <3>. QED
      BY <3>5, <3>6 DEF CopiesRight
  <2>2. CASE /\ UNCHANGED <<serverVars, events, seen, mark>>
             /\ \E u \in Users, w \in Holdings :
                   /\ working' = [working EXCEPT ![u] = w]
                   /\ w # Absent => UpToDate(w.object, w.content)
    <3>1. PICK u \in Users, w \in Holdings :
             /\ working' = [working EXCEPT ![u] = w]
             /\ w # Absent => UpToDate(w.object, w.content)
      BY <2>2
    <3>2. UNCHANGED <<live, writes, events, seen>>
      BY <2>2 DEF serverVars
    <3>3. ASSUME NEW x \in Users, working'[x] # Absent
          PROVE  UpToDate(working'[x].object, working'[x].content)
      BY <3>1, <3>3 DEF CopiesRight, TypeOK
    <3>. QED
      BY <1>2, <3>2, <3>3, CopiesSame DEF CopiesRight
  <2>. QED
    BY <1>3, <2>1, <2>2 DEF ClientStep
<1>4. CASE FirstList \/ ListAgain
  <2>1. Shared!List /\ UNCHANGED <<live, seen, writes, working>>
    BY <1>4 DEF FirstList, ListAgain, Shared!List, userVars
  <2>2. ASSUME NEW o \in Objects PROVE events'[o] \in Seq(Copies(o))
    BY <1>2, <2>1, Listed
  <2>. QED
    BY <1>1, <1>2, <2>1, <2>2
<1>5. CASE Enlist
  <2>1. Shared!Enlist /\ UNCHANGED <<live, seen, writes, working>>
    BY <1>5 DEF Enlist, Shared!Enlist, userVars
  <2>2. ASSUME NEW o \in Objects PROVE events'[o] \in Seq(Copies(o))
    BY <1>2, <2>1, Enlisted
  <2>. QED
    BY <1>1, <1>2, <2>1, <2>2
<1>6. ASSUME NEW p \in Objects, HandleDeltas(p) PROVE CopiesRight'
  <2>1. Shared!Deliver(p) /\ UNCHANGED <<live, writes, working>>
    BY <1>6 DEF HandleDeltas, Shared!Deliver, userVars
  <2>2. ASSUME NEW o \in Objects
        PROVE  seen'[o] \in Copies(o) /\ events'[o] \in Seq(Copies(o))
    BY <1>2, <2>1, Delivered
  <2>. QED
    BY <1>1, <2>1, <2>2
<1>7. CASE Start
  <2>1. /\ UNCHANGED <<live, writes, working, seen>>
        /\ \A o \in Objects : events'[o] = <<>>
    BY <1>7 DEF Start, userVars
  <2>2. \A o \in Objects : <<>> \in Seq(Copies(o))
    OBVIOUS
  <2>. QED
    BY <1>1, <1>2, <2>1, <2>2
<1>8. CASE UNCHANGED <<live, writes, working, seen, events>>
  BY <1>1, <1>2, <1>8
<1>9. ASSUME NEW u \in Users, Request(u) \/ Wait(u) \/ WaitReturns(u) PROVE CopiesRight'
  BY <1>8, <1>9 DEF Request, Wait, WaitReturns, informerVars, serverVars
<1>10. CASE Stop \/ UNCHANGED vars
  BY <1>8, <1>10 DEF Stop, vars, informerVars, serverVars, userVars
<1>. QED
  BY <1>3, <1>4, <1>5, <1>6, <1>7, <1>9, <1>10, Steps

\* Nothing is delivered before the first list is queued.
LEMMA FirstListStep == Inv /\ [Next]_vars => FirstListOnly'
<1> SUFFICES ASSUME Inv, [Next]_vars PROVE FirstListOnly'
  OBVIOUS
<1>. USE DEF Inv
<1>1. CASE populated' = TRUE
  BY <1>1 DEF FirstListOnly
<1>2. ASSUME UNCHANGED <<populated, seen, events, mark, unheard>>,
             \A o \in Objects : possible[o] \subseteq possible'[o]
      PROVE  FirstListOnly'
  BY <1>2 DEF FirstListOnly
<1>3. CASE ClientStep
  <2>1. CASE \E o \in Objects, v \in Contents : Writes(o, v)
    <3>1. PICK o \in Objects, v \in Contents : Write(o, v)
      BY <2>1 DEF Writes
    <3>2. /\ UNCHANGED <<seen, mark>>
          /\ \/ UNCHANGED events
             \/ /\ populated \/ \E p \in Objects : mark[p] # 0
                /\ events' = [events EXCEPT ![o] = Append(@, v)]
          /\ possible' = [possible EXCEPT ![o] = IF startedInformers THEN @ \cup {v} ELSE @]
      BY <3>1, Written
    <3>3. UNCHANGED <<populated, unheard>>
      BY <1>3 DEF ClientStep, Others
    <3>4. \A p \in Objects : possible[p] \subseteq possible'[p]
      BY <3>2 DEF TypeOK
    <3>5. CASE UNCHANGED events
      BY <1>2, <3>2, <3>3, <3>4, <3>5
    <3>6. CASE /\ ~ populated /\ \E p \in Objects : mark[p] # 0
      <4>1. \A p \in Objects : mark[p] # 0
        BY <3>6 DEF MarksOK
      <4>. QED
        BY <3>2, <3>3, <3>4, <3>6, <4>1 DEF FirstListOnly
    <3>7. CASE populated
      BY <3>3, <3>7 DEF FirstListOnly
    <3>. QED
      BY <3>2, <3>5, <3>6, <3>7
  <2>2. CASE UNCHANGED <<serverVars, events, seen, mark>>
    BY <1>2, <1>3, <2>2 DEF ClientStep, Others, serverVars
  <2>. QED
    BY <1>3, <2>1, <2>2 DEF ClientStep
<1>4. CASE FirstList
  <2>1. /\ ~ populated /\ startedInformers
        /\ Shared!List /\ ~ Shared!Listing
        /\ unheard' = {o \in Objects : live[o] # Absent}
        /\ UNCHANGED <<live, seen, possible>>
    BY <1>4 DEF FirstList, Shared!List, StartedOnce
  <2>2. ASSUME NEW o \in Objects PROVE seen[o] = Absent /\ events[o] = <<>>
    BY <2>1 DEF FirstListOnly, Shared!Listing
  <2>3. ASSUME NEW o \in Objects PROVE mark'[o] = 1
    <3>1. events[o] \in Seq(Contents) /\ live[o] \in Contents
      BY DEF TypeOK
    <3>. QED
      BY <2>1, <2>2, <3>1, Listed
  <2>4. \A o \in Objects : live[o] \in possible[o]
    BY <2>1 DEF SeenPossible
  <2>5. ASSUME NEW o \in Objects PROVE o \in unheard' \/ Absent \in possible'[o]
    BY <2>1, <2>4
  <2>. QED
    BY <2>1, <2>2, <2>3, <2>5 DEF FirstListOnly
<1>5. CASE ListAgain \/ Enlist
  BY <1>1, <1>5 DEF ListAgain, Enlist, TypeOK
<1>6. ASSUME NEW p \in Objects, HandleDeltas(p) PROVE FirstListOnly'
  <2>1. events[p] # <<>> /\ mark[p] # 1
    BY <1>6 DEF HandleDeltas, Shared!Deliver
  <2>2. populated
    BY <2>1 DEF FirstListOnly
  <2>. QED
    BY <1>6, <2>2 DEF HandleDeltas, FirstListOnly
<1>7. CASE Start
  <2>1. /\ ~ startedInformers
        /\ \A o \in Objects : events'[o] = <<>> /\ mark'[o] = 0 /\ seen'[o] = seen[o]
    BY <1>7 DEF Start, Startable
  <2>. QED
    BY <2>1 DEF StartedOnce, FirstListOnly
<1>8. CASE UNCHANGED <<populated, seen, events, mark, unheard, possible>>
  BY <1>2, <1>8
<1>9. ASSUME NEW u \in Users, Request(u) \/ Wait(u) \/ WaitReturns(u) PROVE FirstListOnly'
  BY <1>8, <1>9 DEF Request, Wait, WaitReturns, informerVars, serverVars
<1>10. CASE Stop \/ UNCHANGED vars
  BY <1>8, <1>10 DEF Stop, vars, informerVars, serverVars
<1>. QED
  BY <1>3, <1>4, <1>5, <1>6, <1>7, <1>9, <1>10, Steps

\* Lists, deliveries and writes keep what listers may show possible.
LEMMA PossibleStep == Inv /\ [Next]_vars => SeenPossible'
<1> SUFFICES ASSUME Inv, [Next]_vars PROVE SeenPossible'
  OBVIOUS
<1>. USE DEF Inv
<1>1. ASSUME startedInformers, NEW o \in Objects
      PROVE  /\ live[o] \in possible[o] /\ events[o] \in Seq(possible[o])
             /\ populated /\ o \notin unheard => seen[o] \in possible[o]
  BY <1>1 DEF SeenPossible
<1>2. CASE UNCHANGED <<startedInformers, live, events, seen, possible, populated, unheard>>
  BY <1>2 DEF SeenPossible
<1>3. CASE ClientStep
  <2>1. CASE \E o \in Objects, v \in Contents : Writes(o, v)
    <3>1. PICK o \in Objects, v \in Contents : Write(o, v)
      BY <2>1 DEF Writes
    <3>2. /\ live' = [live EXCEPT ![o] = v]
          /\ UNCHANGED <<seen, mark>>
          /\ UNCHANGED events \/ events' = [events EXCEPT ![o] = Append(@, v)]
          /\ possible' = [possible EXCEPT ![o] = IF startedInformers THEN @ \cup {v} ELSE @]
      BY <3>1, Written
    <3>3. UNCHANGED <<startedInformers, populated, unheard>>
      BY <1>3 DEF ClientStep, Others, factoryVars
    <3>4. DOMAIN live = Objects /\ DOMAIN events = Objects /\ DOMAIN possible = Objects
      BY DEF TypeOK
    <3>5. ASSUME startedInformers, NEW p \in Objects
          PROVE  /\ live'[p] \in possible'[p] /\ events'[p] \in Seq(possible'[p])
                 /\ populated /\ p \notin unheard => seen'[p] \in possible'[p]
      <4>1. possible[p] \subseteq possible'[p] /\ (p = o => v \in possible'[p])
        BY <3>2, <3>4, <3>5
      <4>2. events[p] \in Seq(possible'[p])
        BY <1>1, <3>5, <4>1, SeqMonotonic
      <4>3. ASSUME p = o PROVE Append(events[p], v) \in Seq(possible'[p])
        <5>1. v \in possible'[p]
          BY <4>1, <4>3
        <5>2. \A S : \A s \in Seq(S), x \in S : Append(s, x) \in Seq(S)
          OBVIOUS
        <5>. QED
          BY <4>2, <5>1, <5>2
      <4>4. events'[p] \in {events[p], Append(events[p], v)} /\ (p # o => events'[p] = events[p])
        BY <3>2, <3>4
      <4>5. events'[p] \in Seq(possible'[p])
        BY <4>2, <4>3, <4>4
      <4>6. live'[p] \in possible'[p]
        BY <1>1, <3>2, <3>4, <3>5, <4>1
      <4>. QED
        BY <1>1, <3>2, <3>5, <4>1, <4>5, <4>6
    <3>. QED
      BY <3>3, <3>5 DEF SeenPossible
  <2>2. CASE UNCHANGED <<serverVars, events, seen, mark>>
    BY <1>2, <1>3, <2>2 DEF ClientStep, Others, serverVars, factoryVars
  <2>. QED
    BY <1>3, <2>1, <2>2 DEF ClientStep
<1>4. CASE FirstList \/ ListAgain
  <2>1. /\ Shared!List
        /\ UNCHANGED <<live, seen, possible, populated, startedInformers>>
        /\ populated => UNCHANGED unheard
    BY <1>4 DEF FirstList, ListAgain, Shared!List, factoryVars
  <2>2. ASSUME startedInformers, NEW o \in Objects PROVE events'[o] \in Seq(possible[o])
    BY <1>1, <2>1, <2>2, Listed
  <2>. QED
    BY <1>1, <2>1, <2>2 DEF SeenPossible
<1>5. CASE Enlist
  <2>1. /\ Shared!Enlist
        /\ UNCHANGED <<live, seen, possible, startedInformers>>
        /\ unheard' = {o \in unheard : events'[o] # <<>>}
    BY <1>5 DEF Enlist, Shared!Enlist, factoryVars
  <2>2. ASSUME startedInformers, NEW o \in Objects
        PROVE  /\ events'[o] \in Seq(possible[o])
               /\ o \notin unheard' => seen[o] \in possible[o]
    <3>1. /\ mark[o] \in 1 .. Len(events[o])
          /\ events'[o] \in Seq(possible[o])
          /\ events'[o] = <<>> => events[o][1] = Absent /\ events[o][1] \in possible[o]
                                  /\ seen[o] = Absent
      BY <1>1, <2>1, <2>2, Enlisted
    <3>2. CASE events'[o] = <<>>
      BY <3>1, <3>2
    <3>3. CASE o \notin unheard /\ ~ populated
      BY <3>1, <3>3 DEF FirstListOnly
    <3>4. CASE o \notin unheard /\ populated
      BY <1>1, <2>2, <3>1, <3>4
    <3>. QED
      BY <2>1, <3>1, <3>2, <3>3, <3>4
  <2>. QED
    BY <1>1, <2>1, <2>2 DEF SeenPossible
<1>6. ASSUME NEW p \in Objects, HandleDeltas(p) PROVE SeenPossible'
  <2>1. /\ Shared!Deliver(p)
        /\ UNCHANGED <<live, possible, populated, startedInformers>>
        /\ unheard' = unheard \ {p}
    BY <1>6 DEF HandleDeltas, Shared!Deliver, factoryVars
  <2>2. ASSUME startedInformers, NEW o \in Objects
        PROVE  /\ events'[o] \in Seq(possible[o])
               /\ seen'[o] \in (IF o = p THEN possible[o] ELSE {seen[o]})
    BY <1>1, <2>1, <2>2, Delivered
  <2>. QED
    BY <1>1, <2>1, <2>2 DEF SeenPossible
<1>7. CASE Start
  <2>1. /\ UNCHANGED live /\ populated' = FALSE
        /\ \A o \in Objects : events'[o] = <<>> /\ possible'[o] = {live[o]}
    BY <1>7 DEF Start, Startable
  <2>2. \A S : <<>> \in Seq(S)
    BY EmptySeq
  <2>. QED
    BY <2>1, <2>2 DEF SeenPossible
<1>8. ASSUME NEW u \in Users, Request(u) \/ Wait(u) \/ WaitReturns(u) PROVE SeenPossible'
  BY <1>2, <1>8 DEF Request, Wait, WaitReturns, informerVars, serverVars, factoryVars
<1>9. CASE Stop \/ UNCHANGED vars
  BY <1>2, <1>9 DEF Stop, vars, informerVars, serverVars, factoryVars
<1>. QED
  BY <1>3, <1>4, <1>5, <1>6, <1>7, <1>8, <1>9, Steps

\* Before the first request.
LEMMA InvInit == Init => Inv
<1> SUFFICES ASSUME Init PROVE Inv
  OBVIOUS
<1>. USE DEF Init, Shared!Empty
<1>1. ASSUME NEW o \in Objects PROVE live[o] \in Contents /\ live[o] \in Copies(o)
  <2>1. 0 \in 0 .. MaxWrites
    BY ConfigurationInformersAssumption
  <2>2. [resourceVersion |-> 0, edits |-> {}] \in Configurations
    BY <2>1 DEF Configurations
  <2>3. live[o] \in Contents
    BY <2>2 DEF Contents
  <2>4. live[o] # Absent => live[o].resourceVersion = 0
    BY <2>2
  <2>. QED
    BY <2>3, <2>4 DEF Copies, UpToDate
<1>2. DOMAIN live = Objects /\ \A S : <<>> \in Seq(S)
  BY EmptySeq
<1>3. TypeOK
  <2>1. /\ live \in [Objects -> Contents] /\ seen \in [Objects -> Contents]
        /\ events \in [Objects -> Seq(Contents)] /\ mark \in [Objects -> Nat]
        /\ possible \in [Objects -> SUBSET Contents]
    BY <1>1, <1>2 DEF Contents
  <2>2. /\ writes \in 0 .. MaxWrites /\ breaks \in 0 .. MaxBreaks
        /\ made \in 0 .. 1 /\ informers \in 0 .. made /\ running \in {None, informers}
    BY ConfigurationInformersAssumption DEF None
  <2>3. /\ lister \in [Users -> {None, informers}]
        /\ wait \in [Users -> [state : {"idle", "waiting", "synced"},
                               informer : {None, informers}]]
        /\ working \in [Users -> [object : Objects, content : Configurations] \cup {Absent}]
    BY DEF Idle
  <2>. QED
    BY <2>1, <2>2, <2>3 DEF TypeOK
<1>4. MarksOK /\ StartedOnce /\ WaitsRight
  BY DEF MarksOK, StartedOnce, WaitsRight, Idle, None
<1>5. CopiesRight
  <2>1. \A o \in Objects : Absent \in Copies(o)
    BY DEF Copies, UpToDate, Contents
  <2>. QED
    BY <1>1, <1>2, <2>1 DEF CopiesRight
<1>6. FirstListOnly /\ SeenPossible
  BY DEF FirstListOnly, SeenPossible
<1>. QED
  BY <1>3, <1>4, <1>5, <1>6 DEF Inv

\* Inv holds of every state.
THEOREM Invariance == Spec => []Inv
<1>1. Inv /\ [Next]_vars => Inv'
  BY TypeStep, MarksStep, StartedStep, WaitsStep, CopiesStep, FirstListStep, PossibleStep
  DEF Inv
<1>. QED
  BY <1>1, InvInit, PTL DEF Spec

\* The variables of the factory, the informer, the users and the server keep
\* their types, and there is one informer.
THEOREM TypeCorrect == Spec => []TypeOK
<1>1. Inv => TypeOK
  BY DEF Inv
<1>. QED
  BY <1>1, Invariance, PTL

\* Whoever has been told that the caches have synced stays right about it:
\* further calls of Start and further lists change nothing.
THEOREM StaysSynced == Spec => []SyncedStays
<1>1. Inv => SyncedStays
  BY DEF Inv, SyncedStays, WaitsRight, StartedOnce, HasSynced
<1>. QED
  BY <1>1, Invariance, PTL

\* After WaitForCacheSync a lister returns, for every object, something that
\* the API server had since the start.
THEOREM ListerRight == Spec => []ListerShowsServer
<1>1. Inv => ListerShowsServer
  <2> SUFFICES ASSUME Inv, NEW u \in Users, NEW w \in Users,
                      wait[u].state = "synced", lister[w] # None, NEW o \in Objects
               PROVE  Indexed(w)[o] \in possible[o]
    BY DEF ListerShowsServer
  <2>1. startedInformers /\ populated /\ unheard = {}
    BY DEF Inv, WaitsRight
  <2>2. lister[w] = running
    BY <2>1 DEF Inv, TypeOK, StartedOnce
  <2>. QED
    BY <2>1, <2>2 DEF Inv, SeenPossible, Indexed
<1>. QED
  BY <1>1, Invariance, PTL

\* No accepted update removes an edit that its author has not seen.
THEOREM NoEditLost == Spec => EditsKept
<1> DEFINE Kept == \A o \in Objects :
                      live[o] # Absent /\ live'[o] # Absent
                         => live[o].edits \subseteq live'[o].edits
<1>1. Inv /\ [Next]_vars => [Kept]_vars
  <2> SUFFICES ASSUME Inv, [Next]_vars PROVE Kept
    OBVIOUS
  <2>1. CASE UNCHANGED live
    BY <2>1
  <2>2. ASSUME NEW o \in Objects, NEW v \in Contents, Writes(o, v) PROVE Kept
    <3>1. live' = [live EXCEPT ![o] = v] /\ DOMAIN live = Objects
      BY <2>2, Written DEF Inv, TypeOK, Writes
    <3>. QED
      BY <2>2, <3>1 DEF Writes
  <2>3. CASE ClientStep
    BY <2>1, <2>2, <2>3 DEF ClientStep, serverVars
  <2>4. CASE ~ ClientStep
    <3>1. UNCHANGED live
      BY <2>4, Steps DEF Inv, Request, Wait, WaitReturns, HandleDeltas, Start, Stop, FirstList,
         ListAgain, Enlist, vars, serverVars, Shared!Deliver, Shared!List, Shared!Enlist
    <3>. QED
      BY <2>1, <3>1
  <2>. QED
    BY <2>3, <2>4
<1>. QED
  BY <1>1, Invariance, PTL DEF Spec, EditsKept
=============================================================================
