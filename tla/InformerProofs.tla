--------------------------- MODULE InformerProofs ---------------------------
(***************************************************************************)
(* The invariants of Informer, and that it implements ObjectEvents, for    *)
(* any finite set of objects and any number of changes and lost watches.   *)
(***************************************************************************)
EXTENDS Informer, FiniteSetTheorems, SequenceTheorems, TLAPS

\* An object being processed has deltas left, and none is queued behind them.
HandMatches == /\ popped = Absent <=> inHand = <<>>
               /\ popped # Absent => ~ Queued(popped)

\* Before the first list is queued, the informer knows nothing.
FreshBefore == ~ populated => /\ reflector # "watch"
                              /\ queue = <<>> /\ popped = Absent
                              /\ store = [o \in Objects |-> Absent]
                              /\ unheard = {} /\ initialPopulationCount = 0

\* The objects the counter counts: they are at the front of the queue.
Counted == {queue[i] : i \in 1 .. initialPopulationCount}

\* Those are the unheard ones, with the one whose first delta is in hand.
CountedUnheard == /\ initialPopulationCount <= Len(queue)
                  /\ Counted \subseteq unheard
                  /\ unheard \subseteq Counted \cup {popped}

\* No change of o is in the stream behind its first n changes.
NothingAfter(o, n) == \A i \in DOMAIN stream : i > n => stream[i][1] # o

\* The last change of an object in the stream has brought it where it is.
StreamEndsLive ==
    \A o \in Objects, i \in DOMAIN stream :
        stream[i][1] = o /\ NothingAfter(o, i) => stream[i][2] = live[o]

\* The list is right about the objects that have not changed since.
ListRight == reflector = "replace" =>
                /\ cut <= Len(stream)
                /\ \A o \in Objects : NothingAfter(o, cut) => snapshot[o] = live[o]

\* What the store will have of o when all its deltas are processed.
Final(o) == IF Queued(o)   THEN Last(items[o])
            ELSE IF popped = o THEN Last(inHand)
            ELSE store[o]

\* If no change of an object is to come, the store will be right about it,
\* unless it is astray.
WillBeRight == reflector = "watch" =>
                  \A o \in Objects :
                     NothingAfter(o, 0) => (Final(o) = live[o] <=> o \notin astray)

Inv == /\ TypeOK
       /\ QueueMatchesItems
       /\ HandMatches
       /\ FreshBefore
       /\ CountedUnheard

CurrentInv == StreamEndsLive /\ ListRight /\ WillBeRight
-----------------------------------------------------------------------------
\* SetToSeqs enumerates a finite set without repetition.
LEMMA SetToSeqsSpec ==
    ASSUME NEW S, IsFiniteSet(S), NEW f \in SetToSeqs(S)
    PROVE  /\ f \in Seq(S) /\ Len(f) = Cardinality(S)
           /\ Range(f) = S
           /\ IsInjective(f)
<1> DEFINE D == 1 .. Cardinality(S)
<1>1. Cardinality(S) \in Nat
  BY FS_CardinalityType
<1>2. f \in [D -> S] /\ \A i, j \in D : i # j => f[i] # f[j]
  BY DEF SetToSeqs
<1>3. f \in Seq(S) /\ Len(f) = Cardinality(S) /\ DOMAIN f = D
  BY <1>1, <1>2
<1>4. f \in Injection(D, S)
  BY <1>2 DEF Injection, IsInjective
<1>5. Cardinality(D) = Cardinality(S)
  BY <1>1, FS_Interval
<1>6. f \in Surjection(D, S)
  BY <1>4, <1>5, FS_Injection
<1>7. Range(f) = S
  BY <1>2, <1>6 DEF Surjection, Range
<1>. QED
  BY <1>2, <1>3, <1>7 DEF IsInjective

\* Sequences without repetition and without common elements are joined to one
\* without repetition.
LEMMA InjectiveConcat ==
    ASSUME NEW S, NEW s \in Seq(S), NEW t \in Seq(S),
           IsInjective(s), IsInjective(t), Range(s) \cap Range(t) = {}
    PROVE  IsInjective(s \o t)
<1> DEFINE st == s \o t
<1>1. /\ DOMAIN s = 1 .. Len(s) /\ DOMAIN t = 1 .. Len(t)
      /\ DOMAIN st = 1 .. Len(s) + Len(t)
      /\ Len(s) \in Nat /\ Len(t) \in Nat
  OBVIOUS
<1>2. \A i \in DOMAIN st : st[i] = IF i <= Len(s) THEN s[i] ELSE t[i - Len(s)]
  OBVIOUS
<1>3. \A i \in DOMAIN s, j \in DOMAIN t : s[i] # t[j]
  BY DEF Range
<1>. SUFFICES ASSUME NEW i \in DOMAIN st, NEW j \in DOMAIN st, st[i] = st[j]
              PROVE  i = j
  BY DEF IsInjective
<1>4. CASE i <= Len(s) /\ j <= Len(s)
  BY <1>1, <1>2, <1>4 DEF IsInjective
<1>5. CASE i > Len(s) /\ j > Len(s)
  <2>1. i - Len(s) \in DOMAIN t /\ j - Len(s) \in DOMAIN t
    BY <1>1, <1>5
  <2>2. t[i - Len(s)] = t[j - Len(s)]
    BY <1>1, <1>2, <1>5
  <2>3. i - Len(s) = j - Len(s)
    BY <2>1, <2>2 DEF IsInjective
  <2>. QED
    BY <1>1, <2>3
<1>6. CASE i <= Len(s) /\ j > Len(s)
  <2>1. i \in DOMAIN s /\ j - Len(s) \in DOMAIN t
    BY <1>1, <1>6
  <2>. QED
    BY <1>1, <1>2, <1>3, <1>6, <2>1
<1>7. CASE i > Len(s) /\ j <= Len(s)
  <2>1. j \in DOMAIN s /\ i - Len(s) \in DOMAIN t
    BY <1>1, <1>7
  <2>. QED
    BY <1>1, <1>2, <1>3, <1>7, <2>1
<1>. QED
  BY <1>1, <1>4, <1>5, <1>6, <1>7

\* The first n elements of a sequence without repetition are n.
LEMMA PrefixCardinality ==
    ASSUME NEW S, NEW s \in Seq(S), IsInjective(s), NEW n \in 0 .. Len(s)
    PROVE  Cardinality({s[i] : i \in 1 .. n}) = n
<1> DEFINE P == {s[i] : i \in 1 .. n}
           f == [i \in 1 .. n |-> s[i]]
<1>1. DOMAIN s = 1 .. Len(s) /\ Len(s) \in Nat
  OBVIOUS
<1>2. f \in [1 .. n -> P] /\ \A i, j \in 1 .. n : f[i] = f[j] => i = j
  BY <1>1 DEF IsInjective
<1>3. f \in Injection(1 .. n, P)
  BY <1>2 DEF Injection, IsInjective
<1>4. f \in Surjection(1 .. n, P)
  BY <1>2 DEF Surjection
<1>5. ExistsBijection(1 .. n, P)
  BY <1>3, <1>4 DEF ExistsBijection, Bijection
<1>6. IsFiniteSet(1 .. n) /\ Cardinality(1 .. n) = n
  BY <1>1, FS_Interval
<1>. QED
  BY <1>5, <1>6, FS_Bijection

\* Appending a new element repeats nothing.
LEMMA InjectiveAppend ==
    ASSUME NEW S, NEW s \in Seq(S), NEW e \in S, IsInjective(s), e \notin Range(s)
    PROVE  /\ IsInjective(Append(s, e))
           /\ Range(Append(s, e)) = Range(s) \cup {e}
<1>1. <<e>> \in Seq(S) /\ Append(s, e) = s \o <<e>>
  BY AppendIsConcat
<1>2. IsInjective(<<e>>) /\ Range(<<e>>) = {e}
  BY DEF IsInjective, Range
<1>3. Range(s) \cap Range(<<e>>) = {}
  BY <1>2
<1>4. IsInjective(s \o <<e>>)
  BY <1>1, <1>2, <1>3, InjectiveConcat
<1>5. Range(s \o <<e>>) = Range(s) \cup {e}
  <2>1. ASSUME NEW t \in Seq(S) PROVE Range(s \o t) = Range(s) \cup Range(t)
    BY RangeConcatenation
  <2>. QED
    BY <1>1, <1>2, <2>1
<1>. QED
  BY <1>1, <1>4, <1>5

\* Without its head, a sequence without repetition has everything else.
LEMMA InjectiveTail ==
    ASSUME NEW S, NEW s \in Seq(S), IsInjective(s), s # <<>>
    PROVE  /\ IsInjective(Tail(s))
           /\ Range(Tail(s)) = Range(s) \ {Head(s)}
<1>1. /\ DOMAIN s = 1 .. Len(s) /\ Len(s) \in Nat \ {0}
      /\ DOMAIN Tail(s) = 1 .. Len(s) - 1
      /\ \A i \in 1 .. Len(s) - 1 : Tail(s)[i] = s[i + 1]
      /\ Head(s) = s[1]
  OBVIOUS
<1>2. IsInjective(Tail(s))
  <2>. SUFFICES ASSUME NEW i \in 1 .. Len(s) - 1, NEW j \in 1 .. Len(s) - 1,
                       s[i + 1] = s[j + 1]
                PROVE  i = j
    BY <1>1 DEF IsInjective
  <2>1. i + 1 \in DOMAIN s /\ j + 1 \in DOMAIN s
    BY <1>1
  <2>2. i + 1 = j + 1
    BY <2>1 DEF IsInjective
  <2>. QED
    BY <2>2
<1>3. \A i \in 2 .. Len(s) : i - 1 \in DOMAIN Tail(s) /\ Tail(s)[i - 1] = s[i]
  BY <1>1
<1>4. \A i \in 1 .. Len(s) - 1 : i + 1 \in DOMAIN s /\ s[i + 1] # s[1]
  <2>. TAKE i \in 1 .. Len(s) - 1
  <2>1. i + 1 \in DOMAIN s /\ 1 \in DOMAIN s /\ i + 1 # 1
    BY <1>1
  <2>. QED
    BY <2>1 DEF IsInjective
<1>5. Range(Tail(s)) \subseteq Range(s) \ {Head(s)}
  BY <1>1, <1>4 DEF Range
<1>6. Range(s) \ {Head(s)} \subseteq Range(Tail(s))
  <2>. SUFFICES ASSUME NEW i \in DOMAIN s, s[i] # s[1]
                PROVE  s[i] \in Range(Tail(s))
    BY <1>1 DEF Range
  <2>1. i \in 2 .. Len(s)
    BY <1>1
  <2>. QED
    BY <1>3, <2>1 DEF Range
<1>. QED
  BY <1>2, <1>5, <1>6
-----------------------------------------------------------------------------
\* An object that is queued has deltas, and the newest is the one queued,
\* unless a Deleted swallows it.
LEMMA NewDeltasSpec ==
    ASSUME TypeOK, NEW o \in Objects, NEW v \in Contents, NEW type
    PROVE  LET deltas == NewDeltas(o, v, type)
           IN  /\ deltas \in Seq(Contents) /\ deltas # <<>>
               /\ Last(deltas) = IF WillBeDeleted(o) /\ type \in {"Sync", "Deleted"}
                                 THEN Absent ELSE v
<1>1. items[o] \in Seq(Contents)
  BY DEF TypeOK
<1>2. CASE WillBeDeleted(o) /\ type \in {"Sync", "Deleted"}
  BY <1>1, <1>2 DEF NewDeltas, WillBeDeleted
<1>3. CASE ~ (WillBeDeleted(o) /\ type \in {"Sync", "Deleted"})
  <2>1. NewDeltas(o, v, type) = Append(items[o], v)
    BY <1>3 DEF NewDeltas
  <2>2. /\ Append(items[o], v) \in Seq(Contents)
        /\ Append(items[o], v) # <<>>
        /\ Last(Append(items[o], v)) = v
    BY <1>1, AppendProperties DEF Last
  <2>. QED
    BY <1>3, <2>1, <2>2
<1>. QED
  BY <1>2, <1>3

\* What Replace leaves for each object.
LEMMA ReplaceItems ==
    ASSUME TypeOK, Replace, NEW o \in Objects
    PROVE  /\ items'[o] \in Seq(Contents)
           /\ Queued(o)' <=> Queued(o) \/ o \in Listed \cup Missing
           /\ o \in Listed =>
                 Last(items'[o]) = IF WillBeDeleted(o) THEN Absent ELSE snapshot[o]
           /\ o \in Missing => Last(items'[o]) = Absent
           /\ o \notin Listed \cup Missing => items'[o] = items[o]
<1>1. items'[o] = CASE o \in Listed  -> NewDeltas(o, snapshot[o], "Sync")
                    [] o \in Missing -> NewDeltas(o, Absent, "Deleted")
                    [] OTHER         -> items[o]
  BY DEF Replace
<1>2. snapshot[o] \in Contents /\ Absent \in Contents /\ items[o] \in Seq(Contents)
  BY DEF TypeOK, Contents
<1>3. o \in Listed => o \notin Missing
  BY DEF Missing
<1>4. CASE o \in Listed
  <2>1. items'[o] = NewDeltas(o, snapshot[o], "Sync")
    BY <1>1, <1>3, <1>4
  <2>2. /\ items'[o] \in Seq(Contents) /\ items'[o] # <<>>
        /\ Last(items'[o]) = IF WillBeDeleted(o) THEN Absent ELSE snapshot[o]
    BY <1>2, <2>1, NewDeltasSpec
  <2>. QED
    BY <1>3, <1>4, <2>2 DEF Queued
<1>5. CASE o \in Missing
  <2>1. items'[o] = NewDeltas(o, Absent, "Deleted")
    BY <1>1, <1>3, <1>5
  <2>2. /\ items'[o] \in Seq(Contents) /\ items'[o] # <<>>
        /\ Last(items'[o]) = Absent
    BY <1>2, <2>1, NewDeltasSpec
  <2>. QED
    BY <1>3, <1>5, <2>2 DEF Queued
<1>6. CASE o \notin Listed \cup Missing
  BY <1>1, <1>2, <1>6 DEF Queued
<1>. QED
  BY <1>4, <1>5, <1>6

\* Replace queues the objects that are listed or missing and not queued yet.
\* Of the first list none is missing.
LEMMA ReplaceQueue ==
    ASSUME Inv, Replace
    PROVE  \E added \in Seq(Objects) :
              /\ queue' = queue \o added
              /\ Range(added) = {o \in Listed \cup Missing : ~ Queued(o)}
              /\ IsInjective(added)
              /\ ~ populated => Len(added) = Cardinality(Listed) /\ Missing = {}
<1> DEFINE L == {o \in Listed : ~ Queued(o)}
           M == {o \in Missing : ~ Queued(o)}
<1>1. PICK listed \in SetToSeqs(L), missing \in SetToSeqs(M) :
              queue' = queue \o listed \o missing
  BY DEF Replace
<1>2. IsFiniteSet(L) /\ IsFiniteSet(M)
  BY InformerAssumption, FS_Subset DEF Listed, Missing
<1>3. /\ listed \in Seq(L) /\ Len(listed) = Cardinality(L)
      /\ Range(listed) = L /\ IsInjective(listed)
  BY <1>2, SetToSeqsSpec
<1>4. /\ missing \in Seq(M) /\ Len(missing) = Cardinality(M)
      /\ Range(missing) = M /\ IsInjective(missing)
  BY <1>2, SetToSeqsSpec
<1>5. listed \in Seq(Objects) /\ missing \in Seq(Objects)
  <2>1. L \subseteq Objects /\ M \subseteq Objects
    BY DEF Listed, Missing
  <2>. QED
    BY <1>3, <1>4, <2>1, SeqMonotonic
<1>6. L \cap M = {}
  BY DEF Missing
<1> DEFINE added == listed \o missing
<1>7. added \in Seq(Objects) /\ queue \in Seq(Objects)
  BY <1>5 DEF Inv, TypeOK
<1>8. queue' = queue \o added
  BY <1>1, <1>5, <1>7, ConcatAssociative
<1>9. Range(added) = {o \in Listed \cup Missing : ~ Queued(o)}
  BY <1>3, <1>4, <1>5, RangeConcatenation
<1>10. IsInjective(added)
  BY <1>3, <1>4, <1>5, <1>6, InjectiveConcat
<1>11. ASSUME ~ populated
       PROVE  Len(added) = Cardinality(Listed) /\ Missing = {}
  <2>1. queue = <<>> /\ \A o \in Objects : store[o] = Absent
    BY <1>11 DEF Inv, FreshBefore
  <2>2. Missing = {}
    BY <2>1 DEF Missing
  <2>3. \A o \in Objects : ~ Queued(o)
    <3>1. Range(queue) = {}
      BY <2>1 DEF Range
    <3>. QED
      BY <3>1 DEF Inv, QueueMatchesItems
  <2>4. L = Listed /\ M = {}
    BY <2>2, <2>3 DEF Listed
  <2>5. Len(missing) = 0
    BY <1>4, <2>4, FS_EmptySet
  <2>6. Len(added) = Len(listed) + Len(missing) /\ Len(listed) \in Nat
    BY <1>5
  <2>7. Len(listed) = Cardinality(Listed)
    BY <1>3, <2>4
  <2>8. Len(added) = Cardinality(Listed)
    BY <2>5, <2>6, <2>7
  <2>. QED
    BY <2>2, <2>8
<1>. QED
  BY <1>7, <1>8, <1>9, <1>10, <1>11
-----------------------------------------------------------------------------
\* The counter stays within the number of objects.
LEMMA ListedCardinality ==
    Cardinality(Listed) \in 0 .. Cardinality(Objects)
<1>1. IsFiniteSet(Listed) /\ Cardinality(Listed) <= Cardinality(Objects)
  BY InformerAssumption, FS_Subset DEF Listed
<1>. QED
  BY <1>1, InformerAssumption, FS_CardinalityType

\* What Pop takes: an object that is queued, with all its deltas.
LEMMA PopSpec ==
    ASSUME Inv, Pop
    PROVE  /\ popped' = Head(queue) /\ popped' \in Objects
           /\ Queued(popped') /\ inHand' = items[popped']
           /\ items' = [items EXCEPT ![popped'] = <<>>]
           /\ queue # <<>> /\ queue' = Tail(queue) /\ queue' \in Seq(Objects)
<1>1. queue \in Seq(Objects) /\ queue # <<>>
  BY DEF Inv, TypeOK, Pop
<1>2. Head(queue) \in Objects /\ Tail(queue) \in Seq(Objects)
  BY <1>1, HeadTailProperties
<1>3. Head(queue) \in Range(queue)
  BY <1>1 DEF Range
<1>4. Queued(Head(queue))
  BY <1>3 DEF Inv, QueueMatchesItems
<1>. QED
  BY <1>1, <1>2, <1>4 DEF Pop

\* What Process takes: the oldest delta of the object popped.
LEMMA ProcessSpec ==
    ASSUME Inv, Process
    PROVE  /\ popped \in Objects /\ ~ Queued(popped)
           /\ inHand # <<>> /\ Head(inHand) \in Contents
           /\ inHand' = Tail(inHand) /\ inHand' \in Seq(Contents)
           /\ popped' = IF inHand' = <<>> THEN Absent ELSE popped
           /\ Last(inHand) = IF inHand' = <<>> THEN Head(inHand) ELSE Last(inHand')
           /\ store' = [store EXCEPT ![popped] = Head(inHand)]
<1>1. popped # Absent /\ popped \in Objects /\ ~ Queued(popped)
  BY DEF Inv, TypeOK, HandMatches, Process, LockFree
<1>2. inHand \in Seq(Contents) /\ inHand # <<>>
  BY <1>1 DEF Inv, TypeOK, HandMatches
<1>3. /\ Head(inHand) \in Contents /\ Tail(inHand) \in Seq(Contents)
      /\ Len(Tail(inHand)) = Len(inHand) - 1
      /\ Len(inHand) \in Nat \ {0}
      /\ \A i \in 1 .. Len(Tail(inHand)) : Tail(inHand)[i] = inHand[i + 1]
      /\ Head(inHand) = inHand[1]
  BY <1>2, HeadTailProperties
<1>4. Tail(inHand) = <<>> <=> Len(inHand) = 1
  BY <1>3, EmptySeq
<1>5. Last(inHand) = IF Tail(inHand) = <<>> THEN Head(inHand) ELSE Last(Tail(inHand))
  BY <1>3, <1>4 DEF Last
<1>. QED
  BY <1>1, <1>2, <1>3, <1>4, <1>5 DEF Process

\* Every step keeps the types.
LEMMA TypeStep == Inv /\ [Next]_vars => TypeOK'
<1>. SUFFICES ASSUME Inv, [Next]_vars PROVE TypeOK'
  OBVIOUS
<1>. USE InformerAssumption
<1>1. TypeOK
  BY DEF Inv
<1>2. ASSUME NEW o \in Objects, NEW v \in Contents, Change(o, v)
      PROVE  TypeOK'
  <2>1. stream' \in Seq(Objects \X Contents)
    BY <1>1, <1>2 DEF Change, TypeOK
  <2>2. changes' \in 0 .. MaxChanges
    BY <1>1, <1>2 DEF Change, TypeOK
  <2>3. live' \in [Objects -> Contents]
    BY <1>1, <1>2 DEF Change, TypeOK
  <2>. QED
    BY <1>1, <1>2, <2>1, <2>2, <2>3
       DEF Change, TypeOK, reflectorVars, fifoVars, processVars
<1>3. CASE List
  BY <1>1, <1>3 DEF List, TypeOK, serverVars, fifoVars, processVars
<1>4. CASE Replace
  <2>1. items' \in [Objects -> Seq(Contents)]
    <3>1. DOMAIN items' = Objects /\ items' = [o \in Objects |-> items'[o]]
      BY <1>4 DEF Replace
    <3>2. \A o \in Objects : items'[o] \in Seq(Contents)
      BY <1>1, <1>4, ReplaceItems
    <3>. QED
      BY <3>1, <3>2
  <2>2. queue' \in Seq(Objects)
    <3>1. PICK added \in Seq(Objects) : queue' = queue \o added
      BY <1>4, ReplaceQueue
    <3>. QED
      BY <1>1, <3>1 DEF TypeOK
  <2>3. stream' \in Seq(Objects \X Contents)
    <3>1. stream' = SubSeq(stream, cut + 1, Len(stream))
      BY <1>4 DEF Replace
    <3>2. stream \in Seq(Objects \X Contents) /\ cut \in Nat
      BY <1>1 DEF TypeOK
    <3>3. \A i \in cut + 1 .. Len(stream) : stream[i] \in Objects \X Contents
      BY <3>2
    <3>. QED
      BY <3>1, <3>2, <3>3, SubSeqProperties
  <2>4. initialPopulationCount' \in 0 .. Cardinality(Objects)
    <3>1. CASE populated
      BY <1>1, <1>4, <3>1 DEF Replace, TypeOK
    <3>2. CASE ~ populated
      <4>1. Missing = {}
        BY <1>4, <3>2, ReplaceQueue
      <4>2. Listed \cup Missing = Listed
        BY <4>1
      <4>. QED
        BY <1>4, <3>2, <4>2, ListedCardinality DEF Replace
    <3>. QED
      BY <3>1, <3>2
  <2>5. unheard' \subseteq Objects /\ astray' \subseteq Objects
    BY <1>1, <1>4 DEF Replace, TypeOK, Listed
  <2>6. populated' \in BOOLEAN /\ reflector' \in {"list", "replace", "watch"}
    BY <1>4 DEF Replace
  <2>7. UNCHANGED <<live, changes, breaks, snapshot, cut, processVars>>
    BY <1>4 DEF Replace
  <2>. QED
    BY <1>1, <2>1, <2>2, <2>3, <2>4, <2>5, <2>6, <2>7 DEF TypeOK, processVars
<1>5. CASE WatchEvent
  <2>1. PICK o \in Objects, v \in Contents : Head(stream) = <<o, v>>
    <3>1. Head(stream) \in Objects \X Contents
      BY <1>1, <1>5, HeadTailProperties DEF TypeOK, WatchEvent
    <3>. QED
      BY <3>1
  <2>2. stream' \in Seq(Objects \X Contents)
    BY <1>1, <1>5, HeadTailProperties DEF TypeOK, WatchEvent
  <2> DEFINE type == IF v = Absent THEN "Deleted" ELSE "Updated"
  <2>3. \/ UNCHANGED <<items, queue>>
        \/ /\ items' = [items EXCEPT ![o] = NewDeltas(o, v, type)]
           /\ queue' = IF Queued(o) THEN queue ELSE Append(queue, o)
    BY <1>5, <2>1 DEF WatchEvent
  <2>4. NewDeltas(o, v, type) \in Seq(Contents)
    BY <1>1, NewDeltasSpec
  <2>. HIDE DEF type
  <2>5. items' \in [Objects -> Seq(Contents)]
    BY <1>1, <2>3, <2>4 DEF TypeOK
  <2>6. queue' \in Seq(Objects)
    <3>1. queue \in Seq(Objects) /\ Append(queue, o) \in Seq(Objects)
      BY <1>1, AppendProperties DEF TypeOK
    <3>. QED
      BY <2>3, <3>1
  <2>7. astray' \subseteq Objects
    BY <1>1, <1>5 DEF WatchEvent, TypeOK
  <2>8. UNCHANGED <<live, changes, reflectorVars, populated,
                    initialPopulationCount, processVars, unheard>>
    BY <1>5 DEF WatchEvent
  <2>. QED
    BY <1>1, <2>2, <2>5, <2>6, <2>7, <2>8 DEF TypeOK, reflectorVars, processVars
<1>6. CASE WatchBroken
  BY <1>1, <1>6 DEF WatchBroken, TypeOK, serverVars, fifoVars, processVars
<1>7. CASE Pop
  <2>1. inHand' \in Seq(Contents) /\ items' \in [Objects -> Seq(Contents)]
    <3>1. items \in [Objects -> Seq(Contents)] /\ <<>> \in Seq(Contents)
      BY <1>1 DEF TypeOK
    <3>2. popped' \in Objects /\ inHand' = items[popped']
      BY <1>7, PopSpec
    <3>3. items' = [items EXCEPT ![popped'] = <<>>]
      BY <1>7, PopSpec
    <3>. QED
      BY <3>1, <3>2, <3>3
  <2>2. initialPopulationCount' \in 0 .. Cardinality(Objects)
    <3>1. Cardinality(Objects) \in Nat
      BY FS_CardinalityType
    <3>. QED
      BY <1>1, <1>7, <3>1 DEF Pop, TypeOK
  <2>3. queue' \in Seq(Objects) /\ popped' \in Objects
    BY <1>7, PopSpec
  <2>. QED
    BY <1>1, <1>7, <2>1, <2>2, <2>3 DEF Pop, TypeOK, serverVars, reflectorVars
<1>8. CASE Process
  <2>1. /\ inHand' \in Seq(Contents) /\ popped' \in Objects \cup {Absent}
        /\ store' \in [Objects -> Contents]
    BY <1>1, <1>8, ProcessSpec DEF TypeOK
  <2>. QED
    BY <1>1, <1>8, <2>1 DEF Process, TypeOK, serverVars, reflectorVars, fifoVars
<1>9. CASE UNCHANGED vars
  BY <1>1, <1>9
     DEF TypeOK, vars, serverVars, reflectorVars, fifoVars, processVars
<1>. QED
  BY <1>2, <1>3, <1>4, <1>5, <1>6, <1>7, <1>8, <1>9 DEF Next

\* Every step keeps the map and the slice of the DeltaFIFO in agreement.
LEMMA QueueStep == Inv /\ [Next]_vars => QueueMatchesItems'
<1>. SUFFICES ASSUME Inv, [Next]_vars PROVE QueueMatchesItems'
  OBVIOUS
<1>1. TypeOK /\ QueueMatchesItems
  BY DEF Inv
<1>2. queue \in Seq(Objects) /\ items \in [Objects -> Seq(Contents)]
  BY <1>1 DEF TypeOK
<1>3. ASSUME UNCHANGED <<items, queue>>
      PROVE  QueueMatchesItems'
  BY <1>1, <1>3 DEF QueueMatchesItems, Queued
<1>4. ASSUME NEW o \in Objects, NEW v \in Contents, Change(o, v)
      PROVE  QueueMatchesItems'
  BY <1>3, <1>4 DEF Change, fifoVars
<1>5. CASE List
  BY <1>3, <1>5 DEF List, fifoVars
<1>6. CASE Replace
  <2>1. PICK added \in Seq(Objects) :
               /\ queue' = queue \o added
               /\ Range(added) = {o \in Listed \cup Missing : ~ Queued(o)}
               /\ IsInjective(added)
    BY <1>6, ReplaceQueue
  <2>2. Range(queue') = Range(queue) \cup Range(added)
    BY <1>2, <2>1, RangeConcatenation
  <2>3. \A o \in Objects : Queued(o)' <=> Queued(o) \/ o \in Listed \cup Missing
    BY <1>1, <1>6, ReplaceItems
  <2>4. Listed \cup Missing \subseteq Objects
    BY DEF Listed, Missing
  <2>5. Range(queue) = {o \in Objects : Queued(o)} /\ IsInjective(queue)
    BY <1>1 DEF QueueMatchesItems
  <2>6. Range(queue') = {o \in Objects : Queued(o)'}
    BY <2>1, <2>2, <2>3, <2>4, <2>5
  <2>7. IsInjective(queue')
    <3>1. Range(queue) \cap Range(added) = {}
      BY <2>1, <2>5
    <3>. QED
      BY <1>2, <2>1, <2>5, <3>1, InjectiveConcat
  <2>. QED
    BY <2>6, <2>7 DEF QueueMatchesItems
<1>7. CASE WatchEvent
  <2>1. PICK o \in Objects, v \in Contents : Head(stream) = <<o, v>>
    <3>1. Head(stream) \in Objects \X Contents
      BY <1>1, <1>7, HeadTailProperties DEF TypeOK, WatchEvent
    <3>. QED
      BY <3>1
  <2> DEFINE type == IF v = Absent THEN "Deleted" ELSE "Updated"
             deltas == NewDeltas(o, v, type)
  <2>2. \/ UNCHANGED <<items, queue>>
        \/ /\ items' = [items EXCEPT ![o] = deltas]
           /\ queue' = IF Queued(o) THEN queue ELSE Append(queue, o)
    BY <1>7, <2>1 DEF WatchEvent
  <2>3. deltas \in Seq(Contents) /\ deltas # <<>>
    BY <1>1, NewDeltasSpec
  <2>. HIDE DEF deltas
  <2>4. ASSUME items' = [items EXCEPT ![o] = deltas],
               queue' = IF Queued(o) THEN queue ELSE Append(queue, o)
        PROVE  QueueMatchesItems'
    <3>1. \A p \in Objects : Queued(p)' <=> Queued(p) \/ p = o
      BY <1>2, <2>3, <2>4 DEF Queued
    <3>2. Range(queue) = {p \in Objects : Queued(p)} /\ IsInjective(queue)
      BY <1>1 DEF QueueMatchesItems
    <3>3. CASE Queued(o)
      BY <2>4, <3>1, <3>2, <3>3 DEF QueueMatchesItems
    <3>4. CASE ~ Queued(o)
      <4>1. o \notin Range(queue) /\ queue' = Append(queue, o)
        BY <2>4, <3>2, <3>4
      <4>2. IsInjective(queue') /\ Range(queue') = Range(queue) \cup {o}
        BY <1>2, <3>2, <4>1, InjectiveAppend
      <4>. QED
        BY <3>1, <3>2, <4>2 DEF QueueMatchesItems
    <3>. QED
      BY <3>3, <3>4
  <2>. QED
    BY <1>3, <2>2, <2>4
<1>8. CASE WatchBroken
  BY <1>3, <1>8 DEF WatchBroken, fifoVars
<1>9. CASE Pop
  <2>1. /\ popped' = Head(queue) /\ popped' \in Objects /\ queue # <<>>
        /\ items' = [items EXCEPT ![popped'] = <<>>] /\ queue' = Tail(queue)
    BY <1>9, PopSpec
  <2>2. \A o \in Objects : Queued(o)' <=> Queued(o) /\ o # popped'
    BY <1>2, <2>1 DEF Queued
  <2>3. Range(queue) = {o \in Objects : Queued(o)} /\ IsInjective(queue)
    BY <1>1 DEF QueueMatchesItems
  <2>4. IsInjective(queue') /\ Range(queue') = Range(queue) \ {popped'}
    BY <1>2, <2>1, <2>3, InjectiveTail
  <2>. QED
    BY <2>2, <2>3, <2>4 DEF QueueMatchesItems
<1>10. CASE Process
  BY <1>3, <1>10 DEF Process, fifoVars
<1>11. CASE UNCHANGED vars
  BY <1>3, <1>11 DEF vars, fifoVars
<1>. QED
  BY <1>4, <1>5, <1>6, <1>7, <1>8, <1>9, <1>10, <1>11 DEF Next

\* Every step keeps an object in hand as long as it has deltas left.
LEMMA HandStep == Inv /\ [Next]_vars => HandMatches'
<1>. SUFFICES ASSUME Inv, [Next]_vars PROVE HandMatches'
  OBVIOUS
<1>. USE InformerAssumption
<1>1. HandMatches
  BY DEF Inv
<1>2. ASSUME UNCHANGED <<popped, inHand>>, LockFree \/ UNCHANGED items
      PROVE  HandMatches'
  BY <1>1, <1>2 DEF HandMatches, Queued, LockFree
<1>3. ASSUME NEW o \in Objects, NEW v \in Contents, Change(o, v)
      PROVE  HandMatches'
  BY <1>2, <1>3 DEF Change, fifoVars, processVars
<1>4. CASE List
  BY <1>2, <1>4 DEF List, fifoVars, processVars
<1>5. CASE Replace
  BY <1>2, <1>5 DEF Replace, processVars
<1>6. CASE WatchEvent
  BY <1>2, <1>6 DEF WatchEvent, processVars
<1>7. CASE WatchBroken
  BY <1>2, <1>7 DEF WatchBroken, fifoVars, processVars
<1>8. CASE Pop
  <2>1. /\ popped' \in Objects /\ Queued(popped') /\ inHand' = items[popped']
        /\ items' = [items EXCEPT ![popped'] = <<>>]
    BY <1>8, PopSpec
  <2>2. popped' # Absent /\ inHand' # <<>>
    BY <2>1 DEF Queued
  <2>3. items'[popped'] = <<>>
    BY <2>1 DEF Inv, TypeOK
  <2>. QED
    BY <2>2, <2>3 DEF HandMatches, Queued
<1>9. CASE Process
  <2>1. popped \in Objects /\ ~ Queued(popped)
    BY <1>9, ProcessSpec
  <2>2. popped' = IF inHand' = <<>> THEN Absent ELSE popped
    BY <1>9, ProcessSpec
  <2>3. UNCHANGED items
    BY <1>9 DEF Process, fifoVars
  <2>. QED
    BY <2>1, <2>2, <2>3 DEF HandMatches, Queued
<1>10. CASE UNCHANGED vars
  BY <1>2, <1>10 DEF vars, fifoVars, processVars
<1>. QED
  BY <1>3, <1>4, <1>5, <1>6, <1>7, <1>8, <1>9, <1>10 DEF Next

\* No step tells the informer anything before the first list is queued.
LEMMA FreshStep == Inv /\ [Next]_vars => FreshBefore'
<1>. SUFFICES ASSUME Inv, [Next]_vars, ~ populated'
              PROVE  FreshBefore'
  BY DEF FreshBefore
<1>1. ASSUME populated' = populated
      PROVE  /\ reflector # "watch" /\ queue = <<>> /\ popped = Absent
             /\ store = [o \in Objects |-> Absent]
             /\ unheard = {} /\ initialPopulationCount = 0
  BY <1>1 DEF Inv, FreshBefore
<1>2. ASSUME NEW o \in Objects, NEW v \in Contents, Change(o, v)
      PROVE  FreshBefore'
  BY <1>1, <1>2 DEF Change, FreshBefore, reflectorVars, fifoVars, processVars
<1>3. CASE List
  BY <1>1, <1>3 DEF List, FreshBefore, fifoVars, processVars
<1>4. CASE Replace
  BY <1>4 DEF Replace
<1>5. CASE WatchEvent
  BY <1>1, <1>5 DEF WatchEvent
<1>6. CASE WatchBroken
  BY <1>1, <1>6 DEF WatchBroken, fifoVars
<1>7. CASE Pop
  BY <1>1, <1>7 DEF Pop
<1>8. CASE Process
  BY <1>1, <1>8 DEF Process, LockFree, fifoVars
<1>9. CASE UNCHANGED vars
  BY <1>1, <1>9 DEF FreshBefore, vars, reflectorVars, fifoVars, processVars
<1>. QED
  BY <1>2, <1>3, <1>4, <1>5, <1>6, <1>7, <1>8, <1>9 DEF Next

\* What is appended to the queue is not counted.
LEMMA CountedGrows ==
    ASSUME Inv, NEW added \in Seq(Objects), queue' = queue \o added,
           UNCHANGED <<initialPopulationCount, unheard, popped>>
    PROVE  CountedUnheard'
<1>1. /\ queue \in Seq(Objects) /\ initialPopulationCount \in Nat
      /\ initialPopulationCount <= Len(queue)
  BY InformerAssumption, FS_CardinalityType DEF Inv, TypeOK, CountedUnheard
<1>2. Len(queue') = Len(queue) + Len(added) /\ Len(added) \in Nat /\ Len(queue) \in Nat
  BY <1>1, ConcatProperties
<1>3. \A i \in 1 .. initialPopulationCount : queue'[i] = queue[i]
  BY <1>1, <1>2
<1>4. Counted' = Counted
  BY <1>3 DEF Counted
<1>. QED
  BY <1>1, <1>2, <1>4 DEF Inv, CountedUnheard

\* Every step keeps the unheard objects at the front of the queue.
LEMMA CountedStep == Inv /\ [Next]_vars => CountedUnheard'
<1>. SUFFICES ASSUME Inv, [Next]_vars PROVE CountedUnheard'
  OBVIOUS
<1>. USE InformerAssumption
<1>1. /\ CountedUnheard
      /\ queue \in Seq(Objects) /\ Len(queue) \in Nat
      /\ initialPopulationCount \in Nat /\ unheard \subseteq Objects
  BY FS_CardinalityType DEF Inv, TypeOK
<1>2. ASSUME UNCHANGED <<queue, initialPopulationCount, unheard, popped>>
      PROVE  CountedUnheard'
  BY <1>1, <1>2 DEF CountedUnheard, Counted
<1>3. ASSUME NEW o \in Objects, NEW v \in Contents, Change(o, v)
      PROVE  CountedUnheard'
  BY <1>2, <1>3 DEF Change, fifoVars, processVars
<1>4. CASE List
  BY <1>2, <1>4 DEF List, fifoVars, processVars
<1>5. CASE Replace
  <2>1. PICK added \in Seq(Objects) :
               /\ queue' = queue \o added
               /\ Range(added) = {o \in Listed \cup Missing : ~ Queued(o)}
               /\ ~ populated => Len(added) = Cardinality(Listed) /\ Missing = {}
    BY <1>5, ReplaceQueue
  <2>2. CASE populated
    BY <1>5, <2>1, <2>2, CountedGrows DEF Replace, processVars
  <2>3. CASE ~ populated
    <3>1. queue = <<>> /\ \A o \in Objects : ~ Queued(o)
      <4>1. queue = <<>> /\ Range(queue) = {}
        BY <2>3 DEF Inv, FreshBefore, Range
      <4>. QED
        BY <4>1 DEF Inv, QueueMatchesItems
    <3>2. queue' = added
      BY <2>1, <3>1
    <3>3. Listed \cup Missing = Listed
      BY <2>1, <2>3
    <3>4. Range(added) = Listed
      BY <2>1, <3>1, <3>3 DEF Listed
    <3>5. initialPopulationCount' = Len(added) /\ unheard' = Listed
      BY <1>5, <2>1, <2>3, <3>3 DEF Replace
    <3>6. Counted' = Listed
      BY <3>2, <3>4, <3>5, RangeEquality DEF Counted
    <3>7. Len(added) \in Nat
      OBVIOUS
    <3>. QED
      BY <3>2, <3>5, <3>6, <3>7 DEF CountedUnheard
  <2>. QED
    BY <2>2, <2>3
<1>6. CASE WatchEvent
  <2>1. UNCHANGED <<initialPopulationCount, unheard, popped>>
    BY <1>6 DEF WatchEvent, processVars
  <2>2. CASE UNCHANGED queue
    BY <1>2, <2>1, <2>2
  <2>3. CASE queue' = Append(queue, Head(stream)[1])
    <3>1. Head(stream)[1] \in Objects
      <4>1. Head(stream) \in Objects \X Contents
        BY <1>6, HeadTailProperties DEF Inv, TypeOK, WatchEvent
      <4>. QED
        BY <4>1
    <3>. DEFINE o == Head(stream)[1]
    <3>2. queue' = queue \o <<o>> /\ <<o>> \in Seq(Objects)
      BY <1>1, <2>3, <3>1, AppendIsConcat
    <3>. HIDE DEF o
    <3>. QED
      BY <2>1, <3>2, CountedGrows
  <2>. QED
    BY <1>6, <2>2, <2>3 DEF WatchEvent
<1>7. CASE WatchBroken
  BY <1>2, <1>7 DEF WatchBroken, fifoVars, processVars
<1>8. CASE Pop
  <2>1. /\ popped' = Head(queue) /\ queue # <<>> /\ queue' = Tail(queue)
        /\ unheard' = unheard
    BY <1>8, PopSpec DEF Pop
  <2>2. unheard \subseteq Counted
    <3>1. popped = Absent
      BY <1>8 DEF Pop, LockFree
    <3>. QED
      BY <1>1, <3>1 DEF CountedUnheard
  <2>3. /\ Head(queue) = queue[1] /\ Len(queue') = Len(queue) - 1
        /\ \A i \in 1 .. Len(queue) - 1 : queue'[i] = queue[i + 1]
    BY <1>1, <2>1, HeadTailProperties
  <2>4. CASE initialPopulationCount = 0
    <3>1. Counted = {} /\ unheard = {}
      BY <2>2, <2>4 DEF Counted
    <3>2. initialPopulationCount' = 0
      BY <1>8, <2>4 DEF Pop
    <3>3. Counted' = {}
      BY <3>2 DEF Counted
    <3>4. Len(queue') \in Nat
      BY <1>1, <2>1, HeadTailProperties
    <3>. QED
      BY <2>1, <3>1, <3>2, <3>3, <3>4 DEF CountedUnheard
  <2>5. CASE initialPopulationCount > 0
    <3>1. initialPopulationCount' = initialPopulationCount - 1
      BY <1>8, <2>5 DEF Pop
    <3>2. initialPopulationCount' <= Len(queue')
      BY <1>1, <2>3, <3>1 DEF CountedUnheard
    <3>3. \A i \in 1 .. initialPopulationCount' :
             queue'[i] = queue[i + 1] /\ i + 1 \in 1 .. initialPopulationCount
      BY <1>1, <2>3, <3>1 DEF CountedUnheard
    <3>4. Counted' \subseteq Counted
      BY <3>3 DEF Counted
    <3>5. Counted \subseteq Counted' \cup {queue[1]}
      <4>. SUFFICES ASSUME NEW i \in 2 .. initialPopulationCount
                    PROVE  queue[i] \in Counted'
        BY <1>1 DEF Counted
      <4>1. i - 1 \in 1 .. initialPopulationCount' /\ (i - 1) + 1 = i
        BY <1>1, <3>1
      <4>2. queue'[i - 1] = queue[i]
        BY <3>3, <4>1
      <4>. QED
        BY <4>1, <4>2 DEF Counted
    <3>. QED
      BY <1>1, <2>1, <2>2, <2>3, <3>2, <3>4, <3>5 DEF CountedUnheard
  <2>. QED
    BY <1>1, <2>4, <2>5
<1>9. CASE Process
  <2>1. popped \in Objects /\ ~ Queued(popped)
    BY <1>9, ProcessSpec
  <2>2. popped \notin Range(queue)
    BY <2>1 DEF Inv, QueueMatchesItems
  <2>3. popped \notin Counted
    BY <1>1, <2>2, RangeEquality DEF Counted, CountedUnheard
  <2>4. unheard' = unheard \ {popped} /\ UNCHANGED <<queue, initialPopulationCount>>
    BY <1>9 DEF Process, fifoVars
  <2>5. Counted' = Counted
    BY <2>4 DEF Counted
  <2>. QED
    BY <1>1, <2>3, <2>4, <2>5 DEF CountedUnheard
<1>10. CASE UNCHANGED vars
  BY <1>2, <1>10 DEF vars, fifoVars, processVars
<1>. QED
  BY <1>3, <1>4, <1>5, <1>6, <1>7, <1>8, <1>9, <1>10 DEF Next

\* The invariant holds in the initial state.
LEMMA InvInit == Init => Inv
<1>. SUFFICES ASSUME Init PROVE Inv
  OBVIOUS
<1>. USE InformerAssumption
<1>1. TypeOK
  <2>1. Cardinality(Objects) \in Nat
    BY FS_CardinalityType
  <2>2. live \in [Objects -> Contents] /\ live = store /\ live = snapshot
    BY DEF Init, Contents
  <2>3. items \in [Objects -> Seq(Contents)]
    BY DEF Init
  <2>4. /\ stream \in Seq(Objects \X Contents) /\ queue \in Seq(Objects)
        /\ inHand \in Seq(Contents)
    BY DEF Init
  <2>5. /\ changes \in 0 .. MaxChanges /\ breaks \in 0 .. MaxBreaks /\ cut \in Nat
        /\ initialPopulationCount \in 0 .. Cardinality(Objects)
    BY <2>1 DEF Init
  <2>6. /\ reflector \in {"list", "replace", "watch"} /\ populated \in BOOLEAN
        /\ popped \in Objects \cup {Absent}
        /\ unheard \subseteq Objects /\ astray \subseteq Objects
    BY DEF Init
  <2>. QED
    BY <2>2, <2>3, <2>4, <2>5, <2>6 DEF TypeOK
<1>2. QueueMatchesItems
  BY DEF Init, QueueMatchesItems, Queued, Range, IsInjective
<1>3. HandMatches /\ FreshBefore
  BY DEF Init, HandMatches, FreshBefore
<1>4. CountedUnheard
  BY DEF Init, CountedUnheard, Counted
<1>. QED
  BY <1>1, <1>2, <1>3, <1>4 DEF Inv

\* The invariant is inductive.
THEOREM Invariance == Spec => []Inv
<1>1. Inv /\ [Next]_vars => Inv'
  BY TypeStep, QueueStep, HandStep, FreshStep, CountedStep DEF Inv
<1>. QED
  BY InvInit, <1>1, PTL DEF Spec

\* Every variable of the informer keeps its type: the deltas of the DeltaFIFO
\* are contents, its counter never exceeds the number of objects.
THEOREM TypeCorrect == Spec => []TypeOK
<1>1. Inv => TypeOK
  BY DEF Inv
<1>. QED
  BY Invariance, <1>1, PTL

\* The map items and the slice queue of the DeltaFIFO always hold the same
\* objects, each once.
THEOREM MapAndSliceAgree == Spec => []QueueMatchesItems
<1>1. Inv => QueueMatchesItems
  BY DEF Inv
<1>. QED
  BY Invariance, <1>1, PTL

\* Whenever HasSynced can look, its counter is the number of objects of the
\* first list for which the handler has still to be called.
THEOREM CounterExact == Spec => []SyncedWhenHandled
<1>1. Inv => SyncedWhenHandled
  <2>. SUFFICES ASSUME Inv, LockFree
                PROVE  initialPopulationCount = Cardinality(unheard)
    BY DEF SyncedWhenHandled
  <2>1. /\ queue \in Seq(Objects) /\ IsInjective(queue)
        /\ initialPopulationCount \in 0 .. Len(queue)
    BY InformerAssumption, FS_CardinalityType
       DEF Inv, TypeOK, QueueMatchesItems, CountedUnheard
  <2>2. unheard = Counted
    BY InformerAssumption DEF Inv, TypeOK, CountedUnheard, LockFree
  <2>. QED
    BY <2>1, <2>2, PrefixCardinality DEF Counted
<1>. QED
  BY Invariance, <1>1, PTL
-----------------------------------------------------------------------------
\* When the first n changes have left the stream, the others have moved up.
LEMMA StreamShift ==
    ASSUME TypeOK, NEW n \in 0 .. Len(stream),
           stream' = SubSeq(stream, n + 1, Len(stream))
    PROVE  /\ \A o : NothingAfter(o, 0)' => NothingAfter(o, n)
           /\ StreamEndsLive /\ live' = live => StreamEndsLive'
<1>1. stream \in Seq(Objects \X Contents) /\ Len(stream) \in Nat
  BY DEF TypeOK
<1>2. /\ DOMAIN stream = 1 .. Len(stream)
      /\ DOMAIN stream' = 1 .. Len(stream) - n
      /\ \A i \in 1 .. Len(stream) - n : stream'[i] = stream[n + i]
  BY <1>1
<1>3. ASSUME NEW o, NEW i \in Nat, NothingAfter(o, i)'
      PROVE  NothingAfter(o, n + i)
  <2>. SUFFICES ASSUME NEW j \in DOMAIN stream, j > n + i
                PROVE  stream[j][1] # o
    BY DEF NothingAfter
  <2>1. j - n \in DOMAIN stream' /\ j - n > i /\ n + (j - n) = j
    BY <1>1, <1>2
  <2>2. stream'[j - n] = stream[j]
    BY <1>2, <2>1
  <2>3. stream'[j - n][1] # o
    BY <1>3, <2>1 DEF NothingAfter
  <2>. QED
    BY <2>2, <2>3
<1>4. ASSUME StreamEndsLive, live' = live,
             NEW o \in Objects, NEW i \in DOMAIN stream',
             stream'[i][1] = o, NothingAfter(o, i)'
      PROVE  stream'[i][2] = live'[o]
  <2>1. i \in Nat /\ n + i \in DOMAIN stream /\ stream'[i] = stream[n + i]
    BY <1>1, <1>2
  <2>2. NothingAfter(o, n + i)
    BY <1>3, <1>4, <2>1
  <2>. QED
    BY <1>4, <2>1, <2>2 DEF StreamEndsLive
<1>5. StreamEndsLive /\ live' = live => StreamEndsLive'
  BY <1>4 DEF StreamEndsLive
<1>6. ASSUME NEW o, NothingAfter(o, 0)' PROVE NothingAfter(o, n)
  <2>1. NothingAfter(o, n + 0)
    BY <1>3, <1>6
  <2>2. n + 0 = n
    BY <1>1
  <2>. QED
    BY <2>1, <2>2
<1>. QED
  BY <1>5, <1>6

\* A change is one of its own object only, and comes last in the stream.
LEMMA ChangeSpec ==
    ASSUME TypeOK, NEW p \in Objects, NEW v \in Contents, Change(p, v)
    PROVE  /\ \A o \in Objects, n \in 0 .. Len(stream) :
                 NothingAfter(o, n)' => o # p /\ NothingAfter(o, n)
           /\ \A o \in Objects : o # p => live'[o] = live[o]
           /\ Len(stream') = Len(stream) + 1
           /\ StreamEndsLive => StreamEndsLive'
<1>1. /\ stream \in Seq(Objects \X Contents) /\ Len(stream) \in Nat
      /\ stream' = Append(stream, <<p, v>>) /\ live' = [live EXCEPT ![p] = v]
  BY DEF TypeOK, Change
<1>2. /\ DOMAIN stream = 1 .. Len(stream)
      /\ DOMAIN stream' = 1 .. Len(stream) + 1
      /\ \A i \in 1 .. Len(stream) : stream'[i] = stream[i]
      /\ stream'[Len(stream) + 1] = <<p, v>>
      /\ Len(stream') = Len(stream) + 1
  BY <1>1
<1>3. \A o \in Objects : o # p => live'[o] = live[o]
  BY <1>1 DEF TypeOK
<1>4. ASSUME NEW o \in Objects, NEW n \in 0 .. Len(stream), NothingAfter(o, n)'
      PROVE  o # p /\ NothingAfter(o, n)
  <2>1. Len(stream) + 1 \in DOMAIN stream' /\ Len(stream) + 1 > n
    BY <1>1, <1>2
  <2>2. stream'[Len(stream) + 1][1] # o
    BY <1>4, <2>1 DEF NothingAfter
  <2>3. o # p
    BY <1>2, <2>2
  <2>4. NothingAfter(o, n)
    BY <1>1, <1>2, <1>4 DEF NothingAfter
  <2>. QED
    BY <2>3, <2>4
<1>5. ASSUME StreamEndsLive, NEW o \in Objects, NEW i \in DOMAIN stream',
             stream'[i][1] = o, NothingAfter(o, i)'
      PROVE  stream'[i][2] = live'[o]
  <2>1. CASE i = Len(stream) + 1
    <3>1. o = p /\ stream'[i][2] = v
      BY <1>2, <1>5, <2>1
    <3>. QED
      BY <1>1, <3>1 DEF TypeOK
  <2>2. CASE i \in 1 .. Len(stream)
    <3>1. o # p /\ NothingAfter(o, i)
      BY <1>1, <1>4, <1>5, <2>2
    <3>2. i \in DOMAIN stream /\ stream'[i] = stream[i]
      BY <1>2, <2>2
    <3>. QED
      BY <1>3, <1>5, <3>1, <3>2 DEF StreamEndsLive
  <2>. QED
    BY <1>1, <1>2, <2>1, <2>2
<1>6. StreamEndsLive => StreamEndsLive'
  BY <1>5 DEF StreamEndsLive
<1>. QED
  BY <1>2, <1>3, <1>4, <1>6

\* What the store will have of an object does not depend on how far the
\* processing goroutine is.
LEMMA FinalKept ==
    ASSUME Inv, Pop \/ Process
    PROVE  \A o \in Objects : Final(o)' = Final(o)
<1>. SUFFICES ASSUME NEW o \in Objects PROVE Final(o)' = Final(o)
  OBVIOUS
<1>. USE InformerAssumption
<1>1. items \in [Objects -> Seq(Contents)] /\ store \in [Objects -> Contents]
  BY DEF Inv, TypeOK
<1>2. CASE Pop
  <2>1. /\ popped' \in Objects /\ Queued(popped') /\ inHand' = items[popped']
        /\ items' = [items EXCEPT ![popped'] = <<>>]
    BY <1>2, PopSpec
  <2>2. popped = Absent /\ store' = store
    BY <1>2 DEF Pop, LockFree
  <2>3. popped # o
    BY <2>2
  <2>4. CASE o = popped'
    <3>1. Final(o) = Last(items[o])
      BY <2>1, <2>4 DEF Final
    <3>2. ~ Queued(o)'
      BY <1>1, <2>1, <2>4 DEF Queued
    <3>3. Final(o)' = Last(inHand')
      BY <2>4, <3>2 DEF Final
    <3>. QED
      BY <2>1, <2>4, <3>1, <3>3
  <2>5. CASE o # popped'
    <3>1. items'[o] = items[o] /\ (Queued(o)' <=> Queued(o))
      BY <1>1, <2>1, <2>5 DEF Queued
    <3>. QED
      BY <2>2, <2>3, <2>5, <3>1 DEF Final
  <2>. QED
    BY <2>4, <2>5
<1>3. CASE Process
  <2>1. /\ popped \in Objects /\ ~ Queued(popped)
        /\ popped' = IF inHand' = <<>> THEN Absent ELSE popped
        /\ Last(inHand) = IF inHand' = <<>> THEN Head(inHand) ELSE Last(inHand')
        /\ store' = [store EXCEPT ![popped] = Head(inHand)]
    BY <1>3, ProcessSpec
  <2>2. items' = items /\ (Queued(o)' <=> Queued(o))
    BY <1>3 DEF Process, fifoVars, Queued
  <2>3. CASE o = popped
    <3>1. Final(o) = Last(inHand)
      BY <2>1, <2>3 DEF Final
    <3>2. Final(o)' = IF popped' = o THEN Last(inHand') ELSE store'[o]
      BY <2>1, <2>2, <2>3 DEF Final
    <3>3. CASE inHand' = <<>>
      BY <1>1, <2>1, <2>3, <3>1, <3>2, <3>3
    <3>4. CASE inHand' # <<>>
      BY <2>1, <2>3, <3>1, <3>2, <3>4
    <3>. QED
      BY <3>3, <3>4
  <2>4. CASE o # popped
    <3>1. store'[o] = store[o] /\ popped' # o
      BY <1>1, <2>1, <2>4
    <3>. QED
      BY <2>2, <2>4, <3>1 DEF Final
  <2>. QED
    BY <2>3, <2>4
<1>. QED
  BY <1>2, <1>3

\* Every step leaves the last change of an object in the stream the one that
\* has brought it where it is.
LEMMA StreamStep ==
    Inv /\ StreamEndsLive /\ ListRight /\ [Next]_vars => StreamEndsLive'
<1>. SUFFICES ASSUME Inv, StreamEndsLive, ListRight, [Next]_vars
              PROVE  StreamEndsLive'
  OBVIOUS
<1>1. TypeOK
  BY DEF Inv
<1>2. ASSUME UNCHANGED <<stream, live>>
      PROVE  StreamEndsLive'
  BY <1>2 DEF StreamEndsLive, NothingAfter
<1>3. ASSUME NEW o \in Objects, NEW v \in Contents, Change(o, v)
      PROVE  StreamEndsLive'
  BY <1>1, <1>3, ChangeSpec
<1>4. CASE List
  BY <1>2, <1>4 DEF List, serverVars
<1>5. CASE Replace
  <2>1. /\ stream' = SubSeq(stream, cut + 1, Len(stream)) /\ live' = live
        /\ cut \in 0 .. Len(stream)
    <3>1. cut \in Nat /\ Len(stream) \in Nat /\ cut <= Len(stream)
      BY <1>1, <1>5 DEF TypeOK, Replace, ListRight
    <3>. QED
      BY <1>5, <3>1 DEF Replace
  <2>. QED
    BY <1>1, <2>1, StreamShift
<1>6. CASE WatchEvent
  <2>1. stream \in Seq(Objects \X Contents) /\ stream # <<>>
    BY <1>1, <1>6 DEF TypeOK, WatchEvent
  <2>2. stream' = SubSeq(stream, 1 + 1, Len(stream)) /\ 1 \in 0 .. Len(stream)
    BY <1>6, <2>1, TailIsSubSeq DEF WatchEvent
  <2>. QED
    BY <1>1, <1>6, <2>2, StreamShift DEF WatchEvent
<1>7. CASE WatchBroken
  BY <1>2, <1>7 DEF WatchBroken, serverVars
<1>8. CASE Pop
  BY <1>2, <1>8 DEF Pop, serverVars
<1>9. CASE Process
  BY <1>2, <1>9 DEF Process, serverVars
<1>10. CASE UNCHANGED vars
  BY <1>2, <1>10 DEF vars, serverVars
<1>. QED
  BY <1>3, <1>4, <1>5, <1>6, <1>7, <1>8, <1>9, <1>10 DEF Next

\* Every step keeps the list right about what has not changed since.
LEMMA ListStep == Inv /\ ListRight /\ [Next]_vars => ListRight'
<1>. SUFFICES ASSUME Inv, ListRight, [Next]_vars PROVE ListRight'
  OBVIOUS
<1>1. TypeOK
  BY DEF Inv
<1>2. ASSUME UNCHANGED <<stream, live, reflector, snapshot, cut>>
      PROVE  ListRight'
  BY <1>2 DEF ListRight, NothingAfter
<1>3. ASSUME NEW p \in Objects, NEW v \in Contents, Change(p, v)
      PROVE  ListRight'
  <2>1. UNCHANGED <<reflector, snapshot, cut>>
    BY <1>3 DEF Change, reflectorVars
  <2>2. /\ Len(stream') = Len(stream) + 1 /\ Len(stream) \in Nat /\ cut \in Nat
    BY <1>1, <1>3, ChangeSpec DEF TypeOK
  <2>. SUFFICES ASSUME reflector = "replace"
                PROVE  /\ cut <= Len(stream')
                       /\ \A o \in Objects : NothingAfter(o, cut)'
                                               => snapshot[o] = live'[o]
    BY <2>1 DEF ListRight
  <2>3. /\ cut \in 0 .. Len(stream)
        /\ \A o \in Objects : NothingAfter(o, cut) => snapshot[o] = live[o]
    BY <2>2 DEF ListRight
  <2>4. \A o \in Objects, n \in 0 .. Len(stream) :
           NothingAfter(o, n)' => o # p /\ NothingAfter(o, n)
    BY <1>1, <1>3, ChangeSpec
  <2>5. \A o \in Objects : o # p => live'[o] = live[o]
    BY <1>1, <1>3, ChangeSpec
  <2>6. \A o \in Objects : NothingAfter(o, cut)' => o # p /\ NothingAfter(o, cut)
    BY <2>1, <2>3, <2>4 DEF NothingAfter
  <2>. QED
    BY <2>2, <2>3, <2>5, <2>6
<1>4. CASE List
  BY <1>1, <1>4 DEF List, ListRight, serverVars, TypeOK
<1>5. CASE Replace
  BY <1>5 DEF Replace, ListRight
<1>6. CASE WatchEvent
  BY <1>6 DEF WatchEvent, ListRight, reflectorVars
<1>7. CASE WatchBroken
  BY <1>7 DEF WatchBroken, ListRight
<1>8. CASE Pop
  BY <1>2, <1>8 DEF Pop, serverVars, reflectorVars
<1>9. CASE Process
  BY <1>2, <1>9 DEF Process, serverVars, reflectorVars
<1>10. CASE UNCHANGED vars
  BY <1>2, <1>10 DEF vars, serverVars, reflectorVars
<1>. QED
  BY <1>3, <1>4, <1>5, <1>6, <1>7, <1>8, <1>9, <1>10 DEF Next

\* Queueing the list makes the store right but for the objects astray.
LEMMA ReplaceRight ==
    ASSUME Inv, ListRight, Replace, NEW o \in Objects, NothingAfter(o, 0)'
    PROVE  Final(o)' = live'[o] <=> o \notin astray'
<1>1. /\ TypeOK /\ popped = Absent /\ reflector = "replace"
      /\ UNCHANGED <<live, popped, inHand, store>>
  BY DEF Inv, Replace, LockFree, processVars
<1>2. o # popped /\ o # popped'
  BY <1>1, InformerAssumption
<1>3. snapshot[o] = live[o]
  <2>1. cut \in 0 .. Len(stream) /\ cut \in Nat
    BY <1>1 DEF ListRight, TypeOK
  <2>2. NothingAfter(o, cut)
    BY <1>1, <2>1, StreamShift DEF Replace
  <2>. QED
    BY <1>1, <2>1, <2>2 DEF ListRight
<1>4. /\ Queued(o)' <=> Queued(o) \/ o \in Listed \cup Missing
      /\ o \in Listed => Last(items'[o]) = IF WillBeDeleted(o) THEN Absent ELSE snapshot[o]
      /\ o \in Missing => Last(items'[o]) = Absent
      /\ o \notin Listed \cup Missing => items'[o] = items[o]
  BY <1>1, ReplaceItems
<1>5. Final(o)' = IF Queued(o)' THEN Last(items'[o]) ELSE store[o]
  BY <1>1, <1>2 DEF Final
<1>6. astray' = {p \in Listed : WillBeDeleted(p)}
                  \cup {p \in Objects \ (Listed \cup Missing) :
                          Queued(p) /\ ~ WillBeDeleted(p)}
  BY DEF Replace
<1>7. o \in Listed <=> snapshot[o] # Absent
  BY DEF Listed
<1>8. CASE o \in Listed
  BY <1>1, <1>3, <1>4, <1>5, <1>6, <1>7, <1>8
<1>9. CASE o \in Missing
  <2>1. o \notin Listed
    BY <1>9 DEF Missing
  <2>. QED
    BY <1>1, <1>3, <1>4, <1>5, <1>6, <1>7, <1>9, <2>1
<1>10. CASE o \notin Listed \cup Missing
  <2>1. store[o] = Absent /\ snapshot[o] = Absent
    BY <1>7, <1>10 DEF Missing
  <2>2. Queued(o) => (Last(items[o]) = Absent <=> WillBeDeleted(o))
    BY DEF Queued, WillBeDeleted
  <2>. QED
    BY <1>1, <1>3, <1>4, <1>5, <1>6, <1>10, <2>1, <2>2
<1>. QED
  BY <1>8, <1>9, <1>10

\* An event of the watch makes the store right about its object, if it is the
\* last one, and leaves the others as they are.
LEMMA WatchRight ==
    ASSUME Inv, StreamEndsLive, WillBeRight, WatchEvent,
           NEW o \in Objects, NothingAfter(o, 0)'
    PROVE  Final(o)' = live'[o] <=> o \notin astray'
<1>1. /\ TypeOK /\ popped = Absent /\ reflector = "watch"
      /\ UNCHANGED <<live, popped, inHand, store>>
  BY DEF Inv, WatchEvent, LockFree, processVars
<1>2. o # popped /\ o # popped'
  BY <1>1, InformerAssumption
<1>3. stream \in Seq(Objects \X Contents) /\ stream # <<>> /\ Head(stream) = stream[1]
  BY <1>1 DEF TypeOK, WatchEvent
<1>4. 1 \in DOMAIN stream /\ 1 \in 0 .. Len(stream)
  BY <1>3
<1>5. PICK p \in Objects, v \in Contents : stream[1] = <<p, v>>
  BY <1>3, <1>4
<1> DEFINE type == IF v = Absent THEN "Deleted" ELSE "Updated"
           deltas == NewDeltas(p, v, type)
<1>6. /\ IF type = "Deleted" /\ store[p] = Absent /\ ~ Queued(p)
         THEN UNCHANGED <<items, queue>>
         ELSE items' = [items EXCEPT ![p] = deltas]
      /\ astray' = astray \ {p}
  BY <1>3, <1>5 DEF WatchEvent
<1>7. deltas # <<>> /\ Last(deltas) = v
  BY <1>1, NewDeltasSpec
<1>8. items \in [Objects -> Seq(Contents)]
  BY <1>1 DEF TypeOK
<1>9. NothingAfter(o, 1)
  <2>1. stream' = SubSeq(stream, 1 + 1, Len(stream))
    BY <1>3, TailIsSubSeq DEF WatchEvent
  <2>. QED
    BY <1>1, <1>4, <2>1, StreamShift
<1>10. Final(o)' = IF Queued(o)' THEN Last(items'[o]) ELSE store[o]
  BY <1>1, <1>2 DEF Final
<1>11. CASE o = p
  <2>1. v = live[o]
    BY <1>4, <1>5, <1>9, <1>11 DEF StreamEndsLive
  <2>2. CASE type = "Deleted" /\ store[p] = Absent /\ ~ Queued(p)
    <3>1. ~ Queued(o)' /\ v = Absent
      BY <1>6, <1>11, <2>2 DEF Queued
    <3>. QED
      BY <1>1, <1>6, <1>10, <1>11, <2>1, <2>2, <3>1
  <2>3. CASE ~ (type = "Deleted" /\ store[p] = Absent /\ ~ Queued(p))
    <3>1. items'[o] = deltas
      BY <1>6, <1>8, <1>11, <2>3
    <3>2. Queued(o)'
      BY <1>7, <3>1 DEF Queued
    <3>. QED
      BY <1>1, <1>6, <1>7, <1>10, <1>11, <2>1, <3>1, <3>2
  <2>. QED
    BY <2>2, <2>3
<1>12. CASE o # p
  <2>. HIDE DEF deltas, type
  <2>1. items'[o] = items[o]
    BY <1>6, <1>8, <1>12
  <2>2. Queued(o)' <=> Queued(o)
    BY <2>1 DEF Queued
  <2>3. Final(o)' = Final(o)
    BY <1>2, <1>10, <2>1, <2>2 DEF Final
  <2>4. NothingAfter(o, 0)
    <3>. SUFFICES ASSUME NEW i \in DOMAIN stream, i > 0
                  PROVE  stream[i][1] # o
      BY DEF NothingAfter
    <3>1. CASE i = 1
      BY <1>5, <1>12, <3>1
    <3>2. CASE i > 1
      BY <1>9, <3>2 DEF NothingAfter
    <3>3. i \in Nat
      BY <1>3
    <3>. QED
      BY <3>1, <3>2, <3>3
  <2>5. Final(o) = live[o] <=> o \notin astray
    BY <1>1, <2>4 DEF WillBeRight
  <2>. QED
    BY <1>1, <1>6, <1>12, <2>3, <2>5
<1>. QED
  BY <1>11, <1>12

\* Every step keeps what the deltas will make of the store.
LEMMA RightStep ==
    Inv /\ CurrentInv /\ [Next]_vars => WillBeRight'
<1>. SUFFICES ASSUME Inv, CurrentInv, [Next]_vars PROVE WillBeRight'
  OBVIOUS
<1>. USE DEF CurrentInv
<1>1. TypeOK
  BY DEF Inv
<1>2. ASSUME UNCHANGED <<stream, live, reflector, astray>>,
             \A o \in Objects : Final(o)' = Final(o)
      PROVE  WillBeRight'
  BY <1>2 DEF WillBeRight, NothingAfter
<1>3. ASSUME UNCHANGED <<items, popped, inHand, store>>
      PROVE  \A o \in Objects : Final(o)' = Final(o)
  BY <1>3 DEF Final, Queued
<1>4. ASSUME NEW p \in Objects, NEW v \in Contents, Change(p, v)
      PROVE  WillBeRight'
  <2>1. UNCHANGED <<reflector, astray>> /\ \A o \in Objects : Final(o)' = Final(o)
    BY <1>3, <1>4 DEF Change, reflectorVars, fifoVars, processVars
  <2>2. 0 \in 0 .. Len(stream)
    BY <1>1 DEF TypeOK
  <2>3. \A o \in Objects : NothingAfter(o, 0)' => o # p /\ NothingAfter(o, 0)
    BY <1>1, <1>4, <2>2, ChangeSpec
  <2>4. \A o \in Objects : o # p => live'[o] = live[o]
    BY <1>1, <1>4, ChangeSpec
  <2>. QED
    BY <2>1, <2>3, <2>4 DEF WillBeRight
<1>5. CASE List
  BY <1>5 DEF List, WillBeRight
<1>6. CASE Replace
  BY <1>6, ReplaceRight DEF WillBeRight
<1>7. CASE WatchEvent
  BY <1>7, WatchRight DEF WillBeRight
<1>8. CASE WatchBroken
  BY <1>8 DEF WatchBroken, WillBeRight
<1>9. CASE Pop
  BY <1>2, <1>9, FinalKept DEF Pop, serverVars, reflectorVars
<1>10. CASE Process
  BY <1>2, <1>10, FinalKept DEF Process, serverVars, reflectorVars
<1>11. CASE UNCHANGED vars
  BY <1>2, <1>3, <1>11 DEF vars, serverVars, reflectorVars, fifoVars, processVars
<1>. QED
  BY <1>4, <1>5, <1>6, <1>7, <1>8, <1>9, <1>10, <1>11 DEF Next

\* What the list, the stream and the deltas say of each object is invariant.
THEOREM CurrentInvariance == Spec => []CurrentInv
<1>1. Init => CurrentInv
  BY DEF Init, CurrentInv, StreamEndsLive, ListRight, WillBeRight
<1>2. Inv /\ CurrentInv /\ [Next]_vars => CurrentInv'
  BY StreamStep, ListStep, RightStep DEF CurrentInv
<1>. QED
  BY Invariance, <1>1, <1>2, PTL DEF Spec

\* An informer that has handled everything has a store that is right, but for
\* the objects that the last list found created again while their deletion was
\* queued, or gone before their creation was handled; about those it is wrong.
THEOREM StoreRight == Spec => []StoreUpToDate
<1>1. Inv /\ CurrentInv => StoreUpToDate
  <2>. SUFFICES ASSUME Inv, CurrentInv, CaughtUp, NEW o \in Objects
                PROVE  store[o] = live[o] <=> o \notin astray
    BY DEF StoreUpToDate
  <2>1. ~ Queued(o)
    <3>1. Range(queue) = {}
      BY DEF CaughtUp, Range
    <3>. QED
      BY <3>1 DEF Inv, QueueMatchesItems
  <2>2. popped # o
    BY InformerAssumption DEF CaughtUp, LockFree
  <2>3. Final(o) = store[o]
    BY <2>1, <2>2 DEF Final
  <2>4. NothingAfter(o, 0)
    BY DEF CaughtUp, NothingAfter
  <2>. QED
    BY <2>3, <2>4 DEF CurrentInv, WillBeRight, CaughtUp
<1>. QED
  BY Invariance, CurrentInvariance, <1>1, PTL
-----------------------------------------------------------------------------
\* The number of elements of S up to i.
Rank(S, i) == Cardinality({j \in S : j <= i})

\* A number is the place of its element in InOrder.
LEMMA RankSpec ==
    ASSUME NEW S \in SUBSET Nat, IsFiniteSet(S)
    PROVE  /\ Cardinality(S) \in Nat
           /\ \A i \in S : Rank(S, i) \in 1 .. Cardinality(S)
           /\ \A i, j \in S : i < j => Rank(S, i) < Rank(S, j)
           /\ \A n \in 1 .. Cardinality(S) : \E i \in S : Rank(S, i) = n
<1> DEFINE UpTo(i) == {j \in S : j <= i}
           D == 1 .. Cardinality(S)
           rank == [i \in S |-> Rank(S, i)]
<1>1. Cardinality(S) \in Nat
  BY FS_CardinalityType
<1>2. ASSUME NEW i \in S
      PROVE  Rank(S, i) \in D
  <2>1. UpTo(i) \subseteq S /\ i \in UpTo(i)
    OBVIOUS
  <2>2. IsFiniteSet(UpTo(i)) /\ Cardinality(UpTo(i)) <= Cardinality(S)
    BY <2>1, FS_Subset
  <2>3. Cardinality(UpTo(i)) \in Nat /\ Cardinality(UpTo(i)) # 0
    BY <2>1, <2>2, FS_CardinalityType, FS_EmptySet
  <2>. QED
    BY <1>1, <2>2, <2>3 DEF Rank
<1>3. ASSUME NEW i \in S, NEW j \in S, i < j
      PROVE  Rank(S, i) < Rank(S, j)
  <2>0. i \in Nat /\ j \in Nat /\ \A k \in S : k \in Nat
    OBVIOUS
  <2>1. UpTo(i) \subseteq UpTo(j) /\ j \in UpTo(j) /\ j \notin UpTo(i)
    <3>1. ASSUME NEW k \in UpTo(i) PROVE k \in UpTo(j)
      BY <1>3, <2>0
    <3>2. j \in UpTo(j)
      BY <2>0
    <3>3. j \notin UpTo(i)
      BY <1>3, <2>0
    <3>. QED
      BY <3>1, <3>2, <3>3
  <2>2. IsFiniteSet(UpTo(j)) /\ IsFiniteSet(UpTo(i))
    BY FS_Subset
  <2>3. Cardinality(UpTo(i)) < Cardinality(UpTo(j))
    BY <2>1, <2>2, FS_Subset, FS_CardinalityType
  <2>. QED
    BY <2>3 DEF Rank
<1>4. \A n \in D : \E i \in S : Rank(S, i) = n
  <2>1. rank \in Injection(S, D)
    <3>1. rank \in [S -> D]
      BY <1>2
    <3>2. ASSUME NEW i \in S, NEW j \in S, rank[i] = rank[j]
          PROVE  i = j
      <4>1. ~ (i < j) /\ ~ (j < i)
        BY <1>1, <1>2, <1>3, <3>2
      <4>. QED
        BY <4>1
    <3>. QED
      BY <3>1, <3>2 DEF Injection, IsInjective
  <2>2. IsFiniteSet(D) /\ Cardinality(D) = Cardinality(S)
    BY <1>1, FS_Interval
  <2>3. rank \in Surjection(S, D)
    BY <2>1, <2>2, FS_Injection
  <2>. QED
    BY <2>3 DEF Surjection
<1>. QED
  BY <1>1, <1>2, <1>3, <1>4

\* InOrder enumerates its set in increasing order, as no other sequence does.
LEMMA OrderSpec ==
    ASSUME NEW S \in SUBSET Nat, IsFiniteSet(S)
    PROVE  /\ InOrder(S) \in Seq(S)
           /\ Len(InOrder(S)) = Cardinality(S)
           /\ Cardinality(S) \in Nat
           /\ \A m, n \in 1 .. Cardinality(S) : m < n => InOrder(S)[m] < InOrder(S)[n]
           /\ \A i \in S : \E n \in 1 .. Cardinality(S) : InOrder(S)[n] = i
<1> DEFINE D == 1 .. Cardinality(S)
           s == InOrder(S)
<1>1. Cardinality(S) \in Nat
  BY RankSpec
<1>2. \A n \in D : s[n] \in S /\ Rank(S, s[n]) = n
  BY RankSpec DEF InOrder, Rank
<1>3. s \in Seq(S) /\ Len(s) = Cardinality(S)
  <2>1. s \in [D -> S]
    BY <1>2 DEF InOrder
  <2>. QED
    BY <1>1, <2>1
<1> HIDE DEF s
<1>4. ASSUME NEW i \in S, NEW j \in S, Rank(S, i) <= Rank(S, j)
      PROVE  i <= j /\ i \in Nat /\ j \in Nat
  <2>1. i \in Nat /\ j \in Nat /\ Rank(S, i) \in Nat /\ Rank(S, j) \in Nat
    BY <1>1, RankSpec
  <2>2. ~ (j < i)
    BY <1>4, <2>1, RankSpec
  <2>. QED
    BY <2>1, <2>2
<1>5. \A m, n \in D : m < n => s[m] < s[n]
  <2> SUFFICES ASSUME NEW m \in D, NEW n \in D, m < n PROVE s[m] < s[n]
    OBVIOUS
  <2>1. s[m] \in S /\ s[n] \in S /\ Rank(S, s[m]) = m /\ Rank(S, s[n]) = n
    BY <1>2
  <2>2. Rank(S, s[m]) <= Rank(S, s[n]) /\ s[m] # s[n]
    BY <1>1, <2>1
  <2>3. s[m] <= s[n] /\ s[m] \in Nat /\ s[n] \in Nat
    BY <1>4, <2>1, <2>2
  <2>. QED
    BY <2>2, <2>3
<1>6. ASSUME NEW i \in S
      PROVE  \E n \in D : s[n] = i
  <2>1. PICK n \in D : n = Rank(S, i)
    BY RankSpec
  <2>2. s[n] \in S /\ Rank(S, s[n]) = n
    BY <1>2, <2>1
  <2>3. Rank(S, s[n]) <= Rank(S, i) /\ Rank(S, i) <= Rank(S, s[n])
    BY <1>1, <2>1, <2>2
  <2>4. s[n] <= i /\ i <= s[n] /\ s[n] \in Nat /\ i \in Nat
    BY <1>4, <2>2, <2>3
  <2>. QED
    BY <2>1, <2>4
<1>. QED
  BY <1>1, <1>3, <1>5, <1>6 DEF s

LEMMA OrderUnique ==
    ASSUME NEW S \in SUBSET Nat, NEW s \in Seq(S), \A i \in S : \E n \in 1 .. Len(s) : s[n] = i,
           \A m, n \in 1 .. Len(s) : m < n => s[m] < s[n]
    PROVE  IsFiniteSet(S) /\ Cardinality(S) = Len(s) /\ InOrder(S) = s
<1>0. \A i \in S : i \in Nat
  OBVIOUS
<1>1. DOMAIN s = 1 .. Len(s) /\ Len(s) \in Nat /\ \A n \in 1 .. Len(s) : s[n] \in S /\ s[n] \in Nat
  <2>1. DOMAIN s = 1 .. Len(s) /\ Len(s) \in Nat
    OBVIOUS
  <2>2. \A n \in 1 .. Len(s) : s[n] \in S
    BY <2>1
  <2>. QED
    BY <1>0, <2>1, <2>2
<1>2. IsInjective(s)
  <2> SUFFICES ASSUME NEW m \in DOMAIN s, NEW n \in DOMAIN s, s[m] = s[n] PROVE m = n
    BY DEF IsInjective
  <2>1. ~ (m < n) /\ ~ (n < m)
    BY <1>1
  <2>. QED
    BY <1>1, <2>1
<1>3. ASSUME NEW n \in 1 .. Len(s)
      PROVE  Rank(S, s[n]) = n
  <2>1. {j \in S : j <= s[n]} = {s[i] : i \in 1 .. n}
    <3>1. ASSUME NEW i \in 1 .. Len(s) PROVE s[i] <= s[n] <=> i <= n
      <4>1. i < n => s[i] < s[n]
        OBVIOUS
      <4>2. n < i => s[n] < s[i]
        OBVIOUS
      <4>. QED
        BY <1>1, <4>1, <4>2
    <3>2. \A j \in S : \E i \in 1 .. Len(s) : s[i] = j
      OBVIOUS
    <3>3. ASSUME NEW j \in S, j <= s[n] PROVE \E i \in 1 .. n : s[i] = j
      <4>1. PICK i \in 1 .. Len(s) : s[i] = j
        BY <3>2
      <4>2. i <= n
        BY <3>1, <3>3, <4>1
      <4>. QED
        BY <1>1, <4>1, <4>2
    <3>4. ASSUME NEW i \in 1 .. n PROVE s[i] \in S /\ s[i] <= s[n]
      <4>1. i \in 1 .. Len(s) /\ i <= n
        BY <1>1
      <4>. QED
        BY <1>1, <3>1, <4>1
    <3>. QED
      BY <3>3, <3>4
  <2>2. n \in 0 .. Len(s)
    BY <1>1
  <2>. QED
    BY <1>2, <2>1, <2>2, PrefixCardinality DEF Rank
<1>4. Cardinality(S) = Len(s)
  <2>1. {s[i] : i \in 1 .. Len(s)} = S
    BY <1>1
  <2>. QED
    BY <1>1, <1>2, <2>1, PrefixCardinality
<1>7. IsFiniteSet(S)
  <2>1. IsFiniteSet(1 .. Len(s))
    BY <1>1, FS_Interval
  <2>2. s \in Surjection(1 .. Len(s), S)
    BY <1>1 DEF Surjection
  <2>. QED
    BY <2>1, <2>2, FS_Surjection
<1>5. ASSUME NEW n \in 1 .. Len(s)
      PROVE  InOrder(S)[n] = s[n]
  <2>1. InOrder(S)[n] = CHOOSE i \in S : Rank(S, i) = n
    BY <1>4 DEF InOrder, Rank
  <2>2. s[n] \in S /\ Rank(S, s[n]) = n
    BY <1>1, <1>3
  <2>3. ASSUME NEW i \in S, Rank(S, i) = n PROVE i = s[n]
    <3>1. Rank(S, i) = n /\ Rank(S, s[n]) = n /\ n \in Nat /\ i \in Nat /\ s[n] \in Nat
      BY <1>0, <1>1, <2>2, <2>3
    <3>2. ~ (i < s[n]) /\ ~ (s[n] < i)
      BY <1>7, <2>2, <3>1, RankSpec
    <3>. QED
      BY <3>1, <3>2
  <2>. QED
    BY <2>1, <2>2, <2>3
<1>6. InOrder(S) \in Seq(S) /\ Len(InOrder(S)) = Len(s)
  BY <1>4, <1>7, OrderSpec
<1>. QED
  BY <1>4, <1>5, <1>6, <1>7

\* The versions that the elements of S have in a sequence of changes.
Picked(s, S) == [n \in 1 .. Cardinality(S) |-> s[InOrder(S)[n]][2]]

LEMMA PickedType ==
    ASSUME NEW s, NEW S \in SUBSET Nat, IsFiniteSet(S), NEW C, \A i \in S : s[i][2] \in C
    PROVE  /\ Picked(s, S) \in Seq(C)
           /\ Len(Picked(s, S)) = Cardinality(S) /\ Cardinality(S) \in Nat
<1> DEFINE D == 1 .. Cardinality(S)
<1>1. Cardinality(S) \in Nat /\ \A n \in D : InOrder(S)[n] \in S
  BY OrderSpec
<1>2. Picked(s, S) \in [D -> C]
  BY <1>1 DEF Picked
<1>. QED
  BY <1>1, <1>2

\* When the changes before them have gone, the elements have moved.
LEMMA PickedShift ==
    ASSUME NEW s, NEW S \in SUBSET Nat, IsFiniteSet(S),
           NEW t, NEW T, NEW d \in Nat, \A i \in S : i >= d /\ t[i - d] = s[i],
           T = {i - d : i \in S}
    PROVE  Picked(t, T) = Picked(s, S)
<1> DEFINE D == 1 .. Cardinality(S)
           f == [n \in D |-> InOrder(S)[n] - d]
<1>1. /\ Cardinality(S) \in Nat /\ \A n \in D : InOrder(S)[n] \in S
      /\ \A m, n \in D : m < n => InOrder(S)[m] < InOrder(S)[n]
      /\ \A i \in S : \E n \in D : InOrder(S)[n] = i
  BY OrderSpec
<1>2. \A i \in S : i \in Nat /\ i - d \in Nat
  OBVIOUS
<1>3. T \in SUBSET Nat
  BY <1>2
<1>4. f \in Seq(T) /\ Len(f) = Cardinality(S)
  <2>1. f \in [D -> T]
    BY <1>1
  <2> HIDE DEF f
  <2>. QED
    BY <1>1, <2>1
<1>5. \A i \in T : \E n \in 1 .. Len(f) : f[n] = i
  BY <1>1, <1>4
<1>6. ASSUME NEW m \in 1 .. Len(f), NEW n \in 1 .. Len(f), m < n
      PROVE  f[m] < f[n]
  <2>1. InOrder(S)[m] < InOrder(S)[n] /\ InOrder(S)[m] \in Nat /\ InOrder(S)[n] \in Nat
    BY <1>1, <1>2, <1>4, <1>6
  <2>2. f[m] = InOrder(S)[m] - d /\ f[n] = InOrder(S)[n] - d
    BY <1>4
  <2>. QED
    BY <2>1, <2>2
<1>7. Cardinality(T) = Cardinality(S) /\ InOrder(T) = f
  BY <1>3, <1>4, <1>5, <1>6, OrderUnique
<1>8. \A n \in D : t[f[n]] = s[InOrder(S)[n]]
  BY <1>1
<1>. QED
  BY <1>7, <1>8 DEF Picked

\* One more change comes last.
LEMMA PickedAppend ==
    ASSUME NEW s, NEW S \in SUBSET Nat, IsFiniteSet(S),
           NEW t, NEW e \in Nat, \A i \in S : i < e /\ t[i] = s[i],
           NEW T, T = S \cup {e}
    PROVE  Picked(t, T) = Append(Picked(s, S), t[e][2])
<1> DEFINE C == {t[i][2] : i \in S \cup {e}}
           D == 1 .. Cardinality(S)
           o == InOrder(S)
           f == Append(o, e)
<1>1. /\ Cardinality(S) \in Nat /\ \A n \in D : o[n] \in S
      /\ \A m, n \in D : m < n => o[m] < o[n]
      /\ \A i \in S : \E n \in D : o[n] = i
      /\ o \in Seq(S) /\ Len(o) = Cardinality(S)
  BY OrderSpec
<1> HIDE DEF o
<1>2. /\ o \in Seq(T) /\ f \in Seq(T) /\ Len(f) = Cardinality(S) + 1
      /\ \A n \in D : f[n] = o[n]
      /\ f[Cardinality(S) + 1] = e
  BY <1>1
<1>3. \A i \in T : \E n \in 1 .. Len(f) : f[n] = i
  BY <1>1, <1>2
<1>4. ASSUME NEW m \in 1 .. Len(f), NEW n \in 1 .. Len(f), m < n
      PROVE  f[m] < f[n]
  <2>1. m \in D
    BY <1>1, <1>2, <1>4
  <2>2. CASE n \in D
    BY <1>1, <1>2, <1>4, <2>1, <2>2
  <2>3. CASE n \notin D
    <3>1. n = Cardinality(S) + 1
      BY <1>1, <1>2, <2>3
    <3>. QED
      BY <1>1, <1>2, <2>1, <3>1
  <2>. QED
    BY <2>2, <2>3
<1>5. Cardinality(T) = Cardinality(S) + 1 /\ InOrder(T) = f
  <2>1. T \in SUBSET Nat
    OBVIOUS
  <2> HIDE DEF f
  <2>. QED
    BY <1>2, <1>3, <1>4, <2>1, OrderUnique
<1>6. /\ Picked(s, S) \in Seq(C) /\ Len(Picked(s, S)) = Cardinality(S)
      /\ \A n \in D : Picked(s, S)[n] = s[o[n]][2]
  <2>1. \A i \in S : s[i][2] \in C
    OBVIOUS
  <2> HIDE DEF C
  <2>. QED
    BY <2>1, PickedType DEF Picked, o
<1>7. /\ Picked(t, T) \in Seq(C) /\ Len(Picked(t, T)) = Cardinality(S) + 1
      /\ \A n \in 1 .. Cardinality(S) + 1 : Picked(t, T)[n] = t[f[n]][2]
  <2>1. T \in SUBSET Nat /\ IsFiniteSet(T) /\ \A i \in T : t[i][2] \in C
    BY FS_AddElement
  <2>. QED
    BY <1>5, <2>1, PickedType DEF Picked
<1>8. \A n \in D : t[f[n]] = s[o[n]]
  BY <1>1, <1>2
<1>9. \A n \in 1 .. Cardinality(S) + 1 : n \in D \/ n = Cardinality(S) + 1
  BY <1>1
<1> DEFINE old == Picked(s, S)
           both == Append(old, t[e][2])
<1>10. t[e][2] \in C
  OBVIOUS
<1> HIDE DEF f, C
<1>11. /\ both \in Seq(C) /\ Len(both) = Cardinality(S) + 1
       /\ \A n \in D : both[n] = old[n]
       /\ both[Cardinality(S) + 1] = t[e][2]
  BY <1>1, <1>6, <1>10
<1> HIDE DEF both, o, old
<1>12. \A n \in 1 .. Cardinality(S) + 1 : Picked(t, T)[n] = both[n]
  <2>1. ASSUME NEW n \in D PROVE Picked(t, T)[n] = both[n]
    <3>0. n \in 1 .. Cardinality(S) + 1
      BY <1>1
    <3>1. Picked(t, T)[n] = t[f[n]][2] /\ old[n] = s[o[n]][2] /\ t[f[n]] = s[o[n]]
      BY <1>6, <1>7, <1>8, <3>0 DEF old
    <3>. QED
      BY <1>11, <3>1
  <2>2. Picked(t, T)[Cardinality(S) + 1] = both[Cardinality(S) + 1]
    <3>1. Cardinality(S) + 1 \in 1 .. Cardinality(S) + 1
      BY <1>1
    <3>. QED
      BY <1>2, <1>7, <1>11, <3>1
  <2>. QED
    BY <1>9, <2>1, <2>2
<1>13. Picked(t, T) = both
  BY <1>1, <1>7, <1>11, <1>12, SeqEqual
<1>. QED
  BY <1>13 DEF both, old

\* The first change goes.
LEMMA PickedTail ==
    ASSUME NEW s, NEW S \in SUBSET Nat, IsFiniteSet(S), NEW h \in Nat, \A i \in S : h < i,
           NEW T, T = S \cup {h}
    PROVE  Picked(s, T) = <<s[h][2]>> \o Picked(s, S)
<1> DEFINE C == {s[i][2] : i \in S \cup {h}}
           k == Cardinality(S)
           D == 1 .. k
           o == InOrder(S)
           f == <<h>> \o o
<1>1. /\ k \in Nat /\ \A n \in D : o[n] \in S
      /\ \A m, n \in D : m < n => o[m] < o[n]
      /\ \A i \in S : \E n \in D : o[n] = i
      /\ o \in Seq(S) /\ Len(o) = k
  BY OrderSpec
<1>2. T \in SUBSET Nat /\ IsFiniteSet(T) /\ \A i \in T : s[i][2] \in C
  BY FS_AddElement
<1> HIDE DEF o, k
<1>3. /\ f \in Seq(T) /\ Len(f) = k + 1 /\ f[1] = h
      /\ \A n \in 2 .. k + 1 : f[n] = o[n - 1] /\ n - 1 \in D
  BY <1>1
<1>4. \A i \in T : \E n \in 1 .. Len(f) : f[n] = i
  <2>1. ASSUME NEW i \in S PROVE \E n \in 1 .. Len(f) : f[n] = i
    <3>1. PICK n \in D : o[n] = i
      BY <1>1
    <3>2. n + 1 \in 2 .. k + 1 /\ n + 1 \in 1 .. Len(f) /\ (n + 1) - 1 = n
      BY <1>1, <1>3
    <3>3. f[n + 1] = i
      BY <1>3, <3>1, <3>2
    <3>. QED
      BY <3>2, <3>3
  <2>2. 1 \in 1 .. Len(f)
    BY <1>1, <1>3
  <2>. QED
    BY <1>3, <2>1, <2>2
<1>5. ASSUME NEW m \in 1 .. Len(f), NEW n \in 1 .. Len(f), m < n
      PROVE  f[m] < f[n]
  <2>1. n \in 2 .. k + 1
    BY <1>1, <1>3, <1>5
  <2>2. CASE m = 1
    BY <1>1, <1>3, <2>1, <2>2
  <2>3. CASE m # 1
    <3>1. m \in 2 .. k + 1 /\ m - 1 < n - 1
      BY <1>1, <1>3, <1>5, <2>3
    <3>. QED
      BY <1>1, <1>3, <2>1, <3>1
  <2>. QED
    BY <2>2, <2>3
<1> HIDE DEF f
<1>6. Cardinality(T) = k + 1 /\ InOrder(T) = f
  BY <1>2, <1>3, <1>4, <1>5, OrderUnique
<1>7. /\ Picked(s, S) \in Seq(C) /\ Len(Picked(s, S)) = k
      /\ \A n \in D : Picked(s, S)[n] = s[o[n]][2]
  BY PickedType DEF Picked, o, k
<1>8. /\ Picked(s, T) \in Seq(C) /\ Len(Picked(s, T)) = k + 1
      /\ \A n \in 1 .. k + 1 : Picked(s, T)[n] = s[f[n]][2]
  BY <1>2, <1>6, PickedType DEF Picked
<1>9. \A n \in 1 .. k + 1 : n = 1 \/ n \in 2 .. k + 1
  BY <1>1
<1>10. s[h][2] \in C
  OBVIOUS
<1> HIDE DEF C
<1>11. Picked(s, T) = <<s[h][2]>> \o Picked(s, S)
  <2> DEFINE old == Picked(s, S)
             both == <<s[h][2]>> \o old
  <2>1. /\ both \in Seq(C) /\ Len(both) = k + 1 /\ both[1] = s[h][2]
        /\ \A n \in 2 .. k + 1 : both[n] = old[n - 1]
    BY <1>1, <1>7, <1>10
  <2>2. \A n \in 1 .. k + 1 : Picked(s, T)[n] = both[n]
    BY <1>1, <1>3, <1>7, <1>8, <1>9, <2>1
  <2> HIDE DEF both
  <2>3. Picked(s, T) = both
    BY <1>8, <2>1, <2>2, SeqEqual
  <2>. QED
    BY <2>3 DEF both
<1>. QED
  BY <1>11

\* The changes of an object that the watch will bring.
LEMMA AwaitedSpec ==
    ASSUME TypeOK, NEW o \in Objects
    PROVE  /\ Awaited(o) \in SUBSET Nat /\ IsFiniteSet(Awaited(o))
           /\ \A i \in Awaited(o) : stream[i] \in Objects \X Contents /\ stream[i][2] \in Contents
           /\ Coming(o) = Picked(stream, Awaited(o))
           /\ Coming(o) \in Seq(Contents)
<1>1. DOMAIN stream = 1 .. Len(stream) /\ Len(stream) \in Nat
  BY DEF TypeOK
<1>2. Awaited(o) \subseteq 1 .. Len(stream)
  BY <1>1 DEF Awaited
<1>3. IsFiniteSet(Awaited(o))
  <2>1. IsFiniteSet(1 .. Len(stream))
    BY <1>1, FS_Interval
  <2>. QED
    BY <1>2, <2>1, FS_Subset
<1>4. Awaited(o) \in SUBSET Nat
  BY <1>1, <1>2
<1>5. \A i \in Awaited(o) : stream[i] \in Objects \X Contents /\ stream[i][2] \in Contents
  BY <1>1, <1>2 DEF TypeOK
<1>6. Coming(o) = Picked(stream, Awaited(o))
  BY DEF Coming, Picked
<1>. QED
  BY <1>3, <1>4, <1>5, <1>6, PickedType

\* A change is the last that the watch will bring.
LEMMA ComingChange ==
    ASSUME TypeOK, ListRight, NEW p \in Objects, NEW v \in Contents, Change(p, v),
           NEW o \in Objects
    PROVE  Coming(o)' = IF o = p THEN Append(Coming(o), v) ELSE Coming(o)
<1> DEFINE e == Len(stream) + 1
<1>1. /\ DOMAIN stream = 1 .. Len(stream) /\ Len(stream) \in Nat
      /\ DOMAIN stream' = 1 .. e
      /\ \A i \in DOMAIN stream : stream'[i] = stream[i]
      /\ stream'[e] = <<p, v>>
  BY DEF TypeOK, Change
<1>2. reflector' = reflector /\ cut' = cut /\ (reflector = "replace" => cut < e) /\ cut \in Nat
  BY <1>1 DEF Change, reflectorVars, ListRight, TypeOK
<1>3. Coming(o)' = Picked(stream', Awaited(o)')
  BY DEF Coming, Picked
<1>4. \A i \in Awaited(o) : i < e /\ stream'[i] = stream[i] /\ i >= 0 /\ i - 0 = i
  BY <1>1 DEF Awaited
<1>5. CASE o = p
  <2>1. Awaited(o)' = Awaited(o) \cup {e}
    <3>1. ASSUME NEW i \in 1 .. e PROVE i \in Awaited(o)' <=> i \in Awaited(o) \/ i = e
      BY <1>1, <1>2, <1>5 DEF Awaited
    <3>2. Awaited(o)' \subseteq 1 .. e /\ Awaited(o) \cup {e} \subseteq 1 .. e
      BY <1>1 DEF Awaited
    <3>. QED
      BY <3>1, <3>2
  <2>2. stream'[e][2] = v /\ e \in Nat
    BY <1>1
  <2> HIDE DEF e
  <2>3. /\ Awaited(o) \in SUBSET Nat /\ IsFiniteSet(Awaited(o))
        /\ Coming(o) = Picked(stream, Awaited(o))
    BY AwaitedSpec
  <2>4. \A i \in Awaited(o) : i < e /\ stream'[i] = stream[i]
    BY <1>4
  <2>5. Picked(stream', Awaited(o)') = Append(Picked(stream, Awaited(o)), stream'[e][2])
    BY <2>1, <2>2, <2>3, <2>4, PickedAppend
  <2>. QED
    BY <1>3, <1>5, <2>1, <2>2, <2>3, <2>5
<1>6. CASE o # p
  <2>1. Awaited(o)' = {i - 0 : i \in Awaited(o)}
    <3>1. ASSUME NEW i \in 1 .. e PROVE i \in Awaited(o)' <=> i \in Awaited(o)
      BY <1>1, <1>2, <1>6 DEF Awaited
    <3>2. Awaited(o)' \subseteq 1 .. e /\ Awaited(o) \subseteq 1 .. e
      BY <1>1 DEF Awaited
    <3>. QED
      BY <1>4, <3>1, <3>2
  <2>2. Awaited(o) \in SUBSET Nat /\ IsFiniteSet(Awaited(o)) /\ 0 \in Nat
    BY AwaitedSpec
  <2>3. \A i \in Awaited(o) : i >= 0 /\ stream'[i - 0] = stream[i]
    BY <1>4
  <2>4. Picked(stream', Awaited(o)') = Picked(stream, Awaited(o))
    BY <2>1, <2>2, <2>3, PickedShift
  <2>. QED
    BY <1>3, <1>6, <2>4, AwaitedSpec
<1>. QED
  BY <1>5, <1>6

\* A list contains all changes so far.
LEMMA ComingList ==
    ASSUME TypeOK, List, NEW o \in Objects
    PROVE  Coming(o)' = <<>>
<1>1. Awaited(o)' = {}
  BY DEF List, Awaited, TypeOK, serverVars
<1>2. Cardinality({}) = 0
  BY FS_EmptySet
<1>3. Coming(o)' = Picked(stream', {})
  BY <1>1 DEF Coming, Picked
<1>. QED
  BY <1>2, <1>3 DEF Picked

\* The watch goes on where the list was taken.
LEMMA ComingReplace ==
    ASSUME TypeOK, ListRight, Replace, NEW o \in Objects
    PROVE  Coming(o)' = Coming(o)
<1>1. /\ DOMAIN stream = 1 .. Len(stream) /\ Len(stream) \in Nat
      /\ cut \in Nat /\ cut <= Len(stream)
      /\ reflector = "replace" /\ reflector' = "watch"
  BY DEF TypeOK, Replace, ListRight
<1>2. /\ DOMAIN stream' = 1 .. Len(stream) - cut
      /\ \A i \in 1 .. Len(stream) - cut : stream'[i] = stream[i + cut]
  <2>1. stream' = SubSeq(stream, cut + 1, Len(stream)) /\ stream \in Seq(Objects \X Contents)
    BY DEF TypeOK, Replace
  <2>2. /\ stream' \in Seq(Objects \X Contents) /\ Len(stream') = Len(stream) - cut
        /\ \A i \in 1 .. Len(stream) - cut : stream'[i] = stream[i + cut]
    <3>1. /\ cut + 1 \in Int /\ Len(stream) \in Int
          /\ \A i \in cut + 1 .. Len(stream) : stream[i] \in Objects \X Contents
      BY <1>1 DEF TypeOK
    <3>2. /\ stream' \in Seq(Objects \X Contents)
          /\ Len(stream') = IF cut + 1 <= Len(stream) THEN Len(stream) - (cut + 1) + 1 ELSE 0
          /\ \A i \in 1 .. Len(stream) - (cut + 1) + 1 : stream'[i] = stream[cut + 1 + i - 1]
      BY <2>1, <3>1, SubSeqProperties
    <3>3. /\ Len(stream') = Len(stream) - cut
          /\ Len(stream) - (cut + 1) + 1 = Len(stream) - cut
      <4>1. \A n, c \in Nat :
               c <= n => n - (c + 1) + 1 = n - c /\ (c + 1 <= n \/ n - c = 0)
        OBVIOUS
      <4>2. /\ Len(stream) - (cut + 1) + 1 = Len(stream) - cut
            /\ cut + 1 <= Len(stream) \/ Len(stream) - cut = 0
        <5>1. cut \in Nat /\ Len(stream) \in Nat /\ cut <= Len(stream)
          BY <1>1
        <5>. QED
          BY <4>1, <5>1, Zenon
      <4> DEFINE long == cut + 1 <= Len(stream)
      <4>3. CASE long
        BY <3>2, <4>2, <4>3
      <4>4. CASE ~ long
        BY <3>2, <4>2, <4>4
      <4>. QED
        BY <4>3, <4>4
    <3>4. \A i \in 1 .. Len(stream) - cut : cut + 1 + i - 1 = i + cut
      BY <1>1
    <3>. QED
      BY <3>2, <3>3, <3>4
  <2>. QED
    BY <1>1, <2>2
<1>3. \A i \in Awaited(o) : i >= cut /\ i - cut \in DOMAIN stream' /\ stream'[i - cut] = stream[i]
  <2> SUFFICES ASSUME NEW i \in Awaited(o)
               PROVE  i >= cut /\ i - cut \in DOMAIN stream' /\ stream'[i - cut] = stream[i]
    OBVIOUS
  <2>1. i \in 1 .. Len(stream) /\ i > cut
    BY <1>1 DEF Awaited
  <2>2. i - cut \in 1 .. Len(stream) - cut /\ (i - cut) + cut = i
    BY <1>1, <2>1
  <2>. QED
    BY <1>1, <1>2, <2>1, <2>2
<1>4. Awaited(o)' = {i - cut : i \in Awaited(o)}
  <2>1. ASSUME NEW k \in Awaited(o)' PROVE \E i \in Awaited(o) : k = i - cut
    <3>1. k \in 1 .. Len(stream) - cut /\ stream[k + cut][1] = o
      BY <1>2, <2>1 DEF Awaited
    <3>2. k + cut \in Awaited(o) /\ k = (k + cut) - cut
      BY <1>1, <3>1 DEF Awaited
    <3>. QED
      BY <3>2
  <2>2. ASSUME NEW i \in Awaited(o) PROVE i - cut \in Awaited(o)'
    BY <1>1, <1>3, <2>2 DEF Awaited
  <2>. QED
    BY <2>1, <2>2
<1>5. Coming(o)' = Picked(stream', Awaited(o)')
  BY DEF Coming, Picked
<1>6. Awaited(o) \in SUBSET Nat /\ IsFiniteSet(Awaited(o)) /\ Coming(o) = Picked(stream, Awaited(o))
  BY AwaitedSpec
<1>7. \A i \in Awaited(o) : i >= cut /\ stream'[i - cut] = stream[i]
  BY <1>3
<1>8. Picked(stream', Awaited(o)') = Picked(stream, Awaited(o))
  <2> DEFINE S == Awaited(o) s == stream T == Awaited(o)' t == stream' d == cut
  <2>1. S \in SUBSET Nat /\ IsFiniteSet(S)
    BY <1>6
  <2>2. d \in Nat
    BY <1>1
  <2>3. \A i \in S : i >= d /\ t[i - d] = s[i]
    BY <1>7
  <2>4. T = {i - d : i \in S}
    BY <1>4
  <2> HIDE DEF S, s, T, t, d
  <2>5. Picked(t, T) = Picked(s, S)
    BY <2>1, <2>2, <2>3, <2>4, PickedShift, SMTT(60)
  <2>. QED
    BY <2>5 DEF S, s, T, t
<1>. QED
  BY <1>5, <1>6, <1>8

\* The watch brings the first change.
LEMMA ComingWatch ==
    ASSUME TypeOK, WatchEvent, NEW o \in Objects
    PROVE  Coming(o) = (IF o = Head(stream)[1] THEN <<Head(stream)[2]>> ELSE <<>>) \o Coming(o)'
<1> DEFINE rest == Awaited(o) \ {1}
<1>1. /\ DOMAIN stream = 1 .. Len(stream) /\ Len(stream) \in Nat /\ Len(stream) # 0
      /\ Head(stream) = stream[1] /\ stream[1] \in Objects \X Contents
      /\ reflector = "watch" /\ reflector' = "watch"
  BY DEF TypeOK, WatchEvent, reflectorVars
<1>2. /\ DOMAIN stream' = 1 .. Len(stream) - 1
      /\ \A i \in 1 .. Len(stream) - 1 : stream'[i] = stream[i + 1]
  BY <1>1 DEF TypeOK, WatchEvent
<1>3. \A i \in rest : 1 < i /\ i >= 1 /\ i - 1 \in DOMAIN stream' /\ stream'[i - 1] = stream[i]
  <2> SUFFICES ASSUME NEW i \in rest
               PROVE  1 < i /\ i - 1 \in DOMAIN stream' /\ stream'[i - 1] = stream[i]
    BY <1>1 DEF Awaited
  <2>1. i \in 2 .. Len(stream)
    BY <1>1 DEF Awaited
  <2>2. i - 1 \in 1 .. Len(stream) - 1 /\ (i - 1) + 1 = i
    BY <1>1, <2>1
  <2>. QED
    BY <1>1, <1>2, <2>1, <2>2
<1>4. Awaited(o)' = {i - 1 : i \in rest}
  <2>1. ASSUME NEW k \in Awaited(o)' PROVE \E i \in rest : k = i - 1
    <3>1. k \in 1 .. Len(stream) - 1 /\ stream[k + 1][1] = o
      BY <1>2, <2>1 DEF Awaited
    <3>2. k + 1 \in rest /\ k = (k + 1) - 1
      BY <1>1, <3>1 DEF Awaited
    <3>. QED
      BY <3>2
  <2>2. ASSUME NEW i \in rest PROVE i - 1 \in Awaited(o)'
    BY <1>1, <1>3, <2>2 DEF Awaited
  <2>. QED
    BY <2>1, <2>2
<1>5. /\ rest \in SUBSET Nat /\ IsFiniteSet(rest)
      /\ \A i \in rest : stream[i][2] \in Contents
  BY AwaitedSpec, FS_Subset
<1>6. Coming(o)' = Picked(stream, rest)
  <2>1. Coming(o)' = Picked(stream', Awaited(o)')
    BY DEF Coming, Picked
  <2> HIDE DEF rest
  <2>. QED
    BY <1>3, <1>4, <1>5, <2>1, PickedShift
<1>7. CASE o = Head(stream)[1]
  <2>1. Awaited(o) = rest \cup {1}
    BY <1>1, <1>7 DEF Awaited
  <2>3. Picked(stream, Awaited(o)) = <<stream[1][2]>> \o Picked(stream, rest)
    <3> HIDE DEF rest
    <3>. QED
      BY <1>3, <1>5, <2>1, PickedTail
  <2>. QED
    BY <1>1, <1>6, <1>7, <2>1, <2>3, AwaitedSpec
<1>8. CASE o # Head(stream)[1]
  <2>1. Awaited(o) = rest
    BY <1>1, <1>8 DEF Awaited
  <2>2. Coming(o) = Coming(o)' /\ Coming(o) \in Seq(Contents)
    BY <1>6, <2>1, AwaitedSpec
  <2>. QED
    BY <1>8, <2>2
<1>. QED
  BY <1>7, <1>8

\* Nothing else changes what the watch will bring.
LEMMA ComingKept ==
    ASSUME stream' = stream, cut' = cut, reflector' = "replace" <=> reflector = "replace",
           NEW o \in Objects
    PROVE  Coming(o)' = Coming(o)
BY DEF Coming, Awaited

\* What concatenation does to the ends and the middle of a sequence.
LEMMA ThreeParts ==
    ASSUME NEW C, NEW s \in Seq(C), NEW t \in Seq(C), NEW u \in Seq(C)
    PROVE  /\ s \o t \o u \in Seq(C)
           /\ Len(s \o t \o u) = Len(s) + Len(t) + Len(u)
           /\ \A i \in 1 .. Len(s) : (s \o t \o u)[i] = s[i]
           /\ \A i \in 1 .. Len(t) : (s \o t \o u)[Len(s) + i] = t[i]
           /\ \A i \in 1 .. Len(u) : (s \o t \o u)[Len(s) + Len(t) + i] = u[i]
           /\ s \o <<>> \o u = s \o u
           /\ Len(s) \in Nat /\ Len(t) \in Nat /\ Len(u) \in Nat
OBVIOUS

LEMMA AppendLast ==
    ASSUME NEW C, NEW s \in Seq(C), NEW t \in Seq(C), NEW u \in Seq(C), NEW v \in C
    PROVE  s \o t \o Append(u, v) = Append(s \o t \o u, v)
OBVIOUS

LEMMA AppendMiddle ==
    ASSUME NEW C, NEW s \in Seq(C), NEW u \in Seq(C), NEW v \in C
    PROVE  Append(s, v) \o u = s \o <<v>> \o u
OBVIOUS

LEMMA CutBehind ==
    ASSUME NEW C, NEW s \in Seq(C), NEW u \in Seq(C), NEW v \in C
    PROVE  Append(SubSeq(s \o u, 1, Len(s)), v) = s \o <<v>>
OBVIOUS

LEMMA WithoutMiddle ==
    ASSUME NEW C, NEW s \in Seq(C), NEW u \in Seq(C), NEW v \in C,
           NEW w, w = s \o <<v>> \o u, NEW k, k = Len(s) + 1
    PROVE  Promise!Without(w, k) = s \o u
<1> DEFINE left == SubSeq(w, 1, k - 1)
           right == SubSeq(w, k + 1, Len(w))
<1>1. /\ w \in Seq(C) /\ Len(w) = k + Len(u) /\ Len(u) \in Nat
      /\ k \in Nat /\ k - 1 = Len(s) /\ Len(s) \in Nat
      /\ \A i \in 1 .. Len(s) : w[i] = s[i]
      /\ \A i \in 1 .. Len(u) : w[k + i] = u[i]
  OBVIOUS
<1>2. left = s
  <2>1. left \in Seq(C) /\ Len(left) = Len(s) /\ \A i \in 1 .. Len(s) : left[i] = w[i]
    BY <1>1
  <2>. QED
    BY <1>1, <2>1, SeqEqual
<1>3. right = u
  <2>1. k + 1 \in Int /\ Len(w) \in Int /\ \A i \in k + 1 .. Len(w) : w[i] \in C
    BY <1>1
  <2>2. /\ right \in Seq(C)
        /\ Len(right) = IF k + 1 <= Len(w) THEN Len(w) - (k + 1) + 1 ELSE 0
        /\ \A i \in 1 .. Len(w) - (k + 1) + 1 : right[i] = w[k + 1 + i - 1]
    BY <2>1, SubSeqProperties
  <2>3. \A i \in 1 .. Len(u) : k + 1 + i - 1 = k + i
    BY <1>1
  <2>4. Len(w) - (k + 1) + 1 = Len(u) /\ (k + 1 <= Len(w) \/ Len(u) = 0)
    BY <1>1
  <2>5. Len(right) = Len(u)
    BY <2>2, <2>4
  <2>6. \A i \in 1 .. Len(u) : right[i] = u[i]
    BY <1>1, <2>2, <2>3, <2>4
  <2>. QED
    BY <2>2, <2>5, <2>6, SeqEqual
<1>4. Promise!Without(w, k) = left \o right
  BY DEF Promise!Without
<1>. QED
  BY <1>2, <1>3, <1>4

LEMMA FirstOfThree ==
    ASSUME NEW C, NEW s \in Seq(C), NEW t \in Seq(C), NEW u \in Seq(C), s # <<>>
    PROVE  /\ s \o t \o u # <<>>
           /\ Head(s \o t \o u) = Head(s)
           /\ Tail(s \o t \o u) = Tail(s) \o t \o u
OBVIOUS

\* The versions that are not handled yet are in three parts.
LEMMA PartsSpec ==
    ASSUME TypeOK, NEW o \in Objects
    PROVE  /\ Held(o) \in Seq(Contents) /\ items[o] \in Seq(Contents)
           /\ ToBeQueued(o) \in Seq(Contents) /\ Coming(o) \in Seq(Contents)
           /\ Unhandled[o] = Held(o) \o ToBeQueued(o) \o Coming(o)
           /\ Unhandled[o] \in Seq(Contents)
           /\ ListPlace[o] = IF reflector = "replace" THEN Len(Held(o)) + 1 ELSE 0
           /\ popped = Absent => Held(o) = items[o]
           /\ o # popped => Held(o) = items[o]
<1>1. items[o] \in Seq(Contents) /\ inHand \in Seq(Contents) /\ snapshot[o] \in Contents
  BY DEF TypeOK
<1>2. Held(o) \in Seq(Contents) /\ (o # popped => Held(o) = items[o])
  <2>1. \A s \in Seq(Contents) : <<>> \o s = s
    OBVIOUS
  <2>2. CASE o = popped
    BY <1>1, <2>2 DEF Held
  <2>3. CASE o # popped
    BY <1>1, <2>1, <2>3 DEF Held
  <2>. QED
    BY <2>2, <2>3
<1>3. ToBeQueued(o) \in Seq(Contents)
  BY <1>1 DEF ToBeQueued
<1>4. Coming(o) \in Seq(Contents)
  BY AwaitedSpec
<1>5. o # Absent
  BY InformerAssumption
<1>. QED
  BY <1>1, <1>2, <1>3, <1>4, <1>5, ThreeParts DEF Unhandled, ListPlace

\* The versions and the place of the list, object by object.
LEMMA SameMapping ==
    ASSUME \A o \in Objects : Unhandled'[o] = Unhandled[o] /\ ListPlace'[o] = ListPlace[o]
    PROVE  Unhandled' = Unhandled /\ ListPlace' = ListPlace
<1>1. /\ Unhandled = [o \in Objects |-> Unhandled[o]]
      /\ Unhandled' = [o \in Objects |-> Unhandled'[o]]
      /\ ListPlace = [o \in Objects |-> ListPlace[o]]
      /\ ListPlace' = [o \in Objects |-> ListPlace'[o]]
  BY DEF Unhandled, ListPlace
<1>. QED
  BY <1>1, Zenon

LEMMA ExceptMapping ==
    ASSUME NEW p \in Objects, NEW u, NEW n,
           Unhandled'[p] = u, \A o \in Objects \ {p} : Unhandled'[o] = Unhandled[o],
           ListPlace'[p] = n, \A o \in Objects \ {p} : ListPlace'[o] = ListPlace[o]
    PROVE  /\ Unhandled' = [Unhandled EXCEPT ![p] = u]
           /\ ListPlace' = [ListPlace EXCEPT ![p] = n]
<1>1. /\ DOMAIN Unhandled = Objects
      /\ Unhandled' = [o \in Objects |-> Unhandled'[o]]
      /\ DOMAIN ListPlace = Objects
      /\ ListPlace' = [o \in Objects |-> ListPlace'[o]]
  BY DEF Unhandled, ListPlace
<1>2. /\ [Unhandled EXCEPT ![p] = u] = [o \in Objects |-> IF o = p THEN u ELSE Unhandled[o]]
      /\ [ListPlace EXCEPT ![p] = n] = [o \in Objects |-> IF o = p THEN n ELSE ListPlace[o]]
  BY <1>1
<1>3. \A o \in Objects : /\ Unhandled'[o] = IF o = p THEN u ELSE Unhandled[o]
                         /\ ListPlace'[o] = IF o = p THEN n ELSE ListPlace[o]
  OBVIOUS
<1>. QED
  BY <1>1, <1>2, <1>3

\* The API server changes an object: the version comes last.
LEMMA ChangePromised ==
    ASSUME TypeOK, TypeOK', ListRight, NEW p \in Objects, NEW v \in Contents, Change(p, v)
    PROVE  Promise!Change(p, v)
<1>1. \A o \in Objects : /\ Held(o)' = Held(o) /\ ToBeQueued(o)' = ToBeQueued(o)
                         /\ ListPlace'[o] = ListPlace[o]
  BY DEF Change, reflectorVars, fifoVars, processVars, Held, ToBeQueued, ListPlace
<1>2. \A o \in Objects : Unhandled'[o] = Held(o) \o ToBeQueued(o) \o Coming(o)'
  BY <1>1 DEF Unhandled
<1>3. Unhandled'[p] = Append(Unhandled[p], v)
  <2>1. Coming(p)' = Append(Coming(p), v)
    BY ComingChange
  <2>2. /\ Held(p) \in Seq(Contents) /\ ToBeQueued(p) \in Seq(Contents)
        /\ Coming(p) \in Seq(Contents)
        /\ Unhandled[p] = Held(p) \o ToBeQueued(p) \o Coming(p)
    BY PartsSpec
  <2>3. Held(p) \o ToBeQueued(p) \o Append(Coming(p), v) = Append(Unhandled[p], v)
    BY <2>2, AppendLast
  <2>. QED
    BY <1>2, <2>1, <2>3
<1>4. \A o \in Objects \ {p} : Unhandled'[o] = Unhandled[o]
  BY <1>2, ComingChange, PartsSpec
<1>5. Unhandled' = [Unhandled EXCEPT ![p] = Append(Unhandled[p], v)] /\ ListPlace' = ListPlace
  <2>1. ListPlace' = ListPlace
    BY <1>1 DEF ListPlace
  <2>. QED
    BY <1>1, <1>3, <1>4, <2>1, ExceptMapping
<1>. QED
  BY <1>5 DEF Promise!Change, Change, processVars

\* The reflector lists: what it has not received is lost.
LEMMA ListPromised ==
    ASSUME TypeOK, List
    PROVE  Promise!List
<1> DEFINE n == [o \in Objects |-> Len(Held(o))]
<1>1. /\ reflector = "list" /\ reflector' = "replace" /\ live' = live /\ store' = store
      /\ snapshot' = live
      /\ \A o \in Objects : Held(o)' = Held(o)
  BY DEF List, serverVars, fifoVars, processVars, Held
<1>2. ~ Promise!Listing
  BY <1>1, PartsSpec DEF Promise!Listing
<1>3. ASSUME NEW o \in Objects
      PROVE  /\ Len(Held(o)) \in 0 .. Len(Unhandled[o])
             /\ Unhandled'[o] = Append(SubSeq(Unhandled[o], 1, Len(Held(o))), live[o])
             /\ ListPlace'[o] = Len(Held(o)) + 1
  <2>1. /\ Held(o) \in Seq(Contents) /\ Coming(o) \in Seq(Contents) /\ live[o] \in Contents
        /\ ToBeQueued(o) = <<>> /\ Unhandled[o] = Held(o) \o <<>> \o Coming(o)
    BY <1>1, PartsSpec DEF ToBeQueued, TypeOK
  <2>2. Unhandled[o] = Held(o) \o Coming(o) /\ Len(Held(o)) \in 0 .. Len(Unhandled[o])
    BY <2>1
  <2>3. ToBeQueued(o)' = <<live[o]>> /\ Coming(o)' = <<>> /\ Held(o)' = Held(o)
    BY <1>1, ComingList DEF ToBeQueued
  <2>4. Unhandled'[o] = Held(o) \o <<live[o]>> \o <<>>
    BY <2>3 DEF Unhandled
  <2>5. Unhandled'[o] = Held(o) \o <<live[o]>>
    BY <2>1, <2>4
  <2>6. ListPlace'[o] = Len(Held(o)) + 1
    BY <1>1, <2>3 DEF ListPlace
  <2>. QED
    BY <2>1, <2>2, <2>5, <2>6, CutBehind
<1>4. n \in Promise!Received
  <2>1. n \in [Objects -> Promise!Lengths]
    BY <1>3 DEF Promise!Lengths
  <2>2. \A o \in Objects : n[o] <= Len(Unhandled[o])
    BY <1>3
  <2> HIDE DEF n
  <2>. QED
    BY <2>1, <2>2 DEF Promise!Received
<1>5. /\ Unhandled' = [o \in Objects |-> Append(SubSeq(Unhandled[o], 1, n[o]), live[o])]
      /\ ListPlace' = [o \in Objects |-> n[o] + 1]
  <2>1. /\ Unhandled' = [o \in Objects |-> Unhandled'[o]]
        /\ ListPlace' = [o \in Objects |-> ListPlace'[o]]
    BY DEF Unhandled, ListPlace
  <2>2. \A o \in Objects : n[o] = Len(Held(o))
    OBVIOUS
  <2> HIDE DEF n
  <2>. QED
    BY <1>3, <2>1, <2>2
<1> HIDE DEF n
<1>. QED
  BY <1>1, <1>2, <1>4, <1>5 DEF Promise!List

\* What the end and the place of the list in the middle of a sequence are.
LEMMA MiddleOfThree ==
    ASSUME NEW C, NEW s \in Seq(C), NEW u \in Seq(C), NEW v \in C
    PROVE  /\ (s \o <<v>> \o u)[Len(s) + 1] = v
           /\ s # <<>> => (s \o <<v>> \o u)[Len(s)] = Last(s) /\ Len(s) # 0
           /\ s = <<>> => Len(s) = 0
           /\ Len(s) \in Nat
<1> DEFINE w == s \o <<v>> \o u
<1>1. /\ Len(s) \in Nat /\ \A i \in 1 .. Len(s) : w[i] = s[i]
      /\ w[Len(s) + 1] = v
  OBVIOUS
<1>2. s # <<>> => Len(s) # 0
  OBVIOUS
<1>. QED
  BY <1>1, <1>2 DEF Last, w

\* The list is queued: it drops what ObjectEvents drops.
LEMMA ReplacePromised ==
    ASSUME TypeOK, TypeOK', ListRight, Replace
    PROVE  Promise!EventsNext \/ UNCHANGED Promise!eventVars
<1>1. /\ reflector = "replace" /\ reflector' = "watch" /\ popped = Absent /\ popped' = Absent
      /\ live' = live /\ store' = store
  BY DEF Replace, LockFree, processVars
<1>2. ASSUME NEW o \in Objects
      PROVE  /\ ListPlace[o] # 0 /\ ListPlace'[o] = 0
             /\ Unhandled'[o] = IF Promise!Dropped(o)
                                THEN Promise!Without(Unhandled[o], ListPlace[o])
                                ELSE Unhandled[o]
  <2> DEFINE dropped == WillBeDeleted(o) \/ o \notin Listed \cup Missing
  <2>1. /\ items[o] \in Seq(Contents) /\ Coming(o) \in Seq(Contents) /\ snapshot[o] \in Contents
        /\ Held(o) = items[o] /\ ToBeQueued(o) = <<snapshot[o]>>
        /\ Unhandled[o] = items[o] \o <<snapshot[o]>> \o Coming(o)
        /\ ListPlace[o] = Len(items[o]) + 1 /\ Len(items[o]) \in Nat
    <3>1. /\ items[o] \in Seq(Contents) /\ Coming(o) \in Seq(Contents)
          /\ Held(o) = items[o]
          /\ Unhandled[o] = Held(o) \o ToBeQueued(o) \o Coming(o)
          /\ ListPlace[o] = Len(Held(o)) + 1
      BY <1>1, PartsSpec
    <3>2. snapshot[o] \in Contents /\ ToBeQueued(o) = <<snapshot[o]>>
      BY <1>1 DEF ToBeQueued, TypeOK
    <3>3. Len(items[o]) \in Nat
      BY <3>1, LenProperties
    <3>. QED
      BY <3>1, <3>2, <3>3
  <2>2. /\ items'[o] \in Seq(Contents) /\ Coming(o)' \in Seq(Contents)
        /\ Held(o)' = items'[o] /\ ToBeQueued(o)' = <<>>
        /\ Unhandled'[o] = items'[o] \o <<>> \o Coming(o)'
        /\ ListPlace'[o] = 0
    <3>1. o # Absent
      BY InformerAssumption
    <3>2. items'[o] \in Seq(Contents)
      BY DEF TypeOK
    <3>3. Held(o)' = items'[o] /\ ToBeQueued(o)' = <<>> /\ ListPlace'[o] = 0
      BY <1>1, <3>1, <3>2, ConcatEmptySeq DEF Held, ToBeQueued, ListPlace
    <3>4. Coming(o)' \in Seq(Contents)
      BY <2>1, ComingReplace
    <3>. QED
      BY <3>2, <3>3, <3>4 DEF Unhandled
  <2>3. Unhandled'[o] = items'[o] \o Coming(o)
    <3>1. Coming(o)' = Coming(o)
      BY ComingReplace
    <3>2. items'[o] \o <<>> = items'[o]
      BY <2>2, ConcatEmptySeq
    <3>. QED
      BY <2>2, <3>1, <3>2
  <2>4. items'[o] = IF dropped THEN items[o] ELSE Append(items[o], snapshot[o])
    <3>1. items'[o] = CASE o \in Listed  -> NewDeltas(o, snapshot[o], "Sync")
                        [] o \in Missing -> NewDeltas(o, Absent, "Deleted")
                        [] OTHER         -> items[o]
      BY DEF Replace
    <3>2. /\ o \in Listed => o \notin Missing
          /\ o \in Missing => snapshot[o] = Absent
      BY DEF Missing, Listed
    <3>3. CASE o \in Listed
      BY <3>1, <3>2, <3>3 DEF NewDeltas
    <3>4. CASE o \in Missing
      BY <3>1, <3>2, <3>4 DEF NewDeltas
    <3>5. CASE o \notin Listed \cup Missing
      BY <3>1, <3>5
    <3>. QED
      BY <3>3, <3>4, <3>5
  <2>5. Promise!Dropped(o) <=> dropped
    <3>1. /\ Unhandled[o][ListPlace[o]] = snapshot[o]
          /\ items[o] # <<>> => Unhandled[o][Len(items[o])] = Last(items[o]) /\ Len(items[o]) # 0
          /\ items[o] = <<>> => Len(items[o]) = 0
      <4> DEFINE s == items[o] u == Coming(o) v == snapshot[o] w == Unhandled[o]
      <4>1. s \in Seq(Contents) /\ u \in Seq(Contents) /\ v \in Contents /\ w = s \o <<v>> \o u
        BY <2>1
      <4>2. ListPlace[o] = Len(s) + 1
        BY <2>1
      <4> HIDE DEF s, u, v, w
      <4>3. /\ w[Len(s) + 1] = v
            /\ s # <<>> => w[Len(s)] = Last(s) /\ Len(s) # 0
            /\ s = <<>> => Len(s) = 0
        <5> DEFINE t == s \o <<v>> \o u
        <5>1. /\ t[Len(s) + 1] = v
              /\ s # <<>> => t[Len(s)] = Last(s) /\ Len(s) # 0
              /\ s = <<>> => Len(s) = 0
          BY <4>1, MiddleOfThree
        <5>2. w = t
          BY <4>1
        <5> HIDE DEF t
        <5>. QED
          BY <5>1, <5>2
      <4>. QED
        BY <4>2, <4>3 DEF s, u, v, w
    <3>2. ListPlace[o] - 1 = Len(items[o]) /\ (ListPlace[o] > 1 <=> Len(items[o]) # 0)
      BY <2>1
    <3>3. o \notin Listed \cup Missing <=> snapshot[o] = Absent /\ store[o] = Absent
      BY DEF Listed, Missing
    <3>. QED
      BY <3>1, <3>2, <3>3 DEF Promise!Dropped, WillBeDeleted
  <2>6. CASE dropped
    <3>1. Promise!Without(Unhandled[o], ListPlace[o]) = items[o] \o Coming(o)
      <4> DEFINE s == items[o] u == Coming(o) v == snapshot[o] w == Unhandled[o] k == ListPlace[o]
      <4>1. s \in Seq(Contents) /\ u \in Seq(Contents) /\ v \in Contents /\ w = s \o <<v>> \o u
            /\ k = Len(s) + 1
        BY <2>1
      <4> HIDE DEF s, u, v, w, k
      <4>2. Promise!Without(w, k) = s \o u
        BY <4>1, WithoutMiddle
      <4>. QED
        BY <4>2 DEF s, u, v, w, k
    <3>2. Promise!Dropped(o) /\ items'[o] = items[o]
      BY <2>4, <2>5, <2>6
    <3>3. Unhandled'[o] = Promise!Without(Unhandled[o], ListPlace[o])
      BY <2>3, <3>1, <3>2
    <3>4. ListPlace[o] # 0 /\ ListPlace'[o] = 0
      BY <2>1, <2>2
    <3>. QED
      BY <3>2, <3>3, <3>4
  <2>7. CASE ~ dropped
    <3>1. Append(items[o], snapshot[o]) \o Coming(o) = Unhandled[o]
      BY <2>1, AppendMiddle
    <3> HIDE DEF dropped
    <3>. QED
      BY <2>1, <2>2, <2>3, <2>4, <2>5, <2>7, <3>1
  <2>. QED
    BY <2>6, <2>7
<1>3. /\ Unhandled' = [o \in Objects |-> Unhandled'[o]]
      /\ ListPlace' = [o \in Objects |-> ListPlace'[o]]
  BY DEF Unhandled, ListPlace
<1>4. /\ Unhandled' = [o \in Objects |-> IF Promise!Dropped(o)
                                         THEN Promise!Without(Unhandled[o], ListPlace[o])
                                         ELSE Unhandled[o]]
      /\ ListPlace' = [o \in Objects |-> 0]
  BY <1>2, <1>3
<1>5. CASE Promise!Listing
  BY <1>1, <1>4, <1>5 DEF Promise!Enlist, Promise!EventsNext
<1>6. CASE ~ Promise!Listing
  <2>1. ~ \E o \in Objects : TRUE
    BY <1>2, <1>6 DEF Promise!Listing
  <2>. QED
    BY <1>1, <2>1, SameMapping DEF Promise!eventVars
<1>. QED
  BY <1>5, <1>6

\* A watch is lost, or deltas change hands: nothing has happened to the object.
LEMMA WatchBrokenPromised ==
    ASSUME WatchBroken
    PROVE  UNCHANGED Promise!eventVars
<1>1. /\ reflector # "replace" /\ reflector' # "replace" /\ live' = live /\ store' = store
      /\ items' = items /\ popped' = popped /\ inHand' = inHand
      /\ stream' = stream /\ cut' = cut
  BY DEF WatchBroken, serverVars, fifoVars, processVars
<1>2. \A o \in Objects : /\ Held(o)' = Held(o) /\ ToBeQueued(o)' = ToBeQueued(o)
                         /\ Coming(o)' = Coming(o)
  BY <1>1, ComingKept DEF Held, ToBeQueued
<1>3. \A o \in Objects : Unhandled'[o] = Unhandled[o] /\ ListPlace'[o] = ListPlace[o]
  BY <1>1, <1>2 DEF Unhandled, ListPlace
<1>. QED
  BY <1>1, <1>3, SameMapping DEF Promise!eventVars

LEMMA PopPromised ==
    ASSUME Inv, Pop
    PROVE  UNCHANGED Promise!eventVars
<1>1. /\ reflector' = reflector /\ snapshot' = snapshot /\ live' = live /\ store' = store
      /\ stream' = stream /\ cut' = cut /\ popped = Absent
  BY DEF Pop, LockFree, serverVars, reflectorVars
<1>2. ASSUME NEW o \in Objects
      PROVE  Held(o)' = Held(o)
  <2>1. items[o] \in Seq(Contents) /\ o # Absent /\ items \in [Objects -> Seq(Contents)]
    BY InformerAssumption DEF Inv, TypeOK
  <2>2. Held(o) = items[o]
    BY <1>1, <2>1, ConcatEmptySeq DEF Held
  <2>3. CASE o = popped'
    <3>1. Held(o)' = inHand' \o items'[o] /\ inHand' = items[o] /\ items'[o] = <<>>
      BY <2>1, <2>3, PopSpec DEF Held
    <3>. QED
      BY <2>1, <2>2, <3>1, ConcatEmptySeq
  <2>4. CASE o # popped'
    <3>1. Held(o)' = <<>> \o items'[o] /\ items'[o] = items[o]
      BY <2>1, <2>4, PopSpec DEF Held
    <3>. QED
      BY <2>1, <2>2, <3>1, ConcatEmptySeq
  <2>. QED
    BY <2>3, <2>4
<1>3. \A o \in Objects : ToBeQueued(o)' = ToBeQueued(o) /\ Coming(o)' = Coming(o)
  BY <1>1, ComingKept DEF ToBeQueued
<1>4. \A o \in Objects : Unhandled'[o] = Unhandled[o] /\ ListPlace'[o] = ListPlace[o]
  BY <1>1, <1>2, <1>3 DEF Unhandled, ListPlace
<1>. QED
  BY <1>1, <1>4, SameMapping DEF Promise!eventVars

\* The versions to come are versions, now and after a step.
LEMMA ComingTyped == TypeOK => \A o \in Objects : Coming(o) \in Seq(Contents)
BY AwaitedSpec

LEMMA ComingTypedNext == TypeOK' => (\A o \in Objects : Coming(o) \in Seq(Contents))'
BY ComingTyped, PTL

\* The deltas of the object whose change the watch brings.
LEMMA WatchItems ==
    ASSUME TypeOK, WatchEvent, NEW o, NEW v, Head(stream) = <<o, v>>
    PROVE  /\ o \in Objects /\ v \in Contents
           /\ \A p \in Objects \ {o} : items'[p] = items[p]
           /\ items'[o] = IF v = Absent /\ (WillBeDeleted(o) \/ (store[o] = Absent /\ ~ Queued(o)))
                          THEN items[o] ELSE Append(items[o], v)
<1>1. o \in Objects /\ v \in Contents
  BY HeadTailProperties DEF TypeOK, WatchEvent
<1>2. items \in [Objects -> Seq(Contents)]
  BY DEF TypeOK
<1> DEFINE type == IF v = Absent THEN "Deleted" ELSE "Updated"
<1>3. IF type = "Deleted" /\ store[o] = Absent /\ ~ Queued(o)
      THEN items' = items
      ELSE items' = [items EXCEPT ![o] = NewDeltas(o, v, type)]
  BY DEF WatchEvent
<1>4. NewDeltas(o, v, type) = IF WillBeDeleted(o) /\ v = Absent
                              THEN items[o] ELSE Append(items[o], v)
  BY DEF NewDeltas
<1>. QED
  BY <1>1, <1>2, <1>3, <1>4

\* The watch brings a change: it is queued, or it is a deletion that
\* ObjectEvents may spare.
LEMMA WatchPromised ==
    ASSUME TypeOK, TypeOK', WatchEvent
    PROVE  Promise!EventsNext \/ UNCHANGED Promise!eventVars
<1>1. PICK o \in Objects, v \in Contents : Head(stream) = <<o, v>>
  BY HeadTailProperties DEF TypeOK, WatchEvent
<1>2. /\ reflector = "watch" /\ reflector' = "watch" /\ popped = Absent /\ popped' = Absent
      /\ live' = live /\ store' = store
  BY DEF WatchEvent, LockFree, reflectorVars, processVars
<1>3. o \in Objects /\ v \in Contents /\ Absent \in Contents
  BY <1>1, WatchItems DEF Contents
<1>4. ASSUME NEW p \in Objects
      PROVE  /\ items[p] \in Seq(Contents) /\ Coming(p)' \in Seq(Contents)
             /\ Unhandled[p] = items[p] \o Coming(p)
             /\ Unhandled'[p] = items'[p] \o Coming(p)'
             /\ ListPlace[p] = 0 /\ ListPlace'[p] = 0
  <2>1. p # Absent
    BY InformerAssumption
  <2>2. /\ items[p] \in Seq(Contents) /\ items'[p] \in Seq(Contents)
        /\ Coming(p) \in Seq(Contents)
    BY PartsSpec DEF TypeOK
  <2>3. Coming(p)' \in Seq(Contents)
    BY ComingTypedNext
  <2>4. /\ Held(p) = items[p] /\ ToBeQueued(p) = <<>> /\ ListPlace[p] = 0
        /\ Held(p)' = items'[p] /\ ToBeQueued(p)' = <<>> /\ ListPlace'[p] = 0
    BY <1>2, <2>1, <2>2, ConcatEmptySeq DEF Held, ToBeQueued, ListPlace
  <2>5. /\ Unhandled[p] = items[p] \o <<>> \o Coming(p)
        /\ Unhandled'[p] = items'[p] \o <<>> \o Coming(p)'
    BY <2>4 DEF Unhandled
  <2>6. items[p] \o <<>> = items[p] /\ items'[p] \o <<>> = items'[p]
    BY <2>2, ConcatEmptySeq
  <2>. QED
    BY <2>2, <2>3, <2>4, <2>5, <2>6
<1>5. \A p \in Objects \ {o} : Unhandled'[p] = Unhandled[p]
  <2> SUFFICES ASSUME NEW p \in Objects \ {o} PROVE Unhandled'[p] = Unhandled[p]
    OBVIOUS
  <2>1. items'[p] = items[p]
    BY <1>1, WatchItems
  <2>0. p # Head(stream)[1]
    BY <1>1
  <2>2. Coming(p) = <<>> \o Coming(p)'
    BY <2>0, ComingWatch
  <2>3. Coming(p) = Coming(p)'
    BY <1>4, <2>2, ConcatEmptySeq
  <2>. QED
    BY <1>4, <2>1, <2>3
<1>6. Unhandled[o] = items[o] \o <<v>> \o Coming(o)'
  <2>0. o = Head(stream)[1] /\ v = Head(stream)[2]
    BY <1>1
  <2>1. Coming(o) = <<v>> \o Coming(o)'
    BY <2>0, ComingWatch
  <2>2. items[o] \o (<<v>> \o Coming(o)') = items[o] \o <<v>> \o Coming(o)'
    <3> DEFINE s == items[o] u == Coming(o)'
    <3>1. s \in Seq(Contents) /\ u \in Seq(Contents) /\ <<v>> \in Seq(Contents)
      BY <1>3, <1>4
    <3> HIDE DEF s, u
    <3>2. s \o (<<v>> \o u) = s \o <<v>> \o u
      BY <3>1, ConcatAssociative
    <3>. QED
      BY <3>2 DEF s, u
  <2>. QED
    BY <1>3, <1>4, <2>1, <2>2
<1> DEFINE spared == v = Absent /\ (WillBeDeleted(o) \/ (store[o] = Absent /\ ~ Queued(o)))
<1>7. CASE ~ spared
  <2>1. items'[o] = Append(items[o], v)
    BY <1>1, <1>7, WatchItems
  <2>2. Append(items[o], v) \o Coming(o)' = items[o] \o <<v>> \o Coming(o)'
    BY <1>3, <1>4, AppendMiddle
  <2>3. Unhandled'[o] = Unhandled[o]
    BY <1>3, <1>4, <1>6, <2>1, <2>2
  <2>. QED
    BY <1>2, <1>4, <1>5, <2>3, SameMapping DEF Promise!eventVars
<1>8. CASE spared
  <2> DEFINE s == items[o] u == Coming(o)' w == s \o <<v>> \o u k == Len(s) + 1
  <2>1. s \in Seq(Contents) /\ u \in Seq(Contents) /\ v \in Contents
    BY <1>3, <1>4
  <2>2. items'[o] = s
    BY <1>1, <1>8, WatchItems
  <2>3. Unhandled[o] = w /\ Unhandled'[o] = s \o u
    BY <1>3, <1>4, <1>6, <2>2
  <2>4. Promise!Without(w, k) = s \o u
    <3> HIDE DEF s, u
    <3>. QED
      BY <2>1, WithoutMiddle
  <2>5. /\ w[k] = v /\ k \in DOMAIN w /\ k - 1 = Len(s) /\ Len(s) \in Nat
        /\ s # <<>> => w[Len(s)] = Last(s) /\ Len(s) # 0
        /\ s = <<>> => Len(s) = 0
    <3> HIDE DEF s, u
    <3>1. k \in DOMAIN w
      BY <2>1
    <3>2. k - 1 = Len(s) /\ Len(s) \in Nat
      BY <2>1, LenProperties
    <3>. QED
      BY <2>1, <3>1, <3>2, MiddleOfThree
  <2>6. Promise!After(o, k - 1) = Absent
    <3>1. CASE WillBeDeleted(o)
      <4>1. s # <<>> /\ Last(s) = Absent
        BY <3>1 DEF WillBeDeleted
      <4>2. k - 1 # 0 /\ Unhandled[o][k - 1] = Absent
        BY <2>3, <2>5, <4>1
      <4> HIDE DEF s, u, w, k
      <4>. QED
        BY <4>2 DEF Promise!After
    <3>2. CASE store[o] = Absent /\ ~ Queued(o)
      <4>1. s = <<>>
        BY <3>2 DEF Queued
      <4>2. k - 1 = 0
        BY <2>5, <4>1
      <4> HIDE DEF s, u, w, k
      <4>. QED
        BY <3>2, <4>2 DEF Promise!After
    <3>. QED
      BY <1>8, <3>1, <3>2
  <2> HIDE DEF s, u, w, k
  <2>7. /\ Unhandled' = [Unhandled EXCEPT ![o] = Promise!Without(Unhandled[o], k)]
        /\ ListPlace' = ListPlace
    <3>1. ListPlace' = ListPlace
      BY <1>4 DEF ListPlace
    <3>2. Unhandled'[o] = Promise!Without(Unhandled[o], k)
      BY <2>3, <2>4
    <3>. QED
      BY <1>3, <1>4, <1>5, <3>1, <3>2, ExceptMapping
  <2>8. k \in DOMAIN Unhandled[o] /\ Unhandled[o][k] = Absent
    BY <1>8, <2>3, <2>5
  <2>9. Promise!Spare(o)
    BY <1>2, <1>3, <1>4, <2>6, <2>7, <2>8 DEF Promise!Spare
  <2>. QED
    BY <1>3, <2>9 DEF Promise!EventsNext
<1>. QED
  BY <1>7, <1>8

\* The handler is called with the oldest version.
LEMMA ProcessPromised ==
    ASSUME Inv, TypeOK', Process
    PROVE  Promise!Deliver(popped)
<1>1. PICK p \in Objects : p = popped
  BY ProcessSpec
<1>2. /\ reflector' = reflector /\ snapshot' = snapshot /\ live' = live /\ items' = items
      /\ stream' = stream /\ cut' = cut
  BY DEF Process, serverVars, reflectorVars, fifoVars
<1>3. TypeOK
  BY DEF Inv
<1>4. /\ inHand # <<>> /\ Head(inHand) \in Contents
      /\ inHand' = Tail(inHand) /\ Tail(inHand) \in Seq(Contents)
      /\ popped' = IF Tail(inHand) = <<>> THEN Absent ELSE p
      /\ store' = [store EXCEPT ![p] = Head(inHand)]
      /\ items[p] = <<>> /\ inHand \in Seq(Contents)
  BY <1>1, <1>3, ProcessSpec DEF Queued, TypeOK
<1>5. \A o \in Objects : ToBeQueued(o)' = ToBeQueued(o) /\ Coming(o)' = Coming(o)
  BY <1>2, ComingKept DEF ToBeQueued
<1>6. Held(p) = inHand /\ Held(p)' = Tail(inHand)
  <2>1. p # Absent
    BY InformerAssumption
  <2>2. Held(p) = inHand
    BY <1>1, <1>4, ConcatEmptySeq DEF Held
  <2>3. CASE Tail(inHand) = <<>>
    <3>1. Held(p)' = <<>> \o <<>>
      BY <1>2, <1>4, <2>1, <2>3 DEF Held
    <3>2. <<>> \in Seq(Contents)
      OBVIOUS
    <3>3. Held(p)' = <<>>
      BY <3>1, <3>2, ConcatEmptySeq
    <3>. QED
      BY <2>2, <2>3, <3>3
  <2>4. CASE Tail(inHand) # <<>>
    <3>1. Held(p)' = Tail(inHand) \o <<>>
      BY <1>2, <1>4, <2>4 DEF Held
    <3>2. Held(p)' = Tail(inHand)
      BY <1>4, <3>1, ConcatEmptySeq
    <3>. QED
      BY <2>2, <3>2
  <2>. QED
    BY <2>3, <2>4
<1>7. ASSUME NEW o \in Objects \ {p}
      PROVE  Unhandled'[o] = Unhandled[o] /\ ListPlace'[o] = ListPlace[o]
  <2>1. Held(o) = <<>> \o items[o] /\ Held(o)' = <<>> \o items[o]
    BY <1>1, <1>2, <1>4, InformerAssumption DEF Held
  <2>2. Held(o)' = Held(o)
    BY <2>1
  <2>. QED
    BY <1>2, <1>5, <2>2 DEF Unhandled, ListPlace
<1>8. /\ Unhandled[p] # <<>>
      /\ Head(Unhandled[p]) = Head(inHand)
      /\ Unhandled'[p] = Tail(Unhandled[p])
  <2> DEFINE s == inHand t == ToBeQueued(p) u == Coming(p)
  <2>1. s \in Seq(Contents) /\ t \in Seq(Contents) /\ u \in Seq(Contents) /\ s # <<>>
    BY <1>3, <1>4, PartsSpec
  <2>2. Unhandled[p] = s \o t \o u /\ Unhandled'[p] = Tail(s) \o t \o u
    BY <1>5, <1>6 DEF Unhandled
  <2> HIDE DEF s, t, u
  <2>3. /\ s \o t \o u # <<>>
        /\ Head(s \o t \o u) = Head(s)
        /\ Tail(s \o t \o u) = Tail(s) \o t \o u
    <3>1. s \o t \o u # <<>>
      BY <2>1, FirstOfThree
    <3>2. Head(s \o t \o u) = Head(s)
      BY <2>1, FirstOfThree
    <3>3. Tail(s \o t \o u) = Tail(s) \o t \o u
      BY <2>1
    <3>. QED
      BY <3>1, <3>2, <3>3
  <2>. QED
    BY <2>2, <2>3 DEF s
<1>9. /\ ListPlace[p] # 1
      /\ ListPlace'[p] = IF ListPlace[p] = 0 THEN 0 ELSE ListPlace[p] - 1
  <2>1. Len(inHand) \in Nat \ {0} /\ Len(Tail(inHand)) = Len(inHand) - 1
    BY <1>4, HeadTailProperties
  <2>2. /\ ListPlace[p] = IF reflector = "replace" THEN Len(inHand) + 1 ELSE 0
        /\ ListPlace'[p] = IF reflector = "replace" THEN Len(Tail(inHand)) + 1 ELSE 0
    BY <1>2, <1>6 DEF ListPlace
  <2>. QED
    BY <2>1, <2>2
<1>10. /\ Unhandled' = [Unhandled EXCEPT ![p] = Tail(Unhandled[p])]
       /\ ListPlace' = [ListPlace EXCEPT ![p] = IF ListPlace[p] = 0 THEN 0
                                                ELSE ListPlace[p] - 1]
  BY <1>7, <1>8, <1>9, ExceptMapping
<1>11. Promise!Deliver(p)
  BY <1>2, <1>4, <1>8, <1>9, <1>10 DEF Promise!Deliver
<1>. QED
  BY <1>1, <1>11

\* Nothing has happened before the first list.
LEMMA InitPromised == Init => Promise!EventsInit
<1> SUFFICES ASSUME Init PROVE Promise!EventsInit
  OBVIOUS
<1>1. ASSUME NEW o \in Objects
      PROVE  Unhandled[o] = <<>> /\ ListPlace[o] = 0
  <2>1. Held(o) = <<>> \o <<>> /\ ToBeQueued(o) = <<>> /\ ListPlace[o] = 0
    BY DEF Init, Held, ToBeQueued, ListPlace
  <2>2. Awaited(o) = {}
    BY DEF Init, Awaited
  <2>3. Coming(o) = <<>>
    <3>1. Cardinality(Awaited(o)) = 0
      BY <2>2, FS_EmptySet
    <3>. QED
      BY <3>1 DEF Coming
  <2>4. Unhandled[o] = <<>> \o <<>> \o <<>> \o <<>>
    BY <2>1, <2>3 DEF Unhandled
  <2>. QED
    BY <2>1, <2>4
<1>2. Unhandled = [o \in Objects |-> <<>>] /\ ListPlace = [o \in Objects |-> 0]
  <2>1. /\ Unhandled = [o \in Objects |-> Unhandled[o]]
        /\ ListPlace = [o \in Objects |-> ListPlace[o]]
    BY DEF Unhandled, ListPlace
  <2>. QED
    BY <1>1, <2>1
<1>. QED
  BY <1>2 DEF Init, Promise!EventsInit, Promise!Empty

\* Every step of the informer is one that ObjectEvents allows, or none.
LEMMA StepPromised ==
    ASSUME Inv, ListRight, TypeOK', [Next]_vars
    PROVE  [Promise!EventsNext]_Promise!eventVars
<1>1. TypeOK
  BY DEF Inv
<1>2. ASSUME NEW p \in Objects, NEW v \in Contents, Change(p, v)
      PROVE  Promise!EventsNext
  <2>1. Promise!Change(p, v) /\ v \in Promise!Contents
    BY <1>1, <1>2, ChangePromised DEF Contents, Promise!Contents
  <2>. QED
    BY <2>1 DEF Promise!EventsNext
<1>3. CASE List
  BY <1>1, <1>3, ListPromised DEF Promise!EventsNext
<1>4. CASE Replace
  BY <1>1, <1>4, ReplacePromised
<1>5. CASE WatchEvent
  BY <1>1, <1>5, WatchPromised
<1>6. CASE WatchBroken
  BY <1>6, WatchBrokenPromised
<1>7. CASE Pop
  BY <1>7, PopPromised
<1>8. CASE Process
  <2>1. Promise!Deliver(popped) /\ popped \in Objects
    BY <1>8, ProcessPromised, ProcessSpec
  <2>. QED
    BY <2>1 DEF Promise!EventsNext
<1>9. CASE UNCHANGED vars
  <2>1. /\ stream' = stream /\ cut' = cut /\ reflector' = reflector /\ snapshot' = snapshot
        /\ items' = items /\ popped' = popped /\ inHand' = inHand
        /\ live' = live /\ store' = store
    BY <1>9 DEF vars, serverVars, reflectorVars, fifoVars, processVars
  <2>2. \A o \in Objects : /\ Held(o)' = Held(o) /\ ToBeQueued(o)' = ToBeQueued(o)
                           /\ Coming(o)' = Coming(o)
    BY <2>1, ComingKept DEF Held, ToBeQueued
  <2>3. \A o \in Objects : Unhandled'[o] = Unhandled[o] /\ ListPlace'[o] = ListPlace[o]
    BY <2>1, <2>2 DEF Unhandled, ListPlace
  <2>. QED
    BY <2>1, <2>3, SameMapping DEF Promise!eventVars
<1>. QED
  BY <1>2, <1>3, <1>4, <1>5, <1>6, <1>7, <1>8, <1>9 DEF Next

\* The informer of client-go keeps the promise that Controller and
\* ConfigurationInformers rely on: of each object the handler is called with
\* the versions in their order, a list stands where they stopped, and only
\* what ObjectEvents drops is left out.
THEOREM PromiseKept == Spec => KeepsPromise
<1>1. Inv /\ CurrentInv => Inv /\ ListRight
  BY DEF CurrentInv
<1>2. Inv /\ ListRight /\ TypeOK' /\ [Next]_vars => [Promise!EventsNext]_Promise!eventVars
  BY StepPromised
<1>3. Inv => TypeOK
  BY DEF Inv
<1>. QED
  BY <1>1, <1>2, <1>3, InitPromised, Invariance, CurrentInvariance, PTL
     DEF Spec, KeepsPromise, Promise!EventsSpec
=============================================================================
