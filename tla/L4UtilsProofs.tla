---------------------------- MODULE L4UtilsProofs ----------------------------
(***************************************************************************)
(* What the port arithmetic of L4Utils returns, for any maps and keys.     *)
(***************************************************************************)
EXTENDS L4Utils, TLAPS

\* Whatever branch it takes, L4Compare leaves oldOne equal to newOne, newOne
\* empty or equal to oldOne, and a map that adds ports of the result only and
\* deletes none of them, unless the maps were equal and nothing changed.
LEMMA L4CompareSpec ==
    ASSUME NEW oldOne, NEW newOne, NEW deltaOne
    PROVE  LET result == L4Compare(oldOne, newOne, deltaOne)
           IN  /\ result.old = newOne
               /\ result.new \in {{}, newOne}
               /\ oldOne = newOne => result.delta = deltaOne
               /\ oldOne # newOne =>
                     /\ DOMAIN result.delta = (newOne \ oldOne) \cup (oldOne \ newOne)
                     /\ \A p \in DOMAIN result.delta : result.delta[p] \in Actions
                     /\ Adds(result.delta) = newOne \ oldOne
                     /\ Dels(result.delta) = oldOne \ newOne
<1> DEFINE result == L4Compare(oldOne, newOne, deltaOne)
<1>1. CASE oldOne = newOne
  BY <1>1 DEF L4Compare
<1>2. CASE oldOne # newOne
  <2> DEFINE d == Delta(oldOne, newOne)
  <2>1. /\ result.old = (oldOne \ DOMAIN d) \cup newOne
        /\ result.new = {}
        /\ result.delta = d
    BY <1>2 DEF L4Compare
  <2>2. /\ DOMAIN d = (newOne \ oldOne) \cup (oldOne \ newOne)
        /\ \A p \in DOMAIN d : d[p] = IF p \in newOne THEN addition ELSE deletion
    BY DEF Delta
  <2>3. result.old = newOne
    BY <2>1, <2>2
  <2>4. addition # deletion
    BY DEF addition, deletion
  <2>5. Adds(d) = newOne \ oldOne
    BY <2>2, <2>4 DEF Adds
  <2>6. Dels(d) = oldOne \ newOne
    BY <2>2, <2>4 DEF Dels
  <2>. QED
    BY <1>2, <2>1, <2>2, <2>3, <2>5, <2>6 DEF Actions
<1>. QED
  BY <1>1, <1>2

\* Every valid key becomes a uint16.
LEMMA PortsOfType == ASSUME NEW keys PROVE PortsOf(keys) \in SUBSET Ports
<1>1. ASSUME NEW key, ValidKey(key) PROVE PortOf(key) \in Ports
  <2>1. key \in Int
    BY <1>1 DEF ValidKey
  <2>2. PortSpace \in Nat /\ PortSpace > 0
    BY DEF PortSpace
  <2>. QED
    BY <2>1, <2>2 DEF PortOf, Ports
<1>. QED
  BY <1>1 DEF PortsOf
==============================================================================
