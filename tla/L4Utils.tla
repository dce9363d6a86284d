------------------------------- MODULE L4Utils -------------------------------
(***************************************************************************)
(* The layer-4 port arithmetic of pkg/controller/utils.go: ValidatePort    *)
(* and L4Compare, as operators.                                            *)
(*                                                                         *)
(* A key of a tcp-services or udp-services configmap is the integer it     *)
(* spells; a key that is no number stands as a negative integer, which     *)
(* ValidatePort rejects in the same way.  The maps oldOne and newOne have  *)
(* one constant value per protocol, so they are the sets of their keys;    *)
(* deltaOne is a function from some ports to actions.                      *)
(***************************************************************************)
EXTENDS Integers

addition == "adding"
deletion == "deleting"
Actions == {addition, deletion}

MaxKey == 99999      \* the largest key ValidatePort accepts
PortSpace == 65536   \* uint16
Ports == 0 .. PortSpace - 1

ValidKey(key) == key \in 0 .. MaxKey

\* Mutant: a port as wide as the key.
PortOfWide(key) == key

\* uint16(iport): a key above 65535 wraps around.
PortOf(key) == key % PortSpace

PortsOf(keys) == {PortOf(key) : key \in {k \in keys : ValidKey(k)}}

EmptyDelta == [p \in {} |-> addition]

Adds(delta) == {p \in DOMAIN delta : delta[p] = addition}
Dels(delta) == {p \in DOMAIN delta : delta[p] = deletion}

\* The two loops of L4Compare that fill deltaOne.
Delta(oldOne, newOne) ==
    [p \in (newOne \ oldOne) \cup (oldOne \ newOne) |->
        IF p \in newOne THEN addition ELSE deletion]

\* Mutant: the ports of deltaOne are not deleted from oldOne.
L4CompareKeepsOld(oldOne, newOne, deltaOne) ==
    IF oldOne = newOne
    THEN [old |-> oldOne, new |-> newOne, delta |-> deltaOne]
    ELSE [old |-> oldOne \cup newOne, new |-> {}, delta |-> Delta(oldOne, newOne)]

\* Mutant: newOne is not copied back into oldOne.
L4CompareNoCopy(oldOne, newOne, deltaOne) ==
    LET delta == Delta(oldOne, newOne)
    IN  IF oldOne = newOne
        THEN [old |-> oldOne, new |-> newOne, delta |-> deltaOne]
        ELSE [old |-> oldOne \ DOMAIN delta, new |-> {}, delta |-> delta]

\* Mutant: newOne is cleared in the loop over deltaOne.
L4CompareKeepsNew(oldOne, newOne, deltaOne) ==
    LET delta == Delta(oldOne, newOne)
    IN  IF oldOne = newOne
        THEN [old |-> oldOne, new |-> newOne, delta |-> deltaOne]
        ELSE [old |-> newOne, new |-> newOne \ DOMAIN delta, delta |-> delta]

\* Mutant: deltaOne is not emptied first.
L4CompareKeepsDelta(oldOne, newOne, deltaOne) ==
    LET delta == Delta(oldOne, newOne)
        kept == [p \in DOMAIN deltaOne \cup DOMAIN delta |->
                    IF p \in DOMAIN delta THEN delta[p] ELSE deltaOne[p]]
    IN  IF oldOne = newOne
        THEN [old |-> oldOne, new |-> newOne, delta |-> deltaOne]
        ELSE [old |-> newOne, new |-> {}, delta |-> kept]

\* L4Compare updates its three maps in place.  When nothing has changed it
\* returns early and leaves all three as they are, newOne included.
L4Compare(oldOne, newOne, deltaOne) ==
    LET delta == Delta(oldOne, newOne)
    IN  IF oldOne = newOne
        THEN [old |-> oldOne, new |-> newOne, delta |-> deltaOne]
        ELSE [old |-> (oldOne \ DOMAIN delta) \cup newOne,
              new |-> {},
              delta |-> delta]
==============================================================================
