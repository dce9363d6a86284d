---------------------------- MODULE MCPortTracker ----------------------------
(* Small instances of PortTracker for TLC: a key that is no port, two      *)
(* ordinary ports, and a key that wraps around to one of them              *)
(* (65616 = 65536 + 80).                                                   *)
EXTENDS PortTracker, TLC

CONSTANTS tcp, udp

MCKeys == {-1, 80, 443, 65616}

\* updatePorts treats the two protocols alike.
ProtoSymmetry == Permutations(Protos)
=============================================================================
