---------------------------- MODULE MCLvsManager ----------------------------
(* Small instances of LvsManager for TLC: port 0 is the one libipvs panics  *)
(* on, mark 0 the one that is no mark.                                      *)
EXTENDS LvsManager

CONSTANTS node1, node2
=============================================================================
