----------------------------- MODULE MCInformer -----------------------------
(* Small instances of Informer for TLC.                                     *)
EXTENDS Informer

CONSTANTS o1, o2, v1, v2
=============================================================================
