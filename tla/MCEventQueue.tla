---------------------------- MODULE MCEventQueue ----------------------------
(* Small instances of EventQueue for TLC.                                  *)
EXTENDS EventQueue

CONSTANTS podInformer, cmInformer, w1, w2, w3

MCStores == {"plbdata", "clbdata"}
MCStoreOf == [h \in Handlers |-> IF h = podInformer THEN "plbdata" ELSE "clbdata"]
=============================================================================
