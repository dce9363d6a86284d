------------------------------ MODULE MCStartup ------------------------------
(* Small instances of Startup for TLC.                                      *)
EXTENDS Startup

CONSTANTS podInformer, cmInformer, w1, w2

MCStores == {"plbdata", "clbdata"}
MCStoreOf == [h \in Handlers |-> IF h = podInformer THEN "plbdata" ELSE "clbdata"]
MCSyncOrder == <<podInformer, cmInformer>>
==============================================================================
