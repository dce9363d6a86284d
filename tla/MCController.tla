---------------------------- MODULE MCController ----------------------------
(* Small instances of Controller for TLC.  The pod successor shares the    *)
(* host of nginx1, and backend that of nginx2.                             *)
EXTENDS Controller

CONSTANTS nginx1, nginx2, successor, backend

MCIP == [p \in Pods |-> CASE p = successor -> nginx1
                          [] p = backend   -> nginx2
                          [] OTHER         -> p]

Env(doings, pods, protos, hurried, max) ==
    [doings |-> doings, pods |-> pods, protos |-> protos,
     hurried |-> hurried, max |-> max]

MCEnvironments ==
    {Env({"pods", "ports", "anytime", "crashed", "force", "kill"},
         {nginx1, successor}, {"tcp"}, FALSE, 5),
     Env({"pods", "ports", "crashed", "sharing"},
         {nginx1, successor}, {"tcp"}, FALSE, 9),
     Env({"pods", "ports", "crashed"}, {nginx2, backend}, {"tcp"}, FALSE, 9),
     Env({"ports", "anytime", "gap", "kill"}, {nginx1, backend}, {"tcp"}, FALSE, 3),
     Env({"pods", "ports", "crashed", "cms", "sharing"},
         {nginx1, successor}, {"tcp"}, FALSE, 6),
     Env({"pods", "ports"}, {nginx1, nginx2}, {"tcp", "udp"}, FALSE, 4),
     Env({"pods", "crashed", "force", "kill"}, {nginx1}, {"tcp"}, TRUE, 6),
     Env({"pods", "crashed"}, {nginx1}, {"tcp"}, TRUE, 8),
     Env(Doings, {nginx1, backend}, {"tcp"}, TRUE, 2)}

\* A pod is deleted for good, nothing else happens.
MCForceDelete == {Env({"pods", "force"}, {nginx1}, {"tcp"}, FALSE, 3)}
=============================================================================
