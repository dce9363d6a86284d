----------------------------- MODULE LvsManager -----------------------------
(***************************************************************************)
(* The ipvs provider (pkg/provider/ipvs/ipvsdr.go) and the IPVS table of   *)
(* the kernel that it edits through libipvs.  The workers call Add, Del    *)
(* and DelRServer with the mutex of the controller held (EventQueue), and  *)
(* nothing else edits the table, so each call is one step; every netlink   *)
(* call in it may fail (Faults), and the function then returns early, as   *)
(* the code does, with the table as it is at that point.                   *)
(*                                                                         *)
(* The kernel knows a service by protocol and port, or by its firewall     *)
(* mark if that is not 0; a listed service with a mark has neither         *)
(* protocol nor port.                                                      *)
(***************************************************************************)
EXTENDS Naturals, Functions

CONSTANTS Addrs,     \* the addresses of the real servers
          PortNumbers,
          Marks,     \* what rand.Intn(100) may return
          Marked,    \* cfg.Pnmpp
          Faults     \* a netlink call may fail

Protos == {"tcp", "udp"}
NoProto == "none"

ASSUME ManagerAssumption ==
    /\ PortNumbers \subseteq Nat
    /\ Marks \subseteq Nat
    /\ Marked \in BOOLEAN /\ Faults \in BOOLEAN

VARIABLES table,  \* from the services of the kernel to their destinations
          alive,  \* the process runs
          last    \* the last call of a worker, the route or address it is
                  \* about, whether it returned nil, and whether every
                  \* netlink call in it was carried out

vars == <<table, alive, last>>

\* No service without mark has port 0: libipvs cannot create one.
Services ==
    [port : PortNumbers \ {0}, proto : Protos, mark : {0}] \cup
    [port : {0}, proto : {NoProto}, mark : Marks \ {0}]
Destinations == [addr : Addrs, port : PortNumbers]

NoCall == [name |-> "none"]

Init == /\ table = [s \in {} |-> {}]
        /\ alive = TRUE
        /\ last = NoCall
-----------------------------------------------------------------------------
\* The kernel and libipvs.

Service(port, proto, mark) ==
    IF mark = 0 THEN [port |-> port, proto |-> proto, mark |-> 0]
                ELSE [port |-> 0, proto |-> NoProto, mark |-> mark]

\* Mutant: a service on port 0 is sent to the kernel.
IncompleteNever(s) == FALSE

\* libipvs panics on a service without mark and port (Service.attrs).
Incomplete(s) == s.mark = 0 /\ s.port = 0

\* A service that does not exist is listed without destinations.
ListDestinations(T, s) == IF s \in DOMAIN T THEN T[s] ELSE {}

SetDestinations(T, s, dsts) ==
    [x \in DOMAIN T \cup {s} |-> IF x = s THEN dsts ELSE T[x]]

DelService(T, s) == Restrict(T, DOMAIN T \ {s})

\* How a function may return: nil or an error, the table it leaves, and
\* whether all its netlink calls were carried out.
Ok(T) == [table |-> T, ok |-> TRUE, whole |-> TRUE]
Fail(T) == [table |-> T, ok |-> FALSE, whole |-> TRUE]
Break(T) == [table |-> T, ok |-> FALSE, whole |-> FALSE]

\* The caller only logs the error.
Logged(results) == {[x EXCEPT !.ok = TRUE] : x \in results}

\* Some netlink call up to here fails, with the table T.
MayFail(T) == IF Faults THEN {Break(T)} ELSE {}
-----------------------------------------------------------------------------
\* Mutant: services are compared by port alone.
EnsureServiceByPort(T, port, proto, s) ==
    MayFail(T) \cup
    IF \E x \in DOMAIN T : x.port = port THEN {Ok(T)}
    ELSE IF s \in DOMAIN T THEN {Fail(T)}
    ELSE {Ok(SetDestinations(T, s, {}))}

\* The service exists, by protocol and port, or is created; the kernel
\* refuses a mark that has a service already.
EnsureService(T, port, proto, s) ==
    MayFail(T) \cup
    IF \E x \in DOMAIN T : x.port = port /\ x.proto = proto THEN {Ok(T)}
    ELSE IF s \in DOMAIN T THEN {Fail(T)}
    ELSE {Ok(SetDestinations(T, s, {}))}

EnsureDestination(T, s, d) ==
    MayFail(T) \cup
    IF d \in ListDestinations(T, s) THEN {Ok(T)}
    ELSE IF s \in DOMAIN T THEN {Ok(SetDestinations(T, s, T[s] \cup {d}))}
    ELSE {Fail(T)}

\* Mutant: the service is left behind when its last destination goes.
DeleteDeadSvcNever(T, s) == {Ok(T)}

DeleteDeadSvc(T, s) ==
    MayFail(T) \cup
    IF ListDestinations(T, s) = {} THEN {Ok(DelService(T, s))} ELSE {Ok(T)}

DeleteDestination(T, s, d) ==
    MayFail(T) \cup
    IF d \in ListDestinations(T, s)
    THEN DeleteDeadSvc(SetDestinations(T, s, T[s] \ {d}), s)
    ELSE {Fail(T)}

\* Add reports a failed EnsureService, but only logs a failed
\* EnsureDestination.
AddResults(T, port, proto, s, d) ==
    UNION {IF e.ok THEN Logged(EnsureDestination(e.table, s, d)) ELSE {e} :
              e \in EnsureService(T, port, proto, s)}

\* Del only logs a failed DeleteDestination.
DelResults(T, s, d) == Logged(DeleteDestination(T, s, d))

DestinationsOf(T, s, addr) == {d \in T[s] : d.addr = addr}

\* Mutant: a service is deleted when it had the address, whatever is left.
PurgeServices(T, done, addr) ==
    Restrict(T, {s \in DOMAIN T : s \in done => /\ T[s] # {}
                                                /\ DestinationsOf(T, s, addr) = {}})

\* Mutant: services with a mark, which list no protocol, are passed over.
PurgeUnmarked(T, done, addr) ==
    LET left == [s \in DOMAIN T |->
                    IF s \in done /\ s.mark = 0
                    THEN T[s] \ DestinationsOf(T, s, addr) ELSE T[s]]
    IN  Restrict(left, {s \in DOMAIN T : s \in done => left[s] # {}})

\* The services of done are cleared of addr, and deleted if that leaves them
\* empty.
Purge(T, done, addr) ==
    LET left == [s \in DOMAIN T |->
                    IF s \in done THEN T[s] \ DestinationsOf(T, s, addr) ELSE T[s]]
    IN  Restrict(left, {s \in DOMAIN T : s \in done => left[s] # {}})

\* Mutant: a failed DelDestination is passed over and not returned.
DelRServerKeepsGoing(T, addr) ==
    {Ok(Purge(T, DOMAIN T, addr))} \cup
    IF Faults
    THEN {Ok(Purge(T, done, addr)) : done \in SUBSET DOMAIN T}
    ELSE {}

\* A failed call at the service at ends DelRServer: some services are done, at
\* may have lost some of its destinations, the others are as they were.
HaltedAt(T, addr, at) ==
    {Break(Purge(SetDestinations(T, at, T[at] \ gone), done, addr)) :
        done \in SUBSET (DOMAIN T \ {at}), gone \in SUBSET DestinationsOf(T, at, addr)}

\* DelRServer visits the services in the order the kernel lists them.
DelRServerResults(T, addr) ==
    {Ok(Purge(T, DOMAIN T, addr))} \cup MayFail(T) \cup
    IF Faults THEN UNION {HaltedAt(T, addr, at) : at \in DOMAIN T} ELSE {}
-----------------------------------------------------------------------------
\* Base: the firewall mark of a TCP service is drawn anew on every call.
BaseMarks(proto) == IF Marked /\ proto = "tcp" THEN Marks ELSE {0}

Return(name, about, result) ==
    /\ table' = result.table
    /\ last' = [name |-> name, about |-> about, ok |-> result.ok, whole |-> result.whole]
    /\ UNCHANGED alive

\* The process dies; the kernel keeps its table.
Die == /\ alive' = FALSE
       /\ last' = NoCall
       /\ UNCHANGED table

Add(addr, port, proto) ==
    /\ alive
    /\ \E mark \in BaseMarks(proto) :
          LET s == Service(port, proto, mark)
              d == [addr |-> addr, port |-> port]
          IN  IF Incomplete(s)
              THEN \/ Die
                   \/ \E r \in MayFail(table) : Return("Add", <<addr, port, proto>>, r)
              ELSE \E r \in AddResults(table, port, proto, s, d) :
                      Return("Add", <<addr, port, proto>>, r)

Del(addr, port, proto) ==
    /\ alive
    /\ \E mark \in BaseMarks(proto) :
          LET s == Service(port, proto, mark)
              d == [addr |-> addr, port |-> port]
          IN  IF Incomplete(s) THEN Die
              ELSE \E r \in DelResults(table, s, d) :
                      Return("Del", <<addr, port, proto>>, r)

DelRServer(addr) ==
    /\ alive
    /\ \E r \in DelRServerResults(table, addr) : Return("DelRServer", addr, r)

\* The process is killed between two calls.
Crash == alive /\ Die

\* Init flushes the table.  A failed flush is logged as "exited", but the
\* controller goes on with the old table.
Restart == /\ ~ alive
           /\ alive' = TRUE
           /\ \/ table' = [s \in {} |-> {}]
              \/ Faults /\ UNCHANGED table
           /\ UNCHANGED last

Next == \/ \E addr \in Addrs, port \in PortNumbers, proto \in Protos :
              Add(addr, port, proto) \/ Del(addr, port, proto)
        \/ \E addr \in Addrs : DelRServer(addr)
        \/ Crash
        \/ Restart

Spec == Init /\ [][Next]_vars
-----------------------------------------------------------------------------
TypeOK == /\ DOMAIN table \subseteq Services
          /\ \A s \in DOMAIN table : table[s] \subseteq Destinations
          /\ alive \in BOOLEAN

DeadServices == {s \in DOMAIN table : table[s] = {}}

\* A call leaves a service without real server behind only if a netlink call
\* of its own fails: Add fills the service it creates, Del and DelRServer
\* delete the service they empty.
NoNewDeadService == [][(last'.name # "none" /\ last'.whole)
                          => DeadServices' \subseteq DeadServices]_vars

\* If DelRServer returns nil, the real server has left every service, with or
\* without mark, and no dead service is left, not even of an earlier failure.
DelRServerComplete ==
    (last.name = "DelRServer" /\ last.ok) =>
        \A s \in DOMAIN table : /\ table[s] # {}
                                /\ \A d \in table[s] : d.addr # last.about

\* The routes of the services without mark.
KernelRoutes ==
    UNION {{<<d.addr, d.port, s.proto>> : d \in table[s]} :
              s \in {x \in DOMAIN table : x.proto \in Protos}}

\* If its netlink calls are carried out, a call without mark does what it is
\* called for, whatever failed calls and crashes left behind: the same port of
\* the other protocol does not hide a missing service, and a service kept for
\* another real server still loses this one.
CallsTakeEffect ==
    (last.name \in {"Add", "Del"} /\ last.whole /\ (Marked => last.about[3] = "udp")) =>
        (last.name = "Add" <=> last.about \in KernelRoutes)

AllRoutes == INSTANCE RouteTable
    WITH Ports <- PortNumbers, Lossy <- Faults, routes <- KernelRoutes

\* The provider implements the table of routes, as the services without mark
\* show it: no call touches another route than the ones it is about, and Add
\* and Del apply in full or not at all, with marks often the latter.
ImplementsRoutes == AllRoutes!TableSpec

\* README.md:22, "we can simply config tcp/udp configmaps ... then the
\* lvs-nginx-controller will update and reload lvs configs": a port taken out
\* of the configmap no longer has the real server in any service.
DelRemovesRoute ==
    last.name = "Del" => \A s \in DOMAIN table :
        \/ [addr |-> last.about[1], port |-> last.about[2]] \notin table[s]
        \/ s.proto \in Protos \ {last.about[3]}
=============================================================================
