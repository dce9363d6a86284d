----------------------------- MODULE RouteTable -----------------------------
(***************************************************************************)
(* What the ipvs provider promises the workers (pkg/provider/ipvs): the    *)
(* kernel forwards exactly a set of routes, a route being a real server,   *)
(* a port and a protocol.  Add, Del and DelRServer touch only the routes   *)
(* they name.  When a netlink call fails (Lossy), Add and Del apply in     *)
(* full or not at all (a stuttering step), and DelRServer may stop         *)
(* half-way.                                                               *)
(***************************************************************************)
CONSTANTS Addrs, Ports, Protos,
          Lossy      \* a netlink call may fail

VARIABLE routes

Routes == Addrs \X Ports \X Protos

RoutesTo(addr) == {r \in routes : r[1] = addr}

TableInit == routes = {}

Add(r) == routes' = routes \cup {r}

Del(r) == routes' = routes \ {r}

DelRServer(addr) == \/ routes' = routes \ RoutesTo(addr)
                    \/ /\ Lossy
                       /\ \E gone \in SUBSET RoutesTo(addr) : routes' = routes \ gone

\* A restarted controller flushes the table first.
Flush == routes' = {}

TableNext == \/ \E r \in Routes : Add(r) \/ Del(r)
             \/ \E addr \in Addrs : DelRServer(addr)
             \/ Flush

TableSpec == TableInit /\ [][TableNext]_routes
=============================================================================
