-------------------------- MODULE LvsManagerProofs --------------------------
(***************************************************************************)
(* The invariants of LvsManager for any addresses, ports and marks, with   *)
(* and without faults and marks, and that it implements RouteTable.        *)
(***************************************************************************)
EXTENDS LvsManager, TLAPS

\* What TypeOK says of the table.
IsTable(T) == /\ DOMAIN T \subseteq Services
              /\ \A s \in DOMAIN T : T[s] \subseteq Destinations

\* U is T but for the destinations D of s.
DiffersAt(U, T, s, D) == /\ DOMAIN U = DOMAIN T \cup {s}
                         /\ U[s] = D
                         /\ \A x \in DOMAIN T \ {s} : U[x] = T[x]

\* U is T without s.
Lacks(U, T, s) == /\ DOMAIN U = DOMAIN T \ {s}
                  /\ \A x \in DOMAIN U : U[x] = T[x]

\* SetDestinations changes or creates one service.
LEMMA SetDestinationsSpec ==
    ASSUME NEW T, NEW s, NEW D
    PROVE  DiffersAt(SetDestinations(T, s, D), T, s, D)
BY DEF SetDestinations, DiffersAt

\* DelService takes one service.
LEMMA DelServiceSpec ==
    ASSUME NEW T, NEW s
    PROVE  Lacks(DelService(T, s), T, s)
BY DEF DelService, Restrict, Lacks

\* A service that is complete is one the kernel accepts.
LEMMA ServiceSpec ==
    ASSUME NEW port \in PortNumbers, NEW proto \in Protos,
           NEW mark \in BaseMarks(proto), ~ Incomplete(Service(port, proto, mark))
    PROVE  /\ Service(port, proto, mark) \in Services
           /\ mark = 0 => Service(port, proto, mark) = [port |-> port, proto |-> proto, mark |-> 0]
           /\ mark # 0 => Service(port, proto, mark).proto = NoProto
<1>1. mark \in Marks \cup {0}
  BY DEF BaseMarks
<1>2. CASE mark = 0
  <2>1. Service(port, proto, mark) = [port |-> port, proto |-> proto, mark |-> 0]
    BY <1>2 DEF Service
  <2>2. port # 0
    BY <2>1 DEF Incomplete
  <2>. QED
    BY <1>2, <2>1, <2>2 DEF Services
<1>3. CASE mark # 0
  <2>1. Service(port, proto, mark) = [port |-> 0, proto |-> NoProto, mark |-> mark]
    BY <1>3 DEF Service
  <2>. QED
    BY <1>1, <1>3, <2>1 DEF Services
<1>. QED
  BY <1>2, <1>3

\* A listed service with a protocol has no mark, so port and protocol name it.
LEMMA ServiceNamed ==
    ASSUME NEW x \in Services, x.proto \in Protos
    PROVE  x = [port |-> x.port, proto |-> x.proto, mark |-> 0]
<1>1. NoProto \notin Protos
  BY DEF NoProto, Protos
<1>. QED
  BY <1>1 DEF Services

\* Add leaves the table as it is, creates the service only, and then a netlink
\* call has failed, or the service has the destination.
LEMMA AddSpec ==
    ASSUME NEW T, NEW port, NEW proto, NEW s, NEW d,
           NEW r \in AddResults(T, port, proto, s, d)
    PROVE  \/ /\ r.table = T
              /\ \/ ~ r.whole \/ d \in ListDestinations(T, s)
                 \/ s \in DOMAIN T /\ ~ \E x \in DOMAIN T : x.port = port /\ x.proto = proto
                 \/ s \notin DOMAIN T /\ \E x \in DOMAIN T : x.port = port /\ x.proto = proto
           \/ /\ DiffersAt(r.table, T, s, {})
              /\ s \notin DOMAIN T /\ ~ r.whole
           \/ DiffersAt(r.table, T, s, ListDestinations(T, s) \cup {d})
<1>1. PICK e \in EnsureService(T, port, proto, s) :
              r \in IF e.ok THEN Logged(EnsureDestination(e.table, s, d)) ELSE {e}
  BY DEF AddResults
<1> DEFINE found == \E x \in DOMAIN T : x.port = port /\ x.proto = proto
           empty == SetDestinations(T, s, {})
<1>2. \/ e = Break(T)
      \/ e = Fail(T) /\ s \in DOMAIN T /\ ~ found
      \/ e = Ok(T) /\ found
      \/ e = Ok(empty) /\ s \notin DOMAIN T
  BY DEF EnsureService, MayFail
<1>3. DiffersAt(empty, T, s, {})
  BY SetDestinationsSpec
<1>. HIDE DEF found, empty
<1>4. CASE e = Break(T)
  BY <1>1, <1>4 DEF Break
<1>5. CASE e = Fail(T) /\ s \in DOMAIN T /\ ~ found
  BY <1>1, <1>5 DEF Fail, found
<1>6. ASSUME NEW U, e = Ok(U)
      PROVE  \/ r.table = U /\ (~ r.whole \/ d \in ListDestinations(U, s) \/ s \notin DOMAIN U)
             \/ s \in DOMAIN U /\ r.table = SetDestinations(U, s, U[s] \cup {d})
  <2>1. PICK x \in EnsureDestination(U, s, d) : r = [x EXCEPT !.ok = TRUE]
    BY <1>1, <1>6 DEF Ok, Logged
  <2>2. \/ x = Break(U)
        \/ x = Ok(U) /\ d \in ListDestinations(U, s)
        \/ x = Ok(SetDestinations(U, s, U[s] \cup {d})) /\ s \in DOMAIN U
        \/ x = Fail(U) /\ s \notin DOMAIN U
    BY <2>1 DEF EnsureDestination, MayFail
  <2>. QED
    BY <2>1, <2>2 DEF Break, Ok, Fail
<1>7. CASE e = Ok(T) /\ found
  <2>1. CASE r.table = T /\ (~ r.whole \/ d \in ListDestinations(T, s) \/ s \notin DOMAIN T)
    BY <1>7, <2>1 DEF found
  <2>2. CASE s \in DOMAIN T /\ r.table = SetDestinations(T, s, T[s] \cup {d})
    BY <2>2, SetDestinationsSpec DEF ListDestinations
  <2>. QED
    BY <1>6, <1>7, <2>1, <2>2
<1>8. CASE e = Ok(empty) /\ s \notin DOMAIN T
  <2>1. s \in DOMAIN empty /\ empty[s] = {} /\ ListDestinations(empty, s) = {}
    BY <1>3 DEF DiffersAt, ListDestinations
  <2>2. CASE r.table = empty /\ ~ r.whole
    BY <1>3, <1>8, <2>2
  <2>3. CASE r.table = SetDestinations(empty, s, empty[s] \cup {d})
    <3>1. DiffersAt(r.table, empty, s, {d})
      BY <2>1, <2>3, SetDestinationsSpec
    <3>2. DiffersAt(r.table, T, s, {d})
      BY <1>3, <3>1 DEF DiffersAt
    <3>. QED
      BY <1>8, <3>2 DEF ListDestinations
  <2>. QED
    BY <1>6, <1>8, <2>1, <2>2, <2>3
<1>. QED
  BY <1>2, <1>4, <1>5, <1>7, <1>8

\* Del leaves the table as it is, or the service loses the destination; if
\* that was the last one it goes, unless a netlink call has failed.
LEMMA DelSpec ==
    ASSUME NEW T, NEW s, NEW d, NEW r \in DelResults(T, s, d)
    PROVE  \/ r.table = T /\ (~ r.whole \/ d \notin ListDestinations(T, s))
           \/ /\ s \in DOMAIN T /\ d \in T[s]
              /\ \/ /\ DiffersAt(r.table, T, s, T[s] \ {d})
                    /\ ~ r.whole \/ T[s] \ {d} # {}
                 \/ /\ Lacks(r.table, T, s)
                    /\ T[s] \ {d} = {}
<1>1. PICK x \in DeleteDestination(T, s, d) : r = [x EXCEPT !.ok = TRUE]
  BY DEF DelResults, Logged
<1> DEFINE U == SetDestinations(T, s, T[s] \ {d})
<1>2. DiffersAt(U, T, s, T[s] \ {d})
  BY SetDestinationsSpec
<1>3. ListDestinations(U, s) = T[s] \ {d}
  BY <1>2 DEF DiffersAt, ListDestinations
<1>4. d \in ListDestinations(T, s) => s \in DOMAIN T /\ d \in T[s]
  BY DEF ListDestinations
<1>5. \/ x = Break(T)
      \/ x = Fail(T) /\ d \notin ListDestinations(T, s)
      \/ d \in ListDestinations(T, s) /\ x = Break(U)
      \/ /\ d \in ListDestinations(T, s)
         /\ x = Ok(DelService(U, s)) /\ ListDestinations(U, s) = {}
      \/ d \in ListDestinations(T, s) /\ x = Ok(U) /\ ListDestinations(U, s) # {}
  BY DEF DeleteDestination, DeleteDeadSvc, MayFail
<1>6. Lacks(DelService(U, s), T, s)
  <2>1. Lacks(DelService(U, s), U, s)
    BY DelServiceSpec
  <2>. QED
    BY <1>2, <2>1 DEF Lacks, DiffersAt
<1>. HIDE DEF U
<1>7. r.table = x.table /\ r.whole = x.whole
  BY <1>1, <1>5 DEF Break, Fail, Ok
<1>8. CASE x = Break(T)
  <2>1. r.table = T /\ ~ r.whole
    BY <1>7, <1>8 DEF Break
  <2>. QED
    BY <2>1
<1>9. CASE x = Fail(T) /\ d \notin ListDestinations(T, s)
  <2>1. r.table = T
    BY <1>7, <1>9 DEF Fail
  <2>. QED
    BY <1>9, <2>1
<1>10. CASE d \in ListDestinations(T, s) /\ x = Break(U)
  <2>1. r.table = U /\ ~ r.whole
    BY <1>7, <1>10 DEF Break
  <2>. QED
    BY <1>2, <1>4, <1>10, <2>1
<1>11. CASE /\ d \in ListDestinations(T, s)
            /\ x = Ok(DelService(U, s)) /\ ListDestinations(U, s) = {}
  <2>1. r.table = DelService(U, s)
    BY <1>7, <1>11 DEF Ok
  <2>. QED
    BY <1>3, <1>4, <1>6, <1>11, <2>1
<1>12. CASE d \in ListDestinations(T, s) /\ x = Ok(U) /\ ListDestinations(U, s) # {}
  <2>1. r.table = U
    BY <1>7, <1>12 DEF Ok
  <2>. QED
    BY <1>2, <1>3, <1>4, <1>12, <2>1
<1>. QED
  BY <1>5, <1>8, <1>9, <1>10, <1>11, <1>12

\* Nothing but destinations on addr is gone from T in U, and no service but
\* such as had only those.
OnlyLost(U, T, addr) ==
    /\ DOMAIN U \subseteq DOMAIN T
    /\ \A x \in DOMAIN U : /\ U[x] \subseteq T[x]
                           /\ \A d \in T[x] \ U[x] : d.addr = addr
    /\ \A x \in DOMAIN T \ DOMAIN U : \A d \in T[x] : d.addr = addr

\* Purge takes nothing but destinations on addr, and leaves none in done.
LEMMA PurgeSpec ==
    ASSUME NEW T, NEW done, NEW addr
    PROVE  /\ OnlyLost(Purge(T, done, addr), T, addr)
           /\ \A x \in DOMAIN Purge(T, done, addr) :
                 x \in done => /\ Purge(T, done, addr)[x] # {}
                               /\ \A d \in Purge(T, done, addr)[x] : d.addr # addr
<1> DEFINE left == [s \in DOMAIN T |->
                      IF s \in done THEN T[s] \ DestinationsOf(T, s, addr) ELSE T[s]]
           kept == {s \in DOMAIN T : s \in done => left[s] # {}}
           U == Purge(T, done, addr)
<1>1. DOMAIN U = kept /\ \A x \in kept : U[x] = left[x]
  BY DEF Purge, Restrict
<1>2. \A x \in DOMAIN T : left[x] = IF x \in done THEN T[x] \ DestinationsOf(T, x, addr)
                                    ELSE T[x]
  OBVIOUS
<1>3. \A x \in DOMAIN T : x \in kept <=> (x \in done => left[x] # {})
  OBVIOUS
<1>4. kept \subseteq DOMAIN T
  OBVIOUS
<1>. HIDE DEF left, kept, U
<1>5. \A x \in DOMAIN U : /\ U[x] \subseteq T[x]
                          /\ \A d \in T[x] \ U[x] : d.addr = addr
  BY <1>1, <1>2, <1>4 DEF DestinationsOf
<1>6. \A x \in DOMAIN T \ DOMAIN U : \A d \in T[x] : d.addr = addr
  BY <1>1, <1>2, <1>3 DEF DestinationsOf
<1>7. \A x \in DOMAIN U : x \in done => U[x] # {} /\ \A d \in U[x] : d.addr # addr
  BY <1>1, <1>2, <1>3, <1>4 DEF DestinationsOf
<1>. QED
  BY <1>1, <1>4, <1>5, <1>6, <1>7 DEF OnlyLost, U

\* DelRServer takes nothing but destinations on addr, whatever fails; if all
\* calls are carried out, it leaves none, and no service without destination.
LEMMA DelRServerSpec ==
    ASSUME NEW T, NEW addr, NEW r \in DelRServerResults(T, addr)
    PROVE  /\ OnlyLost(r.table, T, addr)
           /\ \/ r.ok = TRUE /\ r.whole = TRUE
              \/ r.ok = FALSE /\ r.whole = FALSE /\ Faults
           /\ r.ok = TRUE => \A x \in DOMAIN r.table :
                                /\ r.table[x] # {}
                                /\ \A d \in r.table[x] : d.addr # addr
<1>1. CASE r = Ok(Purge(T, DOMAIN T, addr))
  <2>1. r.table = Purge(T, DOMAIN T, addr) /\ r.ok = TRUE /\ r.whole = TRUE
    BY <1>1 DEF Ok
  <2>2. OnlyLost(r.table, T, addr)
    BY <2>1, PurgeSpec
  <2>3. \A x \in DOMAIN r.table :
           x \in DOMAIN T => r.table[x] # {} /\ \A d \in r.table[x] : d.addr # addr
    BY <2>1, PurgeSpec
  <2>. QED
    BY <2>1, <2>2, <2>3 DEF OnlyLost
<1>2. CASE r = Break(T) /\ Faults
  <2>1. r.table = T /\ r.ok = FALSE /\ r.whole = FALSE
    BY <1>2 DEF Break
  <2>. QED
    BY <1>2, <2>1 DEF OnlyLost
<1>3. ASSUME NEW at \in DOMAIN T, NEW done \in SUBSET (DOMAIN T \ {at}),
             NEW gone \in SUBSET DestinationsOf(T, at, addr),
             r = Break(Purge(SetDestinations(T, at, T[at] \ gone), done, addr))
      PROVE  /\ OnlyLost(r.table, T, addr)
             /\ r.ok = FALSE /\ r.whole = FALSE
  <2> DEFINE U == SetDestinations(T, at, T[at] \ gone)
             W == Purge(U, done, addr)
  <2>1. r.table = W /\ r.ok = FALSE /\ r.whole = FALSE
    BY <1>3 DEF Break
  <2>2. DiffersAt(U, T, at, T[at] \ gone)
    BY SetDestinationsSpec
  <2>3. OnlyLost(W, U, addr)
    BY PurgeSpec
  <2>4. \A d \in gone : d.addr = addr
    BY DEF DestinationsOf
  <2>. HIDE DEF U, W
  <2>5. OnlyLost(U, T, addr)
    <3>1. DOMAIN U = DOMAIN T
      BY <2>2 DEF DiffersAt
    <3>2. \A x \in DOMAIN T : U[x] = IF x = at THEN T[x] \ gone ELSE T[x]
      BY <2>2 DEF DiffersAt
    <3>. QED
      BY <2>4, <3>1, <3>2 DEF OnlyLost
  <2>6. OnlyLost(W, T, addr)
    BY <2>3, <2>5 DEF OnlyLost
  <2>. QED
    BY <2>1, <2>6
<1>4. \/ r = Ok(Purge(T, DOMAIN T, addr))
      \/ r = Break(T) /\ Faults
      \/ Faults /\ \E at \in DOMAIN T : \E done \in SUBSET (DOMAIN T \ {at}) :
            \E gone \in SUBSET DestinationsOf(T, at, addr) :
               r = Break(Purge(SetDestinations(T, at, T[at] \ gone), done, addr))
  <2>1. ASSUME NEW at \in DOMAIN T, r \in HaltedAt(T, addr, at)
        PROVE  \E done \in SUBSET (DOMAIN T \ {at}) :
                  \E gone \in SUBSET DestinationsOf(T, at, addr) :
                     r = Break(Purge(SetDestinations(T, at, T[at] \ gone), done, addr))
    BY <2>1 DEF HaltedAt
  <2>2. r \in MayFail(T) => r = Break(T) /\ Faults
    BY DEF MayFail
  <2>3. \/ r = Ok(Purge(T, DOMAIN T, addr))
        \/ r \in MayFail(T)
        \/ Faults /\ \E at \in DOMAIN T : r \in HaltedAt(T, addr, at)
    BY DEF DelRServerResults
  <2>. QED
    BY <2>1, <2>2, <2>3
<1>. QED
  BY <1>1, <1>2, <1>3, <1>4
-----------------------------------------------------------------------------
\* What a step does to the table: nothing, or Add creates or fills a service,
\* Del takes a destination or its service, DelRServer what is on an address,
\* or Init flushes.
NamedStep(addr, port, proto) ==
    \E mark \in BaseMarks(proto) :
       LET s == Service(port, proto, mark)
           d == [addr |-> addr, port |-> port]
       IN  /\ ~ Incomplete(s)
           /\ \/ DiffersAt(table', table, s, {}) /\ s \notin DOMAIN table
              \/ DiffersAt(table', table, s, ListDestinations(table, s) \cup {d})
              \/ s \in DOMAIN table /\ DiffersAt(table', table, s, table[s] \ {d})
              \/ Lacks(table', table, s) /\ table[s] \subseteq {d}

TableStep ==
    \/ \E addr \in Addrs, port \in PortNumbers, proto \in Protos :
          NamedStep(addr, port, proto)
    \/ \E addr \in Addrs : DelRServer(addr) /\ OnlyLost(table', table, addr)
    \/ table' = table
    \/ DOMAIN table' = {}

\* No step does more to the table than that.
LEMMA StepOfTable == [Next]_vars => TableStep
<1>. SUFFICES ASSUME [Next]_vars PROVE TableStep
  OBVIOUS
<1>1. ASSUME NEW addr \in Addrs, NEW port \in PortNumbers, NEW proto \in Protos,
             Add(addr, port, proto)
      PROVE  TableStep
  <2>1. PICK mark \in BaseMarks(proto) :
               LET s == Service(port, proto, mark)
                   d == [addr |-> addr, port |-> port]
               IN  \/ table' = table
                   \/ \E r \in MayFail(table) : Return("Add", <<addr, port, proto>>, r)
                   \/ /\ ~ Incomplete(s)
                      /\ \E r \in AddResults(table, port, proto, s, d) :
                            Return("Add", <<addr, port, proto>>, r)
    BY <1>1 DEF Add, Die
  <2> DEFINE s == Service(port, proto, mark)
             d == [addr |-> addr, port |-> port]
  <2>2. CASE table' = table
    BY <2>2 DEF TableStep
  <2>3. ASSUME NEW r \in MayFail(table), Return("Add", <<addr, port, proto>>, r)
        PROVE  TableStep
    BY <2>3 DEF MayFail, Break, Return, TableStep
  <2>4. ASSUME ~ Incomplete(s), NEW r \in AddResults(table, port, proto, s, d),
               Return("Add", <<addr, port, proto>>, r)
        PROVE  TableStep
    <3>1. table' = r.table
      BY <2>4 DEF Return
    <3>2. \/ r.table = table
          \/ DiffersAt(r.table, table, s, {}) /\ s \notin DOMAIN table
          \/ DiffersAt(r.table, table, s, ListDestinations(table, s) \cup {d})
      BY <2>4, AddSpec
    <3>3. table' = table \/ NamedStep(addr, port, proto)
      BY <2>4, <3>1, <3>2 DEF NamedStep
    <3>. QED
      BY <3>3 DEF TableStep
  <2>. QED
    BY <2>1, <2>2, <2>3, <2>4
<1>2. ASSUME NEW addr \in Addrs, NEW port \in PortNumbers, NEW proto \in Protos,
             Del(addr, port, proto)
      PROVE  TableStep
  <2>1. PICK mark \in BaseMarks(proto) :
               LET s == Service(port, proto, mark)
                   d == [addr |-> addr, port |-> port]
               IN  \/ table' = table
                   \/ /\ ~ Incomplete(s)
                      /\ \E r \in DelResults(table, s, d) :
                            Return("Del", <<addr, port, proto>>, r)
    BY <1>2 DEF Del, Die
  <2> DEFINE s == Service(port, proto, mark)
             d == [addr |-> addr, port |-> port]
  <2>2. CASE table' = table
    BY <2>2 DEF TableStep
  <2>3. ASSUME ~ Incomplete(s), NEW r \in DelResults(table, s, d),
               Return("Del", <<addr, port, proto>>, r)
        PROVE  TableStep
    <3>1. table' = r.table
      BY <2>3 DEF Return
    <3>2. \/ r.table = table
          \/ s \in DOMAIN table /\ DiffersAt(r.table, table, s, table[s] \ {d})
          \/ Lacks(r.table, table, s) /\ table[s] \subseteq {d}
      BY <2>3, DelSpec
    <3>3. table' = table \/ NamedStep(addr, port, proto)
      BY <2>3, <3>1, <3>2 DEF NamedStep
    <3>. QED
      BY <3>3 DEF TableStep
  <2>. QED
    BY <2>1, <2>2, <2>3
<1>3. ASSUME NEW addr \in Addrs, DelRServer(addr)
      PROVE  TableStep
  <2>1. PICK r \in DelRServerResults(table, addr) : Return("DelRServer", addr, r)
    BY <1>3 DEF DelRServer
  <2>2. OnlyLost(table', table, addr)
    BY <2>1, DelRServerSpec DEF Return
  <2>. QED
    BY <1>3, <2>2 DEF TableStep
<1>4. CASE Crash
  BY <1>4 DEF Crash, Die, TableStep
<1>5. CASE Restart
  BY <1>5 DEF Restart, TableStep
<1>6. CASE UNCHANGED vars
  BY <1>6 DEF vars, TableStep
<1>. QED
  BY <1>1, <1>2, <1>3, <1>4, <1>5, <1>6 DEF Next

\* The table has only services that the kernel accepts, with destinations on
\* known addresses.
THEOREM TypeCorrect == Spec => []TypeOK
<1>1. Init => TypeOK
  BY DEF Init, TypeOK
<1>2. ASSUME TypeOK, [Next]_vars
      PROVE  TypeOK'
  <2>1. alive' \in BOOLEAN
    BY <1>2 DEF TypeOK, Next, Add, Del, DelRServer, Crash, Restart, Die, Return, vars
  <2>2. ASSUME NEW addr \in Addrs, NEW port \in PortNumbers, NEW proto \in Protos,
               NamedStep(addr, port, proto)
        PROVE  IsTable(table')
    <3>1. PICK mark \in BaseMarks(proto) :
                 LET s == Service(port, proto, mark)
                     d == [addr |-> addr, port |-> port]
                 IN  /\ ~ Incomplete(s)
                     /\ \/ DiffersAt(table', table, s, {}) /\ s \notin DOMAIN table
                        \/ DiffersAt(table', table, s, ListDestinations(table, s) \cup {d})
                        \/ s \in DOMAIN table /\ DiffersAt(table', table, s, table[s] \ {d})
                        \/ Lacks(table', table, s) /\ table[s] \subseteq {d}
      BY <2>2 DEF NamedStep
    <3> DEFINE s == Service(port, proto, mark)
               d == [addr |-> addr, port |-> port]
    <3>2. s \in Services /\ d \in Destinations
      BY <3>1, ServiceSpec DEF Destinations
    <3>3. ListDestinations(table, s) \subseteq Destinations
      BY <1>2 DEF TypeOK, ListDestinations
    <3>. HIDE DEF s, d
    <3>4. ASSUME NEW D \in SUBSET Destinations, DiffersAt(table', table, s, D)
          PROVE  IsTable(table')
      BY <1>2, <3>2, <3>4 DEF TypeOK, DiffersAt, IsTable
    <3>5. ASSUME Lacks(table', table, s)
          PROVE  IsTable(table')
      BY <1>2, <3>5 DEF TypeOK, Lacks, IsTable
    <3>6. s \in DOMAIN table => table[s] \ {d} \subseteq Destinations
      BY <1>2 DEF TypeOK
    <3>7. ListDestinations(table, s) \cup {d} \subseteq Destinations
      BY <3>2, <3>3
    <3>. QED
      BY <3>1, <3>4, <3>5, <3>6, <3>7 DEF s, d
  <2>3. ASSUME NEW addr \in Addrs, OnlyLost(table', table, addr)
        PROVE  IsTable(table')
    BY <1>2, <2>3 DEF TypeOK, OnlyLost, IsTable
  <2>4. table' = table => IsTable(table')
    BY <1>2 DEF TypeOK, IsTable
  <2>5. DOMAIN table' = {} => IsTable(table')
    BY DEF IsTable
  <2>6. IsTable(table')
    BY <1>2, <2>2, <2>3, <2>4, <2>5, StepOfTable DEF TableStep
  <2>. QED
    BY <2>1, <2>6 DEF TypeOK, IsTable
<1>. QED
  BY <1>1, <1>2, PTL DEF Spec

\* A call that was carried out leaves no service without destination behind:
\* Add fills what it creates, Del and DelRServer delete what they empty.
THEOREM NoDeadServiceLeft == Spec => NoNewDeadService
<1>1. ASSUME [Next]_vars, last'.name # "none" /\ last'.whole
      PROVE  DeadServices' \subseteq DeadServices
  <2>1. ASSUME NEW addr \in Addrs, NEW port \in PortNumbers, NEW proto \in Protos,
               Add(addr, port, proto)
        PROVE  DeadServices' \subseteq DeadServices
    <3>1. ~ Die
      BY <1>1 DEF Die, NoCall
    <3>2. PICK mark \in BaseMarks(proto) :
                 LET s == Service(port, proto, mark)
                     d == [addr |-> addr, port |-> port]
                 IN  \/ \E r \in MayFail(table) : Return("Add", <<addr, port, proto>>, r)
                     \/ \E r \in AddResults(table, port, proto, s, d) :
                           Return("Add", <<addr, port, proto>>, r)
      BY <2>1, <3>1 DEF Add
    <3> DEFINE s == Service(port, proto, mark)
               d == [addr |-> addr, port |-> port]
    <3>3. ASSUME NEW r \in MayFail(table), Return("Add", <<addr, port, proto>>, r)
          PROVE  FALSE
      BY <1>1, <3>3 DEF MayFail, Break, Return
    <3>4. ASSUME NEW r \in AddResults(table, port, proto, s, d),
                 Return("Add", <<addr, port, proto>>, r)
          PROVE  DeadServices' \subseteq DeadServices
      <4>1. table' = r.table /\ r.whole
        BY <1>1, <3>4 DEF Return
      <4>2. \/ table' = table
            \/ DiffersAt(table', table, s, ListDestinations(table, s) \cup {d})
        BY <4>1, AddSpec
      <4>. HIDE DEF s, d
      <4>. QED
        BY <4>2 DEF DiffersAt, DeadServices
    <3>. QED
      BY <3>2, <3>3, <3>4
  <2>2. ASSUME NEW addr \in Addrs, NEW port \in PortNumbers, NEW proto \in Protos,
               Del(addr, port, proto)
        PROVE  DeadServices' \subseteq DeadServices
    <3>1. ~ Die
      BY <1>1 DEF Die, NoCall
    <3>2. PICK mark \in BaseMarks(proto) :
                 LET s == Service(port, proto, mark)
                     d == [addr |-> addr, port |-> port]
                 IN  \E r \in DelResults(table, s, d) :
                        Return("Del", <<addr, port, proto>>, r)
      BY <2>2, <3>1 DEF Del
    <3> DEFINE s == Service(port, proto, mark)
               d == [addr |-> addr, port |-> port]
    <3>3. PICK r \in DelResults(table, s, d) : Return("Del", <<addr, port, proto>>, r)
      BY <3>2
    <3>4. table' = r.table /\ r.whole
      BY <1>1, <3>3 DEF Return
    <3>. HIDE DEF s, d
    <3>5. \/ r.table = table
          \/ DiffersAt(r.table, table, s, table[s] \ {d}) /\ (~ r.whole \/ table[s] \ {d} # {})
          \/ Lacks(r.table, table, s)
      BY DelSpec
    <3>. QED
      BY <3>4, <3>5 DEF DiffersAt, Lacks, DeadServices
  <2>3. ASSUME NEW addr \in Addrs, DelRServer(addr)
        PROVE  DeadServices' \subseteq DeadServices
    <3>1. PICK r \in DelRServerResults(table, addr) : Return("DelRServer", addr, r)
      BY <2>3 DEF DelRServer
    <3>2. table' = r.table /\ r.whole
      BY <1>1, <3>1 DEF Return
    <3>3. r.ok = TRUE
      <4>1. \/ r.ok = TRUE /\ r.whole = TRUE
            \/ r.ok = FALSE /\ r.whole = FALSE
        BY DelRServerSpec
      <4>. QED
        BY <3>2, <4>1
    <3>4. \A x \in DOMAIN table' : table'[x] # {}
      BY <3>2, <3>3, DelRServerSpec
    <3>. QED
      BY <3>4 DEF DeadServices
  <2>4. CASE Crash
    BY <2>4 DEF Crash, Die, DeadServices
  <2>5. CASE Restart
    BY <2>5 DEF Restart, DeadServices
  <2>6. CASE UNCHANGED vars
    BY <2>6 DEF vars, DeadServices
  <2>. QED
    BY <1>1, <2>1, <2>2, <2>3, <2>4, <2>5, <2>6 DEF Next
<1>. QED
  BY <1>1, PTL DEF Spec, NoNewDeadService
-----------------------------------------------------------------------------
\* In the services without mark, every destination has the port of its service.
PortsOf(T) == \A x \in DOMAIN T : x.proto \in Protos => \A d \in T[x] : d.port = x.port

PortsMatch == PortsOf(table)

\* The services a step leaves and the destinations it adds keep that.
THEOREM SamePort == Spec => [](TypeOK /\ PortsMatch)
<1>1. Init => PortsMatch
  BY DEF Init, PortsMatch, PortsOf
<1>2. ASSUME TypeOK, PortsMatch, [Next]_vars
      PROVE  PortsMatch'
  <2>1. ASSUME NEW addr \in Addrs, NEW port \in PortNumbers, NEW proto \in Protos,
               NamedStep(addr, port, proto)
        PROVE  PortsOf(table')
    <3>1. PICK mark \in BaseMarks(proto) :
                 LET s == Service(port, proto, mark)
                     d == [addr |-> addr, port |-> port]
                 IN  /\ ~ Incomplete(s)
                     /\ \/ DiffersAt(table', table, s, {}) /\ s \notin DOMAIN table
                        \/ DiffersAt(table', table, s, ListDestinations(table, s) \cup {d})
                        \/ s \in DOMAIN table /\ DiffersAt(table', table, s, table[s] \ {d})
                        \/ Lacks(table', table, s) /\ table[s] \subseteq {d}
      BY <2>1 DEF NamedStep
    <3> DEFINE s == Service(port, proto, mark)
               d == [addr |-> addr, port |-> port]
    <3>2. s.proto \in Protos => s.port = port
      <4>1. NoProto \notin Protos
        BY DEF NoProto, Protos
      <4>. QED
        BY <3>1, <4>1, ServiceSpec
    <3>3. d.port = port
      OBVIOUS
    <3>. HIDE DEF s, d
    <3>4. s.proto \in Protos => \A e \in ListDestinations(table, s) : e.port = port
      BY <1>2, <3>2 DEF PortsMatch, PortsOf, ListDestinations
    <3>5. ASSUME NEW D, DiffersAt(table', table, s, D),
                 D \subseteq ListDestinations(table, s) \cup {d}
          PROVE  PortsOf(table')
      BY <1>2, <3>2, <3>3, <3>4, <3>5 DEF PortsMatch, PortsOf, DiffersAt
    <3>6. ASSUME Lacks(table', table, s)
          PROVE  PortsOf(table')
      BY <1>2, <3>6 DEF PortsMatch, PortsOf, Lacks
    <3>7. s \in DOMAIN table => table[s] \ {d} \subseteq ListDestinations(table, s)
      BY DEF ListDestinations
    <3>. QED
      BY <3>1, <3>5, <3>6, <3>7 DEF s, d
  <2>2. ASSUME NEW addr \in Addrs, OnlyLost(table', table, addr)
        PROVE  PortsOf(table')
    BY <1>2, <2>2 DEF PortsMatch, PortsOf, OnlyLost
  <2>3. table' = table => PortsOf(table')
    BY <1>2 DEF PortsMatch
  <2>4. DOMAIN table' = {} => PortsOf(table')
    BY DEF PortsOf
  <2>. QED
    BY <1>2, <2>1, <2>2, <2>3, <2>4, StepOfTable DEF TableStep, PortsMatch
<1>. QED
  BY <1>1, <1>2, TypeCorrect, PTL DEF Spec
-----------------------------------------------------------------------------
\* The routes of a table, and whether it has one.
RoutesAt(T, s) == {<<d.addr, d.port, s.proto>> : d \in T[s]}
RoutesOf(T) == UNION {RoutesAt(T, s) : s \in {x \in DOMAIN T : x.proto \in Protos}}

Named(port, proto) == [port |-> port, proto |-> proto, mark |-> 0]

Serves(T, addr, port, proto) ==
    /\ Named(port, proto) \in DOMAIN T
    /\ [addr |-> addr, port |-> port] \in T[Named(port, proto)]

\* A table is known, as far as its routes go, by the ones it serves.
LEMMA RoutesOfSpec ==
    ASSUME NEW T, IsTable(T), PortsOf(T)
    PROVE  /\ RoutesOf(T) \subseteq Addrs \X PortNumbers \X Protos
           /\ \A addr \in Addrs, port \in PortNumbers, proto \in Protos :
                 <<addr, port, proto>> \in RoutesOf(T) <=> Serves(T, addr, port, proto)
<1>1. ASSUME NEW t \in RoutesOf(T)
      PROVE  \E addr \in Addrs, port \in PortNumbers, proto \in Protos :
                t = <<addr, port, proto>> /\ Serves(T, addr, port, proto)
  <2>1. PICK x \in DOMAIN T : x.proto \in Protos /\ t \in RoutesAt(T, x)
    BY DEF RoutesOf
  <2>2. PICK d \in T[x] : t = <<d.addr, d.port, x.proto>>
    BY <2>1 DEF RoutesAt
  <2>3. d.addr \in Addrs /\ d.port \in PortNumbers /\ d = [addr |-> d.addr, port |-> d.port]
    BY DEF IsTable, Destinations
  <2>4. d.port = x.port
    BY <2>1 DEF PortsOf
  <2>5. x = Named(d.port, x.proto)
    BY <2>1, <2>4, ServiceNamed DEF IsTable, Named
  <2>. QED
    BY <2>1, <2>2, <2>3, <2>5 DEF Serves
<1>2. ASSUME NEW addr \in Addrs, NEW port \in PortNumbers, NEW proto \in Protos,
             Serves(T, addr, port, proto)
      PROVE  <<addr, port, proto>> \in RoutesOf(T)
  <2>1. Named(port, proto).proto = proto
    BY DEF Named
  <2>2. <<addr, port, proto>> \in RoutesAt(T, Named(port, proto))
    BY <1>2, <2>1 DEF Serves, RoutesAt
  <2>. QED
    BY <1>2, <2>1, <2>2 DEF Serves, RoutesOf
<1>3. ASSUME NEW addr \in Addrs, NEW port \in PortNumbers, NEW proto \in Protos,
             <<addr, port, proto>> \in RoutesOf(T)
      PROVE  Serves(T, addr, port, proto)
  BY <1>1, <1>3
<1>4. RoutesOf(T) \subseteq Addrs \X PortNumbers \X Protos
  BY <1>1
<1>. QED
  BY <1>2, <1>3, <1>4

\* The routes of the kernel are those of its table.
LEMMA KernelRoutesOf == KernelRoutes = RoutesOf(table)
BY DEF KernelRoutes, RoutesOf, RoutesAt
-----------------------------------------------------------------------------
\* A dead process has returned from no call.
DeadSilent == ~ alive => last = NoCall

CallsInv == DeadSilent /\ DelRServerComplete

\* DelRServer returns nil only with the address gone from every service.
THEOREM AddressGone == Spec => []DelRServerComplete
<1>1. Init => CallsInv
  BY DEF Init, CallsInv, DeadSilent, DelRServerComplete, NoCall
<1>2. ASSUME CallsInv, [Next]_vars
      PROVE  CallsInv'
  <2>1. ASSUME NEW addr \in Addrs, NEW port \in PortNumbers, NEW proto \in Protos,
               Add(addr, port, proto) \/ Del(addr, port, proto)
        PROVE  CallsInv'
    <3>1. alive
      BY <2>1 DEF Add, Del
    <3>2. \/ Die
          \/ \E name \in {"Add", "Del"} : \E r : Return(name, <<addr, port, proto>>, r)
      BY <2>1 DEF Add, Del
    <3>3. CASE Die
      BY <3>3 DEF Die, CallsInv, DeadSilent, DelRServerComplete, NoCall
    <3>4. ASSUME NEW name \in {"Add", "Del"}, NEW r, Return(name, <<addr, port, proto>>, r)
          PROVE  CallsInv'
      BY <3>1, <3>4 DEF Return, CallsInv, DeadSilent, DelRServerComplete
    <3>. QED
      BY <3>2, <3>3, <3>4
  <2>2. ASSUME NEW addr \in Addrs, DelRServer(addr)
        PROVE  CallsInv'
    <3>1. PICK r \in DelRServerResults(table, addr) : Return("DelRServer", addr, r)
      BY <2>2 DEF DelRServer
    <3>2. /\ alive' = alive /\ table' = r.table
          /\ last'.about = addr /\ last'.ok = r.ok
      BY <3>1 DEF Return
    <3>3. alive
      BY <2>2 DEF DelRServer
    <3>4. r.ok = TRUE => \A x \in DOMAIN table' :
                            /\ table'[x] # {}
                            /\ \A d \in table'[x] : d.addr # addr
      <4>1. r.ok = TRUE => \A x \in DOMAIN r.table :
                              /\ r.table[x] # {}
                              /\ \A d \in r.table[x] : d.addr # addr
        BY DelRServerSpec
      <4>2. table' = r.table
        BY <3>2
      <4>. QED
        BY <4>1, <4>2
    <3>5. DelRServerComplete'
      <4>1. CASE r.ok = TRUE
        BY <3>2, <3>4, <4>1 DEF DelRServerComplete
      <4>2. CASE r.ok = FALSE
        BY <3>2, <4>2 DEF DelRServerComplete
      <4>. QED
        BY <4>1, <4>2, DelRServerSpec
    <3>. QED
      BY <3>2, <3>3, <3>5 DEF CallsInv, DeadSilent
  <2>3. CASE Crash
    BY <2>3 DEF Crash, Die, CallsInv, DeadSilent, DelRServerComplete, NoCall
  <2>4. CASE Restart
    BY <1>2, <2>4 DEF Restart, CallsInv, DeadSilent, DelRServerComplete, NoCall
  <2>5. CASE UNCHANGED vars
    BY <1>2, <2>5 DEF vars, CallsInv, DeadSilent, DelRServerComplete
  <2>. QED
    BY <1>2, <2>1, <2>2, <2>3, <2>4, <2>5 DEF Next
<1>3. CallsInv => DelRServerComplete
  BY DEF CallsInv
<1>. QED
  BY <1>1, <1>2, <1>3, PTL DEF Spec
-----------------------------------------------------------------------------
\* A call without mark is about the service of its port and protocol.
LEMMA Unmarked ==
    ASSUME NEW port, NEW proto \in Protos, NEW mark \in BaseMarks(proto),
           Marked => proto = "udp"
    PROVE  Service(port, proto, mark) = Named(port, proto)
BY DEF BaseMarks, Service, Named

\* What a call without mark leaves if its netlink calls are carried out.
Effect(addr, port, proto, name) ==
    (last'.whole /\ (Marked => proto = "udp")) =>
        (name = "Add" <=> Serves(table', addr, port, proto))

\* Add leaves the route it is called for.
LEMMA AddTakesEffect ==
    ASSUME TypeOK, NEW addr \in Addrs, NEW port \in PortNumbers, NEW proto \in Protos,
           Add(addr, port, proto), ~ Die
    PROVE  Effect(addr, port, proto, "Add")
<1>. SUFFICES ASSUME last'.whole, Marked => proto = "udp"
              PROVE  Serves(table', addr, port, proto)
  BY DEF Effect
<1>1. PICK mark \in BaseMarks(proto) :
             LET s == Service(port, proto, mark)
                 d == [addr |-> addr, port |-> port]
             IN  \/ \E r \in MayFail(table) : Return("Add", <<addr, port, proto>>, r)
                 \/ \E r \in AddResults(table, port, proto, s, d) :
                       Return("Add", <<addr, port, proto>>, r)
  BY DEF Add
<1> DEFINE s == Service(port, proto, mark)
           d == [addr |-> addr, port |-> port]
<1>2. ASSUME NEW r \in MayFail(table), Return("Add", <<addr, port, proto>>, r)
      PROVE  FALSE
  BY <1>2 DEF MayFail, Break, Return
<1>3. ASSUME NEW r \in AddResults(table, port, proto, s, d),
             Return("Add", <<addr, port, proto>>, r)
      PROVE  Serves(table', addr, port, proto)
  <2>1. s = Named(port, proto)
    BY Unmarked
  <2>2. table' = r.table /\ r.whole
    BY <1>3 DEF Return
  <2>3. ASSUME NEW x \in DOMAIN table, x.port = port, x.proto = proto
        PROVE  x = s
    <3>1. x \in Services
      BY DEF TypeOK
    <3>. QED
      BY <2>1, <2>3, <3>1, ServiceNamed DEF Named
  <2>4. s.port = port /\ s.proto = proto
    BY <2>1 DEF Named
  <2>. HIDE DEF s
  <2>5. \/ r.table = table /\ d \in ListDestinations(table, s)
        \/ DiffersAt(r.table, table, s, ListDestinations(table, s) \cup {d})
    <3>1. \/ /\ r.table = table
             /\ \/ ~ r.whole \/ d \in ListDestinations(table, s)
                \/ s \in DOMAIN table /\ ~ \E x \in DOMAIN table : x.port = port /\ x.proto = proto
                \/ s \notin DOMAIN table /\ \E x \in DOMAIN table : x.port = port /\ x.proto = proto
          \/ /\ DiffersAt(r.table, table, s, {})
             /\ s \notin DOMAIN table /\ ~ r.whole
          \/ DiffersAt(r.table, table, s, ListDestinations(table, s) \cup {d})
      BY <1>3, AddSpec
    <3>. QED
      BY <2>2, <2>3, <2>4, <3>1
  <2>6. s \in DOMAIN r.table /\ d \in r.table[s]
    BY <2>5 DEF DiffersAt, ListDestinations
  <2>. QED
    BY <2>1, <2>2, <2>6 DEF Serves
<1>. QED
  BY <1>1, <1>2, <1>3

\* Del does not leave the route it is called for.
LEMMA DelTakesEffect ==
    ASSUME NEW addr \in Addrs, NEW port \in PortNumbers, NEW proto \in Protos,
           Del(addr, port, proto), ~ Die
    PROVE  Effect(addr, port, proto, "Del")
<1>. SUFFICES ASSUME last'.whole, Marked => proto = "udp"
              PROVE  ~ Serves(table', addr, port, proto)
  BY DEF Effect
<1>1. PICK mark \in BaseMarks(proto) :
             LET s == Service(port, proto, mark)
                 d == [addr |-> addr, port |-> port]
             IN  \E r \in DelResults(table, s, d) :
                    Return("Del", <<addr, port, proto>>, r)
  BY DEF Del
<1> DEFINE s == Service(port, proto, mark)
           d == [addr |-> addr, port |-> port]
<1>2. PICK r \in DelResults(table, s, d) : Return("Del", <<addr, port, proto>>, r)
  BY <1>1
<1>3. s = Named(port, proto)
  BY Unmarked
<1>4. table' = r.table /\ r.whole
  BY <1>2 DEF Return
<1>. HIDE DEF s
<1>5. \/ r.table = table /\ (~ r.whole \/ d \notin ListDestinations(table, s))
      \/ DiffersAt(r.table, table, s, table[s] \ {d})
      \/ Lacks(r.table, table, s)
  BY DelSpec
<1>6. s \in DOMAIN r.table => d \notin r.table[s]
  BY <1>4, <1>5 DEF DiffersAt, Lacks, ListDestinations
<1>. QED
  BY <1>3, <1>4, <1>6 DEF Serves
\* The routes the kernel has now, and after the step.
LEMMA RoutesNow ==
    ASSUME TypeOK, PortsMatch
    PROVE  /\ KernelRoutes \subseteq Addrs \X PortNumbers \X Protos
           /\ \A addr \in Addrs, port \in PortNumbers, proto \in Protos :
                 <<addr, port, proto>> \in KernelRoutes <=> Serves(table, addr, port, proto)
BY RoutesOfSpec, KernelRoutesOf DEF TypeOK, PortsMatch, IsTable

\* The same of the state after a step.
LEMMA RoutesNext ==
    ASSUME TypeOK', PortsMatch'
    PROVE  /\ KernelRoutes' \subseteq Addrs \X PortNumbers \X Protos
           /\ \A addr \in Addrs, port \in PortNumbers, proto \in Protos :
                 <<addr, port, proto>> \in KernelRoutes' <=> Serves(table', addr, port, proto)
<1>1. IsTable(table') /\ PortsOf(table')
  BY DEF TypeOK, PortsMatch, IsTable
<1>2. KernelRoutes' = RoutesOf(table')
  BY DEF KernelRoutes, RoutesOf, RoutesAt
<1>. QED
  BY <1>1, <1>2, RoutesOfSpec

EffectInv == DeadSilent /\ CallsTakeEffect

\* A call whose netlink calls are carried out does what it is called for,
\* whatever failed calls and crashes have left in the table.
THEOREM CallsEffective == Spec => []CallsTakeEffect
<1>1. Init => EffectInv
  BY DEF Init, EffectInv, DeadSilent, CallsTakeEffect, NoCall
<1>2. ASSUME TypeOK, (TypeOK /\ PortsMatch)', EffectInv, [Next]_vars
      PROVE  EffectInv'
  <2>1. CASE Die
    BY <2>1 DEF Die, EffectInv, DeadSilent, CallsTakeEffect, NoCall
  <2>2. ASSUME NEW addr \in Addrs, NEW port \in PortNumbers, NEW proto \in Protos,
               NEW name \in {"Add", "Del"}, Effect(addr, port, proto, name), alive,
               \E r : Return(name, <<addr, port, proto>>, r)
        PROVE  EffectInv'
    <3>1. /\ last'.name = name /\ last'.about = <<addr, port, proto>>
          /\ alive' = alive
      BY <2>2 DEF Return
    <3>2. <<addr, port, proto>> \in KernelRoutes' <=> Serves(table', addr, port, proto)
      BY <1>2, RoutesNext
    <3>3. last'.about[3] = proto
      BY <3>1
    <3>4. CallsTakeEffect'
      BY <2>2, <3>1, <3>2, <3>3 DEF Effect, CallsTakeEffect
    <3>. QED
      BY <2>2, <3>1, <3>4 DEF EffectInv, DeadSilent
  <2>3. ASSUME NEW addr \in Addrs, NEW port \in PortNumbers, NEW proto \in Protos,
               Add(addr, port, proto), ~ Die
        PROVE  EffectInv'
    <3>1. alive /\ \E r : Return("Add", <<addr, port, proto>>, r)
      BY <2>3 DEF Add
    <3>. QED
      BY <1>2, <2>2, <2>3, <3>1, AddTakesEffect
  <2>4. ASSUME NEW addr \in Addrs, NEW port \in PortNumbers, NEW proto \in Protos,
               Del(addr, port, proto), ~ Die
        PROVE  EffectInv'
    <3>1. alive /\ \E r : Return("Del", <<addr, port, proto>>, r)
      BY <2>4 DEF Del
    <3>. QED
      BY <2>2, <2>4, <3>1, DelTakesEffect
  <2>5. ASSUME NEW addr \in Addrs, DelRServer(addr)
        PROVE  EffectInv'
    <3>1. /\ alive /\ alive' = alive
          /\ last'.name = "DelRServer"
      BY <2>5 DEF DelRServer, Return
    <3>. QED
      BY <3>1 DEF EffectInv, DeadSilent, CallsTakeEffect
  <2>6. CASE Crash
    BY <2>1, <2>6 DEF Crash
  <2>7. CASE Restart
    BY <1>2, <2>7 DEF Restart, EffectInv, DeadSilent, CallsTakeEffect, NoCall
  <2>8. CASE UNCHANGED vars
    BY <1>2, <2>8 DEF vars, EffectInv, DeadSilent, CallsTakeEffect, KernelRoutes
  <2>. QED
    BY <1>2, <2>1, <2>3, <2>4, <2>5, <2>6, <2>7, <2>8 DEF Next
<1>3. EffectInv => CallsTakeEffect
  BY DEF EffectInv
<1>. QED
  BY <1>1, <1>2, <1>3, SamePort, PTL DEF Spec
-----------------------------------------------------------------------------
\* A step of Add or Del adds or removes the route it is called for, or none.
LEMMA NamedRoutes ==
    ASSUME TypeOK, PortsMatch, TypeOK', PortsMatch',
           NEW addr \in Addrs, NEW port \in PortNumbers, NEW proto \in Protos,
           NamedStep(addr, port, proto)
    PROVE  \/ KernelRoutes' = KernelRoutes
           \/ KernelRoutes' = KernelRoutes \cup {<<addr, port, proto>>}
           \/ KernelRoutes' = KernelRoutes \ {<<addr, port, proto>>}
<1>1. PICK mark \in BaseMarks(proto) :
             LET s == Service(port, proto, mark)
                 d == [addr |-> addr, port |-> port]
             IN  /\ ~ Incomplete(s)
                 /\ \/ DiffersAt(table', table, s, {}) /\ s \notin DOMAIN table
                    \/ DiffersAt(table', table, s, ListDestinations(table, s) \cup {d})
                    \/ s \in DOMAIN table /\ DiffersAt(table', table, s, table[s] \ {d})
                    \/ Lacks(table', table, s) /\ table[s] \subseteq {d}
  BY DEF NamedStep
<1> DEFINE s == Service(port, proto, mark)
           d == [addr |-> addr, port |-> port]
\* Another route is served after the step as before.
<1>2. ASSUME NEW a \in Addrs, NEW p \in PortNumbers, NEW q \in Protos,
             <<a, p, q>> # <<addr, port, proto>>
      PROVE  Serves(table', a, p, q) <=> Serves(table, a, p, q)
  <2>1. CASE Named(p, q) # s
    <3>1. Named(p, q) \in DOMAIN table' <=> Named(p, q) \in DOMAIN table
      BY <1>1, <2>1 DEF DiffersAt, Lacks
    <3>2. Named(p, q) \in DOMAIN table => table'[Named(p, q)] = table[Named(p, q)]
      BY <1>1, <2>1 DEF DiffersAt, Lacks
    <3>. QED
      BY <3>1, <3>2 DEF Serves
  <2>2. CASE Named(p, q) = s
    <3>1. p = port /\ q = proto
      <4>1. q # NoProto
        BY DEF Protos, NoProto
      <4>2. Named(p, q).proto = q /\ Named(p, q).port = p
        BY DEF Named
      <4>3. mark = 0
        BY <1>1, <2>2, <4>1, <4>2, ServiceSpec
      <4>. QED
        BY <2>2, <4>2, <4>3 DEF Service
    <3>2. [addr |-> a, port |-> p] # d
      BY <1>2, <3>1
    <3>3. [addr |-> a, port |-> p].addr = a
      OBVIOUS
    <3> DEFINE e == [addr |-> a, port |-> p]
    <3>. HIDE DEF s, d, e
    <3>4. \/ DiffersAt(table', table, s, {}) /\ s \notin DOMAIN table
          \/ DiffersAt(table', table, s, ListDestinations(table, s) \cup {d})
          \/ s \in DOMAIN table /\ DiffersAt(table', table, s, table[s] \ {d})
          \/ Lacks(table', table, s) /\ table[s] \subseteq {d}
      BY <1>1 DEF s, d
    <3>5. e # d
      BY <3>2 DEF e
    <3>6. (s \in DOMAIN table' /\ e \in table'[s]) <=> (s \in DOMAIN table /\ e \in table[s])
      BY <3>4, <3>5 DEF DiffersAt, Lacks, ListDestinations
    <3>. QED
      BY <2>2, <3>6 DEF Serves, e
  <2>. QED
    BY <2>1, <2>2
<1>3. \A t \in Addrs \X PortNumbers \X Protos :
         t # <<addr, port, proto>> => (t \in KernelRoutes' <=> t \in KernelRoutes)
  <2>1. SUFFICES ASSUME NEW a \in Addrs, NEW p \in PortNumbers, NEW q \in Protos,
                        <<a, p, q>> # <<addr, port, proto>>
                 PROVE  <<a, p, q>> \in KernelRoutes' <=> <<a, p, q>> \in KernelRoutes
    OBVIOUS
  <2>2. <<a, p, q>> \in KernelRoutes <=> Serves(table, a, p, q)
    BY RoutesNow
  <2>3. <<a, p, q>> \in KernelRoutes' <=> Serves(table', a, p, q)
    BY RoutesNext
  <2>. QED
    BY <1>2, <2>1, <2>2, <2>3
<1>4. /\ KernelRoutes \subseteq Addrs \X PortNumbers \X Protos
      /\ KernelRoutes' \subseteq Addrs \X PortNumbers \X Protos
  BY RoutesNow, RoutesNext
<1>. QED
  BY <1>3, <1>4
\* DelRServer takes all routes to the address, or with a failed call some.
LEMMA LostRoutes ==
    ASSUME TypeOK, PortsMatch, TypeOK', PortsMatch', NEW addr \in Addrs, DelRServer(addr)
    PROVE  AllRoutes!DelRServer(addr)
<1>1. PICK r \in DelRServerResults(table, addr) : Return("DelRServer", addr, r)
  BY DEF DelRServer
<1>2. table' = r.table
  BY <1>1 DEF Return
<1>3. OnlyLost(table', table, addr)
  BY <1>2, DelRServerSpec
<1>4. ASSUME NEW a \in Addrs, NEW p \in PortNumbers, NEW q \in Protos
      PROVE  /\ Serves(table', a, p, q) => Serves(table, a, p, q)
             /\ Serves(table, a, p, q) /\ a # addr => Serves(table', a, p, q)
  <2> DEFINE e == [addr |-> a, port |-> p]
  <2>1. e.addr = a
    OBVIOUS
  <2>. HIDE DEF e
  <2>2. \A x \in DOMAIN table' : e \in table'[x] => x \in DOMAIN table /\ e \in table[x]
    BY <1>3 DEF OnlyLost
  <2>3. \A x \in DOMAIN table : e \in table[x] /\ a # addr => x \in DOMAIN table' /\ e \in table'[x]
    BY <1>3, <2>1 DEF OnlyLost
  <2>. QED
    BY <2>2, <2>3 DEF Serves, e
<1>5. /\ KernelRoutes' \subseteq KernelRoutes
      /\ \A t \in KernelRoutes \ KernelRoutes' : t[1] = addr
  <2>1. ASSUME NEW a \in Addrs, NEW p \in PortNumbers, NEW q \in Protos
        PROVE  /\ <<a, p, q>> \in KernelRoutes' => <<a, p, q>> \in KernelRoutes
               /\ <<a, p, q>> \in KernelRoutes /\ a # addr => <<a, p, q>> \in KernelRoutes'
    <3>1. <<a, p, q>> \in KernelRoutes <=> Serves(table, a, p, q)
      BY RoutesNow
    <3>2. <<a, p, q>> \in KernelRoutes' <=> Serves(table', a, p, q)
      BY RoutesNext
    <3>. QED
      BY <1>4, <3>1, <3>2
  <2>2. /\ KernelRoutes \subseteq Addrs \X PortNumbers \X Protos
        /\ KernelRoutes' \subseteq Addrs \X PortNumbers \X Protos
    BY RoutesNow, RoutesNext
  <2>. QED
    BY <2>1, <2>2
<1>6. CASE r.ok = TRUE
  <2>1. \A x \in DOMAIN r.table : \A d \in r.table[x] : d.addr # addr
    BY <1>6, DelRServerSpec
  <2>2. ASSUME NEW p \in PortNumbers, NEW q \in Protos
        PROVE  <<addr, p, q>> \notin KernelRoutes'
    <3>1. ~ Serves(table', addr, p, q)
      BY <1>2, <2>1 DEF Serves
    <3>. QED
      BY <3>1, RoutesNext
  <2>3. \A t \in KernelRoutes' : t[1] # addr
    <3>1. KernelRoutes' \subseteq Addrs \X PortNumbers \X Protos
      BY RoutesNext
    <3>. QED
      BY <2>2, <3>1
  <2>4. KernelRoutes' = KernelRoutes \ {t \in KernelRoutes : t[1] = addr}
    BY <1>5, <2>3
  <2>. QED
    BY <2>4 DEF AllRoutes!DelRServer, AllRoutes!RoutesTo
<1>7. CASE Faults
  <2> DEFINE gone == KernelRoutes \ KernelRoutes'
  <2>1. gone \in SUBSET {t \in KernelRoutes : t[1] = addr}
    BY <1>5
  <2>2. KernelRoutes' = KernelRoutes \ gone
    BY <1>5
  <2>. QED
    BY <1>7, <2>1, <2>2 DEF AllRoutes!DelRServer, AllRoutes!RoutesTo
<1>8. r.ok = TRUE \/ Faults
  BY DelRServerSpec
<1>. QED
  BY <1>6, <1>7, <1>8

\* The provider implements the table of routes: calls on services with a mark
\* are stuttering steps, and so are the calls that fail.
THEOREM Implementation == Spec => ImplementsRoutes
<1>1. Init => AllRoutes!TableInit
  BY DEF Init, KernelRoutes, AllRoutes!TableInit
<1>2. ASSUME TypeOK /\ PortsMatch, (TypeOK /\ PortsMatch)', [Next]_vars
      PROVE  [AllRoutes!TableNext]_KernelRoutes
  <2>1. ASSUME NEW addr \in Addrs, NEW port \in PortNumbers, NEW proto \in Protos,
               NamedStep(addr, port, proto)
        PROVE  [AllRoutes!TableNext]_KernelRoutes
    <3>1. <<addr, port, proto>> \in AllRoutes!Routes
      BY DEF AllRoutes!Routes
    <3>2. \/ KernelRoutes' = KernelRoutes
          \/ KernelRoutes' = KernelRoutes \cup {<<addr, port, proto>>}
          \/ KernelRoutes' = KernelRoutes \ {<<addr, port, proto>>}
      BY <1>2, <2>1, NamedRoutes
    <3>. QED
      BY <3>1, <3>2 DEF AllRoutes!TableNext, AllRoutes!Add, AllRoutes!Del
  <2>2. CASE table' = table
    BY <2>2 DEF KernelRoutes
  <2>3. CASE DOMAIN table' = {}
    <3>1. KernelRoutes' = {}
      BY <2>3 DEF KernelRoutes
    <3>. QED
      BY <3>1 DEF AllRoutes!TableNext, AllRoutes!Flush
  <2>4. ASSUME NEW addr \in Addrs, DelRServer(addr)
        PROVE  [AllRoutes!TableNext]_KernelRoutes
    BY <1>2, <2>4, LostRoutes DEF AllRoutes!TableNext
  <2>. QED
    BY <1>2, <2>1, <2>2, <2>3, <2>4, StepOfTable DEF TableStep
<1>. QED
  BY <1>1, <1>2, SamePort, PTL DEF Spec, ImplementsRoutes, AllRoutes!TableSpec
=============================================================================
