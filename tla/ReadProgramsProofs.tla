------------------------- MODULE ReadProgramsProofs -------------------------
(***************************************************************************)
(* Every query that a reading makes is an orderly one: it asks a table there *)
(* is, by a row of that table where it asks for one row, and calls that row *)
(* missing by an error the handler knows. Programs are sequences, so this is *)
(* shown of the queries first, of every function of internal/ that puts them *)
(* together next, and last of the loops, which put in the place of a query *)
(* those for the rows that it has found.                                   *)
(***************************************************************************)
EXTENDS ResourceReads, TLAPS, WellFoundedInduction, FiniteSetTheorems

\* Of the numbers with some property one is the smallest: this is how an
\* argument by induction is made here.
LEMMA SmallestNumber ==
  ASSUME NEW S \in SUBSET Nat, S # {}
  PROVE  \E n \in S : \A m \in S : n <= m
  <1> DEFINE R == OpToRel(<, Nat)
  <1>1. IsWellFoundedOn(R, Nat)
    BY NatLessThanWellFounded
  <1> HIDE DEF R
  <1>2. PICK n \in S : \A m \in S : ~(<<m, n>> \in R)
    BY <1>1, WFMin
  <1>3. \A m, k \in Nat : m < k => <<m, k>> \in R
    BY DEF R, OpToRel
  <1>4. ASSUME NEW m \in S
        PROVE  n <= m
    <2>1. ~(<<m, n>> \in R)
      BY <1>2
    <2>2. m \in Nat /\ n \in Nat
      OBVIOUS
    <2>3. m < n => <<m, n>> \in R
      BY <1>3, <2>2
    <2>4. QED
      BY <2>1, <2>2, <2>3
  <1>5. QED
    BY <1>4

\* What FlattenSeq makes of sequences over S is a sequence over S: its recursive
\* function has a value everywhere, and the smallest place where that value
\* were not such a sequence could be neither the first nor a later one.
LEMMA Flattened ==
  ASSUME NEW S, NEW n \in Nat, NEW ss \in [1..n -> Seq(S)]
  PROVE  FlattenSeq(ss) \in Seq(S)
  <1> DEFINE Next1(f, i) == IF i = 1 THEN ss[i] ELSE f[i - 1] \o ss[i]
             Solves(f, m) == f \in [1..m -> Seq(S)] /\ \A i \in 1..m : f[i] = Next1(f, i)
             Open == {m \in 0..n : ~ \E f : Solves(f, m)}
  <1>1. Len(ss) = n
    OBVIOUS
  <1>2. CASE n = 0
    BY <1>1, <1>2 DEF FlattenSeq
  <1>3. CASE n # 0
    <2>1. \E f : Solves(f, n)
      <3>1. CASE Open # {}
        <4> HIDE DEF Solves
        <4>0. Open \in SUBSET Nat
          OBVIOUS
        <4>1. PICK m \in Open : \A k \in Open : m <= k
          <5> HIDE DEF Open
          <5> QED
            BY <3>1, <4>0, SmallestNumber
        <4> USE DEF Solves
        <4>2. CASE m = 0
          <5>1. Solves(<<>>, 0)
            OBVIOUS
          <5>2. QED
            BY <4>1, <4>2, <5>1
        <4>3. CASE m # 0
          <5>1. m - 1 \in 0..n /\ m - 1 \notin Open /\ m \in 1..n
            <6>1. m \in 0..n /\ m # 0
              BY <4>1, <4>3
            <6>2. m - 1 \in 0..n /\ m \in 1..n /\ ~(m <= m - 1)
              BY <6>1
            <6>3. m - 1 \notin Open
              <7> HIDE DEF Open
              <7> QED
                BY <4>1, <6>2
            <6>4. QED
              BY <6>2, <6>3
          <5>2. PICK f : Solves(f, m - 1)
            BY <5>1
          <5> DEFINE g == [i \in 1..m |-> IF i < m THEN f[i] ELSE Next1(f, m)]
          <5>3. Next1(f, m) \in Seq(S)
            BY <5>1, <5>2
          <5>4. g \in [1..m -> Seq(S)]
            BY <5>1, <5>2, <5>3
          <5>5. ASSUME NEW i \in 1..m PROVE g[i] = Next1(g, i)
            <6>1. CASE i < m
              <7>1. i \in 1..(m - 1) /\ g[i] = f[i]
                BY <5>1, <6>1
              <7>2. f[i] = Next1(f, i)
                BY <5>2, <7>1
              <7>3. i # 1 => i - 1 \in 1..m /\ i - 1 < m
                BY <5>1, <7>1
              <7>4. i # 1 => g[i - 1] = f[i - 1]
                BY <7>3
              <7> HIDE DEF g
              <7>5. QED
                BY <7>1, <7>2, <7>4
            <6>2. CASE i = m
              BY <5>1, <5>2, <6>2
            <6>3. QED
              BY <5>1, <6>1, <6>2
          <5>6. Solves(g, m)
            BY <5>4, <5>5
          <5>7. QED
            BY <4>1, <5>6
        <4>4. QED
          BY <4>2, <4>3
      <3>2. QED
        <4>1. n \in 0..n
          OBVIOUS
        <4> HIDE DEF Solves
        <4>2. QED
          BY <3>1, <4>1
    <2>2. \E f : f = [i \in 1..n |-> Next1(f, i)]
      BY <2>1
    <2> DEFINE g == CHOOSE f : f = [i \in 1..n |-> Next1(f, i)]
    <2>3. g = [i \in 1..n |-> Next1(g, i)]
      BY <2>2
    <2>4. FlattenSeq(ss) = g[n]
      BY <1>1, <1>3 DEF FlattenSeq
    <2> DEFINE Bad == {i \in 1..n : g[i] \notin Seq(S)}
    <2> HIDE DEF g
    <2>5. Bad = {}
      <3>1. ASSUME NEW m \in Bad, \A k \in Bad : m <= k
            PROVE  FALSE
        <4>1. CASE m = 1
          BY <2>3, <3>1, <4>1
        <4>2. CASE m # 1
          <5>1. m - 1 \in 1..n /\ m - 1 \notin Bad
            BY <3>1, <4>2
          <5>2. m \in 1..n /\ g[m] \notin Seq(S)
            BY <3>1
          <5>3. g[m - 1] \in Seq(S)
            BY <5>1
          <5>4. g[m] = g[m - 1] \o ss[m]
            BY <2>3, <4>2, <5>2
          <5>5. ss[m] \in Seq(S)
            BY <5>2
          <5>6. QED
            BY <5>2, <5>3, <5>4, <5>5
        <4>3. QED
          BY <4>1, <4>2
      <3>2. Bad \in SUBSET Nat
        OBVIOUS
      <3> HIDE DEF Bad
      <3>3. QED
        BY <3>1, <3>2, SmallestNumber
    <2>6. QED
      BY <1>3, <2>4, <2>5
  <1>4. QED
    BY <1>2, <1>3

-----------------------------------------------------------------------------
(* Every query of every program is orderly.                                *)

Shaped(q) ==
    q = [ask |-> q.ask, table |-> q.table, by |-> q.by, joins |-> q.joins, then |-> q.then,
         missing |-> q.missing, block |-> q.block, draft |-> q.draft]

\* A query that anything may come before.
Plain(r, q) == Shaped(q) /\ Orderly(r, q) /\ q.ask # "allowed"

IsProgram(r, s) ==
    /\ s \in Seq({s[i] : i \in DOMAIN s})
    /\ \A i \in DOMAIN s : Plain(r, s[i])

\* A sequence of plain queries is a program.
LEMMA PlainSeq ==
  ASSUME NEW r, NEW S, \A q \in S : Plain(r, q), NEW s \in Seq(S)
  PROVE  IsProgram(r, s)
  BY DEF IsProgram

\* The same the other way round.
LEMMA ProgramSeq ==
  ASSUME NEW r, NEW s, IsProgram(r, s)
  PROVE  \E S : s \in Seq(S) /\ \A q \in S : Plain(r, q)
  <1>1. \A q \in {s[i] : i \in DOMAIN s} : Plain(r, q)
    BY DEF IsProgram
  <1>2. QED
    BY <1>1 DEF IsProgram

\* Two programs one after the other are a program.
LEMMA Concatenated ==
  ASSUME NEW r, NEW s, NEW t, IsProgram(r, s), IsProgram(r, t)
  PROVE  IsProgram(r, s \o t)
  <1>1. PICK S : s \in Seq(S) /\ \A q \in S : Plain(r, q)
    BY ProgramSeq
  <1>2. PICK T : t \in Seq(T) /\ \A q \in T : Plain(r, q)
    BY ProgramSeq
  <1>3. s \o t \in Seq(S \cup T)
    BY <1>1, <1>2
  <1>4. \A q \in S \cup T : Plain(r, q)
    BY <1>1, <1>2
  <1>5. QED
    BY <1>3, <1>4, PlainSeq

\* Programs of a few queries.
LEMMA Few ==
  ASSUME NEW r, NEW a, NEW b, NEW c, NEW d, NEW e,
         \A q \in {a, b, c, d, e} : Plain(r, q)
  PROVE  /\ IsProgram(r, <<>>) /\ IsProgram(r, <<a>>) /\ IsProgram(r, <<a, b>>)
         /\ IsProgram(r, <<a, b, c>>) /\ IsProgram(r, <<a, b, c, d>>)
         /\ IsProgram(r, <<a, b, c, d, e>>)
  <1> DEFINE S == {a, b, c, d, e}
  <1>1. /\ <<>> \in Seq(S) /\ <<a>> \in Seq(S) /\ <<a, b>> \in Seq(S) /\ <<a, b, c>> \in Seq(S)
        /\ <<a, b, c, d>> \in Seq(S) /\ <<a, b, c, d, e>> \in Seq(S)
    OBVIOUS
  <1> HIDE DEF S
  <1>2. \A q \in S : Plain(r, q)
    BY DEF S
  <1>3. QED
    BY <1>1, <1>2, PlainSeq

\* A program in a function literal, whose error is dropped, is a program.
LEMMA DroppedIs ==
  ASSUME NEW r, NEW s, IsProgram(r, s), NEW b
  PROVE  IsProgram(r, Q!Dropped(b, s))
  <1> DEFINE t == Q!Dropped(b, s)
  <1>1. PICK S : s \in Seq(S)
    BY ProgramSeq
  <1>2. /\ DOMAIN t = DOMAIN s /\ \A i \in DOMAIN s : t[i] = [s[i] EXCEPT !.block = b]
        /\ t = [i \in 1..Len(s) |-> [s[i] EXCEPT !.block = b]] /\ Len(s) \in Nat
        /\ DOMAIN s = 1..Len(s)
    BY <1>1 DEF Q!Dropped
  <1>3. ASSUME NEW i \in DOMAIN s
        PROVE  Plain(r, t[i])
    <2>1. Plain(r, s[i]) /\ t[i] = [s[i] EXCEPT !.block = b]
      BY <1>2 DEF IsProgram
    <2>2. /\ t[i].ask = s[i].ask /\ t[i].table = s[i].table /\ t[i].by = s[i].by
          /\ t[i].then = s[i].then /\ t[i].missing = s[i].missing /\ Shaped(t[i])
      BY <2>1 DEF Plain, Shaped
    <2>3. QED
      BY <2>1, <2>2 DEF Plain, Orderly
  <1> HIDE DEF t
  <1>4. t \in Seq({t[i] : i \in DOMAIN t})
    BY <1>2
  <1>5. QED
    BY <1>2, <1>3, <1>4 DEF IsProgram, t

-----------------------------------------------------------------------------
(* The queries.                                                            *)

\* When a query is plain.
LEMMA QueryIs ==
  ASSUME NEW r, NEW ask, NEW table \in Q!Tables, NEW by, NEW joins, NEW then,
         ask \notin {"allowed", "save"},
         ask \in {"owner", "one"} => by[1] = table /\ (ask = "owner" => table = "cluster"),
         then \in {"cluster", "permission"} =>
            table = then /\ (ask = "list" \/ (ask = "each" /\ by = <<>>))
  PROVE  Plain(r, Q!Query(ask, table, by, joins, then))
  BY DEF Q!Query, Plain, Shaped, Orderly

\* The kinds of queries that the programs are made of.
LEMMA Constructors ==
  ASSUME NEW r, NEW table \in Q!Tables, NEW x, NEW joins, NEW then,
         then \notin {"cluster", "permission"}
  PROVE  /\ x[1] \in Q!Tables => Plain(r, Q!One(x, joins)) /\ Plain(r, Q!Exists(x))
         /\ Plain(r, Q!Many(table, x, joins, then))
         /\ Plain(r, Q!List(table, joins, then))
         /\ Plain(r, Q!Filter(table, x))
         /\ Plain(r, Q!Page(table))
         /\ Plain(r, Q!Each(table, then))
         /\ Plain(r, Q!Query("maybe", table, x, joins, then))
         /\ Plain(r, Q!Query("sync", table, x, joins, then))
         /\ Plain(r, Q!Query("check", table, x, joins, then))
         /\ Plain(r, Q!Query("update", table, x, joins, then))
         /\ Plain(r, Q!Query("in", table, x, joins, then))
         /\ Plain(r, Q!Query("refilter", table, x, joins, then))
  BY QueryIs DEF Q!One, Q!Exists, Q!Many, Q!List, Q!Filter, Q!Page, Q!Each

\* A plain query stays plain when what it is filtered by is changed, or what
\* is left out of the answer, or read for what it finds.
LEMMA Changed ==
  ASSUME NEW r, NEW q, Plain(r, q), NEW v
  PROVE  /\ Plain(r, [q EXCEPT !.draft = v])
         /\ Plain(r, [q EXCEPT !.joins = v])
         /\ Plain(r, [q EXCEPT !.block = v])
         /\ Plain(r, [q EXCEPT !.missing = "Unknown"])
         /\ q.ask \in {"list", "page"} => Plain(r, [q EXCEPT !.by = v])
         /\ q.ask = "each" /\ q.then \notin {"cluster", "permission"} =>
              Plain(r, [q EXCEPT !.by = v])
  <1>1. Shaped(q) /\ Orderly(r, q) /\ q.ask # "allowed"
    BY DEF Plain
  <1>2. Plain(r, [q EXCEPT !.draft = v])
    BY <1>1 DEF Plain, Shaped, Orderly
  <1>3. Plain(r, [q EXCEPT !.joins = v])
    BY <1>1 DEF Plain, Shaped, Orderly
  <1>4. Plain(r, [q EXCEPT !.block = v])
    BY <1>1 DEF Plain, Shaped, Orderly
  <1>5. Plain(r, [q EXCEPT !.missing = "Unknown"])
    BY <1>1 DEF Plain, Shaped, Orderly
  <1>6. q.ask \in {"list", "page"} => Plain(r, [q EXCEPT !.by = v])
    BY <1>1 DEF Plain, Shaped, Orderly
  <1>7. q.ask = "each" /\ q.then \notin {"cluster", "permission"} => Plain(r, [q EXCEPT !.by = v])
    BY <1>1 DEF Plain, Shaped, Orderly
  <1>8. QED
    BY <1>2, <1>3, <1>4, <1>5, <1>6, <1>7

\* The rows that name x.
LEMMA ManyQueries ==
  ASSUME NEW r, NEW x
  PROVE  /\ Plain(r, Q!GetQuotas(x)) /\ Plain(r, Q!GetSubnets(x)) /\ Plain(r, Q!GetDHCPPools(x))
         /\ Plain(r, Q!GetSubnetNameservers(x)) /\ Plain(r, Q!GetFloatingIPs(x))
         /\ Plain(r, Q!getClusterHypervisors(x)) /\ Plain(r, Q!getRoutingInterfaceRecords(x))
         /\ Plain(r, Q!GetExtraRoutes(x)) /\ Plain(r, Q!GetSecurityGroupRules(x))
         /\ Plain(r, Q!GetVolumeSnapshots(x)) /\ Plain(r, Q!GetExtraSpecs(x))
         /\ Plain(r, Q!getNetworkRecords(x)) /\ Plain(r, Q!getInstanceVolumeRecords(x))
         /\ Plain(r, Q!GetKeypair(x))
  <1>1. \A table \in Q!Tables : \A joins, then :
          then \notin {"cluster", "permission"} =>
             Plain(r, Q!Many(table, x, joins, then))
    BY Constructors
  <1>2. /\ Plain(r, Q!GetQuotas(x)) /\ Plain(r, Q!GetSubnets(x)) /\ Plain(r, Q!GetDHCPPools(x))
        /\ Plain(r, Q!GetSubnetNameservers(x)) /\ Plain(r, Q!GetFloatingIPs(x))
    BY <1>1 DEF Q!Tables, Q!GetQuotas, Q!GetSubnets, Q!GetDHCPPools, Q!GetSubnetNameservers,
       Q!GetFloatingIPs
  <1>3. /\ Plain(r, Q!getClusterHypervisors(x)) /\ Plain(r, Q!getRoutingInterfaceRecords(x))
        /\ Plain(r, Q!GetExtraRoutes(x)) /\ Plain(r, Q!GetSecurityGroupRules(x))
        /\ Plain(r, Q!GetVolumeSnapshots(x))
    BY <1>1 DEF Q!Tables, Q!getClusterHypervisors, Q!getRoutingInterfaceRecords,
       Q!GetExtraRoutes, Q!GetSecurityGroupRules, Q!GetVolumeSnapshots
  <1>4. /\ Plain(r, Q!GetExtraSpecs(x))
        /\ Plain(r, Q!getNetworkRecords(x)) /\ Plain(r, Q!getInstanceVolumeRecords(x))
    BY <1>1 DEF Q!Tables, Q!GetExtraSpecs, Q!getNetworkRecords, Q!getInstanceVolumeRecords
  <1>5. Plain(r, Q!GetKeypair(x))
    BY Constructors DEF Q!Tables, Q!GetKeypair
  <1>6. QED
    BY <1>2, <1>3, <1>4, <1>5

\* The rows of a list, and their number.
LEMMA ListQueries ==
  ASSUME NEW r
  PROVE  /\ Plain(r, Q!getClusters(r)) /\ Plain(r, Q!getAvailabilityZoneList(r))
         /\ Plain(r, Q!getHypervisorRecordList(r)) /\ Plain(r, Q!getClusterTenantList(r))
         /\ Plain(r, Q!getClusterNetworks(r)) /\ Plain(r, Q!getRouters(r))
         /\ Plain(r, Q!getSecurityGroups(r)) /\ Plain(r, Q!getClusterStorageList(r))
         /\ Plain(r, Q!getVolumeRecords(r)) /\ Plain(r, Q!getClusterInstanceSpecList(r))
         /\ Plain(r, Q!getClusterInstanceList(r))
  <1>1. \A table \in Q!Tables : \A joins, then :
          then \notin {"cluster", "permission"} => Plain(r, Q!List(table, joins, then))
    BY Constructors
  <1>2. Plain(r, Q!getClusters(r))
    BY QueryIs DEF Q!Tables, Q!getClusters, Q!List
  <1>3. /\ Plain(r, Q!getAvailabilityZoneList(r))
        /\ Plain(r, Q!getHypervisorRecordList(r)) /\ Plain(r, Q!getClusterTenantList(r))
        /\ Plain(r, Q!getClusterNetworks(r)) /\ Plain(r, Q!getRouters(r))
    BY <1>1 DEF Q!Tables, Q!getAvailabilityZoneList, Q!getHypervisorRecordList,
       Q!getClusterTenantList, Q!getClusterNetworks, Q!getRouters
  <1>4. /\ Plain(r, Q!getSecurityGroups(r)) /\ Plain(r, Q!getClusterStorageList(r))
        /\ Plain(r, Q!getVolumeRecords(r)) /\ Plain(r, Q!getClusterInstanceSpecList(r))
        /\ Plain(r, Q!getClusterInstanceList(r))
    BY <1>1 DEF Q!Tables, Q!getSecurityGroups, Q!getClusterStorageList, Q!getVolumeRecords,
       Q!getClusterInstanceSpecList, Q!getClusterInstanceList
  <1>5. QED
    BY <1>2, <1>3, <1>4

\* The number of the rows of a list.
LEMMA PageQueries ==
  ASSUME NEW r
  PROVE  /\ Plain(r, Q!getClustersPagination(r)) /\ Plain(r, Q!getAvailabilityZonesPagination(r))
         /\ Plain(r, Q!getHypervisorsPagination(r)) /\ Plain(r, Q!getTenantPagination(r))
         /\ Plain(r, Q!getNetworksPagination(r)) /\ Plain(r, Q!getRoutersPagination(r))
         /\ Plain(r, Q!getSecurityGroupPagination(r)) /\ Plain(r, Q!getStoragePagination(r))
         /\ Plain(r, Q!getVolumePagination(r)) /\ Plain(r, Q!getInstanceSpecsPagination(r))
         /\ Plain(r, Q!getInstancePagination(r)) /\ Plain(r, Q!getInstanceCount(r))
  <1>1. \A table \in Q!Tables : Plain(r, Q!Page(table))
    <2>1. "" \notin {"cluster", "permission"}
      OBVIOUS
    <2>2. QED
      BY <2>1, Constructors
  <1>2. QED
    BY <1>1 DEF Q!Tables, Q!getClustersPagination, Q!getAvailabilityZonesPagination,
       Q!getHypervisorsPagination, Q!getTenantPagination, Q!getNetworksPagination,
       Q!getRoutersPagination, Q!getSecurityGroupPagination, Q!getStoragePagination,
       Q!getVolumePagination, Q!getInstanceSpecsPagination, Q!getInstancePagination,
       Q!getInstanceCount

\* One row by its ID, UUID or name.
LEMMA OneQueries ==
  ASSUME NEW r, NEW x, x[1] \in Q!Tables
  PROVE  /\ Plain(r, Q!getClusterNetwork(x)) /\ Plain(r, Q!getClusterNetworkByUUID(x))
         /\ Plain(r, Q!getInstanceRecord(x)) /\ Plain(r, Q!getInstanceRecordByUUID(x))
         /\ Plain(r, Q!Exists(x)) /\ \A tid : Plain(r, Q!checkIsExistSecurityGroupByName(tid, x))
         /\ \A joins : Plain(r, Q!One(x, joins))
  <1>1. \A joins : Plain(r, Q!One(x, joins)) /\ Plain(r, Q!Exists(x))
    BY Constructors DEF Q!Tables
  <1>2. \A tid : Plain(r, Q!checkIsExistSecurityGroupByName(tid, x))
    BY <1>1, Changed DEF Q!checkIsExistSecurityGroupByName
  <1>3. QED
    BY <1>1, <1>2 DEF Q!getClusterNetwork, Q!getClusterNetworkByUUID, Q!getInstanceRecord,
       Q!getInstanceRecordByUUID

\* The row that a request names.
LEMMA RowQueries ==
  ASSUME NEW r, r.row[1] \in Q!Tables
  PROVE  /\ Plain(r, Q!getAvailabilityZone(r)) /\ Plain(r, Q!getHypervisorRecord(r))
         /\ Plain(r, Q!getClusterTenant(r)) /\ Plain(r, Q!getClusterTenantByUUID(r))
         /\ Plain(r, Q!checkIsExistTenantByName(r)) /\ Plain(r, Q!getClusterSubnet(r))
         /\ Plain(r, Q!getClusterFloatingIP(r))
         /\ Plain(r, Q!checkIsExistFloatingIPByIPAddress(r)) /\ Plain(r, Q!getRouter(r))
         /\ Plain(r, Q!getRouterByUUID(r))
         /\ Plain(r, Q!checkIsExistRoutingInterfaceByIPAddress(r))
         /\ Plain(r, Q!getSecurityGroup(r)) /\ Plain(r, Q!getSecurityGroupByUUID(r))
         /\ Plain(r, Q!getClusterStorage(r)) /\ Plain(r, Q!getVolumeRecord(r))
         /\ Plain(r, Q!getVolumeRecordByUUID(r)) /\ Plain(r, Q!getInstanceSpec(r))
         /\ Plain(r, Q!getInstanceSpecByUUID(r)) /\ Plain(r, Q!getKeypair(r))
         /\ Plain(r, Q!checkIsExistKeypairByName(r))
  BY OneQueries DEF Q!getAvailabilityZone, Q!getHypervisorRecord, Q!getClusterTenant,
     Q!getClusterTenantByUUID, Q!checkIsExistTenantByName, Q!getClusterSubnet,
     Q!getClusterFloatingIP, Q!checkIsExistFloatingIPByIPAddress, Q!getRouter,
     Q!getRouterByUUID, Q!checkIsExistRoutingInterfaceByIPAddress, Q!getSecurityGroup,
     Q!getSecurityGroupByUUID, Q!getClusterStorage, Q!getVolumeRecord,
     Q!getVolumeRecordByUUID, Q!getInstanceSpec, Q!getInstanceSpecByUUID, Q!getKeypair,
     Q!checkIsExistKeypairByName

\* The cluster that a request names.
LEMMA ClusterQueries ==
  ASSUME NEW r, r.cluster[1] = "cluster"
  PROVE  Plain(r, Q!IsClusterOwner(r)) /\ Plain(r, Q!getCluster(r))
  <1>1. "cluster" \in Q!Tables
    BY DEF Q!Tables
  <1>2. QED
    BY <1>1, QueryIs DEF Q!IsClusterOwner, Q!getCluster, Q!One

\* Programs of up to two queries.
LEMMA Two ==
  ASSUME NEW r, NEW a, NEW b, Plain(r, a), Plain(r, b)
  PROVE  IsProgram(r, <<>>) /\ IsProgram(r, <<a>>) /\ IsProgram(r, <<a, b>>)
  <1> DEFINE S == {a, b}
  <1>1. <<>> \in Seq(S) /\ <<a>> \in Seq(S) /\ <<a, b>> \in Seq(S)
    OBVIOUS
  <1>2. \A q \in S : Plain(r, q)
    OBVIOUS
  <1> HIDE DEF S
  <1>3. QED
    BY <1>1, <1>2, PlainSeq

\* Programs of three queries.
LEMMA Three ==
  ASSUME NEW r, NEW a, NEW b, NEW c, Plain(r, a), Plain(r, b), Plain(r, c)
  PROVE  IsProgram(r, <<a, b, c>>)
  BY Few

\* Programs of four queries.
LEMMA Four ==
  ASSUME NEW r, NEW a, NEW b, NEW c, NEW d, Plain(r, a), Plain(r, b), Plain(r, c), Plain(r, d)
  PROVE  IsProgram(r, <<a, b, c, d>>)
  BY Few

\* Programs of five queries.
LEMMA Five ==
  ASSUME NEW r, NEW a, NEW b, NEW c, NEW d, NEW e,
         Plain(r, a), Plain(r, b), Plain(r, c), Plain(r, d), Plain(r, e)
  PROVE  IsProgram(r, <<a, b, c, d, e>>)
  BY Few

\* A list and its number of pages, each with the filter's own queries before it.
LEMMA ListingIs ==
  ASSUME NEW r, NEW filter, NEW list, NEW count, IsProgram(r, filter),
         Plain(r, list), list.ask = "list", Plain(r, count), count.ask = "page"
  PROVE  IsProgram(r, Q!Listing(filter, list, count))
  <1>1. IsProgram(r, <<list, count>>)
    BY Two
  <1>2. /\ Plain(r, [list EXCEPT !.by = Q!Sifted]) /\ Plain(r, [count EXCEPT !.by = Q!Sifted])
    BY Changed
  <1>3. /\ IsProgram(r, <<[list EXCEPT !.by = Q!Sifted]>>)
        /\ IsProgram(r, <<[count EXCEPT !.by = Q!Sifted]>>)
    BY <1>2, Two
  <1>4. IsProgram(r, filter \o <<[list EXCEPT !.by = Q!Sifted]>> \o filter
                       \o <<[count EXCEPT !.by = Q!Sifted]>>)
    BY <1>3, Concatenated
  <1>5. QED
    BY <1>1, <1>4 DEF Q!Listing

\* A request names a cluster.
Asks(r) == r.cluster \in Rows /\ r.cluster[1] = "cluster"

\* The routers of a network (router.go).
LEMMA RouterLists ==
  ASSUME NEW r, Asks(r), NEW n
  PROVE  IsProgram(r, Q!router_GetList(r, n))
  <1>1. IsProgram(r, Q!clusterNetworkFilter(n))
    <2>1. Plain(r, Q!Filter("interface", Q!Internal(n)))
      <3>1. "interface" \in Q!Tables /\ "" \notin {"cluster", "permission"}
        BY DEF Q!Tables
      <3>2. QED
        BY <3>1, Constructors
    <2>2. QED
      BY <2>1, Two DEF Q!clusterNetworkFilter
  <1>2. Q!getRouters(r).ask = "list" /\ Q!getRoutersPagination(r).ask = "page"
    BY DEF Q!getRouters, Q!getRoutersPagination, Q!List, Q!Page, Q!Query
  <1>3. IsProgram(r, Q!Listing(Q!clusterNetworkFilter(n), Q!getRouters(r),
                               Q!getRoutersPagination(r)))
    BY <1>1, <1>2, ListQueries, PageQueries, ListingIs
  <1>4. IsProgram(r, <<Q!IsClusterOwner(r)>>)
    BY ClusterQueries, Two DEF Asks
  <1>5. QED
    BY <1>3, <1>4, DroppedIs, Concatenated DEF Q!router_GetList

\* A network by ID or UUID (network.go).
LEMMA NetworkReads ==
  ASSUME NEW r, Asks(r), NEW n, n[1] \in Q!Tables
  PROVE  IsProgram(r, Q!network_Get(r, n)) /\ IsProgram(r, Q!network_GetByUUID(r, n))
  BY ClusterQueries, OneQueries, ManyQueries, Five DEF Asks, Q!network_Get, Q!network_GetByUUID

\* The loop over what a query has found.
LEMMA FollowIs ==
  ASSUME NEW r, Asks(r), NEW q, NEW x \in Rows,
         q.then \in {"cluster", "permission"} => x[1] = q.then
  PROVE  IsProgram(r, Q!Follow(q, x, r))
  <1>1. x[1] \in Q!Tables
    BY RowsAssumption
  <1>2. IsProgram(r, <<>>)
    BY ManyQueries, Two
  <1>3. CASE q.then \in {"cluster", "permission"}
    <2>1. Q!HasRef(x, "group")
      BY <1>3, RowsAssumption
    <2>2. Q!Ref(x, "group")[1] = "group"
      BY <2>1 DEF Q!HasRef, Q!Ref
    <2>3. Plain(r, Q!getGroup(x))
      BY <2>2, OneQueries DEF Q!getGroup, Q!Tables
    <2>4. IsProgram(r, <<Q!getGroup(x)>>)
      BY <2>3, Two
    <2>5. QED
      BY <1>3, <2>4 DEF Q!Follow
  <1>4. CASE q.then = "tenant"
    <2>1. IsProgram(r, <<Q!GetQuotas(x)>>)
      BY ManyQueries, Two
    <2>2. QED
      BY <1>4, <2>1 DEF Q!Follow
  <1>5. CASE q.then = "subnet"
    <2>1. IsProgram(r, <<Q!GetDHCPPools(x), Q!GetSubnetNameservers(x)>>)
      BY ManyQueries, Two
    <2>2. QED
      BY <1>5, <2>1 DEF Q!Follow
  <1>6. CASE q.then = "router"
    <2>1. /\ Plain(r, [Q!getRoutingInterfaceRecords(x) EXCEPT !.draft = x])
          /\ Plain(r, [Q!GetExtraRoutes(x) EXCEPT !.draft = x])
      BY ManyQueries, Changed
    <2>2. IsProgram(r, <<[Q!getRoutingInterfaceRecords(x) EXCEPT !.draft = x],
                         [Q!GetExtraRoutes(x) EXCEPT !.draft = x]>>)
      BY <2>1, Two
    <2>3. QED
      BY <1>6, <2>2 DEF Q!Follow
  <1>7. CASE q.then = "interface"
    <2>1. Plain(r, [Q!GetSubnetNameservers(Q!Ref(x, "subnet")) EXCEPT !.draft = Q!Draft(q, x)])
      BY ManyQueries, Changed
    <2>2. IsProgram(r, <<[Q!GetSubnetNameservers(Q!Ref(x, "subnet"))
                            EXCEPT !.draft = Q!Draft(q, x)]>>)
      BY <2>1, Two
    <2>3. QED
      BY <1>7, <2>2 DEF Q!Follow
  <1>8. CASE q.then = "rule" /\ Remote[x] # <<>>
    <2>1. Remote[x][1] \in Q!Tables
      BY <1>8, RowsAssumption
    <2>2. Plain(r, Q!GetRemoteSecurityGroup(x))
      BY <2>1, OneQueries, Changed DEF Q!GetRemoteSecurityGroup
    <2>3. IsProgram(r, <<Q!GetRemoteSecurityGroup(x)>>)
      BY <2>2, Two
    <2>4. QED
      BY <1>8, <2>3 DEF Q!Follow
  <1>9. CASE q.then = "volume"
    <2>1. IsProgram(r, <<Q!GetVolumeSnapshots(x)>>)
      BY ManyQueries, Two
    <2>2. QED
      BY <1>9, <2>1 DEF Q!Follow
  <1>10. CASE q.then = "spec"
    <2>1. IsProgram(r, <<Q!GetExtraSpecs(x)>>)
      BY ManyQueries, Two
    <2>2. QED
      BY <1>10, <2>1 DEF Q!Follow
  <1>11. CASE q.then = "routers"
    BY <1>11, RouterLists DEF Q!Follow
  <1>12. CASE q.then = "network"
    BY <1>1, <1>12, NetworkReads DEF Q!Follow
  <1>13. CASE q.then = "rules"
    <2>1. IsProgram(r, <<Q!GetSecurityGroupRules(x)>>)
      BY ManyQueries, Two
    <2>2. QED
      BY <1>13, <2>1 DEF Q!Follow
  <1>14. CASE q.then = "some rules"
    <2>1. IsProgram(r, <<Q!GetSecurityGroupRules(x)>>)
      BY ManyQueries, Two
    <2>2. IsProgram(r, Q!Dropped(<<"GetByUUID", x>>, <<Q!GetSecurityGroupRules(x)>>))
      BY <2>1, DroppedIs
    <2>3. QED
      BY <1>14, <2>2 DEF Q!Follow
  <1>15. CASE /\ q.then \notin {"cluster", "permission", "tenant", "subnet", "router", "interface",
                                "volume", "spec", "routers", "network", "rules", "some rules"}
              /\ ~(q.then = "rule" /\ Remote[x] # <<>>)
    BY <1>2, <1>15 DEF Q!Follow
  <1>16. QED
    BY <1>3, <1>4, <1>5, <1>6, <1>7, <1>8, <1>9, <1>10, <1>11, <1>12, <1>13, <1>14, <1>15

-----------------------------------------------------------------------------
(* The programs.                                                           *)

\* availability_zone.go, hypervisor.go and tenant.go.
LEMMA ZonesAndTenants ==
  ASSUME NEW r, Asks(r), r.row[1] \in Q!Tables
  PROVE  /\ IsProgram(r, Q!availability_zone_Get(r)) /\ IsProgram(r, Q!availability_zone_GetList(r))
         /\ IsProgram(r, Q!hypervisor_Get(r)) /\ IsProgram(r, Q!hypervisor_GetList(r))
         /\ IsProgram(r, Q!hypervisor_Update(r))
         /\ IsProgram(r, Q!tenant_Get(r)) /\ IsProgram(r, Q!tenant_GetByUUID(r))
         /\ IsProgram(r, Q!tenant_GetList(r)) /\ IsProgram(r, Q!CheckIsExistTenant(r))
  <1>1. IsProgram(r, Q!availability_zone_Get(r)) /\ IsProgram(r, Q!availability_zone_GetList(r))
    BY ClusterQueries, RowQueries, ManyQueries, ListQueries, PageQueries, Four
       DEF Asks, Q!availability_zone_Get, Q!availability_zone_GetList
  <1>2. IsProgram(r, Q!hypervisor_Get(r)) /\ IsProgram(r, Q!hypervisor_GetList(r))
    BY ClusterQueries, RowQueries, ListQueries, PageQueries, Three, Four
       DEF Asks, Q!hypervisor_Get, Q!hypervisor_GetList
  <1>3. IsProgram(r, <<Q!IsClusterOwner(r), Q!checkValidHypervisor(r),
                       Q!Query("update", "hypervisor", r.row, {}, "")>>)
    <2>1. /\ Plain(r, Q!checkValidHypervisor(r))
          /\ Plain(r, Q!Query("update", "hypervisor", r.row, {}, ""))
      <3>1. "hypervisor" \in Q!Tables /\ "" \notin {"cluster", "permission"}
        BY DEF Q!Tables
      <3>2. QED
        BY <3>1, Constructors DEF Q!checkValidHypervisor
    <2>2. QED
      BY <2>1, ClusterQueries, Three DEF Asks
  <1>4. IsProgram(r, Q!hypervisor_Update(r))
    BY <1>2, <1>3, Concatenated DEF Q!hypervisor_Update
  <1>5. IsProgram(r, Q!tenant_Get(r)) /\ IsProgram(r, Q!tenant_GetByUUID(r))
    BY ClusterQueries, RowQueries, ManyQueries, Four DEF Asks, Q!tenant_Get, Q!tenant_GetByUUID
  <1>6. IsProgram(r, Q!tenant_GetList(r))
    BY ClusterQueries, ListQueries, PageQueries, Four DEF Asks, Q!tenant_GetList
  <1>7. IsProgram(r, Q!CheckIsExistTenant(r))
    BY ClusterQueries, RowQueries, Two DEF Asks, Q!CheckIsExistTenant
  <1>8. QED
    BY <1>1, <1>2, <1>4, <1>5, <1>6, <1>7

\* network.go and router.go.
LEMMA NetworksAndRouters ==
  ASSUME NEW r, Asks(r), r.row[1] \in Q!Tables
  PROVE  /\ IsProgram(r, Q!network_GetList(r)) /\ IsProgram(r, Q!GetSubnet(r))
         /\ IsProgram(r, Q!GetFloatingIP(r)) /\ IsProgram(r, Q!CheckIsExistFloatingIP(r))
         /\ IsProgram(r, Q!router_Get(r)) /\ IsProgram(r, Q!router_GetByUUID(r))
         /\ IsProgram(r, Q!CheckIsExistRoutingInterface(r))
  <1>1. IsProgram(r, Q!network_GetList(r))
    BY ClusterQueries, ListQueries, PageQueries, Four DEF Asks, Q!network_GetList
  <1>2. IsProgram(r, Q!GetSubnet(r))
    BY ClusterQueries, RowQueries, ManyQueries, Four DEF Asks, Q!GetSubnet
  <1>3. /\ IsProgram(r, Q!GetFloatingIP(r)) /\ IsProgram(r, Q!CheckIsExistFloatingIP(r))
        /\ IsProgram(r, Q!CheckIsExistRoutingInterface(r))
    BY ClusterQueries, RowQueries, Two
       DEF Asks, Q!GetFloatingIP, Q!CheckIsExistFloatingIP, Q!CheckIsExistRoutingInterface
  <1>4. IsProgram(r, Q!router_GetByUUID(r))
    BY ClusterQueries, RowQueries, ManyQueries, Four DEF Asks, Q!router_GetByUUID
  <1>5. IsProgram(r, Q!router_Get(r))
    <2>1. IsProgram(r, <<Q!getRoutingInterfaceRecords(r.row), Q!GetExtraRoutes(r.row)>>)
      BY ManyQueries, Two
    <2>2. IsProgram(r, <<Q!IsClusterOwner(r), Q!getRouter(r)>>)
      BY ClusterQueries, RowQueries, Two DEF Asks
    <2>3. QED
      BY <2>1, <2>2, DroppedIs, Concatenated DEF Q!router_Get
  <1>6. QED
    BY <1>1, <1>2, <1>3, <1>4, <1>5

\* What the lists with a filter ask for.
LEMMA Asked ==
  ASSUME NEW q
  PROVE  /\ Q!getSecurityGroups(q).ask = "list" /\ Q!getSecurityGroupPagination(q).ask = "page"
         /\ Q!getVolumeRecords(q).ask = "list" /\ Q!getVolumePagination(q).ask = "page"
         /\ Q!getClusterInstanceList(q).ask = "list" /\ Q!getInstancePagination(q).ask = "page"
  BY DEF Q!getSecurityGroups, Q!getSecurityGroupPagination, Q!getVolumeRecords,
     Q!getVolumePagination, Q!getClusterInstanceList, Q!getInstancePagination,
     Q!List, Q!Page, Q!Query

\* The filters that make queries of their own.
LEMMA Filters ==
  ASSUME NEW r
  PROVE  /\ IsProgram(r, Q!clusterInstanceIDFilter(r)) /\ IsProgram(r, Q!volumeInstanceIDFilter(r))
         /\ IsProgram(r, Q!volumeFilter(r))
  <1>1. \A table \in Q!Tables : /\ Plain(r, Q!Filter(table, r.filter))
                                /\ Plain(r, Q!Query("refilter", table, r.filter, {}, ""))
    <2>1. "" \notin {"cluster", "permission"}
      OBVIOUS
    <2>2. QED
      BY <2>1, Constructors
  <1>2. {"membership", "attachment", "volume"} \subseteq Q!Tables
    BY DEF Q!Tables
  <1>3. QED
    BY <1>1, <1>2, Two DEF Q!clusterInstanceIDFilter, Q!volumeInstanceIDFilter, Q!volumeFilter

\* security_group.go, storage.go, volume.go and the list of instance.go.
LEMMA GroupsAndVolumes ==
  ASSUME NEW r, Asks(r), r.row[1] \in Q!Tables
  PROVE  /\ IsProgram(r, Q!security_group_Get(r)) /\ IsProgram(r, Q!security_group_GetByUUID(r))
         /\ IsProgram(r, Q!security_group_GetList(r))
         /\ IsProgram(r, Q!CheckIsExistSecurityGroup(r))
         /\ IsProgram(r, Q!storage_Get(r)) /\ IsProgram(r, Q!storage_GetList(r))
         /\ IsProgram(r, Q!volume_Get(r)) /\ IsProgram(r, Q!volume_GetByUUID(r))
         /\ IsProgram(r, Q!volume_GetList(r)) /\ IsProgram(r, Q!instance_GetList(r))
  <1>1. IsProgram(r, Q!security_group_Get(r)) /\ IsProgram(r, Q!security_group_GetByUUID(r))
    BY ClusterQueries, RowQueries, ManyQueries, Four
       DEF Asks, Q!security_group_Get, Q!security_group_GetByUUID
  <1>2. IsProgram(r, Q!volume_Get(r)) /\ IsProgram(r, Q!volume_GetByUUID(r))
    BY ClusterQueries, RowQueries, ManyQueries, Four DEF Asks, Q!volume_Get, Q!volume_GetByUUID
  <1>3. IsProgram(r, Q!storage_Get(r)) /\ IsProgram(r, Q!storage_GetList(r))
    BY ClusterQueries, RowQueries, ListQueries, PageQueries, Three, Four
       DEF Asks, Q!storage_Get, Q!storage_GetList
  <1>4. IsProgram(r, Q!CheckIsExistSecurityGroup(r))
    BY ClusterQueries, OneQueries, Two DEF Asks, Q!CheckIsExistSecurityGroup
  <1>5. IsProgram(r, <<Q!IsClusterOwner(r), Q!getCluster(r)>>)
    BY ClusterQueries, Two DEF Asks
  <1>6. IsProgram(r, Q!security_group_GetList(r))
    <2>1. IsProgram(r, Q!Listing(Q!clusterInstanceIDFilter(r), Q!getSecurityGroups(r),
                                 Q!getSecurityGroupPagination(r)))
      BY Filters, Asked, ListQueries, PageQueries, ListingIs
    <2>2. QED
      BY <1>5, <2>1, Concatenated DEF Q!security_group_GetList
  <1>7. IsProgram(r, Q!volume_GetList(r))
    <2>1. IsProgram(r, Q!Listing(Q!volumeInstanceIDFilter(r), Q!getVolumeRecords(r),
                                 Q!getVolumePagination(r)))
      BY Filters, Asked, ListQueries, PageQueries, ListingIs
    <2>2. QED
      BY <1>5, <2>1, Concatenated DEF Q!volume_GetList
  <1>8. IsProgram(r, Q!instance_GetList(r))
    <2>1. IsProgram(r, Q!Listing(Q!volumeFilter(r), Q!getClusterInstanceList(r),
                                 Q!getInstancePagination(r)))
      BY Filters, Asked, ListQueries, PageQueries, ListingIs
    <2>2. QED
      BY <1>5, <2>1, Concatenated DEF Q!instance_GetList
  <1>9. QED
    BY <1>1, <1>2, <1>3, <1>4, <1>6, <1>7, <1>8

\* instance_spec.go and keypair.go.
LEMMA SpecsAndKeyPairs ==
  ASSUME NEW r, Asks(r), r.row[1] \in Q!Tables
  PROVE  /\ IsProgram(r, Q!spec_Get(r)) /\ IsProgram(r, Q!spec_GetByUUID(r))
         /\ IsProgram(r, Q!spec_GetList(r)) /\ IsProgram(r, Q!CheckIsExistInstanceSpec(r))
         /\ IsProgram(r, Q!keypair_Get(r)) /\ IsProgram(r, Q!CheckIsExistKeypair(r))
  <1>1. IsProgram(r, Q!spec_Get(r)) /\ IsProgram(r, Q!spec_GetByUUID(r))
    BY ClusterQueries, RowQueries, ManyQueries, Four DEF Asks, Q!spec_Get, Q!spec_GetByUUID
  <1>2. IsProgram(r, Q!spec_GetList(r))
    BY ClusterQueries, ListQueries, PageQueries, Four DEF Asks, Q!spec_GetList
  <1>3. IsProgram(r, <<Q!IsClusterOwner(r)>>)
    BY ClusterQueries, Two DEF Asks
  <1>4. IsProgram(r, Q!CheckIsExistInstanceSpec(r))
    <2>1. /\ Plain(r, Q!Query("maybe", "spec", r.row, {}, ""))
          /\ Plain(r, Q!Query("sync", "spec", r.row, {}, ""))
      <3>1. "spec" \in Q!Tables /\ "" \notin {"cluster", "permission"}
        BY DEF Q!Tables
      <3>2. QED
        BY <3>1, Constructors
    <2>2. IsProgram(r, Q!checkIsExistInstanceSpecByName(r))
      BY <2>1, OneQueries, Three DEF Q!checkIsExistInstanceSpecByName
    <2>3. QED
      BY <1>3, <2>2, Concatenated DEF Q!CheckIsExistInstanceSpec
  <1>5. IsProgram(r, Q!keypair_Get(r))
    <2>1. IsProgram(r, <<Q!getCluster(r), Q!getKeypair(r)>>)
      BY ClusterQueries, RowQueries, Two DEF Asks
    <2>2. QED
      BY <1>3, <2>1, DroppedIs, Concatenated DEF Q!keypair_Get
  <1>6. IsProgram(r, Q!CheckIsExistKeypair(r))
    BY ClusterQueries, RowQueries, Two DEF Asks, Q!CheckIsExistKeypair
  <1>7. QED
    BY <1>1, <1>2, <1>4, <1>5, <1>6

\* One instance with all that belongs to it (instance.go).
LEMMA InstanceReads ==
  ASSUME NEW r, Asks(r), r.row[1] \in Q!Tables
  PROVE  IsProgram(r, Q!instance_Get(r)) /\ IsProgram(r, Q!instance_GetByUUID(r))
  <1>1. /\ \A table \in Q!Tables : \A then :
             then \notin {"cluster", "permission"} => Plain(r, Q!Each(table, then))
        /\ {"port", "security_group", "membership", "script"} \subseteq Q!Tables
    BY Constructors DEF Q!Tables
  <1>2. /\ IsProgram(r, <<Q!Each("security_group", "rules")>>)
        /\ IsProgram(r, <<Q!Each("security_group", "some rules")>>)
    <2>1. /\ Plain(r, Q!Each("security_group", "rules"))
          /\ Plain(r, Q!Each("security_group", "some rules"))
      BY <1>1
    <2>2. QED
      BY <2>1, Two
  <1>3. IsProgram(r, Q!GetSecurityGroups(r.row))
    <2>1. /\ Plain(r, Q!Many("membership", r.row, {}, ""))
          /\ Plain(r, Q!Query("in", "security_group", <<"membership">>, {}, ""))
      BY <1>1, Constructors
    <2>2. QED
      BY <2>1, Two DEF Q!GetSecurityGroups
  <1>4. IsProgram(r, <<[Q!Each("port", "network") EXCEPT !.by = <<"network">>]>>)
    <2>1. Plain(r, Q!Each("port", "network"))
      BY <1>1
    <2>2. Q!Each("port", "network").ask = "each" /\ Q!Each("port", "network").then = "network"
      BY DEF Q!Each, Q!Query
    <2>3. Plain(r, [Q!Each("port", "network") EXCEPT !.by = <<"network">>])
      BY <2>1, <2>2, Changed
    <2>4. QED
      BY <2>3, Two
  <1>5. IsProgram(r, <<Q!GetKeypair(r.row), Q!GetExtraSpecs(Q!Ref(r.row, "spec")),
                       Q!getNetworkRecords(r.row), Q!Each("port", "routers"),
                       Q!getInstanceVolumeRecords(r.row)>>)
    BY <1>1, ManyQueries, Five
  <1>6. IsProgram(r, Q!Details(r))
    BY <1>3, <1>4, <1>5, Concatenated DEF Q!Details
  <1>7. /\ IsProgram(r, <<Q!IsClusterOwner(r), Q!getCluster(r), Q!getInstanceRecord(r.row)>>)
        /\ IsProgram(r, <<Q!IsClusterOwner(r), Q!getCluster(r), Q!getInstanceRecordByUUID(r.row)>>)
    BY ClusterQueries, OneQueries, Three DEF Asks
  <1>8. QED
    BY <1>2, <1>6, <1>7, Concatenated DEF Q!instance_Get, Q!instance_GetByUUID

\* The user script is read or saved without a check.
LEMMA Scripts ==
  ASSUME NEW r, Asks(r)
  PROVE  /\ IsProgram(r, Q!GetInstanceUserScript(r))
         /\ r.row \in r.rows => IsProgram(r, Q!UpdateInstanceUserScript(r))
  <1>1. "script" \in Q!Tables /\ "" \notin {"cluster", "permission"}
    BY DEF Q!Tables
  <1>2. Plain(r, Q!Query("maybe", "script", r.row, {}, ""))
    BY <1>1, Constructors
  <1>3. r.row \in r.rows => Plain(r, Q!Query("save", "script", r.row, {}, ""))
    BY <1>1 DEF Plain, Shaped, Orderly, Q!Query
  <1>4. QED
    BY <1>2, <1>3, Two DEF Q!GetInstanceUserScript, Q!UpdateInstanceUserScript

\* A program that asks for the cluster before it asks for the user's group.
Checked(r, s) ==
    /\ s \in Seq({s[i] : i \in DOMAIN s})
    /\ \A i \in DOMAIN s : Orderly(r, s[i])
    /\ s[1].ask = "one" /\ s[1].table = "cluster" /\ s[1].block = <<>>

\* cluster.go, whose readings ask for the user's group themselves.
LEMMA ClusterReads ==
  ASSUME NEW r, Asks(r)
  PROVE  /\ IsProgram(r, Q!cluster_GetList(r)) /\ Checked(r, Q!cluster_Get(r))
         /\ IsProgram(r, Q!GetInstanceNumber(r)) \/ Checked(r, Q!GetInstanceNumber(r))
  <1>1. IsProgram(r, Q!cluster_GetList(r))
    BY ListQueries, PageQueries, Two DEF Q!cluster_GetList
  <1> DEFINE a == Q!getCluster(r)
             b == Q!getGroup(r.cluster)
             c == [Q!getClusterPermissions(r) EXCEPT !.then = ""]
             d == Q!Query("allowed", "cluster", r.cluster, {}, "")
             e == Q!Each("permission", "permission")
             n == Q!getInstanceCount(r)
  <1>2. Orderly(r, a) /\ a.ask = "one" /\ a.table = "cluster" /\ a.block = <<>>
    <2>1. Plain(r, a)
      BY ClusterQueries DEF Asks
    <2>2. QED
      BY <2>1 DEF Plain, Asks, Q!getCluster, Q!One, Q!Query
  <1>3. Orderly(r, b)
    <2>1. Q!HasRef(r.cluster, "group")
      BY RowsAssumption DEF Asks
    <2>2. Q!Ref(r.cluster, "group")[1] \in Q!Tables
      BY <2>1 DEF Q!HasRef, Q!Ref, Q!Tables
    <2>3. Plain(r, b)
      BY <2>2, OneQueries DEF Q!getGroup
    <2>4. QED
      BY <2>3 DEF Plain
  <1>4. Orderly(r, c) /\ Orderly(r, d) /\ Orderly(r, e)
    BY DEF Orderly, Q!getClusterPermissions, Q!Many, Q!Each, Q!Query, Q!Tables
  <1>5. Orderly(r, n)
    BY PageQueries DEF Plain
  <1> DEFINE s == <<a, b, c, d, e>>
  <1>6. Checked(r, s)
    <2>1. DOMAIN s = 1..5 /\ s \in Seq({a, b, c, d, e}) /\ s[1] = a
      OBVIOUS
    <2> HIDE DEF a, b, c, d, e
    <2>2. \A i \in DOMAIN s : Orderly(r, s[i])
      BY <1>2, <1>3, <1>4
    <2>3. s \in Seq({s[i] : i \in DOMAIN s})
      OBVIOUS
    <2>4. QED
      BY <1>2, <2>1, <2>2, <2>3 DEF Checked
  <1>7. Checked(r, s \o <<n>>)
    <2>1. s \in Seq({a, b, c, d, e}) /\ s # <<>> /\ s[1] = a
      OBVIOUS
    <2> HIDE DEF a, b, c, d, e, n, s
    <2> DEFINE S == {a, b, c, d, e, n}
               t == s \o <<n>>
    <2>2. s \in Seq(S) /\ <<n>> \in Seq(S)
      BY <2>1
    <2> HIDE DEF S
    <2>3. t \in Seq(S) /\ t[1] = a
      BY <2>1, <2>2
    <2>4. \A q \in S : Orderly(r, q)
      BY <1>2, <1>3, <1>4, <1>5 DEF S
    <2> HIDE DEF t
    <2>5. (\A i \in DOMAIN t : Orderly(r, t[i])) /\ t \in Seq({t[i] : i \in DOMAIN t})
      BY <2>3, <2>4
    <2>6. QED
      BY <1>2, <2>3, <2>5 DEF Checked, t
  <1>8. Q!cluster_Get(r) = s
    BY DEF Q!cluster_Get
  <1>9. IsProgram(r, Q!cluster_GetList(r) \o <<n>>)
    BY <1>1, PageQueries, Two, Concatenated
  <1>10. QED
    BY <1>1, <1>6, <1>7, <1>8, <1>9 DEF Q!GetInstanceNumber

\* What every request sets out to do.
LEMMA ProgramIs ==
  ASSUME NEW r \in Reads
  PROVE  IsProgram(r, Program(r)) \/ Checked(r, Program(r))
  <1>1. Asks(r)
    BY ReadsAssumption DEF Asks
  <1>2. CASE r.op = "GetClusterInstanceNumber"
    BY <1>1, <1>2, ClusterReads DEF Program, GetClusterInstanceNumber
  <1>3. CASE r.op = "UpdateClusterInstanceUserScript"
    <2>1. r.row \in r.rows
      BY <1>3, ReadsAssumption
    <2>2. QED
      BY <1>1, <1>3, <2>1, Scripts DEF Program, UpdateClusterInstanceUserScript
  <1>4. CASE r.op \notin {"GetClusterInstanceNumber", "UpdateClusterInstanceUserScript"}
    <2>1. r.op \in Operations /\ r.row[1] \in Q!Tables
      BY <1>4, ReadsAssumption
    <2>2. CASE r.op \in {"GetClusterList", "GetCluster", "GetClusterInstanceUserScript"}
      BY <1>1, <2>2, ClusterReads, Scripts
         DEF Program, GetClusterList, GetCluster, GetClusterInstanceUserScript
    <2>3. CASE r.op \in {"GetClusterHypervisorList", "GetClusterHypervisor",
                         "UpdateClusterHypervisor", "GetClusterAvailabilityZoneList",
                         "GetClusterAvailabilityZone", "GetClusterTenantList",
                         "GetClusterTenant", "CheckIsExistClusterTenant", "tenant_GetByUUID"}
      BY <1>1, <2>1, <2>3, ZonesAndTenants
         DEF Program, GetClusterHypervisorList, GetClusterHypervisor, UpdateClusterHypervisor,
             GetClusterAvailabilityZoneList, GetClusterAvailabilityZone, GetClusterTenantList,
             GetClusterTenant, CheckIsExistClusterTenant
    <2>4. CASE r.op \in {"GetClusterNetworkList", "GetClusterNetwork", "GetClusterNetworkByUUID",
                         "GetClusterSubnet", "GetClusterFloatingIP",
                         "CheckIsExistClusterFloatingIP"}
      BY <1>1, <2>1, <2>4, NetworksAndRouters, NetworkReads
         DEF Program, GetClusterNetworkList, GetClusterNetwork, GetClusterNetworkByUUID,
             GetClusterSubnet, GetClusterFloatingIP, CheckIsExistClusterFloatingIP
    <2>5. CASE r.op \in {"GetClusterRouterList", "GetClusterRouter",
                         "CheckIsExistClusterRoutingInterface", "router_GetByUUID"}
      BY <1>1, <2>1, <2>5, NetworksAndRouters, RouterLists
         DEF Program, GetClusterRouterList, GetClusterRouter,
             CheckIsExistClusterRoutingInterface
    <2>6. CASE r.op \in {"GetClusterStorageList", "GetClusterStorage", "GetClusterVolumeList",
                         "GetClusterVolume", "volume_GetByUUID", "GetClusterSecurityGroupList",
                         "GetClusterSecurityGroup", "CheckIsExistClusterSecurityGroup",
                         "security_group_GetByUUID", "GetClusterInstanceList"}
      BY <1>1, <2>1, <2>6, GroupsAndVolumes
         DEF Program, GetClusterStorageList, GetClusterStorage, GetClusterVolumeList,
             GetClusterVolume, GetClusterSecurityGroupList, GetClusterSecurityGroup,
             CheckIsExistClusterSecurityGroup, GetClusterInstanceList
    <2>7. CASE r.op \in {"GetClusterInstance", "GetClusterInstanceByUUID"}
      BY <1>1, <2>1, <2>7, InstanceReads DEF Program, GetClusterInstance, GetClusterInstanceByUUID
    <2>8. CASE r.op \in {"GetClusterInstanceSpecByUUID", "CheckIsExistClusterInstanceSpec",
                         "spec_Get", "spec_GetList", "GetClusterKeyPair",
                         "CheckIsExistClusterKeypair"}
      BY <1>1, <2>1, <2>8, SpecsAndKeyPairs
         DEF Program, GetClusterInstanceSpecByUUID, CheckIsExistClusterInstanceSpec,
             GetClusterKeyPair, CheckIsExistClusterKeypair
    <2>9. QED
      BY <1>4, <2>1, <2>2, <2>3, <2>4, <2>5, <2>6, <2>7, <2>8 DEF Operations
  <1>5. QED
    BY <1>2, <1>3, <1>4

-----------------------------------------------------------------------------
(* What a step leaves to do.                                               *)

\* A finite set in some order.
LEMMA InSomeOrder ==
  ASSUME NEW S, IsFiniteSet(S)
  PROVE  Cardinality(S) \in Nat /\ SetToSeq(S) \in [1..Cardinality(S) -> S]
  <1>1. Cardinality(S) \in Nat /\ ExistsBijection(1..Cardinality(S), S)
    BY FS_CardinalityType
  <1>2. PICK f \in [1..Cardinality(S) -> S] : IsInjective(f)
    BY <1>1 DEF ExistsBijection, Bijection, Injection, Surjection, IsInjective
  <1>3. QED
    BY <1>1, <1>2 DEF SetToSeq

\* Max finds the largest of some numbers up to n.
LEMMA LargestNumber ==
  ASSUME NEW n \in Nat, NEW S \in SUBSET (0..n), S # {}
  PROVE  Max(S) \in S /\ \A m \in S : m <= Max(S)
  <1> DEFINE T == {n - k : k \in S}
  <1>1. T \in SUBSET Nat /\ T # {}
    <2>1. \A k \in S : n - k \in Nat
      OBVIOUS
    <2>2. PICK k \in S : TRUE
      OBVIOUS
    <2>3. n - k \in T
      BY <2>2
    <2>4. QED
      BY <2>1, <2>3
  <1>2. PICK t \in T : \A u \in T : t <= u
    <2> HIDE DEF T
    <2>1. QED
      BY <1>1, SmallestNumber
  <1>3. PICK m \in S : t = n - m
    BY <1>2
  <1>4. \A k \in S : m >= k
    <2>1. ASSUME NEW k \in S PROVE m >= k
      <3>1. n - k \in T /\ m \in Int /\ k \in Int
        OBVIOUS
      <3>2. n - m <= n - k
        BY <1>2, <1>3, <3>1
      <3>3. QED
        BY <3>1, <3>2
    <2>2. QED
      BY <2>1
  <1>5. Max(S) \in S /\ \A k \in S : Max(S) >= k
    BY <1>4 DEF Max
  <1>6. QED
    <2>1. S \subseteq Int
      OBVIOUS
    <2>2. QED
      BY <1>5, <2>1

\* A loop puts the queries for each row one after the other, in the function
\* literal of the query that has found the rows.
LEMMA LoopMade ==
  ASSUME NEW q, NEW xs \in SUBSET Rows, NEW S, \A x \in xs : Q!Follow(q, x, req) \in Seq(S)
  PROVE  Loop(q, xs) \in Seq(S \cup {[e EXCEPT !.block = q.block] : e \in S})
  <1> DEFINE n == Cardinality(xs)
             T == S \cup {[e EXCEPT !.block = q.block] : e \in S}
             follow(x) == [i \in DOMAIN Q!Follow(q, x, req) |->
                             IF q.block = <<>> THEN Q!Follow(q, x, req)[i]
                             ELSE [Q!Follow(q, x, req)[i] EXCEPT !.block = q.block]]
             ss == [i \in 1..n |-> follow(SetToSeq(xs)[i])]
  <1>1. n \in Nat /\ SetToSeq(xs) \in [1..n -> xs]
    BY RowsAssumption, FS_Subset, InSomeOrder
  <1>2. ASSUME NEW x \in xs
        PROVE  follow(x) \in Seq(T)
    <2> DEFINE s == Q!Follow(q, x, req)
               t == follow(x)
    <2>1. s \in Seq(S)
      OBVIOUS
    <2>2. Len(s) \in Nat /\ DOMAIN s = 1..Len(s) /\ DOMAIN t = DOMAIN s
      BY <2>1
    <2>3. ASSUME NEW i \in DOMAIN s
          PROVE  t[i] \in T
      <3>1. s[i] \in S
        BY <2>1
      <3>2. t[i] = IF q.block = <<>> THEN s[i] ELSE [s[i] EXCEPT !.block = q.block]
        OBVIOUS
      <3> HIDE DEF s, t
      <3>3. QED
        BY <3>1, <3>2
    <2>4. t = [i \in 1..Len(s) |-> t[i]]
      BY <2>2
    <2> HIDE DEF s, t, T
    <2>5. t \in Seq(T)
      BY <2>2, <2>3, <2>4
    <2>6. QED
      BY <2>5 DEF t
  <1>3. \A i \in 1..n : SetToSeq(xs)[i] \in xs /\ ss[i] = follow(SetToSeq(xs)[i])
    BY <1>1
  <1>4. Loop(q, xs) = FlattenSeq(ss)
    BY DEF Loop
  <1>5. ss = [i \in 1..n |-> ss[i]]
    OBVIOUS
  <1> HIDE DEF ss, n, T, follow
  <1>6. ss \in [1..n -> Seq(T)]
    BY <1>2, <1>3, <1>5
  <1>7. FlattenSeq(ss) \in Seq(T)
    BY <1>1, <1>6, Flattened
  <1>8. QED
    BY <1>4, <1>7 DEF T

\* What the loops over xs read.
Followed(q, xs) ==
    UNION {{Q!Follow(q, x, req)[i] : i \in DOMAIN Q!Follow(q, x, req)} : x \in xs}

\* A loop over the rows that a query has found is a program.
LEMMA LoopIs ==
  ASSUME Asks(req), NEW q, NEW xs \in SUBSET Rows,
         q.then \in {"cluster", "permission"} => \A x \in xs : x[1] = q.then
  PROVE  /\ Loop(q, xs) \in Seq(Followed(q, xs) \cup
                                {[e EXCEPT !.block = q.block] : e \in Followed(q, xs)})
         /\ \A e \in Followed(q, xs) : Plain(req, e)
         /\ IsProgram(req, Loop(q, xs))
  <1> DEFINE S == Followed(q, xs)
  <1>1. ASSUME NEW x \in xs
        PROVE  IsProgram(req, Q!Follow(q, x, req))
    BY FollowIs
  <1>2. ASSUME NEW x \in xs
        PROVE  Q!Follow(q, x, req) \in Seq(S)
    <2> DEFINE s == Q!Follow(q, x, req)
    <2>1. s \in Seq({s[i] : i \in DOMAIN s})
      BY <1>1 DEF IsProgram
    <2>2. {s[i] : i \in DOMAIN s} \subseteq S
      BY DEF Followed
    <2> HIDE DEF s, S
    <2>3. s \in Seq(S)
      BY <2>1, <2>2
    <2>4. QED
      BY <2>3 DEF s
  <1>3. ASSUME NEW e \in S PROVE Plain(req, e)
    <2>1. PICK x \in xs : \E i \in DOMAIN Q!Follow(q, x, req) : e = Q!Follow(q, x, req)[i]
      BY DEF Followed
    <2>2. QED
      BY <1>1, <2>1 DEF IsProgram
  <1> HIDE DEF S
  <1> DEFINE T == S \cup {[e EXCEPT !.block = q.block] : e \in S}
  <1>4. Loop(q, xs) \in Seq(T)
    BY <1>2, LoopMade
  <1>5. \A e \in T : Plain(req, e)
    <2>1. \A e \in S : Plain(req, [e EXCEPT !.block = q.block])
      BY <1>3, Changed
    <2>2. QED
      BY <1>3, <2>1
  <1> HIDE DEF T
  <1>6. IsProgram(req, Loop(q, xs))
    BY <1>4, <1>5, PlainSeq
  <1>7. QED
    BY <1>3, <1>4, <1>6 DEF S, T

\* What is left after a function literal is the end of what was left before.
LEMMA SkipIs ==
  ASSUME NEW block, todo \in Seq({todo[i] : i \in DOMAIN todo})
  PROVE  \E k \in 0..Len(todo) :
            /\ Skip(block) = SubSeq(todo, k + 1, Len(todo))
            /\ \A i \in 1..k : todo[i].block = block
  <1> DEFINE prefix == {n \in 0..Len(todo) : \A i \in 1..n : todo[i].block = block}
  <1>1. Len(todo) \in Nat
    OBVIOUS
  <1>2. prefix \in SUBSET (0..Len(todo)) /\ 0 \in prefix
    BY <1>1
  <1>3. \A k \in prefix : k \in 0..Len(todo) /\ \A i \in 1..k : todo[i].block = block
    OBVIOUS
  <1> HIDE DEF prefix
  <1>4. Max(prefix) \in prefix
    BY <1>1, <1>2, LargestNumber
  <1>5. Skip(block) = SubSeq(todo, Max(prefix) + 1, Len(todo))
    BY DEF Skip, prefix
  <1>6. QED
    BY <1>3, <1>4, <1>5

-----------------------------------------------------------------------------
(* The programs of the lists: the list comes after its filter's own queries. *)

\* Every query of a program is one that a list may make.
Fits(r, s) == \A i \in DOMAIN s : Fitting(r, s[i])

\* The list is somewhere in the program, and if the filter has a query of its own
\* that query comes first.
Sought(r, s) ==
    \E i \in DOMAIN s :
        /\ Seeks(r, s[i])
        /\ s[i].by = Q!Sifted => \E j \in 1..(i - 1) : s[j].ask = "filter"

\* The program of a list.
ListProgram(r, s) == IsProgram(r, s) /\ Fits(r, s) /\ Sought(r, s)

\* Where the elements of two sequences are when one comes after the other.
LEMMA OneAfterTheOther ==
  ASSUME NEW S, NEW s \in Seq(S), NEW t \in Seq(S), NEW u, u = s \o t
  PROVE  /\ Len(s) \in Nat /\ Len(t) \in Nat /\ DOMAIN s = 1..Len(s) /\ DOMAIN t = 1..Len(t)
         /\ DOMAIN u = 1..(Len(s) + Len(t)) /\ u \in Seq(S)
         /\ \A i \in 1..Len(s) : u[i] = s[i]
         /\ \A i \in 1..Len(t) : u[i + Len(s)] = t[i]
         /\ \A i \in DOMAIN u : i \notin 1..Len(s) => i - Len(s) \in 1..Len(t)
                                                    /\ u[i] = t[i - Len(s)]
  <1>1. Len(s) \in Nat /\ Len(t) \in Nat /\ DOMAIN s = 1..Len(s) /\ DOMAIN t = 1..Len(t)
    OBVIOUS
  <1>2. u \in Seq(S) /\ Len(u) = Len(s) + Len(t)
    OBVIOUS
  <1>3. DOMAIN u = 1..(Len(s) + Len(t))
    BY <1>2
  <1>4. \A i \in 1..Len(s) : u[i] = s[i]
    BY <1>1
  <1>5. \A i \in 1..Len(t) : u[i + Len(s)] = t[i]
    BY <1>1
  <1>6. \A i \in 1..(Len(s) + Len(t)) : i \notin 1..Len(s) =>
          i - Len(s) \in 1..Len(t) /\ (i - Len(s)) + Len(s) = i
    BY <1>1
  <1>7. QED
    BY <1>1, <1>2, <1>3, <1>4, <1>5, <1>6

\* What comes before or after a list does not change what it finds.
LEMMA SoughtAround ==
  ASSUME NEW r, NEW s, NEW t, IsProgram(r, s), IsProgram(r, t), Fits(r, s), Fits(r, t),
         Sought(r, s) \/ Sought(r, t)
  PROVE  ListProgram(r, s \o t)
  <1>1. IsProgram(r, s \o t)
    BY Concatenated
  <1>2. /\ s \in Seq({s[i] : i \in DOMAIN s}) /\ t \in Seq({t[i] : i \in DOMAIN t})
    BY DEF IsProgram
  <1>3. PICK S : s \in Seq(S) /\ t \in Seq(S)
    <2> DEFINE S == {s[i] : i \in DOMAIN s} \cup {t[i] : i \in DOMAIN t}
    <2>1. s \in Seq(S) /\ t \in Seq(S)
      <3>1. {s[i] : i \in DOMAIN s} \subseteq S /\ {t[i] : i \in DOMAIN t} \subseteq S
        OBVIOUS
      <3> HIDE DEF S
      <3>2. QED
        BY <1>2, <3>1
    <2>2. QED
      BY <2>1
  <1> DEFINE u == s \o t
  <1>4. u = s \o t
    OBVIOUS
  <1> HIDE DEF u
  <1>5. /\ Len(s) \in Nat /\ DOMAIN s = 1..Len(s) /\ DOMAIN t = 1..Len(t) /\ Len(t) \in Nat
        /\ DOMAIN u = 1..(Len(s) + Len(t))
        /\ \A i \in 1..Len(s) : u[i] = s[i]
        /\ \A i \in 1..Len(t) : u[i + Len(s)] = t[i]
        /\ \A i \in DOMAIN u : i \notin 1..Len(s) => i - Len(s) \in 1..Len(t)
                                                   /\ u[i] = t[i - Len(s)]
    BY <1>3, <1>4, OneAfterTheOther
  <1>6. Fits(r, u)
    BY <1>5 DEF Fits
  <1>7. CASE Sought(r, s)
    <2>1. PICK i \in DOMAIN s : /\ Seeks(r, s[i])
                                /\ s[i].by = Q!Sifted =>
                                     \E j \in 1..(i - 1) : s[j].ask = "filter"
      BY <1>7 DEF Sought
    <2>2. i \in DOMAIN u /\ u[i] = s[i] /\ \A j \in 1..(i - 1) : u[j] = s[j]
      BY <1>5
    <2>3. QED
      BY <1>1, <1>4, <1>6, <2>1, <2>2 DEF ListProgram, Sought
  <1>8. CASE Sought(r, t)
    <2>1. PICK i \in DOMAIN t : /\ Seeks(r, t[i])
                                /\ t[i].by = Q!Sifted =>
                                     \E j \in 1..(i - 1) : t[j].ask = "filter"
      BY <1>8 DEF Sought
    <2> DEFINE k == i + Len(s)
    <2>2. k \in DOMAIN u /\ u[k] = t[i]
      BY <1>5
    <2>3. \A j \in 1..(i - 1) : j + Len(s) \in 1..(k - 1) /\ u[j + Len(s)] = t[j]
      BY <1>5
    <2> HIDE DEF k
    <2>4. t[i].by = Q!Sifted => \E j \in 1..(k - 1) : u[j].ask = "filter"
      BY <2>1, <2>3
    <2>5. Sought(r, u)
      BY <2>1, <2>2, <2>4 DEF Sought
    <2>6. QED
      BY <1>1, <1>4, <1>6, <2>5 DEF ListProgram
  <1>9. QED
    BY <1>7, <1>8

\* A list in a function literal is a list.
LEMMA SoughtDropped ==
  ASSUME NEW r, NEW s, ListProgram(r, s), NEW b
  PROVE  ListProgram(r, Q!Dropped(b, s))
  <1> DEFINE t == Q!Dropped(b, s)
  <1>1. IsProgram(r, s) /\ Fits(r, s) /\ Sought(r, s) /\ IsProgram(r, t)
    BY DroppedIs DEF ListProgram
  <1>2. DOMAIN t = DOMAIN s
    BY DEF Q!Dropped
  <1>3. ASSUME NEW i \in DOMAIN s
        PROVE  t[i].ask = s[i].ask /\ t[i].table = s[i].table /\ t[i].by = s[i].by
               /\ t[i].then = s[i].then
    <2>1. Plain(r, s[i]) /\ t[i] = [s[i] EXCEPT !.block = b]
      BY <1>1 DEF IsProgram, Q!Dropped
    <2>2. QED
      BY <2>1 DEF Plain, Shaped
  <1> HIDE DEF t
  <1>4. Fits(r, t)
    BY <1>1, <1>2, <1>3 DEF Fits, Fitting
  <1>5. Sought(r, t)
    <2>1. PICK i \in DOMAIN s : /\ Seeks(r, s[i])
                                /\ s[i].by = Q!Sifted =>
                                     \E j \in 1..(i - 1) : s[j].ask = "filter"
      BY <1>1 DEF Sought
    <2>2. \A j \in 1..(i - 1) : j \in DOMAIN s
      <3>1. PICK S : s \in Seq(S)
        BY <1>1, ProgramSeq
      <3>2. QED
        BY <3>1
    <2>3. Seeks(r, t[i]) /\ t[i].by = s[i].by
      BY <1>3, <2>1 DEF Seeks
    <2>4. \A j \in 1..(i - 1) : t[j].ask = s[j].ask
      BY <1>3, <2>2
    <2>5. QED
      BY <1>2, <2>1, <2>3, <2>4 DEF Sought
  <1>6. QED
    BY <1>1, <1>4, <1>5 DEF ListProgram, t

\* Queries that a list may make are a program that it may make.
LEMMA FitsTuples ==
  ASSUME NEW r, NEW a, NEW b, Fitting(r, a), Fitting(r, b)
  PROVE  Fits(r, <<>>) /\ Fits(r, <<a>>) /\ Fits(r, <<a, b>>)
  BY DEF Fits

\* A list and its number of pages, with or without a filter.
LEMMA ListingLists ==
  ASSUME NEW r, NEW filter, NEW list, NEW count, IsProgram(r, filter), Fits(r, filter),
         filter # <<>> => filter[1].ask = "filter",
         Plain(r, list), Fitting(r, list), Seeks(r, list), list.by = <<>>,
         Plain(r, count), Fitting(r, count), count.ask = "page"
  PROVE  ListProgram(r, Q!Listing(filter, list, count))
  <1>1. list.by # Q!Sifted
    BY DEF Q!Sifted
  <1>2. CASE filter = <<>>
    <2>1. IsProgram(r, <<list, count>>) /\ Fits(r, <<list, count>>)
      BY Two, FitsTuples
    <2>2. Sought(r, <<list, count>>)
      BY <1>1 DEF Sought
    <2>3. QED
      BY <1>2, <2>1, <2>2 DEF ListProgram, Q!Listing
  <1>3. CASE filter # <<>>
    <2> DEFINE l == [list EXCEPT !.by = Q!Sifted]
               c == [count EXCEPT !.by = Q!Sifted]
               s == filter \o <<l>>
    <2>1. Plain(r, l) /\ Plain(r, c)
      BY Changed DEF Seeks
    <2>2. Fitting(r, l) /\ Fitting(r, c) /\ Seeks(r, l)
      BY DEF Plain, Shaped, Fitting, Seeks
    <2> HIDE DEF l, c
    <2>3. /\ IsProgram(r, <<l>>) /\ IsProgram(r, <<c>>) /\ Fits(r, <<l>>) /\ Fits(r, <<c>>)
      BY <2>1, <2>2, Two, FitsTuples
    <2>4. PICK S : filter \in Seq(S)
      BY ProgramSeq
    <2> DEFINE k == Len(filter)
    <2>5. k \in Nat /\ k # 0 /\ Len(<<l>>) = 1 /\ <<l>>[1] = l
      BY <1>3, <2>4
    <2>6. /\ DOMAIN s = 1..(k + 1) /\ s[k + 1] = l /\ s[1] = filter[1] /\ DOMAIN filter = 1..k
          /\ \A i \in 1..k : s[i] = filter[i]
      <3>1. filter \in Seq(S \cup {l}) /\ <<l>> \in Seq(S \cup {l})
        BY <2>4
      <3>2. s = filter \o <<l>>
        OBVIOUS
      <3> HIDE DEF s, k
      <3>3. /\ DOMAIN filter = 1..k /\ DOMAIN s = 1..(k + 1)
            /\ \A i \in 1..k : s[i] = filter[i]
            /\ \A i \in 1..1 : s[i + k] = <<l>>[i]
        BY <2>5, <3>1, <3>2, OneAfterTheOther DEF k
      <3>4. s[1 + k] = l /\ 1 + k = k + 1 /\ 1 \in 1..k
        BY <2>5, <3>3
      <3>5. QED
        BY <3>3, <3>4
    <2> HIDE DEF s, k
    <2>7. Sought(r, s)
      <3>1. PICK n \in DOMAIN s : s[n] = l /\ 1 \in 1..(n - 1)
        <4>1. k + 1 \in 1..(k + 1) /\ (k + 1) - 1 = k /\ 1 \in 1..k
          BY <2>5
        <4>2. QED
          BY <2>6, <4>1
      <3>2. s[1].ask = "filter" /\ Seeks(r, s[n])
        BY <1>3, <2>2, <2>6, <3>1
      <3>3. QED
        BY <3>1, <3>2 DEF Sought
    <2>8. IsProgram(r, s)
      BY <2>3, Concatenated DEF s
    <2>9. Fits(r, s)
      BY <2>2, <2>5, <2>6 DEF Fits
    <2>10. ListProgram(r, s \o filter)
      BY <2>7, <2>8, <2>9, SoughtAround
    <2>11. ListProgram(r, s \o filter \o <<c>>)
      BY <2>3, <2>10, SoughtAround DEF ListProgram
    <2>12. QED
      BY <1>3, <2>11 DEF Q!Listing, s, l, c
  <1>4. QED
    BY <1>2, <1>3

\* A list after the checks of the owner and the cluster.
LEMMA ListAfterChecks ==
  ASSUME NEW r, NEW list, NEW count, Asks(r), Plain(r, list), Plain(r, count),
         Fitting(r, list), Fitting(r, count), Seeks(r, list), list.by = <<>>
  PROVE  ListProgram(r, <<Q!IsClusterOwner(r), Q!getCluster(r), list, count>>)
  <1> DEFINE a == Q!IsClusterOwner(r)
             b == Q!getCluster(r)
             s == <<a, b, list, count>>
  <1>1. Plain(r, a) /\ Plain(r, b)
    BY ClusterQueries DEF Asks
  <1>2. Fitting(r, a) /\ Fitting(r, b)
    BY DEF Fitting, Q!IsClusterOwner, Q!getCluster, Q!One, Q!Query
  <1> HIDE DEF a, b
  <1>3. IsProgram(r, s)
    BY <1>1, Four
  <1>4. Fits(r, s)
    BY <1>2 DEF Fits
  <1>5. list.by # Q!Sifted
    BY DEF Q!Sifted
  <1>6. Sought(r, s)
    <2>1. 3 \in DOMAIN s /\ s[3] = list
      OBVIOUS
    <2> HIDE DEF s
    <2>2. QED
      BY <1>5, <2>1 DEF Sought
  <1>7. QED
    BY <1>3, <1>4, <1>6 DEF ListProgram, a, b

\* A list with a filter after the same checks.
LEMMA ListingAfterChecks ==
  ASSUME NEW r, NEW s, Asks(r), ListProgram(r, s)
  PROVE  /\ ListProgram(r, <<Q!IsClusterOwner(r), Q!getCluster(r)>> \o s)
         /\ ListProgram(r, <<Q!IsClusterOwner(r)>> \o s)
  <1> DEFINE a == Q!IsClusterOwner(r)
             b == Q!getCluster(r)
  <1>1. Plain(r, a) /\ Plain(r, b)
    BY ClusterQueries DEF Asks
  <1>2. Fitting(r, a) /\ Fitting(r, b)
    BY DEF Fitting, Q!IsClusterOwner, Q!getCluster, Q!One, Q!Query
  <1> HIDE DEF a, b
  <1>3. /\ IsProgram(r, <<a>>) /\ IsProgram(r, <<a, b>>)
        /\ Fits(r, <<a>>) /\ Fits(r, <<a, b>>)
    BY <1>1, <1>2, Two, FitsTuples
  <1>4. ListProgram(r, <<a>> \o s) /\ ListProgram(r, <<a, b>> \o s)
    BY <1>3, SoughtAround DEF ListProgram
  <1>5. QED
    BY <1>4 DEF a, b

\* What the queries of a list are for.
LEMMA ListQueriesFit ==
  ASSUME NEW r
  PROVE  /\ Fitting(r, Q!getClusters(r)) /\ Fitting(r, Q!getAvailabilityZoneList(r))
         /\ Fitting(r, Q!getHypervisorRecordList(r)) /\ Fitting(r, Q!getClusterTenantList(r))
         /\ Fitting(r, Q!getClusterNetworks(r)) /\ Fitting(r, Q!getRouters(r))
         /\ Fitting(r, Q!getSecurityGroups(r)) /\ Fitting(r, Q!getClusterStorageList(r))
         /\ Fitting(r, Q!getVolumeRecords(r)) /\ Fitting(r, Q!getClusterInstanceSpecList(r))
         /\ Fitting(r, Q!getClusterInstanceList(r))
         /\ Q!getClusters(r).by = <<>> /\ Q!getAvailabilityZoneList(r).by = <<>>
         /\ Q!getHypervisorRecordList(r).by = <<>> /\ Q!getClusterTenantList(r).by = <<>>
         /\ Q!getClusterNetworks(r).by = <<>> /\ Q!getRouters(r).by = <<>>
         /\ Q!getSecurityGroups(r).by = <<>> /\ Q!getClusterStorageList(r).by = <<>>
         /\ Q!getVolumeRecords(r).by = <<>> /\ Q!getClusterInstanceSpecList(r).by = <<>>
         /\ Q!getClusterInstanceList(r).by = <<>>
  BY DEF Fitting, Q!Query, Q!List, Q!getClusters, Q!getAvailabilityZoneList,
     Q!getHypervisorRecordList, Q!getClusterTenantList, Q!getClusterNetworks, Q!getRouters,
     Q!getSecurityGroups, Q!getClusterStorageList, Q!getVolumeRecords,
     Q!getClusterInstanceSpecList, Q!getClusterInstanceList

\* The numbers of pages, too.
LEMMA PageQueriesFit ==
  ASSUME NEW r
  PROVE  /\ Fitting(r, Q!getClustersPagination(r))
         /\ Fitting(r, Q!getAvailabilityZonesPagination(r))
         /\ Fitting(r, Q!getHypervisorsPagination(r)) /\ Fitting(r, Q!getTenantPagination(r))
         /\ Fitting(r, Q!getNetworksPagination(r)) /\ Fitting(r, Q!getRoutersPagination(r))
         /\ Fitting(r, Q!getSecurityGroupPagination(r)) /\ Fitting(r, Q!getStoragePagination(r))
         /\ Fitting(r, Q!getVolumePagination(r)) /\ Fitting(r, Q!getInstanceSpecsPagination(r))
         /\ Fitting(r, Q!getInstancePagination(r))
  BY DEF Fitting, Q!Query, Q!Page, Q!getClustersPagination, Q!getAvailabilityZonesPagination,
     Q!getHypervisorsPagination, Q!getTenantPagination, Q!getNetworksPagination,
     Q!getRoutersPagination, Q!getSecurityGroupPagination, Q!getStoragePagination,
     Q!getVolumePagination, Q!getInstanceSpecsPagination, Q!getInstancePagination

\* What each list is of.
LEMMA WhatListsSeek ==
  ASSUME NEW r
  PROVE  /\ r.table = "cluster" => Seeks(r, Q!getClusters(r))
         /\ r.table = "zone" => Seeks(r, Q!getAvailabilityZoneList(r))
         /\ r.table = "hypervisor" => Seeks(r, Q!getHypervisorRecordList(r))
         /\ r.table = "tenant" => Seeks(r, Q!getClusterTenantList(r))
         /\ r.table = "network" => Seeks(r, Q!getClusterNetworks(r))
         /\ r.table = "router" => Seeks(r, Q!getRouters(r))
         /\ r.table = "security_group" => Seeks(r, Q!getSecurityGroups(r))
         /\ r.table = "storage" => Seeks(r, Q!getClusterStorageList(r))
         /\ r.table = "volume" => Seeks(r, Q!getVolumeRecords(r))
         /\ r.table = "spec" => Seeks(r, Q!getClusterInstanceSpecList(r))
         /\ r.table = "instance" => Seeks(r, Q!getClusterInstanceList(r))
  BY DEF Seeks, Q!Query, Q!List, Q!getClusters, Q!getAvailabilityZoneList,
     Q!getHypervisorRecordList, Q!getClusterTenantList, Q!getClusterNetworks, Q!getRouters,
     Q!getSecurityGroups, Q!getClusterStorageList, Q!getVolumeRecords,
     Q!getClusterInstanceSpecList, Q!getClusterInstanceList

\* Filters with a query of their own find the items of the list.
LEMMA FiltersFit ==
  ASSUME NEW r, NEW table, r.filter # <<>> => Sifting(r, table, r.filter),
         r.filter \in External => ItemsOf(r) = {}
  PROVE  /\ table = "interface" => /\ Fits(r, Q!clusterNetworkFilter(r.filter))
                                   /\ Q!clusterNetworkFilter(r.filter) # <<>> =>
                                        Q!clusterNetworkFilter(r.filter)[1].ask = "filter"
         /\ table = "membership" => /\ Fits(r, Q!clusterInstanceIDFilter(r))
                                    /\ Q!clusterInstanceIDFilter(r) # <<>> =>
                                         Q!clusterInstanceIDFilter(r)[1].ask = "filter"
         /\ table = "attachment" => /\ Fits(r, Q!volumeInstanceIDFilter(r))
                                    /\ Q!volumeInstanceIDFilter(r) # <<>> =>
                                         Q!volumeInstanceIDFilter(r)[1].ask = "filter"
         /\ table = "attachment" => /\ Fits(r, Q!volumeFilter(r))
                                    /\ Q!volumeFilter(r) # <<>> =>
                                         Q!volumeFilter(r)[1].ask = "filter"
  <1> DEFINE a == Q!Filter(table, r.filter)
             b == Q!Query("refilter", "volume", r.filter, {}, "")
             i == Q!Filter("interface", Q!Internal(r.filter))
  <1>1. /\ a.ask = "filter" /\ r.filter # <<>> => Fitting(r, a)
        /\ Fitting(r, b)
    BY DEF Fitting, Q!Filter, Q!Query
  <1>5. table = "interface" /\ r.filter # <<>> => Fitting(r, i)
    <2>1. table = "interface" /\ r.filter # <<>> => Sifting(r, "interface", Q!Internal(r.filter))
      BY DEF Sifting, Q!Internal
    <2>2. QED
      BY <2>1 DEF Fitting, Q!Filter, Q!Query
  <1>2. /\ a.ask = "filter" /\ <<a>>[1] = a /\ <<a, b>>[1] = a
        /\ i.ask = "filter" /\ <<i>>[1] = i
    BY DEF Q!Filter, Q!Query
  <1>6. table = "interface" /\ r.filter # <<>> => Fits(r, <<i>>)
    <2> HIDE DEF i
    <2>1. QED
      BY <1>5, FitsTuples
  <1>3. Fits(r, <<>>) /\ (r.filter # <<>> => Fits(r, <<a>>) /\ Fits(r, <<a, b>>))
    <2> HIDE DEF a, b
    <2>1. r.filter # <<>> => Fits(r, <<a>>) /\ Fits(r, <<a, b>>)
      BY <1>1, <1>2, FitsTuples
    <2>2. Fits(r, <<>>)
      BY DEF Fits
    <2>3. QED
      BY <2>1, <2>2
  <1>4. QED
    <2>1. /\ table = "interface" => Q!clusterNetworkFilter(r.filter) \in {<<>>, <<i>>}
          /\ table = "membership" => Q!clusterInstanceIDFilter(r) \in {<<>>, <<a>>}
          /\ table = "attachment" => Q!volumeInstanceIDFilter(r) \in {<<>>, <<a, b>>}
          /\ table = "attachment" => Q!volumeFilter(r) \in {<<>>, <<a>>}
          /\ r.filter = <<>> => /\ Q!clusterNetworkFilter(r.filter) = <<>>
                                /\ Q!clusterInstanceIDFilter(r) = <<>>
                                /\ Q!volumeInstanceIDFilter(r) = <<>>
                                /\ Q!volumeFilter(r) = <<>>
      BY DEF Q!clusterNetworkFilter, Q!clusterInstanceIDFilter, Q!volumeInstanceIDFilter,
         Q!volumeFilter
    <2> HIDE DEF a, b, i
    <2>2. QED
      BY <1>2, <1>3, <1>6, <2>1

\* The lists that are filtered by a query of their own: the network of routers, the
\* instance of security groups, of volumes, and the volume of instances.
LEMMA FilteredLists ==
  ASSUME NEW r, Asks(r), NEW table, r.filter # <<>> => Sifting(r, table, r.filter),
         r.filter \in External => ItemsOf(r) = {}
  PROVE  /\ r.table = "router" /\ table = "interface" =>
              ListProgram(r, Q!router_GetList(r, r.filter))
         /\ r.table = "security_group" /\ table = "membership" =>
              ListProgram(r, Q!security_group_GetList(r))
         /\ r.table = "volume" /\ table = "attachment" => ListProgram(r, Q!volume_GetList(r))
         /\ r.table = "instance" /\ table = "attachment" => ListProgram(r, Q!instance_GetList(r))
  <1>1. ASSUME r.table = "router", table = "interface"
        PROVE  ListProgram(r, Q!router_GetList(r, r.filter))
    <2> DEFINE s == Q!Listing(Q!clusterNetworkFilter(r.filter), Q!getRouters(r),
                              Q!getRoutersPagination(r))
    <2>1. IsProgram(r, Q!clusterNetworkFilter(r.filter))
      <3>1. "interface" \in Q!Tables /\ "" \notin {"cluster", "permission"}
        BY DEF Q!Tables
      <3>2. Plain(r, Q!Filter("interface", Q!Internal(r.filter)))
        BY <3>1, Constructors
      <3>3. QED
        BY <3>2, Two DEF Q!clusterNetworkFilter
    <2>2. Q!getRoutersPagination(r).ask = "page"
      BY DEF Q!getRoutersPagination, Q!Page, Q!Query
    <2>3. ListProgram(r, s)
      BY <1>1, <2>1, <2>2, FiltersFit, ListQueries, PageQueries, ListQueriesFit, PageQueriesFit,
         WhatListsSeek, ListingLists
    <2>4. ListProgram(r, Q!Dropped(<<"GetList", r.filter>>, s))
      BY <2>3, SoughtDropped
    <2>5. QED
      BY <2>4, ListingAfterChecks DEF Q!router_GetList
  <1>2. ASSUME r.table = "security_group", table = "membership"
        PROVE  ListProgram(r, Q!security_group_GetList(r))
    <2>1. ListProgram(r, Q!Listing(Q!clusterInstanceIDFilter(r), Q!getSecurityGroups(r),
                                   Q!getSecurityGroupPagination(r)))
      BY <1>2, Filters, Asked, FiltersFit, ListQueries, PageQueries, ListQueriesFit,
         PageQueriesFit, WhatListsSeek, ListingLists
    <2>2. QED
      BY <2>1, ListingAfterChecks DEF Q!security_group_GetList
  <1>3. ASSUME r.table = "volume", table = "attachment"
        PROVE  ListProgram(r, Q!volume_GetList(r))
    <2>1. ListProgram(r, Q!Listing(Q!volumeInstanceIDFilter(r), Q!getVolumeRecords(r),
                                   Q!getVolumePagination(r)))
      BY <1>3, Filters, Asked, FiltersFit, ListQueries, PageQueries, ListQueriesFit,
         PageQueriesFit, WhatListsSeek, ListingLists
    <2>2. QED
      BY <2>1, ListingAfterChecks DEF Q!volume_GetList
  <1>4. ASSUME r.table = "instance", table = "attachment"
        PROVE  ListProgram(r, Q!instance_GetList(r))
    <2>1. ListProgram(r, Q!Listing(Q!volumeFilter(r), Q!getClusterInstanceList(r),
                                   Q!getInstancePagination(r)))
      BY <1>4, Filters, Asked, FiltersFit, ListQueries, PageQueries, ListQueriesFit,
         PageQueriesFit, WhatListsSeek, ListingLists
    <2>2. QED
      BY <2>1, ListingAfterChecks DEF Q!instance_GetList
  <1>5. QED
    BY <1>1, <1>2, <1>3, <1>4

\* The lists that are filtered where they are read.
LEMMA PlainLists ==
  ASSUME NEW r, Asks(r)
  PROVE  /\ r.table = "cluster" => ListProgram(r, Q!cluster_GetList(r))
         /\ r.table = "zone" => ListProgram(r, Q!availability_zone_GetList(r))
         /\ r.table = "hypervisor" => ListProgram(r, Q!hypervisor_GetList(r))
         /\ r.table = "tenant" => ListProgram(r, Q!tenant_GetList(r))
         /\ r.table = "network" => ListProgram(r, Q!network_GetList(r))
         /\ r.table = "storage" => ListProgram(r, Q!storage_GetList(r))
         /\ r.table = "spec" => ListProgram(r, Q!spec_GetList(r))
  <1>1. r.table = "cluster" => ListProgram(r, Q!cluster_GetList(r))
    <2> DEFINE list == Q!getClusters(r)
               count == Q!getClustersPagination(r)
               s == <<list, count>>
    <2>1. /\ Plain(r, list) /\ Plain(r, count) /\ Fitting(r, list) /\ Fitting(r, count)
          /\ list.by = <<>> /\ list.by # Q!Sifted /\ (r.table = "cluster" => Seeks(r, list))
      BY ListQueries, PageQueries, ListQueriesFit, PageQueriesFit, WhatListsSeek DEF Q!Sifted
    <2> HIDE DEF list, count
    <2>2. IsProgram(r, s) /\ Fits(r, s)
      BY <2>1, Two, FitsTuples
    <2>3. r.table = "cluster" => Sought(r, s)
      <3>1. 1 \in DOMAIN s /\ s[1] = list
        OBVIOUS
      <3> HIDE DEF s
      <3>2. QED
        BY <2>1, <3>1 DEF Sought
    <2>4. QED
      BY <2>2, <2>3 DEF ListProgram, Q!cluster_GetList, list, count
  <1>2. /\ r.table = "zone" => ListProgram(r, Q!availability_zone_GetList(r))
        /\ r.table = "hypervisor" => ListProgram(r, Q!hypervisor_GetList(r))
        /\ r.table = "tenant" => ListProgram(r, Q!tenant_GetList(r))
    BY ListQueries, PageQueries, ListQueriesFit, PageQueriesFit, WhatListsSeek, ListAfterChecks
       DEF Q!availability_zone_GetList, Q!hypervisor_GetList, Q!tenant_GetList
  <1>3. /\ r.table = "network" => ListProgram(r, Q!network_GetList(r))
        /\ r.table = "storage" => ListProgram(r, Q!storage_GetList(r))
        /\ r.table = "spec" => ListProgram(r, Q!spec_GetList(r))
    BY ListQueries, PageQueries, ListQueriesFit, PageQueriesFit, WhatListsSeek, ListAfterChecks
       DEF Q!network_GetList, Q!storage_GetList, Q!spec_GetList
  <1>4. QED
    BY <1>1, <1>2, <1>3

\* Every list reads what it is of, after its filter's query if it has one.
LEMMA ListIs ==
  ASSUME NEW r \in Reads, r.list
  PROVE  ListProgram(r, Program(r))
  <1>1. /\ Asks(r)
        /\ r.op \in DOMAIN ListOf /\ r.table = ListOf[r.op]
        /\ r.filter # <<>> => r.op \in DOMAIN FilterOf /\ Sifting(r, FilterOf[r.op], r.filter)
        /\ r.filter \in External => ItemsOf(r) = {}
    BY ReadsAssumption, ListsAssumption DEF Asks
  <1>2. CASE r.op = "GetClusterRouterList"
    <2>1. r.table = "router" /\ FilterOf[r.op] = "interface"
      BY <1>1, <1>2 DEF ListOf, FilterOf
    <2>2. r.filter # <<>> => Sifting(r, "interface", r.filter)
      BY <1>1, <2>1
    <2>3. QED
      BY <1>1, <1>2, <2>1, <2>2, FilteredLists DEF Program, GetClusterRouterList
  <1>3. CASE r.op = "GetClusterSecurityGroupList"
    <2>1. r.table = "security_group" /\ FilterOf[r.op] = "membership"
      BY <1>1, <1>3 DEF ListOf, FilterOf
    <2>2. r.filter # <<>> => Sifting(r, "membership", r.filter)
      BY <1>1, <2>1
    <2>3. QED
      BY <1>1, <1>3, <2>1, <2>2, FilteredLists DEF Program, GetClusterSecurityGroupList
  <1>4. CASE r.op = "GetClusterVolumeList"
    <2>1. r.table = "volume" /\ FilterOf[r.op] = "attachment"
      BY <1>1, <1>4 DEF ListOf, FilterOf
    <2>2. r.filter # <<>> => Sifting(r, "attachment", r.filter)
      BY <1>1, <2>1
    <2>3. QED
      BY <1>1, <1>4, <2>1, <2>2, FilteredLists DEF Program, GetClusterVolumeList
  <1>5. CASE r.op = "GetClusterInstanceList"
    <2>1. r.table = "instance" /\ FilterOf[r.op] = "attachment"
      BY <1>1, <1>5 DEF ListOf, FilterOf
    <2>2. r.filter # <<>> => Sifting(r, "attachment", r.filter)
      BY <1>1, <2>1
    <2>3. QED
      BY <1>1, <1>5, <2>1, <2>2, FilteredLists DEF Program, GetClusterInstanceList
  <1>6. CASE r.op \in {"GetClusterList", "GetClusterAvailabilityZoneList",
                       "GetClusterHypervisorList", "GetClusterTenantList"}
    <2>1. /\ r.op = "GetClusterList" => r.table = "cluster"
          /\ r.op = "GetClusterAvailabilityZoneList" => r.table = "zone"
          /\ r.op = "GetClusterHypervisorList" => r.table = "hypervisor"
          /\ r.op = "GetClusterTenantList" => r.table = "tenant"
      BY <1>1 DEF ListOf
    <2>2. QED
      BY <1>1, <1>6, <2>1, PlainLists
         DEF Program, GetClusterList, GetClusterAvailabilityZoneList,
             GetClusterHypervisorList, GetClusterTenantList
  <1>7. CASE r.op \in {"GetClusterNetworkList", "GetClusterStorageList", "spec_GetList"}
    <2>1. /\ r.op = "GetClusterNetworkList" => r.table = "network"
          /\ r.op = "GetClusterStorageList" => r.table = "storage"
          /\ r.op = "spec_GetList" => r.table = "spec"
      BY <1>1 DEF ListOf
    <2>2. QED
      BY <1>1, <1>7, <2>1, PlainLists DEF Program, GetClusterNetworkList, GetClusterStorageList
  <1>8. DOMAIN ListOf = {"GetClusterList", "GetClusterAvailabilityZoneList",
                         "GetClusterHypervisorList", "GetClusterTenantList",
                         "GetClusterNetworkList", "GetClusterRouterList",
                         "GetClusterSecurityGroupList", "GetClusterStorageList",
                         "GetClusterVolumeList", "spec_GetList", "GetClusterInstanceList"}
    BY DEF ListOf
  <1>9. QED
    BY <1>1, <1>2, <1>3, <1>4, <1>5, <1>6, <1>7, <1>8

\* Queries that have no loop for routers and are no filter fit a list.
LEMMA OneAndManyFit ==
  ASSUME NEW r, NEW x, NEW y
  PROVE  /\ Fitting(r, Q!getGroup(x)) /\ Fitting(r, Q!GetQuotas(x)) /\ Fitting(r, Q!GetDHCPPools(x))
         /\ Fitting(r, Q!GetSubnetNameservers(x)) /\ Fitting(r, Q!GetVolumeSnapshots(x))
         /\ Fitting(r, [Q!getRoutingInterfaceRecords(x) EXCEPT !.draft = y])
         /\ Fitting(r, [Q!GetExtraRoutes(x) EXCEPT !.draft = y])
         /\ Fitting(r, [Q!GetSubnetNameservers(x) EXCEPT !.draft = y])
         /\ Fitting(r, Q!GetRemoteSecurityGroup(x)) /\ Fitting(r, Q!GetExtraSpecs(x))
         /\ Fitting(r, Q!GetSecurityGroupRules(x))
         /\ Fitting(r, [Q!GetSecurityGroupRules(x) EXCEPT !.block = y])
         /\ Fitting(r, Q!IsClusterOwner(r)) /\ Fitting(r, Q!getCluster(r))
         /\ Fitting(r, Q!getClusterNetwork(x)) /\ Fitting(r, Q!GetSubnets(x))
         /\ Fitting(r, Q!GetFloatingIPs(x))
  BY DEF Fitting, Q!Query, Q!One, Q!Many, Q!getGroup, Q!GetQuotas, Q!GetDHCPPools,
     Q!GetSubnetNameservers, Q!GetVolumeSnapshots, Q!getRoutingInterfaceRecords,
     Q!GetExtraRoutes, Q!GetRemoteSecurityGroup, Q!GetExtraSpecs, Q!GetSecurityGroupRules,
     Q!IsClusterOwner, Q!getCluster, Q!getClusterNetwork, Q!GetSubnets, Q!GetFloatingIPs

\* No loop but the one for the routers of a network reads a list.
LEMMA FollowFits ==
  ASSUME NEW r, NEW q, NEW x, q.then # "routers"
  PROVE  Fits(r, Q!Follow(q, x, r))
  <1>1. \A a, b : Fitting(r, a) /\ Fitting(r, b) => Fits(r, <<a>>) /\ Fits(r, <<a, b>>)
    BY FitsTuples
  <1>2. Fits(r, <<>>)
    BY DEF Fits
  <1>3. CASE q.then \in {"cluster", "permission", "tenant", "volume", "spec", "rules"}
    BY <1>1, <1>3, OneAndManyFit DEF Q!Follow
  <1>4. CASE q.then \in {"subnet", "router", "interface"}
    BY <1>1, <1>4, OneAndManyFit DEF Q!Follow
  <1>5. CASE q.then = "rule" /\ Remote[x] # <<>>
    BY <1>1, <1>5, OneAndManyFit DEF Q!Follow
  <1>6. CASE q.then = "network"
    <2>1. Q!Follow(q, x, r) = Q!network_Get(r, x)
      BY <1>6 DEF Q!Follow
    <2> DEFINE a == Q!IsClusterOwner(r)
               b == Q!getCluster(r)
               c == Q!getClusterNetwork(x)
               d == Q!GetSubnets(x)
               e == Q!GetFloatingIPs(x)
    <2>2. Q!network_Get(r, x) = <<a, b, c, d, e>>
      BY DEF Q!network_Get
    <2>3. \A f \in {a, b, c, d, e} : Fitting(r, f)
      BY OneAndManyFit
    <2> HIDE DEF a, b, c, d, e
    <2>4. \A i \in DOMAIN <<a, b, c, d, e>> : <<a, b, c, d, e>>[i] \in {a, b, c, d, e}
      OBVIOUS
    <2>5. QED
      BY <2>1, <2>2, <2>3, <2>4 DEF Fits
  <1>7. CASE q.then = "some rules"
    <2> DEFINE g == Q!GetSecurityGroupRules(x)
               s == Q!Dropped(<<"GetByUUID", x>>, <<g>>)
    <2>1. Q!Follow(q, x, r) = s
      BY <1>7 DEF Q!Follow
    <2>2. DOMAIN s = 1..1 /\ s[1] = [g EXCEPT !.block = <<"GetByUUID", x>>]
      <3>1. DOMAIN <<g>> = 1..1 /\ <<g>>[1] = g
        OBVIOUS
      <3>2. s = [i \in DOMAIN <<g>> |-> [<<g>>[i] EXCEPT !.block = <<"GetByUUID", x>>]]
        BY DEF Q!Dropped
      <3> HIDE DEF g, s
      <3>3. QED
        BY <3>1, <3>2
    <2>3. Fitting(r, [g EXCEPT !.block = <<"GetByUUID", x>>])
      BY OneAndManyFit
    <2> HIDE DEF s
    <2>4. QED
      BY <2>1, <2>2, <2>3 DEF Fits
  <1>8. CASE /\ q.then \notin {"cluster", "permission", "tenant", "subnet", "router", "interface",
                               "volume", "spec", "network", "rules", "some rules"}
             /\ ~(q.then = "rule" /\ Remote[x] # <<>>)
    BY <1>2, <1>8 DEF Q!Follow
  <1>9. QED
    BY <1>3, <1>4, <1>5, <1>6, <1>7, <1>8

\* What a loop puts in the program of a list fits it.
LEMMA LoopFits ==
  ASSUME Asks(req), NEW q, NEW xs \in SUBSET Rows, q.then # "routers",
         q.then \in {"cluster", "permission"} => \A x \in xs : x[1] = q.then
  PROVE  /\ Fits(req, Loop(q, xs))
         /\ \E S : Loop(q, xs) \in Seq(S)
  <1> DEFINE S == Followed(q, xs)
             T == S \cup {[e EXCEPT !.block = q.block] : e \in S}
  <1>1. Loop(q, xs) \in Seq(T) /\ \A e \in S : Plain(req, e)
    BY LoopIs
  <1>2. ASSUME NEW e \in S PROVE Fitting(req, e)
    <2>1. PICK x \in xs : \E i \in DOMAIN Q!Follow(q, x, req) : e = Q!Follow(q, x, req)[i]
      BY DEF Followed
    <2>2. QED
      BY <2>1, FollowFits DEF Fits
  <1> HIDE DEF S
  <1>3. ASSUME NEW e \in S PROVE Fitting(req, [e EXCEPT !.block = q.block])
    BY <1>1, <1>2 DEF Plain, Shaped, Fitting
  <1>4. \A e \in T : Fitting(req, e)
    BY <1>2, <1>3
  <1> HIDE DEF T
  <1>5. QED
    BY <1>1, <1>4 DEF Fits
=============================================================================
