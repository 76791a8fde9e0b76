------------------------- MODULE ResourceSyncProofs -------------------------
(***************************************************************************)
(* Proofs about ResourceSync for any resources, any contents of the cloud, *)
(* any number of changes and failed requests, and any depth of the stack.  *)
(*                                                                         *)
(* Inductive says what a function that is being executed may rely on: what *)
(* it holds has all the columns it is going to write, the rows satisfy the *)
(* foreign keys, and below a deleteX there is nobody who would add a row,  *)
(* so that the rows that name X are those it still has to deal with. The   *)
(* tables of ResourceTables enter only through the lemmas of the first     *)
(* section, and the stack through those of the second.                     *)
(***************************************************************************)
EXTENDS ResourceSync, TLAPS

-----------------------------------------------------------------------------
(* The tables.                                                             *)

\* The kinds that a row of kind k may name.
ColumnSet(k) == ColumnsOf[k].needed \cup ColumnsOf[k].optional

LEMMA ColumnTable ==
  /\ ColumnSet("tenant") = {} /\ ColumnSet("zone") = {} /\ ColumnSet("storage") = {}
  /\ ColumnSet("keypair") = {} /\ ColumnSet("spec") = {}
  /\ ColumnSet("hypervisor") = {"zone"}
  /\ ColumnSet("security_group") = {"tenant"}
  /\ ColumnSet("rule") = {"security_group"}
  /\ ColumnSet("network") = {"tenant"}
  /\ ColumnSet("subnet") = {"network"}
  /\ ColumnSet("floating_ip") = {"tenant", "network"}
  /\ ColumnSet("router") = {"tenant"}
  /\ ColumnSet("interface") = {"router", "subnet"}
  /\ ColumnSet("volume") = {"tenant", "storage"}
  /\ ColumnSet("snapshot") = {"volume"}
  /\ ColumnSet("instance") = {"tenant", "zone", "hypervisor", "spec", "keypair"}
  /\ ColumnSet("instance_network") = {"instance", "network", "subnet", "floating_ip"}
  /\ ColumnSet("instance_volume") = {"instance", "volume"}
  /\ ColumnSet("instance_sg") = {"instance", "security_group"}
  /\ ColumnSet("script") = {"instance"}
  BY DEF ColumnSet, ColumnsOf, Columns, ClusterTenant, ClusterAvailabilityZone,
     ClusterHypervisor, ClusterSecurityGroup, ClusterSecurityGroupRule, ClusterNetwork,
     ClusterSubnet, ClusterFloatingIP, ClusterRouter, ClusterNetworkRoutingInterface,
     ClusterStorage, ClusterVolume, ClusterVolumeSnapshot, ClusterKeypair,
     ClusterInstanceSpec, ClusterInstance, ClusterInstanceNetwork,
     ClusterInstanceVolume, ClusterInstanceSecurityGroup, ClusterInstanceUserScript

LEMMA DependentTable ==
  /\ Range(DependentsOf["tenant"]) =
       {"instance", "security_group", "volume", "floating_ip", "network", "router"}
  /\ Range(DependentsOf["zone"]) = {"instance", "hypervisor"}
  /\ Range(DependentsOf["hypervisor"]) = {"instance"}
  /\ Range(DependentsOf["network"]) = {"instance_network", "floating_ip", "subnet"}
  /\ Range(DependentsOf["subnet"]) = {"instance_network", "interface"}
  /\ Range(DependentsOf["floating_ip"]) = {"instance_network"}
  /\ Range(DependentsOf["router"]) = {"interface"}
  /\ Range(DependentsOf["storage"]) = {"volume"}
  /\ Range(DependentsOf["volume"]) = {"instance_volume", "snapshot"}
  /\ Range(DependentsOf["keypair"]) = {"instance"}
  /\ Range(DependentsOf["instance"]) =
       {"instance_network", "instance_volume", "instance_sg", "script"}
  /\ Range(DependentsOf["spec"]) = {}
  BY DEF Range, DependentsOf, deleteTenant, deleteAvailabilityZone, deleteHypervisor,
     deleteNetwork, deleteSubnet, deleteFloatingIP, deleteRouter, deleteStorage,
     deleteVolume, deleteKeypair, deleteInstance, deleteInstanceSpec

\* Kind, written out for a case split.
KindSplit(k) ==
  k \in {"tenant", "zone", "storage", "keypair", "spec", "hypervisor", "security_group",
         "rule", "network", "subnet", "floating_ip", "router", "interface", "volume",
         "snapshot", "instance", "instance_network", "instance_volume", "instance_sg",
         "script"}

LEMMA KindCases == ASSUME NEW r \in Res PROVE KindOf[r] \in Kind /\ KindSplit(KindOf[r])
  BY TablesAssumption DEF KindSplit, Kind, Association

\* The child lists of every kind; a spec has none.
LEMMA StepTable ==
  ASSUME NEW k \in Kind
  PROVE  /\ StepsOf[k].lists \in Seq(Kind)
         /\ StepsOf["spec"].lists = <<>>
  <1>1. KindSplit(k)
    BY DEF KindSplit, Kind, Association
  <1>2. /\ StepsOf[k].lists \in {<<>>, <<"rule">>, <<"subnet", "floating_ip">>, <<"interface">>,
                              <<"instance_volume", "instance_network", "instance_sg">>}
        /\ StepsOf["spec"].lists = <<>>
    BY <1>1 DEF KindSplit, StepsOf, Steps, SyncClusterTenant, SyncClusterAvailabilityZone,
       SyncClusterHypervisor, SyncClusterSecurityGroup, SyncClusterSecurityGroupRule,
       SyncClusterNetwork, SyncClusterSubnet, SyncClusterFloatingIP, SyncClusterRouter,
       SyncClusterStorage, SyncClusterVolume, SyncClusterVolumeSnapshot,
       SyncClusterKeypair, SyncClusterInstanceSpec, SyncClusterInstance,
       syncClusterNetworkRoutingInterfaceList, syncClusterInstanceNetworkList,
       syncClusterInstanceVolumeList, syncClusterInstanceSecurityGroupList
  <1>3. /\ <<>> \in Seq(Kind) /\ <<"rule">> \in Seq(Kind)
        /\ <<"subnet", "floating_ip">> \in Seq(Kind) /\ <<"interface">> \in Seq(Kind)
        /\ <<"instance_volume", "instance_network", "instance_sg">> \in Seq(Kind)
    BY DEF Kind, Association
  <1>4. QED
    BY <1>2, <1>3

LEMMA SpecSteps == Range(StepsOf["spec"]["early"]) = {} /\ Range(StepsOf["spec"]["late"]) = {}
  BY DEF StepsOf, Steps, SyncClusterInstanceSpec, Range

\* No row needs a floating IP or a key pair, and few need a zone.
LEMMA Needed ==
  ASSUME NEW k \in Kind
  PROVE  /\ ColumnsOf[k].needed \subseteq Kind
         /\ "floating_ip" \notin ColumnsOf[k].needed /\ "keypair" \notin ColumnsOf[k].needed
         /\ "zone" \in ColumnsOf[k].needed => k \in {"hypervisor", "instance"}
  <1>1. KindSplit(k)
    BY DEF KindSplit, Kind, Association
  <1>2. QED
  BY <1>1 DEF KindSplit, Kind, Association, ColumnsOf, Columns, ClusterTenant, ClusterAvailabilityZone,
     ClusterHypervisor, ClusterSecurityGroup, ClusterSecurityGroupRule, ClusterNetwork,
     ClusterSubnet, ClusterFloatingIP, ClusterRouter, ClusterNetworkRoutingInterface,
     ClusterStorage, ClusterVolume, ClusterVolumeSnapshot, ClusterKeypair,
     ClusterInstanceSpec, ClusterInstance, ClusterInstanceNetwork,
     ClusterInstanceVolume, ClusterInstanceSecurityGroup, ClusterInstanceUserScript

\* A row names only kinds that it has a column for.
LEMMA NamesKinds ==
  ASSUME NEW q \in Res, NEW c, Reported(q, c), NEW r \in c.refs
  PROVE  KindOf[r] \in ColumnSet(KindOf[q])
  BY DEF Reported, ColumnSet

\* deleteX goes through every kind that can name X, except where X is a spec or a
\* security group; and nobody names an association with a group, or a snapshot.
LEMMA Dependents ==
  ASSUME NEW q \in Res, NEW r \in Res, KindOf[r] \in ColumnSet(KindOf[q])
  PROVE  /\ KindOf[r] \notin {"spec", "security_group"} =>
              /\ KindOf[q] \in Range(DependentsOf[KindOf[r]])
              /\ KindOf[q] # "rule"
         /\ KindOf[r] \notin {"instance_sg", "snapshot"}
         /\ KindOf[q] # "spec"
  <1>1. KindSplit(KindOf[q])
    BY KindCases
  <1>2. QED
    BY <1>1, ColumnTable, DependentTable DEF KindSplit

-----------------------------------------------------------------------------
(* The stack.                                                              *)

LEMMA TopOfStack ==
  ASSUME NEW T, NEW s \in Seq(T), s # <<>>
  PROVE  Head(s) = s[1] /\ s[1] \in T /\ Len(s) \in Nat \ {0} /\ DOMAIN s = 1 .. Len(s)
  OBVIOUS

LEMMA Replaced ==
  ASSUME NEW T, NEW s \in Seq(T), s # <<>>, NEW f \in T, NEW t, t = <<f>> \o Tail(s)
  PROVE  /\ t \in Seq(T) /\ Len(t) = Len(s) /\ t[1] = f
         /\ \A i \in 2 .. Len(s) : t[i] = s[i]
  OBVIOUS

LEMMA Pushed ==
  ASSUME NEW T, NEW s \in Seq(T), s # <<>>, NEW f \in T, NEW g \in T, NEW t,
         t = <<g, f>> \o Tail(s)
  PROVE  /\ t \in Seq(T) /\ Len(t) = Len(s) + 1 /\ t[1] = g /\ t[2] = f
         /\ \A i \in 3 .. Len(t) : t[i] = s[i - 1]
  OBVIOUS

\* t is s without its first element, with f in place of the second.
Pop(T, s, f, t) ==
  /\ t \in Seq(T) /\ Len(t) = Len(s) - 1 /\ t[1] = f
  /\ \A i \in 2 .. Len(t) : t[i] = s[i + 1]

LEMMA Popped ==
  ASSUME NEW T, NEW s \in Seq(T), s # <<>>, Len(s) # 1, NEW f \in T, NEW t,
         t = <<f>> \o Tail(Tail(s))
  PROVE  Pop(T, s, f, t)
  BY DEF Pop

LEMMA FrameParts ==
  ASSUME NEW f \in Frame
  PROVE  /\ f.op \in {"list", "sync", "delete"} /\ f.kind \in Kind /\ f.id \in Res \cup {NoRes}
         /\ f.ans \in Content /\ f.seen \in [Res -> Content] /\ f.had \in Content
         /\ f.todo \subseteq Res /\ f.want \in Res \cup {NoRes} /\ f.next \in Nat \ {0}
         /\ f.err \in BOOLEAN
  BY DEF Frame

LEMMA AbsentType == Absent \in Content /\ Nothing \in [Res -> Content] /\ ~Absent.here
  BY DEF Absent, Content, Nothing

LEMMA NewFrameType ==
  ASSUME NEW op \in {"list", "sync", "delete"}, NEW k \in Kind, NEW r \in Res \cup {NoRes},
         NEW pc \in {"request", "clear", "drop", "each", "early", "row"}
  PROVE  NewFrame(op, k, r, pc) \in Frame
  BY AbsentType DEF NewFrame, Frame

LEMMA OutType ==
  ASSUME NEW f \in Frame, NEW e \in BOOLEAN
  PROVE  /\ Out(f, e) \in Frame /\ Out(f, e).pc = "out" /\ Out(f, e).err = e
         /\ Out(f, e).op = f.op /\ Out(f, e).kind = f.kind /\ Out(f, e).id = f.id
         /\ FrameOK(f) => FrameOK(Out(f, e))
  BY DEF Out, Frame, FrameOK

\* Every function that is being executed has the type of one.
Typed == stack \in Seq(Frame)

\* Nobody deletes below a function that does not.
LEMMA NoDeleteBelow ==
  ASSUME Typed, stack # <<>>, StackOK, ~Deleting(Top)
  PROVE  \A i \in DOMAIN stack : stack[i].op # "delete"
  <1>1. Top = stack[1] /\ DOMAIN stack = 1 .. Len(stack) /\ Len(stack) \in Nat \ {0}
    BY TopOfStack DEF Typed, Top
  <1>2. QED
    BY <1>1 DEF StackOK

\* A function goes on.
LEMMA StackGo ==
  ASSUME Typed, stack # <<>>, StackOK, NEW f \in Frame, FrameOK(f),
         f.op = Top.op, f.kind = Top.kind, Go(f)
  PROVE  Typed' /\ StackOK'
  <1>1. Top = stack[1] /\ DOMAIN stack = 1 .. Len(stack) /\ Len(stack) \in Nat \ {0}
    BY TopOfStack DEF Typed, Top
  <1>2. /\ stack' \in Seq(Frame) /\ Len(stack') = Len(stack) /\ stack'[1] = f
        /\ \A i \in 2 .. Len(stack) : stack'[i] = stack[i]
    BY Replaced DEF Typed, Go
  <1>3. stack' # <<>> /\ DOMAIN stack' = 1 .. Len(stack')
    BY <1>1, <1>2
  <1>4. \A i \in 1 .. Len(stack) :
          stack'[i].op = stack[i].op /\ stack'[i].kind = stack[i].kind
    BY <1>1, <1>2
  <1>5. \A i \in 1 .. Len(stack) : FrameOK(stack'[i])
    BY <1>1, <1>2 DEF StackOK
  <1>6. \A i \in 1 .. Len(stack) : Deleting(stack[i]) => Deleting(stack'[i])
    BY <1>4 DEF Deleting
  <1>7. \A i \in 1 .. Len(stack) : i > 1 => stack'[i].pc \in Calling
    BY <1>1, <1>2 DEF StackOK
  <1>8. stack'[Len(stack')].op = "list" /\ stack'[Len(stack')].kind \in Range(ListOrder)
    BY <1>1, <1>2, <1>4 DEF StackOK
  <1>9. \A i \in 1 .. Len(stack) : stack'[i].op = "delete" => \A j \in 1 .. i : Deleting(stack'[j])
    BY <1>1, <1>4, <1>6 DEF StackOK
  <1>10. QED
    BY <1>1, <1>2, <1>3, <1>5, <1>7, <1>8, <1>9 DEF Typed, StackOK

\* A function calls another.
LEMMA StackCall ==
  ASSUME Typed, stack # <<>>, StackOK, NEW f \in Frame, FrameOK(f), NEW g \in Frame, FrameOK(g),
         f.op = Top.op, f.kind = Top.kind, f.pc \in Calling, Deleting(Top) => Deleting(g),
         Call(f, g)
  PROVE  Typed' /\ StackOK'
  <1>1. Top = stack[1] /\ DOMAIN stack = 1 .. Len(stack) /\ Len(stack) \in Nat \ {0}
    BY TopOfStack DEF Typed, Top
  <1>2. /\ stack' \in Seq(Frame) /\ Len(stack') = Len(stack) + 1 /\ stack'[1] = g
        /\ stack'[2] = f /\ \A i \in 3 .. Len(stack') : stack'[i] = stack[i - 1]
    BY Pushed DEF Typed, Call
  <1>3. stack' # <<>> /\ DOMAIN stack' = 1 .. Len(stack')
    BY <1>1, <1>2
  <1>4. \A i \in 2 .. Len(stack') :
          stack'[i].op = stack[i - 1].op /\ stack'[i].kind = stack[i - 1].kind
    BY <1>1, <1>2
  <1>5. \A i \in 1 .. Len(stack') : FrameOK(stack'[i])
    BY <1>1, <1>2 DEF StackOK
  <1>6. \A i \in 2 .. Len(stack') : Deleting(stack[i - 1]) => Deleting(stack'[i])
    BY <1>4 DEF Deleting
  <1>7. \A i \in 1 .. Len(stack') : i > 1 => stack'[i].pc \in Calling
    <2>1. ASSUME NEW i \in 3 .. Len(stack') PROVE stack'[i].pc \in Calling
      <3>1. i - 1 \in DOMAIN stack /\ i - 1 > 1 /\ stack'[i] = stack[i - 1]
        BY <1>1, <1>2
      <3>2. QED
        BY <3>1 DEF StackOK
    <2>2. QED
      BY <1>2, <2>1
  <1>8. stack'[Len(stack')].op = "list" /\ stack'[Len(stack')].kind \in Range(ListOrder)
    BY <1>1, <1>2, <1>4 DEF StackOK
  <1>9. \A i \in 1 .. Len(stack') : stack'[i].op = "delete" => \A j \in 1 .. i : Deleting(stack'[j])
    <2> SUFFICES ASSUME NEW i \in 1 .. Len(stack'), stack'[i].op = "delete", NEW j \in 1 .. i
                 PROVE  Deleting(stack'[j])
      OBVIOUS
    <2>1. CASE i = 1
      BY <1>2, <2>1 DEF Deleting
    <2>2. CASE i # 1
      <3>1. stack[i - 1].op = "delete" /\ \A k \in 1 .. i - 1 : Deleting(stack[k])
        BY <1>1, <1>2, <1>4, <2>2 DEF StackOK
      <3>2. CASE j = 1
        BY <1>1, <1>2, <2>2, <3>1, <3>2
      <3>3. CASE j # 1
        BY <1>1, <1>2, <1>6, <2>2, <3>1, <3>3
      <3>4. QED
        BY <3>2, <3>3
    <2>3. QED
      BY <2>1, <2>2
  <1>10. QED
    BY <1>1, <1>2, <1>3, <1>5, <1>7, <1>8, <1>9 DEF Typed, StackOK

\* A function returns to its caller.
LEMMA StackReturn ==
  ASSUME Typed, stack # <<>>, StackOK, Len(stack) # 1, NEW f \in Frame, FrameOK(f),
         f.op = stack[2].op, f.kind = stack[2].kind,
         Pop(Frame, stack, f, stack')
  PROVE  Typed' /\ StackOK'
  <1>1. Top = stack[1] /\ DOMAIN stack = 1 .. Len(stack) /\ Len(stack) \in Nat \ {0}
    BY TopOfStack DEF Typed, Top
  <1>2. /\ stack' \in Seq(Frame) /\ Len(stack') = Len(stack) - 1 /\ stack'[1] = f
        /\ \A i \in 2 .. Len(stack') : stack'[i] = stack[i + 1]
    BY DEF Pop
  <1>3. stack' # <<>> /\ DOMAIN stack' = 1 .. Len(stack')
    BY <1>1, <1>2
  <1>4. \A i \in 1 .. Len(stack') :
          stack'[i].op = stack[i + 1].op /\ stack'[i].kind = stack[i + 1].kind
    BY <1>1, <1>2
  <1>5. \A i \in 1 .. Len(stack') : FrameOK(stack'[i])
    <2>1. ASSUME NEW i \in 2 .. Len(stack') PROVE FrameOK(stack'[i])
      <3>1. i + 1 \in DOMAIN stack /\ stack'[i] = stack[i + 1]
        BY <1>1, <1>2
      <3>2. QED
        BY <3>1 DEF StackOK
    <2>2. QED
      BY <1>1, <1>2, <2>1
  <1>6. \A i \in 1 .. Len(stack') : Deleting(stack[i + 1]) => Deleting(stack'[i])
    BY <1>4 DEF Deleting
  <1>7. \A i \in 1 .. Len(stack') : i > 1 => stack'[i].pc \in Calling
    <2>1. ASSUME NEW i \in 2 .. Len(stack') PROVE stack'[i].pc \in Calling
      <3>1. i + 1 \in DOMAIN stack /\ i + 1 > 1 /\ stack'[i] = stack[i + 1]
        BY <1>1, <1>2
      <3>2. QED
        BY <3>1 DEF StackOK
    <2>2. QED
      BY <1>1, <1>2, <2>1
  <1>8. stack'[Len(stack')].op = "list" /\ stack'[Len(stack')].kind \in Range(ListOrder)
    BY <1>1, <1>2, <1>4 DEF StackOK
  <1>9. \A i \in 1 .. Len(stack') : stack'[i].op = "delete" => \A j \in 1 .. i : Deleting(stack'[j])
    <2> SUFFICES ASSUME NEW i \in 1 .. Len(stack'), stack'[i].op = "delete", NEW j \in 1 .. i
                 PROVE  Deleting(stack'[j])
      OBVIOUS
    <2>1. stack[i + 1].op = "delete"
      BY <1>4
    <2>4. i + 1 \in DOMAIN stack /\ j + 1 \in 1 .. i + 1
      BY <1>1, <1>2
    <2>5. j \in 1 .. Len(stack')
      BY <1>1, <1>2
    <2>2. Deleting(stack[j + 1])
      BY <2>1, <2>4 DEF StackOK
    <2>3. QED
      BY <1>6, <2>2, <2>5
  <1>10. QED
    BY <1>1, <1>2, <1>3, <1>5, <1>7, <1>8, <1>9 DEF Typed, StackOK

-----------------------------------------------------------------------------
(* Cascades, in terms of one function of the stack.                        *)

\* deleteX while it removes what names X; the rows it is about; the function it
\* has called to remove q, until that has returned.
Watched(f) == f.op = "delete" /\ f.pc = "drop" /\ f.kind \notin {"spec", "security_group"}
Naming(rows, f, q) == rows[q].here /\ f.id \in rows[q].refs
Going(f, q) ==
  f.op = "delete" /\ f.id = q /\ (f.pc = "drop" \/ (f.pc = "out" /\ f.err))
Covered(s, rows, i) ==
  Watched(s[i]) =>
    \A q \in Res \ {s[i].id} :
      Naming(rows, s[i], q) => q \in s[i].todo \/ (i > 1 /\ Going(s[i - 1], q))

LEMMA CascadesCovers ==
  /\ Cascades <=> \A i \in DOMAIN stack : Covered(stack, db, i)
  /\ Cascades' <=> \A i \in DOMAIN stack' : Covered(stack', db', i)
  BY DEF Cascades, Covered, Watched, Naming, Going

\* Every write that happens inside a cascade only takes away.
Shrinks ==
  \A q \in Res :
    db'[q].here => (db[q].here /\ db'[q].refs \subseteq db[q].refs) \/ db'[q].refs = {}

LEMMA ShrinksNaming ==
  ASSUME Shrinks, NEW f, NEW q \in Res, Naming(db', f, q)
  PROVE  Naming(db, f, q) /\ db'[q].here /\ db'[q].refs # {}
  BY DEF Shrinks, Naming

\* The innermost function goes on: it forgets no row that it still has to remove.
LEMMA CascadesGo ==
  ASSUME Typed, stack # <<>>, Cascades, Shrinks, NEW f \in Frame, Top.pc # "out",
         f.op = Top.op, f.kind = Top.kind, f.id = Top.id, Go(f),
         Watched(f) =>
           /\ Top.pc = "drop"
           /\ \A q \in Res \ {f.id} : q \in Top.todo \ f.todo => ~Naming(db', f, q),
         Top.op = "delete" /\ Top.id \in Res =>
           \/ f.pc = Top.pc \/ (f.pc = "out" /\ f.err)
           \/ ~(db'[Top.id].here /\ db'[Top.id].refs # {})
  PROVE  Cascades'
  <1>1. Top = stack[1] /\ DOMAIN stack = 1 .. Len(stack) /\ Len(stack) \in Nat \ {0}
    BY TopOfStack DEF Typed, Top
  <1>2. /\ stack' \in Seq(Frame) /\ Len(stack') = Len(stack) /\ stack'[1] = f
        /\ \A i \in 2 .. Len(stack) : stack'[i] = stack[i]
    BY Replaced DEF Typed, Go
  <1>3. DOMAIN stack' = 1 .. Len(stack)
    BY <1>1, <1>2
  <1>4. \A i \in 1 .. Len(stack) : Covered(stack, db, i)
    BY <1>1, CascadesCovers
  <1>5. Covered(stack', db', 1)
    <2> SUFFICES ASSUME Watched(f), NEW q \in Res \ {f.id}, Naming(db', f, q)
                 PROVE  q \in f.todo
      BY <1>2 DEF Covered
    <2>1. Watched(Top) /\ Top.id = f.id /\ Naming(db, Top, q)
      BY ShrinksNaming DEF Watched, Naming
    <2>2. q \in Top.todo
      BY <1>1, <1>4, <2>1 DEF Covered
    <2>3. QED
      BY <2>2
  <1>6. ASSUME NEW i \in 2 .. Len(stack) PROVE Covered(stack', db', i)
    <2> SUFFICES ASSUME Watched(stack[i]), NEW q \in Res \ {stack[i].id},
                        Naming(db', stack[i], q)
                 PROVE  q \in stack[i].todo \/ Going(stack'[i - 1], q)
      BY <1>2 DEF Covered
    <2>1. db'[q].here /\ db'[q].refs # {} /\ Naming(db, stack[i], q)
      BY ShrinksNaming
    <2>2. i \in 1 .. Len(stack)
      BY <1>1
    <2>3. Covered(stack, db, i)
      BY <1>4, <2>2
    <2>4. q \in stack[i].todo \/ Going(stack[i - 1], q)
      BY <2>1, <2>3 DEF Covered
    <2>5. CASE i = 2 /\ Going(stack[1], q)
      BY <1>1, <1>2, <2>1, <2>5 DEF Going
    <2>6. CASE i # 2
      BY <1>1, <1>2, <2>4, <2>6
    <2>7. QED
      BY <2>4, <2>5, <2>6
  <1>7. QED
    BY <1>1, <1>3, <1>5, <1>6, CascadesCovers

\* It calls another function, which takes over the row that it forgets.
LEMMA CascadesCall ==
  ASSUME Typed, stack # <<>>, Cascades, Shrinks, NEW f \in Frame, NEW g \in Frame,
         Top.pc # "out", f.op = Top.op, f.kind = Top.kind, f.id = Top.id, Call(f, g),
         Watched(f) =>
           Top.pc = "drop" /\ \A q \in Res : q \in Top.todo \ f.todo => Going(g, q),
         Watched(g) =>
           \A q \in Res \ {g.id} : Naming(db', g, q) => q \in g.todo,
         Top.op = "delete" /\ Top.id \in Res =>
           f.pc = Top.pc \/ ~(db'[Top.id].here /\ db'[Top.id].refs # {})
  PROVE  Cascades'
  <1>1. Top = stack[1] /\ DOMAIN stack = 1 .. Len(stack) /\ Len(stack) \in Nat \ {0}
    BY TopOfStack DEF Typed, Top
  <1>2. /\ stack' \in Seq(Frame) /\ Len(stack') = Len(stack) + 1 /\ stack'[1] = g
        /\ stack'[2] = f /\ \A i \in 3 .. Len(stack') : stack'[i] = stack[i - 1]
    BY Pushed DEF Typed, Call
  <1>3. DOMAIN stack' = 1 .. Len(stack')
    BY <1>1, <1>2
  <1>4. \A i \in 1 .. Len(stack) : Covered(stack, db, i)
    BY <1>1, CascadesCovers
  <1>5. Covered(stack', db', 1)
    BY <1>2 DEF Covered
  <1>6. Covered(stack', db', 2)
    <2> SUFFICES ASSUME Watched(f), NEW q \in Res \ {f.id}, Naming(db', f, q)
                 PROVE  q \in f.todo \/ Going(g, q)
      BY <1>2 DEF Covered
    <2>1. Watched(Top) /\ Top.id = f.id /\ Naming(db, Top, q)
      BY ShrinksNaming DEF Watched, Naming
    <2>2. q \in Top.todo
      BY <1>1, <1>4, <2>1 DEF Covered
    <2>3. QED
      BY <2>2
  <1>7. ASSUME NEW i \in 3 .. Len(stack') PROVE Covered(stack', db', i)
    <2>1. i - 1 \in 2 .. Len(stack) /\ stack'[i] = stack[i - 1]
      BY <1>1, <1>2
    <2> SUFFICES ASSUME Watched(stack[i - 1]), NEW q \in Res \ {stack[i - 1].id},
                        Naming(db', stack[i - 1], q)
                 PROVE  q \in stack[i - 1].todo \/ Going(stack'[i - 1], q)
      BY <2>1 DEF Covered
    <2>2. db'[q].here /\ db'[q].refs # {} /\ Naming(db, stack[i - 1], q)
      BY ShrinksNaming
    <2>3. Covered(stack, db, i - 1)
      BY <1>1, <1>4, <2>1
    <2>4. q \in stack[i - 1].todo \/ Going(stack[(i - 1) - 1], q)
      BY <2>2, <2>3 DEF Covered
    <2>5. CASE i = 3 /\ Going(stack[1], q)
      BY <1>1, <1>2, <2>2, <2>5 DEF Going
    <2>6. CASE i = 3 /\ ~Going(stack[1], q)
      BY <2>4, <2>6
    <2>7. CASE i # 3
      BY <1>1, <1>2, <2>4, <2>7
    <2>8. QED
      BY <2>5, <2>6, <2>7
  <1>8. QED
    BY <1>1, <1>2, <1>3, <1>5, <1>6, <1>7, CascadesCovers

\* A function that returns without an error has removed its row.
LEMMA CascadesReturn ==
  ASSUME Typed, stack # <<>>, Cascades, UNCHANGED db, Len(stack) # 1, Top.pc = "out",
         NEW f \in Frame, f.op = stack[2].op, f.kind = stack[2].kind, f.id = stack[2].id,
         Pop(Frame, stack, f, stack'), stack[2].pc # "out",
         Watched(f) => f = stack[2] /\ ~Top.err,
         stack[2].op = "delete" /\ stack[2].pc = "drop" =>
           f.pc = "drop" \/ (f.pc = "out" /\ f.err)
  PROVE  Cascades'
  <1>1. Top = stack[1] /\ DOMAIN stack = 1 .. Len(stack) /\ Len(stack) \in Nat \ {0}
    BY TopOfStack DEF Typed, Top
  <1>2. /\ stack' \in Seq(Frame) /\ Len(stack') = Len(stack) - 1 /\ stack'[1] = f
        /\ \A i \in 2 .. Len(stack') : stack'[i] = stack[i + 1]
    BY DEF Pop
  <1>3. DOMAIN stack' = 1 .. Len(stack')
    BY <1>1, <1>2
  <1>4. \A i \in 1 .. Len(stack) : Covered(stack, db, i)
    BY <1>1, CascadesCovers
  <1>5. Covered(stack', db', 1)
    <2> SUFFICES ASSUME Watched(f), NEW q \in Res \ {f.id}, Naming(db, f, q)
                 PROVE  q \in f.todo
      BY <1>2 DEF Covered
    <2>1. f = stack[2] /\ ~Going(stack[1], q)
      BY <1>1 DEF Going
    <2>2. Covered(stack, db, 2)
      BY <1>1, <1>4
    <2>3. QED
      BY <2>1, <2>2 DEF Covered
  <1>6. ASSUME NEW i \in 2 .. Len(stack') PROVE Covered(stack', db', i)
    <2>1. i + 1 \in 2 .. Len(stack) /\ stack'[i] = stack[i + 1]
      BY <1>1, <1>2
    <2> SUFFICES ASSUME Watched(stack[i + 1]), NEW q \in Res \ {stack[i + 1].id},
                        Naming(db, stack[i + 1], q)
                 PROVE  q \in stack[i + 1].todo \/ Going(stack'[i - 1], q)
      BY <2>1 DEF Covered
    <2>3. Covered(stack, db, i + 1)
      BY <1>1, <1>4, <2>1
    <2>4. q \in stack[i + 1].todo \/ Going(stack[(i + 1) - 1], q)
      BY <2>1, <2>3 DEF Covered
    <2>5. CASE i = 2 /\ Going(stack[2], q)
      BY <1>1, <1>2, <2>5 DEF Going
    <2>6. CASE i = 2 /\ ~Going(stack[2], q)
      BY <2>4, <2>6
    <2>7. CASE i # 2
      BY <1>1, <1>2, <2>4, <2>7
    <2>8. QED
      BY <2>5, <2>6, <2>7
  <1>7. QED
    BY <1>1, <1>2, <1>3, <1>5, <1>6, CascadesCovers

\* Where nobody deletes, there is nothing to say.
LEMMA CascadesVoid ==
  ASSUME Typed, stack # <<>>, StackOK, ~Deleting(Top), NEW f \in Frame, f.op = Top.op, Go(f)
  PROVE  Cascades'
  <1>1. Top = stack[1] /\ DOMAIN stack = 1 .. Len(stack) /\ Len(stack) \in Nat \ {0}
    BY TopOfStack DEF Typed, Top
  <1>2. /\ stack' \in Seq(Frame) /\ Len(stack') = Len(stack) /\ stack'[1] = f
        /\ \A i \in 2 .. Len(stack) : stack'[i] = stack[i]
    BY Replaced DEF Typed, Go
  <1>3. \A i \in 1 .. Len(stack) : stack[i].op # "delete"
    BY <1>1, NoDeleteBelow
  <1>4. DOMAIN stack' = 1 .. Len(stack)
    BY <1>1, <1>2
  <1>5. \A i \in DOMAIN stack' : ~Watched(stack'[i])
    BY <1>1, <1>2, <1>3, <1>4 DEF Watched
  <1>6. QED
    BY <1>5, CascadesCovers DEF Covered

-----------------------------------------------------------------------------
(* The functions that are called.                                          *)

LEMMA DeleteFrameGood ==
  ASSUME db \in [Res -> Content], NEW r \in Res
  PROVE  /\ DeleteFrame(r) \in Frame /\ FrameOK(DeleteFrame(r))
         /\ DeleteFrame(r).op = "delete" /\ DeleteFrame(r).pc = "drop"
         /\ DeleteFrame(r).id = r /\ DeleteFrame(r).kind = KindOf[r]
         /\ DeleteFrame(r).had = db[r]
  <1>1. KindOf[r] \in Kind /\ r # NoRes
    BY KindCases, TablesAssumption
  <1>2. NewFrame("delete", KindOf[r], r, "drop") \in Frame
    BY <1>1, NewFrameType
  <1>3. KindOf[r] = "spec" => DeleteFrame(r).todo = {}
    BY DependentTable DEF DeleteFrame, NewFrame
  <1>4. \A q \in Res : ~DeleteFrame(r).seen[q].here
    BY AbsentType DEF DeleteFrame, NewFrame, Nothing
  <1>5. DeleteFrame(r) \in Frame
    BY <1>2 DEF DeleteFrame, Frame
  <1>6. QED
    BY <1>1, <1>3, <1>4, <1>5 DEF DeleteFrame, NewFrame, FrameOK

LEMMA DeleteFrameCovers ==
  ASSUME db \in [Res -> Content], Sound(db), NEW r \in Res, NEW q \in Res,
         Watched(DeleteFrame(r)), Naming(db, DeleteFrame(r), q)
  PROVE  q \in DeleteFrame(r).todo
  <1>1. DeleteFrame(r).id = r /\ DeleteFrame(r).kind = KindOf[r] /\ r # NoRes
    BY DeleteFrameGood, TablesAssumption
  <1>2. db[q].here /\ r \in db[q].refs /\ KindOf[r] \notin {"spec", "security_group"}
    BY <1>1 DEF Naming, Watched
  <1>3. KindOf[r] \in ColumnSet(KindOf[q])
    BY <1>2, NamesKinds DEF Sound, Fits
  <1>4. KindOf[q] \in Range(DependentsOf[KindOf[r]]) /\ KindOf[q] # "rule"
    BY <1>2, <1>3, Dependents
  <1>5. QED
    BY <1>2, <1>4 DEF DeleteFrame, NewFrame, Belongs

LEMMA SyncFrameGood ==
  ASSUME NEW r \in Res, NEW c \in Content, c.here => Reported(r, c)
  PROVE  /\ SyncFrame(r, c) \in Frame /\ FrameOK(SyncFrame(r, c))
         /\ SyncFrame(r, c).op = "sync" /\ SyncFrame(r, c).kind = KindOf[r]
         /\ SyncFrame(r, c).pc # "drop"
  <1>1. KindOf[r] \in Kind
    BY KindCases
  <1>2. /\ NewFrame("sync", KindOf[r], r, "request") \in Frame
        /\ NewFrame("sync", KindOf[r], r, "early") \in Frame
        /\ NewFrame("sync", KindOf[r], r, "row") \in Frame
    BY <1>1, NewFrameType
  <1>3. \A q \in Res : ~Nothing[q].here
    BY AbsentType DEF Nothing
  <1>4. CASE KindOf[r] = "zone"
    <2>1. SyncFrame(r, c) = [NewFrame("sync", KindOf[r], r, "row") EXCEPT !.ans = c]
      BY <1>4 DEF SyncFrame, Association
    <2>2. SyncFrame(r, c) \in Frame
      BY <1>2, <2>1 DEF Frame
    <2>3. /\ SyncFrame(r, c).op = "sync" /\ SyncFrame(r, c).kind = KindOf[r]
          /\ SyncFrame(r, c).id = r /\ SyncFrame(r, c).pc = "row"
          /\ SyncFrame(r, c).seen = Nothing /\ SyncFrame(r, c).had = Absent
          /\ SyncFrame(r, c).ans = c
      BY <2>1 DEF NewFrame
    <2>4. QED
      BY <1>3, <1>4, <2>2, <2>3, AbsentType DEF FrameOK
  <1>5. CASE KindOf[r] \in Association
    <2>1. SyncFrame(r, c) = [NewFrame("sync", KindOf[r], r, "early")
               EXCEPT !.ans = c, !.todo = ParentsOf(r, c, "early")]
      BY <1>5 DEF SyncFrame, Association
    <2>2. ParentsOf(r, c, "early") \subseteq Res
      BY DEF ParentsOf, Content
    <2>3. KindOf[r] \notin {"spec", "instance"}
      BY <1>5 DEF Association
    <2>4. SyncFrame(r, c) \in Frame
      BY <1>2, <2>1, <2>2 DEF Frame
    <2>5. /\ SyncFrame(r, c).op = "sync" /\ SyncFrame(r, c).kind = KindOf[r]
          /\ SyncFrame(r, c).id = r /\ SyncFrame(r, c).pc = "early"
          /\ SyncFrame(r, c).seen = Nothing /\ SyncFrame(r, c).had = Absent
          /\ SyncFrame(r, c).ans = c
      BY <2>1 DEF NewFrame
    <2>6. QED
      BY <1>3, <2>3, <2>4, <2>5, AbsentType DEF FrameOK
  <1>6. CASE KindOf[r] \notin Association \cup {"zone"}
    <2>1. SyncFrame(r, c) = NewFrame("sync", KindOf[r], r, "request")
      BY <1>6 DEF SyncFrame
    <2>2. QED
      BY <1>2, <1>3, <2>1, AbsentType DEF NewFrame, Frame, FrameOK
  <1>7. QED
    BY <1>4, <1>5, <1>6

LEMMA ListFrameGood ==
  ASSUME NEW k \in Kind
  PROVE  /\ ListFrame(k) \in Frame /\ FrameOK(ListFrame(k))
         /\ ListFrame(k).op = "list" /\ ListFrame(k).kind = k
  <1>1. /\ NewFrame("list", k, NoRes, "request") \in Frame
        /\ NewFrame("list", k, NoRes, "each") \in Frame
    BY NewFrameType
  <1>2. \A q \in Res : ~Nothing[q].here
    BY AbsentType DEF Nothing
  <1>3. Rows(k, NoRes) \subseteq Res
    BY DEF Rows, Of
  <1>4. QED
    BY <1>1, <1>2, <1>3 DEF ListFrame, NewFrame, Frame, FrameOK

LEMMA ChildListFrameGood ==
  ASSUME NEW f \in Frame, FrameOK(f), NEW k \in Kind
  PROVE  /\ ChildListFrame(f, k) \in Frame /\ FrameOK(ChildListFrame(f, k))
         /\ ChildListFrame(f, k).op = "list" /\ ChildListFrame(f, k).kind = k
  <1> DEFINE pc == IF k = "instance_sg" THEN "clear" ELSE "drop"
             seen == [r \in Res |-> IF KindOf[r] = k THEN f.seen[r] ELSE Absent]
             todo == {r \in Rows(k, f.id) : ~seen[r].here}
  <1>1. NewFrame("list", k, f.id, pc) \in Frame
    BY NewFrameType, FrameParts
  <1>2. seen \in [Res -> Content]
    BY FrameParts, AbsentType
  <1>3. todo \subseteq Res
    BY DEF Rows, Of
  <1>4. \A r \in Res : seen[r].here => Reported(r, seen[r])
    BY AbsentType DEF FrameOK
  <1>5. ChildListFrame(f, k) = [NewFrame("list", k, f.id, pc) EXCEPT !.seen = seen, !.todo = todo]
    BY DEF ChildListFrame
  <1> HIDE DEF seen, todo
  <1>6. ChildListFrame(f, k) \in Frame
    BY <1>1, <1>2, <1>3, <1>5 DEF Frame
  <1>7. /\ ChildListFrame(f, k).op = "list" /\ ChildListFrame(f, k).kind = k
        /\ ChildListFrame(f, k).pc = pc /\ ChildListFrame(f, k).seen = seen
    BY <1>5 DEF NewFrame
  <1>8. QED
    BY <1>4, <1>6, <1>7 DEF FrameOK

-----------------------------------------------------------------------------
(* The steps.                                                              *)

\* Inductive consists of what concerns neither rows nor functions, of the rows, and
\* of the functions.
Rest ==
  /\ scope \in Scopes
  /\ cloud \in [Res -> Content] /\ \A r \in Res : cloud[r].here => Reported(r, cloud[r])
  /\ phase \in {"idle", "run", "end"} /\ round \in 1 .. MaxRound
  /\ turn \in 0 .. Len(ListOrder) /\ done \subseteq Lists
  /\ events \in 0 .. MaxEvent /\ touched \subseteq Res /\ faulty \in BOOLEAN

RowsOK == db \in [Res -> Content] /\ Sound(db)

LEMMA Parts ==
  /\ Inductive <=> Rest /\ RowsOK /\ Typed /\ StackOK /\ Cascades
  /\ Inductive' <=> Rest' /\ RowsOK' /\ Typed' /\ StackOK' /\ Cascades'
  <1>1. Inductive <=> Rest /\ RowsOK /\ Typed /\ StackOK /\ Cascades
    BY Zenon DEF Inductive, TypeOK, Rest, RowsOK, Typed
  <1>2. Inductive' <=> Rest' /\ RowsOK' /\ Typed' /\ StackOK' /\ Cascades'
    BY Zenon DEF Inductive, TypeOK, Rest, RowsOK, Typed
  <1>3. QED
    BY <1>1, <1>2

LEMMA RestKept ==
  ASSUME Rest, UNCHANGED <<scope, cloud, jobVars>>, UNCHANGED eventVars \/ Fault
  PROVE  Rest'
  <1>1. UNCHANGED <<scope, cloud, phase, round, turn, done, touched>>
    BY DEF jobVars, eventVars, Fault
  <1>2. events' \in 0 .. MaxEvent
    BY ResourceSyncAssumption DEF Rest, eventVars, Fault
  <1>3. faulty' \in BOOLEAN
    BY Zenon DEF Rest, eventVars, Fault
  <1>4. QED
    BY <1>1, <1>2, <1>3 DEF Rest

LEMMA RowsKept == ASSUME RowsOK, UNCHANGED db PROVE RowsOK' /\ Shrinks
  BY DEF RowsOK, Sound, Shrinks

LEMMA TopGood ==
  ASSUME Typed, StackOK, stack # <<>>
  PROVE  Top \in Frame /\ FrameOK(Top) /\ Top = stack[1] /\ 1 \in DOMAIN stack
  <1>1. Top = stack[1] /\ Top \in Frame /\ 1 \in DOMAIN stack
    BY TopOfStack DEF Typed, Top
  <1>2. QED
    BY <1>1 DEF StackOK

\* A function other than deleteX goes on, or calls another, without writing a row.
LEMMA QuietGo ==
  ASSUME Inductive, stack # <<>>, Top.op # "delete", Top.pc # "out",
         NEW f \in Frame, FrameOK(f), f.op = Top.op, f.kind = Top.kind, f.id = Top.id,
         Go(f), UNCHANGED <<scope, cloud, db, jobVars>>, UNCHANGED eventVars \/ Fault
  PROVE  Inductive'
  <1>1. Rest /\ RowsOK /\ Typed /\ StackOK /\ Cascades
    BY Parts
  <1>2. Rest' /\ RowsOK' /\ Shrinks
    BY <1>1, RestKept, RowsKept
  <1>3. Typed' /\ StackOK'
    BY <1>1, StackGo
  <1>4. Cascades'
    BY <1>1, <1>2, CascadesGo DEF Watched
  <1>5. QED
    BY <1>2, <1>3, <1>4, Parts

LEMMA QuietCall ==
  ASSUME Inductive, stack # <<>>, Top.op # "delete", Top.pc # "out",
         NEW f \in Frame, FrameOK(f), f.op = Top.op, f.kind = Top.kind, f.id = Top.id,
         f.pc \in Calling,
         NEW g \in Frame, FrameOK(g), Deleting(Top) => Deleting(g),
         Watched(g) => \A q \in Res \ {g.id} : Naming(db, g, q) => q \in g.todo,
         Call(f, g), UNCHANGED <<scope, cloud, db, jobVars>>, UNCHANGED eventVars
  PROVE  Inductive'
  <1>1. Rest /\ RowsOK /\ Typed /\ StackOK /\ Cascades
    BY Parts
  <1>2. Rest' /\ RowsOK' /\ Shrinks
    BY <1>1, RestKept, RowsKept
  <1>3. Typed' /\ StackOK'
    BY <1>1, StackCall
  <1>4. Watched(g) => \A q \in Res \ {g.id} : Naming(db', g, q) => q \in g.todo
    OBVIOUS
  <1>5. Cascades'
    BY <1>1, <1>2, <1>4, CascadesCall DEF Watched
  <1>6. QED
    BY <1>2, <1>3, <1>5, Parts

LEMMA GetListKeeps == ASSUME Inductive, GetList PROVE Inductive'
  <1>1. Rest /\ RowsOK /\ Typed /\ StackOK /\ Cascades
    BY Parts
  <1>2. stack # <<>> /\ Top.op = "list" /\ Top.pc = "request"
    BY DEF GetList, At
  <1>3. Top \in Frame /\ FrameOK(Top)
    BY <1>1, <1>2, TopGood
  <1>4. UNCHANGED <<scope, cloud, db, jobVars>>
    BY DEF GetList
  <1>5. CASE Fault /\ Exit(TRUE)
    BY <1>2, <1>3, <1>4, <1>5, OutType, QuietGo DEF Exit
  <1> DEFINE seen == [r \in Res |-> IF KindOf[r] = Top.kind THEN cloud[r] ELSE Absent]
             todo == {r \in Rows(Top.kind, NoRes) : ~seen[r].here}
             f == [Top EXCEPT !.pc = "drop", !.seen = seen, !.todo = todo]
  <1>6. CASE Go(f) /\ UNCHANGED eventVars
    <2>1. seen \in [Res -> Content] /\ \A r \in Res : seen[r].here => Reported(r, seen[r])
      BY <1>1, AbsentType DEF Rest
    <2>2. todo \subseteq Res
      BY DEF Rows, Of
    <2> HIDE DEF seen, todo
    <2>3. f \in Frame /\ f.op = "list" /\ f.kind = Top.kind /\ f.id = Top.id /\ f.pc = "drop"
          /\ f.seen = seen
      BY <1>2, <1>3, <2>1, <2>2 DEF Frame
    <2> HIDE DEF f
    <2>4. FrameOK(f)
      BY <2>1, <2>3 DEF FrameOK
    <2>5. QED
      BY <1>2, <1>4, <1>6, <2>3, <2>4, QuietGo
  <1>7. QED
    BY <1>5, <1>6 DEF GetList

\* Rows that no other row names can be deleted.
LEMMA Removal ==
  ASSUME RowsOK, NEW S,
         \A q \in Res \ S : db[q].here => db[q].refs \cap S = {},
         db' = [r \in Res |-> IF r \in S THEN Absent ELSE db[r]]
  PROVE  RowsOK' /\ Shrinks
  <1>1. db' \in [Res -> Content]
    BY AbsentType DEF RowsOK
  <1>2. ASSUME NEW r \in Res, db'[r].here
        PROVE  db'[r] = db[r] /\ db[r].here /\ r \notin S
    BY <1>2, AbsentType
  <1>3. ASSUME NEW r \in Res, db'[r].here, NEW p \in db'[r].refs
        PROVE  db'[p].here
    <2>1. db'[r] = db[r] /\ db[r].here /\ r \notin S
      BY <1>2, <1>3
    <2>2. p \in Res /\ db[p].here
      BY <1>3, <2>1 DEF RowsOK, Sound, Content
    <2>3. QED
      BY <1>3, <2>1, <2>2
  <1>4. QED
    BY <1>1, <1>2, <1>3 DEF RowsOK, Sound, Shrinks

\* Nobody names an association with a group, or a snapshot.
LEMMA Unnamed ==
  ASSUME RowsOK, NEW S \in SUBSET Res, \A r \in S : KindOf[r] \in {"instance_sg", "snapshot"},
         NEW q \in Res, db[q].here
  PROVE  db[q].refs \cap S = {}
  <1> SUFFICES ASSUME NEW p \in db[q].refs, p \in S PROVE FALSE
    OBVIOUS
  <1>1. Reported(q, db[q])
    BY DEF RowsOK, Sound, Fits
  <1>2. QED
    BY <1>1, NamesKinds, Dependents

LEMMA ClearGroupsKeeps == ASSUME Inductive, ClearGroups PROVE Inductive'
  <1>1. Rest /\ RowsOK /\ Typed /\ StackOK /\ Cascades
    BY Parts
  <1>2. stack # <<>> /\ Top.op = "list" /\ Top.pc = "clear"
    BY DEF ClearGroups, At
  <1>3. Top \in Frame /\ FrameOK(Top)
    BY <1>1, <1>2, TopGood
  <1>4. Top.kind = "instance_sg"
    BY <1>2, <1>3 DEF FrameOK
  <1>5. db' = [r \in Res |-> IF r \in Rows("instance_sg", Top.id) THEN Absent ELSE db[r]]
    BY <1>4 DEF ClearGroups
  <1>6. RowsOK'
    <2>1. Rows("instance_sg", Top.id) \subseteq Res
          /\ \A r \in Rows("instance_sg", Top.id) : KindOf[r] \in {"instance_sg", "snapshot"}
      BY DEF Rows, Of
    <2>2. \A q \in Res : db[q].here => db[q].refs \cap Rows("instance_sg", Top.id) = {}
      BY <1>1, <2>1, Unnamed
    <2>3. QED
      BY <1>1, <1>5, <2>2, Removal
  <1> DEFINE f == [Top EXCEPT !.pc = "each", !.todo = {r \in Res : Top.seen[r].here}]
  <1>7. f \in Frame /\ f.op = "list" /\ f.kind = Top.kind /\ f.seen = Top.seen /\ f.pc = "each"
    BY <1>2, <1>3 DEF Frame
  <1>8. Go(f)
    BY DEF ClearGroups
  <1> HIDE DEF f
  <1>9. FrameOK(f)
    BY <1>3, <1>7 DEF FrameOK
  <1>10. Typed' /\ StackOK'
    BY <1>1, <1>2, <1>7, <1>8, <1>9, StackGo
  <1>11. Cascades'
    BY <1>1, <1>2, <1>7, <1>8, CascadesVoid DEF Deleting
  <1>12. QED
    BY <1>1, <1>6, <1>10, <1>11, RestKept, Parts DEF ClearGroups

LEMMA DropUnlistedKeeps == ASSUME Inductive, DropUnlisted PROVE Inductive'
  <1>1. Rest /\ RowsOK /\ Typed /\ StackOK /\ Cascades
    BY Parts
  <1>2. stack # <<>> /\ Top.op = "list" /\ Top.pc = "drop"
    BY DEF DropUnlisted, At
  <1>3. Top \in Frame /\ FrameOK(Top) /\ ~Deleting(Top)
    BY <1>1, <1>2, TopGood DEF Deleting
  <1>4. UNCHANGED <<scope, cloud, db, jobVars>> /\ UNCHANGED eventVars
    BY DEF DropUnlisted
  <1>5. CASE Go([Top EXCEPT !.pc = "each", !.todo = {r \in Res : Top.seen[r].here}])
    <2> DEFINE f == [Top EXCEPT !.pc = "each", !.todo = {r \in Res : Top.seen[r].here}]
    <2>1. f \in Frame /\ f.op = "list" /\ f.kind = Top.kind /\ f.seen = Top.seen
          /\ f.pc = "each" /\ f.id = Top.id
      BY <1>2, <1>3 DEF Frame
    <2>2. Go(f)
      BY <1>5
    <2> HIDE DEF f
    <2>3. FrameOK(f)
      BY <1>3, <2>1 DEF FrameOK
    <2>4. QED
      BY <1>2, <1>4, <2>1, <2>2, <2>3, QuietGo
  <1>6. ASSUME NEW r \in Top.todo, Call([Top EXCEPT !.todo = @ \ {r}], DeleteFrame(r))
        PROVE  Inductive'
    <2> DEFINE f == [Top EXCEPT !.todo = @ \ {r}]
    <2>1. f \in Frame /\ f.op = "list" /\ f.kind = Top.kind /\ f.seen = Top.seen
          /\ f.pc = "drop" /\ f.id = Top.id
      BY <1>2, <1>3 DEF Frame
    <2>2. Call(f, DeleteFrame(r)) /\ r \in Res
      BY <1>3, <1>6, FrameParts
    <2> HIDE DEF f
    <2>3. FrameOK(f) /\ f.pc \in Calling
      BY <1>3, <2>1 DEF FrameOK, Calling
    <2>4. db \in [Res -> Content] /\ Sound(db)
      BY <1>1 DEF RowsOK
    <2>5. DeleteFrame(r) \in Frame /\ FrameOK(DeleteFrame(r))
      BY <2>2, <2>4, DeleteFrameGood
    <2>6. Watched(DeleteFrame(r)) => \A q \in Res \ {DeleteFrame(r).id} :
             Naming(db, DeleteFrame(r), q) => q \in DeleteFrame(r).todo
      BY <2>2, <2>4, DeleteFrameCovers
    <2>7. QED
      BY <1>2, <1>3, <1>4, <2>1, <2>2, <2>3, <2>5, <2>6, QuietCall
  <1>7. QED
    BY <1>5, <1>6 DEF DropUnlisted

LEMMA SyncListedKeeps == ASSUME Inductive, SyncListed PROVE Inductive'
  <1>1. Rest /\ RowsOK /\ Typed /\ StackOK /\ Cascades
    BY Parts
  <1>2. stack # <<>> /\ Top.op = "list" /\ Top.pc = "each"
    BY DEF SyncListed, At
  <1>3. Top \in Frame /\ FrameOK(Top) /\ ~Deleting(Top)
    BY <1>1, <1>2, TopGood DEF Deleting
  <1>4. UNCHANGED <<scope, cloud, db, jobVars>> /\ UNCHANGED eventVars
    BY DEF SyncListed
  <1>5. CASE Exit(Top.err /\ Top.kind # "spec")
    <2>1. (Top.err /\ Top.kind # "spec") \in BOOLEAN
      OBVIOUS
    <2>2. QED
      BY <1>2, <1>3, <1>4, <1>5, <2>1, OutType, QuietGo DEF Exit
  <1>6. ASSUME NEW r \in Top.todo,
               Call([Top EXCEPT !.todo = @ \ {r}], SyncFrame(r, Top.seen[r]))
        PROVE  Inductive'
    <2> DEFINE f == [Top EXCEPT !.todo = @ \ {r}]
               g == SyncFrame(r, Top.seen[r])
    <2>1. f \in Frame /\ f.op = "list" /\ f.kind = Top.kind /\ f.seen = Top.seen
          /\ f.pc = "each" /\ f.id = Top.id
      BY <1>2, <1>3 DEF Frame
    <2>2. Call(f, g) /\ r \in Res
      BY <1>3, <1>6, FrameParts
    <2>3. FrameOK(f) /\ f.pc \in Calling
      <3> HIDE DEF f
      <3>1. QED
        BY <1>3, <2>1 DEF FrameOK, Calling
    <2>4. Top.seen[r] \in Content /\ (Top.seen[r].here => Reported(r, Top.seen[r]))
      BY <1>3, <2>2, FrameParts DEF FrameOK
    <2>5. g \in Frame /\ FrameOK(g) /\ g.op = "sync"
      BY <2>2, <2>4, SyncFrameGood
    <2> HIDE DEF f, g
    <2>6. ~Watched(g)
      BY <2>5 DEF Watched
    <2>7. QED
      BY <1>2, <1>3, <1>4, <2>1, <2>2, <2>3, <2>5, <2>6, QuietCall
  <1>7. QED
    BY <1>5, <1>6 DEF SyncListed

LEMMA SeenOfGood ==
  ASSUME Rest, NEW k, NEW h
  PROVE  /\ SeenOf(k, h) \in [Res -> Content]
         /\ \A r \in Res : SeenOf(k, h)[r].here => Reported(r, SeenOf(k, h)[r])
  BY AbsentType DEF SeenOf, Rest

LEMMA ParentsGood ==
  ASSUME NEW r \in Res, NEW c \in Content, NEW when \in {"early", "late"}
  PROVE  /\ ParentsOf(r, c, when) \subseteq Res
         /\ KindOf[r] = "spec" => ParentsOf(r, c, when) = {}
  <1>1. ParentsOf(r, c, when) \subseteq Res
    BY DEF ParentsOf, Content
  <1>2. KindOf[r] = "spec" => ParentsOf(r, c, when) = {}
    BY SpecSteps DEF ParentsOf
  <1>3. QED
    BY <1>1, <1>2

LEMMA FitsIsReported ==
  ASSUME NEW r \in Res, NEW c, Reported(r, c)
  PROVE  /\ KindOf[r] \notin {"hypervisor", "instance"} => Fits(r, c)
         /\ Named(c, "zone") # {} => Fits(r, c)
  <1>1. "zone" \in ColumnsOf[KindOf[r]].needed => KindOf[r] \in {"hypervisor", "instance"}
    BY KindCases, Needed
  <1>2. QED
    BY <1>1 DEF Fits

LEMMA NeedsZone ==
  /\ ColumnsOf["instance"].needed = {"tenant", "zone", "hypervisor", "spec"}
  /\ ColumnsOf["instance_network"].optional = {"floating_ip"}
  BY DEF ColumnsOf, ClusterInstance, ClusterInstanceNetwork, Columns

\* A function goes on to the parents.
Early(f, c, todo, next) ==
  [f EXCEPT !.pc = "early", !.ans = c, !.todo = todo, !.want = NoRes, !.next = next]

LEMMA EarlyType ==
  ASSUME NEW f \in Frame, NEW c \in Content, NEW todo \in SUBSET Res, NEW next \in Nat \ {0}
  PROVE  LET g == Early(f, c, todo, next)
         IN  /\ g \in Frame /\ g.op = f.op /\ g.kind = f.kind /\ g.id = f.id /\ g.pc = "early"
             /\ g.seen = f.seen /\ g.ans = c /\ g.todo = todo /\ g.had = f.had
  BY DEF Early, Frame

\* The client's answer is read.
LEMMA ReadGood ==
  ASSUME NEW f \in Frame, FrameOK(f), f.op = "sync", NEW c \in Content,
         c.here => Reported(f.id, c)
  PROVE  /\ Read(f, c) \in Frame /\ FrameOK(Read(f, c))
         /\ Read(f, c).op = f.op /\ Read(f, c).kind = f.kind /\ Read(f, c).id = f.id
  <1>1. f.id \in Res /\ f.kind = KindOf[f.id] /\ (f.had.here => Fits(f.id, f.had))
    BY DEF FrameOK
  <1>2. CASE f.kind = "instance" /\ c.here /\ Named(c, "zone") = {}
    BY <1>2, OutType DEF Read
  <1>3. CASE ~(f.kind = "instance" /\ c.here /\ Named(c, "zone") = {})
    <2>0. PICK next \in Nat \ {0} : next = 1
      OBVIOUS
    <2> DEFINE todo == ParentsOf(f.id, c, "early")
               g == Early(f, c, todo, next)
    <2>1. Read(f, c) = g
      BY <1>3, <2>0 DEF Read, Early
    <2>2. todo \in SUBSET Res /\ (f.kind = "spec" => todo = {})
      BY <1>1, ParentsGood
    <2>3. c.here /\ f.kind = "instance" => Fits(f.id, c)
      BY <1>1, <1>3, FitsIsReported
    <2> HIDE DEF todo
    <2>4. g \in Frame /\ g.op = "sync" /\ g.kind = f.kind /\ g.id = f.id /\ g.pc = "early"
          /\ g.seen = f.seen /\ g.ans = c /\ g.todo = todo /\ g.had = f.had
      BY <2>2, EarlyType
    <2> HIDE DEF g
    <2>5. FrameOK(g)
      BY <1>1, <2>2, <2>3, <2>4 DEF FrameOK
    <2>6. QED
      BY <2>1, <2>4, <2>5
  <1>4. QED
    BY <1>2, <1>3

\* A function waits for the answer to its next request.
Ask(f, ans, seen, todo, want, next) ==
  [f EXCEPT !.pc = "details", !.ans = ans, !.seen = seen, !.todo = todo, !.want = want,
            !.next = next]
Aware(f, ans, seen) ==
  /\ ans \in Content /\ (ans.here => Reported(f.id, ans))
  /\ seen \in [Res -> Content] /\ \A r \in Res : seen[r].here => Reported(r, seen[r])

LEMMA AskGood ==
  ASSUME NEW f \in Frame, FrameOK(f), f.op = "sync",
         NEW ans, NEW seen, Aware(f, ans, seen),
         NEW todo \in SUBSET Res, f.kind = "spec" => todo = {},
         NEW want \in Res \cup {NoRes}, NEW next \in Nat \ {0}
  PROVE  LET g == Ask(f, ans, seen, todo, want, next)
         IN  /\ g \in Frame /\ FrameOK(g) /\ g.op = f.op /\ g.kind = f.kind /\ g.id = f.id
             /\ g.next = next /\ g.ans = ans /\ g.pc = "details"
  <1> DEFINE g == Ask(f, ans, seen, todo, want, next)
  <1>1. g \in Frame /\ g.op = "sync" /\ g.kind = f.kind /\ g.id = f.id /\ g.pc = "details"
        /\ g.seen = seen /\ g.ans = ans /\ g.todo = todo /\ g.had = f.had /\ g.next = next
    BY DEF Ask, Aware, Frame
  <1>2. f.id \in Res /\ f.kind = KindOf[f.id] /\ (f.had.here => Fits(f.id, f.had))
    BY DEF FrameOK
  <1> HIDE DEF g
  <1>3. FrameOK(g)
    BY <1>1, <1>2 DEF FrameOK, Aware
  <1>4. QED
    BY <1>1, <1>3 DEF g

LEMMA DetailTable ==
  ASSUME NEW k \in Kind
  PROVE  /\ DetailsOf[k] # <<>> => k # "spec"
         /\ \A i \in DOMAIN DetailsOf[k] :
               /\ DetailsOf[k][i] = "ListHypervisors" => k = "instance"
               /\ DetailsOf[k][i] = "ShowSubnetDetails" => i = 7
  <1>1. DetailsOf[k] = CASE k = "instance" -> GetInstance
                         [] k = "volume" -> GetVolume
                         [] k = "network" -> GetNetwork
                         [] k = "router" -> GetRouter
                         [] OTHER -> <<>>
    BY DEF DetailsOf
  <1>2. CASE k = "instance"
    BY <1>1, <1>2 DEF GetInstance
  <1>3. CASE k = "volume"
    BY <1>1, <1>3 DEF GetVolume
  <1>4. CASE k \in {"network", "router"}
    BY <1>1, <1>4 DEF GetNetwork, GetRouter
  <1>5. CASE k \notin {"instance", "volume", "network", "router"}
    BY <1>1, <1>5
  <1>6. QED
    BY <1>2, <1>3, <1>4, <1>5

LEMMA GetOneKeeps == ASSUME Inductive, GetOne PROVE Inductive'
  <1>1. Rest /\ RowsOK /\ Typed /\ StackOK /\ Cascades
    BY Parts
  <1>2. stack # <<>> /\ Top.op = "sync" /\ Top.pc = "request"
    BY DEF GetOne, At
  <1>3. Top \in Frame /\ FrameOK(Top) /\ Top.id \in Res /\ Top.kind = KindOf[Top.id]
    BY <1>1, <1>2, TopGood DEF FrameOK
  <1>4. UNCHANGED <<scope, cloud, db, jobVars>>
    BY DEF GetOne
  <1>5. ASSUME NEW e \in BOOLEAN, Exit(e), UNCHANGED eventVars \/ Fault PROVE Inductive'
    <2>1. Go(Out(Top, e))
      BY <1>5 DEF Exit
    <2>2. QED
      BY <1>2, <1>3, <1>4, <1>5, <2>1, OutType, QuietGo
  <1>6. ASSUME NEW f \in Frame, FrameOK(f), f.op = Top.op, f.kind = Top.kind, f.id = Top.id,
               Go(f), UNCHANGED eventVars
        PROVE  Inductive'
    BY <1>2, <1>4, <1>6, QuietGo
  <1>7. CASE FirstAnswer /\ UNCHANGED eventVars
    <2> DEFINE c == cloud[Top.id]
               seen == IF Top.kind = "network" THEN SeenOf("subnet", Top.id)
                       ELSE IF Top.kind = "security_group" THEN SeenOf("rule", Top.id) ELSE Nothing
               first == [Top EXCEPT !.ans = c, !.seen = seen]
               attached == {q \in Of("instance_volume") : Top.id \in cloud[q].refs}
    <2>1. c \in Content /\ (c.here => Reported(Top.id, c))
      BY <1>1, <1>3 DEF Rest
    <2>2. seen \in [Res -> Content] /\ \A r \in Res : seen[r].here => Reported(r, seen[r])
      <3>1. CASE Top.kind \in {"network", "security_group"}
        BY <1>1, <3>1, SeenOfGood
      <3>2. CASE Top.kind \notin {"network", "security_group"}
        BY <3>2, AbsentType DEF Nothing
      <3>3. QED
        BY <3>1, <3>2
    <2>3. \/ ~c.here /\ Top.kind = "hypervisor" /\ Exit(TRUE)
          \/ Go(Read(Top, Absent))
          \/ c.here /\ Go(Read(first, c))
          \/ /\ c.here /\ DetailsOf[Top.kind] # <<>>
             /\ Go([first EXCEPT !.pc = "details", !.todo = attached])
      BY <1>7 DEF FirstAnswer
    <2> HIDE DEF c, seen
    <2>4. Aware(Top, c, seen)
      BY <2>1, <2>2 DEF Aware
    <2>5. CASE Exit(TRUE)
      BY <1>5, <1>7, <2>5
    <2>6. CASE Go(Read(Top, Absent))
      BY <1>2, <1>3, <1>6, <1>7, <2>6, ReadGood, AbsentType
    <2>7. CASE c.here /\ Go(Read(first, c))
      <3> DEFINE calm == Ask(Top, c, seen, Top.todo, Top.want, Top.next)
      <3>1. Top.todo \in SUBSET Res /\ (Top.kind = "spec" => Top.todo = {})
            /\ Top.want \in Res \cup {NoRes} /\ Top.next \in Nat \ {0}
        BY <1>2, <1>3, FrameParts DEF FrameOK
      <3>2. calm \in Frame /\ FrameOK(calm) /\ calm.op = "sync" /\ calm.kind = Top.kind
            /\ calm.id = Top.id
        BY <1>2, <1>3, <2>4, <3>1, AskGood
      <3>3. Read(first, c) = Read(calm, c)
        BY <1>3 DEF Read, Out, Ask, Frame
      <3> HIDE DEF calm, first
      <3>4. Go(Read(calm, c))
        BY <2>7, <3>3
      <3>5. QED
        BY <1>2, <1>6, <1>7, <2>1, <3>2, <3>4, ReadGood
    <2>8. CASE DetailsOf[Top.kind] # <<>> /\ Go([first EXCEPT !.pc = "details", !.todo = attached])
      <3> DEFINE g == Ask(Top, c, seen, attached, Top.want, Top.next)
      <3>1. attached \in SUBSET Res /\ Top.kind # "spec"
            /\ Top.want \in Res \cup {NoRes} /\ Top.next \in Nat \ {0}
        BY <1>3, <2>8, FrameParts, DetailTable DEF Of
      <3>2. [first EXCEPT !.pc = "details", !.todo = attached] = g
        BY <1>3 DEF Ask, Frame
      <3> HIDE DEF attached
      <3>3. g \in Frame /\ FrameOK(g) /\ g.op = "sync" /\ g.kind = Top.kind /\ g.id = Top.id
        BY <1>2, <1>3, <2>4, <3>1, AskGood
      <3> HIDE DEF g, first
      <3>4. Go(g)
        BY <2>8, <3>2
      <3>5. QED
        BY <1>2, <1>6, <1>7, <3>3, <3>4
    <2>9. QED
      BY <2>3, <2>5, <2>6, <2>7, <2>8
  <1>8. QED
    BY <1>5, <1>7 DEF GetOne

\* The hypervisor that lists the server takes the place of the one it had.
LEMMA HostReported ==
  ASSUME NEW r \in Res, KindOf[r] = "instance", NEW c \in Content, Reported(r, c),
         NEW host \in SUBSET Of("hypervisor"), host # {}
  PROVE  LET d == [c EXCEPT !.refs = (@ \ Of("hypervisor")) \cup host]
         IN  d \in Content /\ Reported(r, d)
  <1> DEFINE d == [c EXCEPT !.refs = (@ \ Of("hypervisor")) \cup host]
  <1>1. d \in Content /\ d.refs = (c.refs \ Of("hypervisor")) \cup host
    BY DEF Content, Of
  <1> HIDE DEF d
  <1>2. \A p \in d.refs : p \in c.refs \/ KindOf[p] = "hypervisor"
    BY <1>1 DEF Of
  <1>3. \A k \in {"tenant", "spec"} : Named(d, k) = Named(c, k)
    BY <1>1 DEF Named, Of
  <1>4. Named(d, "hypervisor") # {}
    BY <1>1 DEF Named
  <1>5. Reported(r, d)
    BY <1>2, <1>3, <1>4, NeedsZone DEF Reported
  <1>6. QED
    BY <1>1, <1>5 DEF d

\* A port is given a floating IP, or none.
LEMMA PortReported ==
  ASSUME NEW r \in Of("instance_network"), NEW c \in Content, Reported(r, c), NEW ip
  PROVE  LET d == [c EXCEPT !.refs = (@ \ Of("floating_ip")) \cup ({ip} \cap Of("floating_ip"))]
         IN  d \in Content /\ Reported(r, d)
  <1> DEFINE d == [c EXCEPT !.refs = (@ \ Of("floating_ip")) \cup ({ip} \cap Of("floating_ip"))]
  <1>1. d \in Content /\ d.refs = (c.refs \ Of("floating_ip")) \cup ({ip} \cap Of("floating_ip"))
    BY DEF Content, Of
  <1> HIDE DEF d
  <1>2. r \in Res /\ KindOf[r] = "instance_network"
    BY DEF Of
  <1>3. \A p \in d.refs : p \in c.refs \/ KindOf[p] = "floating_ip"
    BY <1>1 DEF Of
  <1>4. "floating_ip" \notin ColumnsOf["instance_network"].needed
    BY DEF ColumnsOf, ClusterInstanceNetwork, Columns
  <1>5. \A k \in ColumnsOf["instance_network"].needed : Named(c, k) \subseteq Named(d, k)
    BY <1>1, <1>4 DEF Named, Of
  <1>6. Reported(r, d)
    BY <1>2, <1>3, <1>5, NeedsZone DEF Reported
  <1>7. QED
    BY <1>1, <1>6 DEF d

LEMMA GetDetailsKeeps == ASSUME Inductive, GetDetails PROVE Inductive'
  <1>1. Rest /\ RowsOK /\ Typed /\ StackOK /\ Cascades
    BY Parts
  <1>2. stack # <<>> /\ Top.op = "sync" /\ Top.pc = "details"
    BY DEF GetDetails, At
  <1>3. Top \in Frame /\ FrameOK(Top) /\ Top.id \in Res /\ Top.kind = KindOf[Top.id]
    BY <1>1, <1>2, TopGood DEF FrameOK
  <1>4. UNCHANGED <<scope, cloud, db, jobVars>>
    BY DEF GetDetails
  <1>5. ASSUME Exit(TRUE), UNCHANGED eventVars \/ Fault PROVE Inductive'
    <2>1. Go(Out(Top, TRUE))
      BY <1>5 DEF Exit
    <2>2. QED
      BY <1>2, <1>3, <1>4, <1>5, <2>1, OutType, QuietGo
  <1> DEFINE Good(f) == /\ f \in Frame /\ FrameOK(f) /\ f.op = "sync"
                        /\ f.kind = Top.kind /\ f.id = Top.id
  <1>6. ASSUME NEW f, Good(f), Go(f), UNCHANGED eventVars PROVE Inductive'
    BY <1>2, <1>4, <1>6, QuietGo
  <1>7. ASSUME NEW f, Good(f), NEW c \in Content, c.here => Reported(f.id, c),
               Go(Read(f, c)), UNCHANGED eventVars
        PROVE  Inductive'
    BY <1>6, <1>7, ReadGood
  <1>8. ASSUME NEW f, Good(f), f.pc = "details", Proceed(f), UNCHANGED eventVars
        PROVE  Inductive'
    <2>1. CASE Go(Read(f, f.ans))
      BY <1>7, <1>8, <2>1, FrameParts DEF FrameOK
    <2>2. CASE Go([f EXCEPT !.next = @ + 1])
      <3> DEFINE g == [f EXCEPT !.next = @ + 1]
      <3>1. f \in Frame /\ f.next \in Nat \ {0}
        BY <1>8, FrameParts
      <3>2. g \in Frame /\ g.op = f.op /\ g.kind = f.kind /\ g.id = f.id /\ g.pc = f.pc
            /\ g.seen = f.seen /\ g.ans = f.ans /\ g.todo = f.todo /\ g.had = f.had
        BY <3>1 DEF Frame
      <3> HIDE DEF g
      <3>3. FrameOK(g)
        BY <1>8, <3>2 DEF FrameOK
      <3>4. Go(g)
        BY <2>2 DEF g
      <3>5. QED
        BY <1>6, <1>8, <3>2, <3>3, <3>4
    <2>3. QED
      BY <1>8, <2>1, <2>2 DEF Proceed
  <1>9. ASSUME Missing, UNCHANGED eventVars PROVE Inductive'
    BY <1>2, <1>3, <1>7, <1>9, AbsentType DEF Missing
  <1>10. CASE Fault /\ Exit(TRUE)
    BY <1>5, <1>10
  <1>11. ASSUME UNCHANGED eventVars, NEW request, Asking(request)
         PROVE  /\ Top.kind # "spec"
                /\ request = "ListHypervisors" => Top.kind = "instance"
                /\ request = "ShowSubnetDetails" => Top.next = 7
    BY <1>3, <1>11, DetailTable, FrameParts DEF Asking
  <1>12. Top.todo \in SUBSET Res /\ Top.want \in Res \cup {NoRes} /\ Top.next \in Nat \ {0}
         /\ Aware(Top, Top.ans, Top.seen)
    BY <1>2, <1>3, FrameParts DEF FrameOK, Aware
  <1>13. Good(Top) /\ Top.pc = "details"
    BY <1>2, <1>3
  <1>14. ASSUME NEW ans, NEW seen, Aware(Top, ans, seen), NEW todo \in SUBSET Res,
                NEW want \in Res \cup {NoRes}, NEW next \in Nat \ {0}, Top.kind # "spec"
         PROVE  /\ Good(Ask(Top, ans, seen, todo, want, next))
                /\ Ask(Top, ans, seen, todo, want, next).pc = "details"
    BY <1>2, <1>3, <1>14, AskGood
  <1>15. ASSUME NEW k, NEW h
         PROVE  /\ Aware(Top, Top.ans, SeenOf(k, h))
                /\ Aware(Top, Top.ans, [q \in Res |-> IF SeenOf(k, h)[q].here
                                                      THEN SeenOf(k, h)[q] ELSE Top.seen[q]])
    <2>1. /\ SeenOf(k, h) \in [Res -> Content]
          /\ \A r \in Res : SeenOf(k, h)[r].here => Reported(r, SeenOf(k, h)[r])
      BY <1>1, SeenOfGood
    <2>2. QED
      BY <1>12, <2>1 DEF Aware
  <1> HIDE DEF Good
  <1>20. CASE UNCHANGED eventVars /\ ListHypervisors
    <2> DEFINE host == {p \in Named(cloud[Top.id], "hypervisor") : cloud[p].here}
               ans == [Top.ans EXCEPT !.refs = (@ \ Of("hypervisor")) \cup host]
    <2>1. Asking("ListHypervisors")
          /\ (Missing \/ (host # {} /\ Proceed([Top EXCEPT !.ans.refs = (@ \ Of("hypervisor")) \cup host])))
      BY <1>20 DEF ListHypervisors
    <2>2. Top.kind = "instance"
      BY <1>11, <1>20, <2>1
    <2>3. host \in SUBSET Of("hypervisor")
      BY DEF Named
    <2>4. CASE host # {} /\ Proceed([Top EXCEPT !.ans.refs = (@ \ Of("hypervisor")) \cup host])
      <3>1. ans \in Content /\ ans.here = Top.ans.here /\ (ans.here => Reported(Top.id, ans))
        <4>1. ans \in Content /\ ans.here = Top.ans.here
          BY <1>12, <2>3 DEF Aware, Content, Of
        <4>2. Top.ans.here => Reported(Top.id, ans)
          BY <1>3, <1>12, <2>2, <2>3, <2>4, HostReported DEF Aware
        <4>3. QED
          BY <4>1, <4>2
      <3>2. [Top EXCEPT !.ans.refs = (@ \ Of("hypervisor")) \cup host]
            = Ask(Top, ans, Top.seen, Top.todo, Top.want, Top.next)
        BY <1>2, <1>3 DEF Ask, Frame
      <3> HIDE DEF ans, host
      <3>3. Aware(Top, ans, Top.seen)
        BY <1>12, <3>1 DEF Aware
      <3>4. Good(Ask(Top, ans, Top.seen, Top.todo, Top.want, Top.next))
            /\ Ask(Top, ans, Top.seen, Top.todo, Top.want, Top.next).pc = "details"
        BY <1>12, <1>14, <2>2, <3>3
      <3>5. QED
        BY <1>8, <1>20, <2>4, <3>2, <3>4
    <2>5. QED
      BY <1>9, <1>20, <2>1, <2>4
  <1>21. CASE UNCHANGED eventVars /\ ListSecurityGroupsByServer
    <2> DEFINE f == Ask(Top, Top.ans, SeenOf("instance_sg", Top.id), Top.todo, Top.want, Top.next)
    <2>1. [Top EXCEPT !.seen = SeenOf("instance_sg", Top.id)] = f
      BY <1>2, <1>3 DEF Ask, Frame
    <2>2. Good(f) /\ f.pc = "details"
      BY <1>11, <1>12, <1>14, <1>15, <1>21 DEF ListSecurityGroupsByServer
    <2> HIDE DEF f
    <2>3. QED
      BY <1>8, <1>9, <1>21, <2>1, <2>2 DEF ListSecurityGroupsByServer
  <1>22. CASE UNCHANGED eventVars /\ ListFlavors
    BY <1>8, <1>9, <1>13, <1>22 DEF ListFlavors
  <1>23. CASE UNCHANGED eventVars /\ ShowDetailVolumeAttachment
    <2>1. CASE Proceed(Top)
      BY <1>8, <1>13, <1>23, <2>1
    <2>2. CASE Missing
      BY <1>9, <1>23, <2>2
    <2>3. ASSUME NEW q \in Top.todo, Go([Top EXCEPT !.todo = @ \ {q}, !.seen[q] = cloud[q]])
          PROVE  Inductive'
      <3> DEFINE seen == [Top.seen EXCEPT ![q] = cloud[q]]
                 f == Ask(Top, Top.ans, seen, Top.todo \ {q}, Top.want, Top.next)
      <3>1. q \in Res /\ Aware(Top, Top.ans, seen)
        BY <1>1, <1>12 DEF Aware, Rest
      <3>2. [Top EXCEPT !.todo = @ \ {q}, !.seen[q] = cloud[q]] = f
        BY <1>2, <1>3 DEF Ask, Frame
      <3> HIDE DEF seen
      <3>3. Good(f)
        BY <1>11, <1>12, <1>14, <1>23, <3>1 DEF ShowDetailVolumeAttachment
      <3> HIDE DEF f
      <3>4. QED
        BY <1>6, <1>23, <2>3, <3>2, <3>3
    <2>4. QED
      BY <1>23, <2>1, <2>2, <2>3 DEF ShowDetailVolumeAttachment
  <1>24. CASE UNCHANGED eventVars /\ ListPortInterfaces
    <2> DEFINE ports == SeenOf("instance_network", Top.id)
               seen == [q \in Res |-> IF ports[q].here THEN ports[q] ELSE Top.seen[q]]
               todo == {q \in Res : ports[q].here}
               f == Ask(Top, Top.ans, seen, todo, Top.want, Top.next)
    <2>1. [Top EXCEPT !.todo = todo, !.seen = seen] = f
      BY <1>2, <1>3 DEF Ask, Frame
    <2>2. Aware(Top, Top.ans, seen) /\ todo \in SUBSET Res
      BY <1>15
    <2>3. Asking("ListPortInterfaces") /\ (Missing \/ Proceed([Top EXCEPT !.todo = todo, !.seen = seen]))
      BY <1>24 DEF ListPortInterfaces
    <2> HIDE DEF seen, todo
    <2>4. Good(f) /\ f.pc = "details"
      BY <1>11, <1>12, <1>14, <1>24, <2>2, <2>3
    <2> HIDE DEF f
    <2>5. QED
      BY <1>8, <1>9, <1>24, <2>1, <2>3, <2>4
  <1>25. CASE UNCHANGED eventVars /\ ListFloatingIPsByPortInterface
    <2>0. Top.kind # "spec"
      BY <1>11, <1>25 DEF ListFloatingIPsByPortInterface
    <2>1. CASE Go(Read(Top, Top.ans))
      BY <1>7, <1>12, <1>13, <1>25, <2>1 DEF Aware, Good
    <2>2. ASSUME Ports # {}, NEW ip \in Res \cup {NoRes}, NEW port,
                 port = [Top.seen[Port] EXCEPT !.refs =
                           (@ \ Of("floating_ip")) \cup ({ip} \cap Of("floating_ip"))],
                 Proceed([Top EXCEPT !.want = ip, !.seen[Port] = port])
          PROVE  Inductive'
      <3> DEFINE seen == [Top.seen EXCEPT ![Port] = port]
                 f == Ask(Top, Top.ans, seen, Top.todo, ip, Top.next)
      <3>1. Port \in Ports
        BY <2>2 DEF Port
      <3>2. Port \in Res /\ Port \in Of("instance_network") /\ Top.seen[Port] \in Content
        BY <1>12, <3>1 DEF Ports, Aware
      <3>3. port \in Content /\ port.here = Top.seen[Port].here
        BY <2>2, <3>2 DEF Content, Of
      <3>4. port.here => Reported(Port, port)
        BY <1>12, <2>2, <3>2, <3>3, PortReported DEF Aware
      <3>5. [Top EXCEPT !.want = ip, !.seen[Port] = port] = f
        BY <1>2, <1>3 DEF Ask, Frame
      <3>6. Aware(Top, Top.ans, seen)
        BY <1>12, <3>2, <3>3, <3>4 DEF Aware
      <3> HIDE DEF seen
      <3>7. Good(f) /\ f.pc = "details"
        BY <1>12, <1>14, <2>0, <2>2, <3>6
      <3> HIDE DEF f
      <3>8. QED
        BY <1>8, <1>25, <2>2, <3>5, <3>7
    <2>3. \A ip \in (IF Named(cloud[Port], "floating_ip") = {} THEN {Top.want}
                     ELSE Named(cloud[Port], "floating_ip")) : ip \in Res \cup {NoRes}
      BY <1>12 DEF Named, Of
    <2>4. QED
      BY <1>25, <2>1, <2>2, <2>3 DEF ListFloatingIPsByPortInterface
  <1>26. CASE UNCHANGED eventVars /\ ShowSubnetDetails
    <2> DEFINE f == Ask(Top, Top.ans, Top.seen, Top.todo \ {Port}, Top.want, Top.next - 1)
    <2>1. Asking("ShowSubnetDetails")
          /\ (Missing \/ Go([Top EXCEPT !.todo = @ \ {Port}, !.next = @ - 1]))
      BY <1>26 DEF ShowSubnetDetails
    <2>2. Top.kind # "spec" /\ Top.next = 7
      BY <1>11, <1>26, <2>1
    <2>3. [Top EXCEPT !.todo = @ \ {Port}, !.next = @ - 1] = f
      BY <1>2, <1>3 DEF Ask, Frame
    <2>4. Top.next - 1 \in Nat \ {0} /\ Top.todo \ {Port} \in SUBSET Res
      BY <1>12, <2>2
    <2>5. Good(f)
      BY <1>12, <1>14, <2>2, <2>4
    <2> HIDE DEF f
    <2>6. QED
      BY <1>6, <1>9, <1>26, <2>1, <2>3, <2>5
  <1>27. CASE UNCHANGED eventVars /\ ListAllVolumeTypes
    BY <1>5, <1>8, <1>13, <1>27 DEF ListAllVolumeTypes
  <1>28. CASE UNCHANGED eventVars /\ ShowAttachmentDetails
    BY <1>8, <1>9, <1>13, <1>28 DEF ShowAttachmentDetails
  <1>29. CASE UNCHANGED eventVars /\ ListFloatingIPs
    <2> DEFINE ips == SeenOf("floating_ip", Top.id)
               seen == [q \in Res |-> IF ips[q].here THEN ips[q] ELSE Top.seen[q]]
               f == Ask(Top, Top.ans, seen, Top.todo, Top.want, Top.next)
    <2>1. [Top EXCEPT !.seen = seen] = f
      BY <1>2, <1>3 DEF Ask, Frame
    <2>2. Aware(Top, Top.ans, seen)
      BY <1>15
    <2>3. Asking("ListFloatingIPs") /\ Proceed([Top EXCEPT !.seen = seen])
      BY <1>29 DEF ListFloatingIPs
    <2> HIDE DEF seen
    <2>4. Good(f) /\ f.pc = "details"
      BY <1>11, <1>12, <1>14, <1>29, <2>2, <2>3
    <2> HIDE DEF f
    <2>5. QED
      BY <1>8, <1>29, <2>1, <2>3, <2>4
  <1>30. CASE UNCHANGED eventVars /\ ListPorts
    <2> DEFINE f == Ask(Top, Top.ans, SeenOf("interface", Top.id), Top.todo, Top.want, Top.next)
    <2>1. [Top EXCEPT !.seen = SeenOf("interface", Top.id)] = f
      BY <1>2, <1>3 DEF Ask, Frame
    <2>2. Good(f) /\ f.pc = "details"
      BY <1>11, <1>12, <1>14, <1>15, <1>30 DEF ListPorts
    <2> HIDE DEF f
    <2>3. QED
      BY <1>8, <1>30, <2>1, <2>2 DEF ListPorts
  <1>31. QED
    BY <1>10, <1>20, <1>21, <1>22, <1>23, <1>24, <1>25, <1>26, <1>27, <1>28, <1>29, <1>30
    DEF GetDetails

LEMMA GetParentsKeeps == ASSUME Inductive, GetParents PROVE Inductive'
  <1>1. Rest /\ RowsOK /\ Typed /\ StackOK /\ Cascades
    BY Parts
  <1>2. PICK when \in {"early", "late"} :
          /\ At("sync", when)
          /\ LET missing == {p \in Top.todo : ~db[p].here}
                 order == StepsOf[Top.kind][when]
             IN  \/ missing = {} /\ Top.err /\ Exit(TRUE)
                 \/ /\ missing = {} /\ ~Top.err
                    /\ Go([Top EXCEPT !.pc = IF when = "early" THEN "row" ELSE "save",
                                      !.todo = {}])
                 \/ \E p \in Foremost(missing, order) :
                       Call([Top EXCEPT !.want = p,
                               !.todo = {q \in @ : Rank(order, q) > Rank(order, p)}],
                            IF KindOf[p] = "zone" THEN ListFrame("zone")
                                                  ELSE SyncFrame(p, Absent))
    BY DEF GetParents
  <1>3. stack # <<>> /\ Top.op = "sync" /\ Top.pc = when
    BY <1>2 DEF At
  <1>4. Top \in Frame /\ FrameOK(Top)
    BY <1>1, <1>3, TopGood
  <1>5. UNCHANGED <<scope, cloud, db, jobVars>> /\ UNCHANGED eventVars
    BY DEF GetParents
  <1>6. CASE Exit(TRUE)
    BY <1>3, <1>4, <1>5, <1>6, OutType, QuietGo DEF Exit
  <1>7. CASE Go([Top EXCEPT !.pc = IF when = "early" THEN "row" ELSE "save", !.todo = {}])
    <2> DEFINE f == [Top EXCEPT !.pc = IF when = "early" THEN "row" ELSE "save", !.todo = {}]
    <2>1. f \in Frame /\ f.op = "sync" /\ f.kind = Top.kind /\ f.seen = Top.seen
          /\ f.pc = (IF when = "early" THEN "row" ELSE "save") /\ f.id = Top.id
          /\ f.ans = Top.ans /\ f.had = Top.had /\ f.todo = {}
      BY <1>3, <1>4 DEF Frame
    <2>2. Go(f)
      BY <1>7
    <2> HIDE DEF f
    <2>3. FrameOK(f)
      BY <1>3, <1>4, <2>1 DEF FrameOK
    <2>4. QED
      BY <1>3, <1>5, <2>1, <2>2, <2>3, QuietGo
  <1>8. ASSUME NEW p \in Top.todo, NEW S \in SUBSET Top.todo,
               Call([Top EXCEPT !.want = p, !.todo = S],
                    IF KindOf[p] = "zone" THEN ListFrame("zone") ELSE SyncFrame(p, Absent))
        PROVE  Inductive'
    <2> DEFINE f == [Top EXCEPT !.want = p, !.todo = S]
               g == IF KindOf[p] = "zone" THEN ListFrame("zone") ELSE SyncFrame(p, Absent)
    <2>0. p \in Res /\ Top.kind # "spec"
      BY <1>3, <1>4, FrameParts DEF FrameOK
    <2>1. f \in Frame /\ f.op = "sync" /\ f.kind = Top.kind /\ f.seen = Top.seen
          /\ f.pc = when /\ f.id = Top.id /\ f.ans = Top.ans /\ f.had = Top.had
      BY <1>3, <1>4, <2>0 DEF Frame
    <2>2. Call(f, g)
      BY <1>8
    <2>3. "zone" \in Kind
      BY DEF Kind
    <2>4. g \in Frame /\ FrameOK(g) /\ g.op \in {"list", "sync"}
      BY <2>0, <2>3, AbsentType, ListFrameGood, SyncFrameGood
    <2> HIDE DEF f, g
    <2>5. FrameOK(f) /\ f.pc \in Calling
      BY <1>3, <1>4, <2>0, <2>1 DEF FrameOK, Calling
    <2>6. ~Watched(g) /\ ~Deleting(Top)
      BY <1>3, <2>0, <2>4 DEF Watched, Deleting
    <2>7. QED
      BY <1>3, <1>5, <2>1, <2>2, <2>4, <2>5, <2>6, QuietCall
  <1>9. QED
    BY <1>2, <1>6, <1>7, <1>8 DEF Foremost

LEMMA SyncChildListsKeeps == ASSUME Inductive, SyncChildLists PROVE Inductive'
  <1>1. Rest /\ RowsOK /\ Typed /\ StackOK /\ Cascades
    BY Parts
  <1>2. stack # <<>> /\ Top.op = "sync" /\ Top.pc = "lists"
    BY DEF SyncChildLists, At
  <1>3. Top \in Frame /\ FrameOK(Top)
    BY <1>1, <1>2, TopGood
  <1>4. UNCHANGED <<scope, cloud, db, jobVars>> /\ UNCHANGED eventVars
    BY DEF SyncChildLists
  <1> DEFINE lists == StepsOf[Top.kind].lists
             f == [Top EXCEPT !.next = @ + 1]
  <1>5. lists \in Seq(Kind) /\ (Top.kind = "spec" => lists = <<>>)
    BY <1>3, FrameParts, StepTable
  <1>6. Top.next \in Nat \ {0} /\ Top.err \in BOOLEAN
    BY <1>3, FrameParts
  <1>7. CASE Top.next > Len(lists)
    <2>1. Exit(Top.err)
      BY <1>7 DEF SyncChildLists
    <2>2. QED
      BY <1>2, <1>3, <1>4, <1>6, <2>1, OutType, QuietGo DEF Exit
  <1>8. CASE ~(Top.next > Len(lists))
    <2>1. Call(f, ChildListFrame(f, lists[Top.next]))
      BY <1>8 DEF SyncChildLists
    <2> HIDE DEF lists
    <2>2. lists[Top.next] \in Kind /\ Top.kind # "spec"
      BY <1>5, <1>6, <1>8
    <2>3. f \in Frame /\ f.op = "sync" /\ f.kind = Top.kind /\ f.seen = Top.seen
          /\ f.pc = "lists" /\ f.id = Top.id /\ f.ans = Top.ans /\ f.had = Top.had
      BY <1>2, <1>3, <1>6 DEF Frame
    <2> HIDE DEF f
    <2>4. FrameOK(f) /\ f.pc \in Calling
      BY <1>2, <1>3, <2>2, <2>3 DEF FrameOK, Calling
    <2> DEFINE g == ChildListFrame(f, lists[Top.next])
    <2>5. g \in Frame /\ FrameOK(g) /\ g.op = "list"
      BY <2>2, <2>3, <2>4, ChildListFrameGood
    <2>6. Call(f, g)
      BY <2>1
    <2> HIDE DEF g
    <2>7. ~Watched(g) /\ ~Deleting(Top)
      BY <1>2, <2>2, <2>5 DEF Watched, Deleting
    <2>8. QED
      BY <1>2, <1>4, <2>3, <2>4, <2>5, <2>6, <2>7, QuietCall
  <1>9. QED
    BY <1>7, <1>8

\* What is about to be saved has all its columns.
LEMMA WrittenFits ==
  ASSUME NEW f \in Frame, FrameOK(f), f.op = "sync", f.pc = "save"
  PROVE  /\ Written(f) \in Content /\ Fits(f.id, Written(f))
         /\ f.kind = "spec" => Written(f).refs = {}
  <1>1. /\ f.id \in Res /\ f.kind = KindOf[f.id] /\ f.ans.here /\ Fits(f.id, f.ans)
        /\ f.had.here => Fits(f.id, f.had)
    BY DEF FrameOK
  <1>2. f.ans \in Content /\ f.had \in Content
    BY FrameParts
  <1>3. KindOf[f.id] \in Kind
    BY <1>1, KindCases
  <1>4. CASE f.kind = "instance_network" /\ f.had.here
    <2> DEFINE refs == (f.had.refs \ Of("floating_ip")) \cup Named(f.ans, "floating_ip")
    <2>1. Written(f) = [f.ans EXCEPT !.refs = refs]
      BY <1>4 DEF Written
    <2>2. refs \subseteq Res
      BY <1>2 DEF Content, Named
    <2>3. \A p \in refs :
             KindOf[p] \in ColumnsOf[KindOf[f.id]].needed \cup ColumnsOf[KindOf[f.id]].optional
      BY <1>1, <1>4 DEF Fits, Reported, Named
    <2>4. \A k \in ColumnsOf[KindOf[f.id]].needed \ {"zone"} : refs \cap Of(k) # {}
      BY <1>1, <1>3, <1>4, Needed DEF Fits, Reported, Named, Of
    <2>5. "zone" \notin ColumnsOf[KindOf[f.id]].needed
      BY <1>1, <1>3, <1>4, Needed
    <2> HIDE DEF refs
    <2>6. Written(f).refs = refs /\ Written(f) \in Content
      BY <1>2, <2>1, <2>2 DEF Content
    <2>7. QED
      BY <1>1, <1>4, <2>3, <2>4, <2>5, <2>6 DEF Fits, Reported, Named
  <1>5. CASE f.kind = "instance"
    <2> DEFINE refs == {p \in f.ans.refs : KindOf[p] = "keypair" => db[p].here}
    <2>1. Written(f) = [f.ans EXCEPT !.refs = refs]
      BY <1>5 DEF Written
    <2>2. refs \subseteq Res /\ refs \subseteq f.ans.refs
      BY <1>2 DEF Content
    <2>3. \A k : k # "keypair" /\ Named(f.ans, k) # {} => refs \cap Of(k) # {}
      BY DEF Named, Of
    <2> HIDE DEF refs
    <2>4. Written(f).refs = refs /\ Written(f) \in Content
      BY <1>2, <2>1, <2>2 DEF Content
    <2>5. QED
      BY <1>1, <1>3, <1>5, <2>2, <2>3, <2>4, Needed DEF Fits, Reported, Named
  <1>6. CASE f.kind # "instance" /\ ~(f.kind = "instance_network" /\ f.had.here)
    <2>1. Written(f) = [f.ans EXCEPT !.refs = f.ans.refs]
      BY <1>6 DEF Written
    <2>2. Written(f) = f.ans
      BY <1>2, <2>1 DEF Content
    <2>3. f.kind = "spec" => f.ans.refs = {}
      BY <1>1, ColumnTable, NamesKinds DEF Fits
    <2>4. QED
      BY <1>1, <1>2, <2>2, <2>3
  <1>7. QED
    BY <1>4, <1>5, <1>6

LEMMA SaveRowKeeps == ASSUME Inductive, SaveRow PROVE Inductive'
  <1>1. Rest /\ RowsOK /\ Typed /\ StackOK /\ Cascades
    BY Parts
  <1>2. stack # <<>> /\ Top.op = "sync" /\ Top.pc = "save"
    BY DEF SaveRow, At
  <1>3. Top \in Frame /\ FrameOK(Top) /\ Top.id \in Res
    BY <1>1, <1>2, TopGood DEF FrameOK
  <1> DEFINE row == Written(Top)
             f == [Top EXCEPT !.pc = "lists"]
  <1>4. row \in Content /\ Fits(Top.id, row) /\ (Top.kind = "spec" => row.refs = {})
    BY <1>2, <1>3, WrittenFits
  <1>5. \/ db' = db
        \/ (\A p \in row.refs : db[p].here) /\ db' = [db EXCEPT ![Top.id] = row]
    BY DEF SaveRow
  <1>6. Go(f) /\ UNCHANGED <<scope, cloud, jobVars, eventVars>>
    BY DEF SaveRow
  <1> HIDE DEF row
  <1>7. RowsOK'
    <2>1. CASE (\A p \in row.refs : db[p].here) /\ db' = [db EXCEPT ![Top.id] = row]
      <3>1. db' \in [Res -> Content]
        BY <1>1, <1>3, <1>4, <2>1 DEF RowsOK
      <3>2. row.here
        BY <1>2, <1>3 DEF row, Written, FrameOK, Frame, Content
      <3>3. \A r \in Res : db'[r] = IF r = Top.id THEN row ELSE db[r]
        BY <1>1, <2>1 DEF RowsOK
      <3>4. \A r \in Res : db[r].here => db'[r].here
        BY <3>2, <3>3
      <3>5. \A r \in Res : db[r].refs \subseteq Res /\ row.refs \subseteq Res
        BY <1>1, <1>4 DEF RowsOK, Content
      <3>6. ASSUME NEW r \in Res, db'[r].here
            PROVE  Fits(r, db'[r]) /\ \A p \in db'[r].refs : db'[p].here
        BY <1>1, <1>4, <2>1, <3>3, <3>4, <3>5, <3>6 DEF RowsOK, Sound
      <3>7. QED
        BY <3>1, <3>6 DEF RowsOK, Sound
    <2>2. QED
      BY <1>1, <1>5, <2>1, RowsKept
  <1>8. f \in Frame /\ f.op = "sync" /\ f.kind = Top.kind /\ f.seen = Top.seen
        /\ f.pc = "lists" /\ f.id = Top.id /\ f.ans = Top.ans /\ f.had = Top.had
        /\ f.todo = Top.todo
    BY <1>2, <1>3 DEF Frame
  <1> HIDE DEF f
  <1>9. FrameOK(f)
    BY <1>2, <1>3, <1>8 DEF FrameOK
  <1>10. Typed' /\ StackOK'
    BY <1>1, <1>2, <1>6, <1>8, <1>9, StackGo
  <1>11. Cascades'
    <2>1. CASE Deleting(Top)
      <3>1. row.refs = {}
        BY <1>2, <1>4, <2>1 DEF Deleting
      <3>2. Shrinks
        BY <1>1, <1>5, <3>1 DEF RowsOK, Shrinks
      <3>3. QED
        BY <1>1, <1>2, <1>6, <1>8, <3>2, CascadesGo DEF Watched
    <2>2. CASE ~Deleting(Top)
      BY <1>1, <1>2, <1>6, <1>8, <2>2, CascadesVoid
    <2>3. QED
      BY <2>1, <2>2
  <1>12. QED
    BY <1>1, <1>6, <1>7, <1>10, <1>11, RestKept, Parts

LEMMA ReadRowKeeps == ASSUME Inductive, ReadRow PROVE Inductive'
  <1>1. Rest /\ RowsOK /\ Typed /\ StackOK /\ Cascades
    BY Parts
  <1>2. stack # <<>> /\ Top.op = "sync" /\ Top.pc = "row"
    BY DEF ReadRow, At
  <1>3. Top \in Frame /\ FrameOK(Top) /\ Top.id \in Res /\ Top.kind = KindOf[Top.id]
    BY <1>1, <1>2, TopGood DEF FrameOK
  <1>4. UNCHANGED <<scope, cloud, jobVars>> /\ UNCHANGED eventVars
    BY DEF ReadRow
  <1>5. db \in [Res -> Content] /\ Sound(db)
    BY <1>1 DEF RowsOK
  <1>6. ASSUME NEW e \in BOOLEAN, Exit(e), UNCHANGED db PROVE Inductive'
    BY <1>2, <1>3, <1>4, <1>6, OutType, QuietGo DEF Exit
  \* The row is deleted by the function that is called.
  <1>7. ASSUME NEW g \in Frame, FrameOK(g), g.op = "delete",
               Watched(g) => \A q \in Res \ {g.id} : Naming(db, g, q) => q \in g.todo,
               Call([Top EXCEPT !.pc = "gone"], g), UNCHANGED db
        PROVE  Inductive'
    <2> DEFINE f == [Top EXCEPT !.pc = "gone"]
    <2>1. f \in Frame /\ f.op = "sync" /\ f.kind = Top.kind /\ f.seen = Top.seen
          /\ f.pc = "gone" /\ f.id = Top.id /\ f.ans = Top.ans /\ f.had = Top.had
          /\ f.todo = Top.todo
      BY <1>2, <1>3 DEF Frame
    <2>2. Call(f, g)
      BY <1>7
    <2> HIDE DEF f
    <2>3. FrameOK(f) /\ f.pc \in Calling
      BY <1>2, <1>3, <2>1 DEF FrameOK, Calling
    <2>4. Deleting(g)
      BY <1>7 DEF Deleting
    <2>5. QED
      BY <1>2, <1>4, <1>7, <2>1, <2>2, <2>3, <2>4, QuietCall
  \* The function goes on.
  <1>8. ASSUME NEW pc \in {"lists", "late"}, NEW S \in SUBSET Res,
               pc = "late" => Top.ans.here /\ Fits(Top.id, Top.ans),
               Top.kind = "spec" => S = {},
               Go([Top EXCEPT !.pc = pc, !.had = db[Top.id], !.todo = S]), UNCHANGED db
        PROVE  Inductive'
    <2> DEFINE f == [Top EXCEPT !.pc = pc, !.had = db[Top.id], !.todo = S]
    <2>1. f \in Frame /\ f.op = "sync" /\ f.kind = Top.kind /\ f.seen = Top.seen
          /\ f.pc = pc /\ f.id = Top.id /\ f.ans = Top.ans /\ f.had = db[Top.id]
          /\ f.todo = S
      BY <1>2, <1>3, <1>5 DEF Frame
    <2>2. Go(f)
      BY <1>8
    <2>3. db[Top.id].here => Fits(Top.id, db[Top.id])
      BY <1>3, <1>5 DEF Sound
    <2> HIDE DEF f
    <2>4. FrameOK(f)
      BY <1>2, <1>3, <1>8, <2>1, <2>3 DEF FrameOK
    <2>5. QED
      BY <1>2, <1>4, <1>8, <2>1, <2>2, <2>4, QuietGo
  <1> DEFINE row == db[Top.id]
  <1>9. CASE ~Top.ans.here /\ row.here
    <2>1. Call([Top EXCEPT !.pc = "gone"], DeleteFrame(Top.id)) /\ UNCHANGED db
      BY <1>9 DEF ReadRow
    <2>2. DeleteFrame(Top.id) \in Frame /\ FrameOK(DeleteFrame(Top.id))
          /\ DeleteFrame(Top.id).op = "delete"
      BY <1>3, <1>5, DeleteFrameGood
    <2>3. Watched(DeleteFrame(Top.id)) => \A q \in Res \ {DeleteFrame(Top.id).id} :
             Naming(db, DeleteFrame(Top.id), q) => q \in DeleteFrame(Top.id).todo
      BY <1>3, <1>5, DeleteFrameCovers
    <2>4. QED
      BY <1>7, <2>1, <2>2, <2>3
  <1>11. CASE ~Top.ans.here /\ ~row.here /\ Top.kind = "snapshot"
    <2>1. /\ db' = [r \in Res |-> IF KindOf[r] = "snapshot" THEN Absent ELSE db[r]]
          /\ Go(Out(Top, FALSE))
      BY <1>11 DEF ReadRow, Exit
    <2>2. \A q \in Res : db[q].here => db[q].refs \cap Of("snapshot") = {}
      BY <1>1, Unnamed DEF Of
    <2>3. db' = [r \in Res |-> IF r \in Of("snapshot") THEN Absent ELSE db[r]]
      BY <2>1 DEF Of
    <2>4. RowsOK'
      BY <1>1, <2>2, <2>3, Removal
    <2>5. ~Deleting(Top)
      BY <1>2, <1>11 DEF Deleting
    <2>6. Typed' /\ StackOK' /\ Cascades'
      BY <1>1, <1>2, <1>3, <2>1, <2>5, OutType, StackGo, CascadesVoid
    <2>7. QED
      BY <1>1, <1>4, <2>4, <2>6, RestKept, Parts
  <1>12. CASE ~Top.ans.here /\ ~row.here /\ Top.kind # "snapshot"
    <2>1. Exit(FALSE) /\ UNCHANGED db
      BY <1>12 DEF ReadRow
    <2>2. QED
      BY <1>6, <2>1
  <1>13. CASE Top.ans.here /\ row.here /\ Unchanged(Top.kind, row, Top.ans)
    <2>1. Go([Top EXCEPT !.pc = "lists", !.had = row]) /\ UNCHANGED db
      BY <1>13 DEF ReadRow
    <2>2. [Top EXCEPT !.pc = "lists", !.had = row]
            = [Top EXCEPT !.pc = "lists", !.had = row, !.todo = Top.todo]
      BY <1>3 DEF Frame
    <2>3. Top.todo \in SUBSET Res /\ (Top.kind = "spec" => Top.todo = {})
      BY <1>2, <1>3, FrameParts DEF FrameOK
    <2>4. QED
      BY <1>8, <2>1, <2>2, <2>3
  <1>14. CASE Top.ans.here /\ ~(row.here /\ Unchanged(Top.kind, row, Top.ans))
    <2>1. /\ IF Top.kind = "hypervisor" /\ Named(Top.ans, "zone") = {}
             THEN Exit(FALSE)
             ELSE Go([Top EXCEPT !.pc = "late", !.had = row,
                                 !.todo = ParentsOf(Top.id, Top.ans, "late")])
          /\ UNCHANGED db
      BY <1>14 DEF ReadRow
    <2>2. CASE Top.kind = "hypervisor" /\ Named(Top.ans, "zone") = {}
      BY <1>6, <2>1, <2>2
    <2>3. CASE ~(Top.kind = "hypervisor" /\ Named(Top.ans, "zone") = {})
      <3>1. Top.ans \in Content
        BY <1>3, FrameParts
      <3>2. /\ ParentsOf(Top.id, Top.ans, "late") \in SUBSET Res
            /\ Top.kind = "spec" => ParentsOf(Top.id, Top.ans, "late") = {}
        BY <1>3, <3>1, ParentsGood
      <3>3. Fits(Top.id, Top.ans)
        <4>1. Reported(Top.id, Top.ans) /\ (Top.kind = "instance" => Fits(Top.id, Top.ans))
          BY <1>2, <1>3, <1>14 DEF FrameOK
        <4>2. QED
          BY <1>3, <2>3, <4>1, FitsIsReported
      <3>4. QED
        BY <1>8, <1>14, <2>1, <2>3, <3>2, <3>3
    <2>4. QED
      BY <2>2, <2>3
  <1>15. QED
    BY <1>9, <1>11, <1>12, <1>13, <1>14

\* A floating IP or a key pair can be taken out of any row.
LEMMA DetachFits ==
  ASSUME NEW r \in Res, NEW c \in Content, Fits(r, c), NEW p \in Res,
         KindOf[p] \in {"floating_ip", "keypair"}
  PROVE  Fits(r, [c EXCEPT !.refs = @ \ {p}])
  <1> DEFINE d == [c EXCEPT !.refs = @ \ {p}]
  <1>1. d.refs = c.refs \ {p}
    BY DEF Content
  <1> HIDE DEF d
  <1>2. Reported(r, c) /\ KindOf[r] \in Kind
    BY KindCases DEF Fits
  <1>3. \A k : k \notin {"floating_ip", "keypair"} /\ Named(c, k) # {} => Named(d, k) # {}
    BY <1>1 DEF Named, Of
  <1>4. KindOf[r] = "rule" => Home[r] \in d.refs
    <2>1. KindOf[r] = "rule" => KindOf[Home[r]] = "security_group" /\ Home[r] \in c.refs
      BY <1>2, NamesKinds, ColumnTable DEF Reported
    <2>2. QED
      BY <1>1, <2>1
  <1>5. Reported(r, d)
    BY <1>1, <1>2, <1>3, <1>4, Needed DEF Reported
  <1>6. Fits(r, d)
    BY <1>3, <1>5 DEF Fits
  <1>7. QED
    BY <1>6 DEF d

LEMMA DropDependentKeeps == ASSUME Inductive, DropDependent PROVE Inductive'
  <1>1. Rest /\ RowsOK /\ Typed /\ StackOK /\ Cascades
    BY Parts
  <1>2. stack # <<>> /\ Top.op = "delete" /\ Top.pc = "drop"
    BY DEF DropDependent, At
  <1>3. Top \in Frame /\ FrameOK(Top)
    BY <1>1, <1>2, TopGood
  <1>4. UNCHANGED <<scope, cloud, jobVars>> /\ UNCHANGED eventVars
    BY DEF DropDependent
  <1>5. PICK r \in Foremost(Top.todo, DependentsOf[Top.kind]) :
          LET f == [Top EXCEPT !.todo = @ \ {r}]
          IN  IF Top.kind \in {"floating_ip", "keypair"}
              THEN db' = [db EXCEPT ![r].refs = @ \ {Top.id}] /\ Go(f)
              ELSE Call(f, DeleteFrame(r)) /\ UNCHANGED db
    BY DEF DropDependent
  <1>6. r \in Top.todo /\ r \in Res /\ Top.todo \subseteq Res
    BY <1>3, FrameParts DEF Foremost
  <1> DEFINE f == [Top EXCEPT !.todo = @ \ {r}]
  <1>7. f \in Frame /\ f.op = "delete" /\ f.kind = Top.kind /\ f.seen = Top.seen
        /\ f.pc = "drop" /\ f.id = Top.id /\ f.todo = Top.todo \ {r}
    BY <1>2, <1>3 DEF Frame
  <1>8. db \in [Res -> Content] /\ Sound(db)
    BY <1>1 DEF RowsOK
  <1>9. CASE Top.kind \in {"floating_ip", "keypair"}
    <2>1. db' = [db EXCEPT ![r].refs = @ \ {Top.id}] /\ Go(f)
      BY <1>5, <1>9
    <2> HIDE DEF f
    <2>2. FrameOK(f)
      BY <1>2, <1>3, <1>7 DEF FrameOK
    <2>3. Top.id \in Res /\ KindOf[Top.id] = Top.kind
      BY <1>2, <1>3, <1>9, FrameParts DEF FrameOK
    <2>4. \A q \in Res : db'[q] = IF q = r THEN [db[r] EXCEPT !.refs = @ \ {Top.id}] ELSE db[q]
      BY <1>6, <1>8, <2>1
    <2>5. db' \in [Res -> Content]
      BY <1>6, <1>8, <2>1 DEF Content
    <2>6. \A q \in Res : /\ db'[q].here = db[q].here
                         /\ db'[q].refs = IF q = r THEN db[q].refs \ {Top.id} ELSE db[q].refs
      BY <1>6, <1>8, <2>4 DEF Content
    <2>7. \A q \in Res : db[q].here => Fits(q, db'[q])
      BY <1>6, <1>8, <1>9, <2>3, <2>4, DetachFits DEF Sound
    <2>8. RowsOK' /\ Shrinks
      <3>1. \A q \in Res : db[q].refs \subseteq Res
        BY <1>8 DEF Content
      <3>2. QED
        BY <1>8, <2>5, <2>6, <2>7, <3>1 DEF RowsOK, Sound, Shrinks
    <2>10. \A q \in Res : q \in Top.todo \ f.todo => ~Naming(db', f, q)
      BY <1>6, <1>7, <2>6 DEF Naming
    <2>11. Typed' /\ StackOK'
      BY <1>1, <1>2, <1>7, <2>1, <2>2, StackGo
    <2>12. Cascades'
      BY <1>1, <1>2, <1>7, <2>1, <2>8, <2>10, CascadesGo
    <2>13. QED
      BY <1>1, <1>4, <2>8, <2>11, <2>12, RestKept, Parts
  <1>10. CASE Top.kind \notin {"floating_ip", "keypair"}
    <2> DEFINE g == DeleteFrame(r)
    <2>1. Call(f, g) /\ UNCHANGED db
      BY <1>5, <1>10
    <2>2. g \in Frame /\ FrameOK(g) /\ g.op = "delete" /\ g.pc = "drop" /\ g.id = r
      BY <1>6, <1>8, DeleteFrameGood
    <2>3. Watched(g) => \A q \in Res \ {g.id} : Naming(db, g, q) => q \in g.todo
      BY <1>6, <1>8, DeleteFrameCovers
    <2> HIDE DEF f, g
    <2>4. FrameOK(f) /\ f.pc \in Calling
      BY <1>2, <1>3, <1>7 DEF FrameOK, Calling
    <2>5. RowsOK' /\ Shrinks
      BY <1>1, <2>1, RowsKept
    <2>6. Deleting(g)
      BY <2>2 DEF Deleting
    <2>7. \A q \in Res : q \in Top.todo \ f.todo => Going(g, q)
      BY <1>7, <2>2 DEF Going
    <2>8. Watched(g) => \A q \in Res \ {g.id} : Naming(db', g, q) => q \in g.todo
      BY <2>1, <2>3
    <2>9. Typed' /\ StackOK'
      BY <1>1, <1>2, <1>7, <2>1, <2>2, <2>4, <2>6, StackCall
    <2>10. Cascades'
      BY <1>1, <1>2, <1>7, <2>1, <2>2, <2>5, <2>7, <2>8, CascadesCall
    <2>11. QED
      BY <1>1, <1>4, <2>5, <2>9, <2>10, RestKept, Parts
  <1>11. QED
    BY <1>9, <1>10

\* DeletesGoThrough follows from Cascades.
LEMMA NotRefused ==
  ASSUME Typed, Cascades
  PROVE  DeletesGoThrough
  <1> SUFFICES ASSUME At("delete", "drop"), Top.todo = {},
                      Top.kind \notin {"spec", "security_group"}
               PROVE  ~NamedByOthers(Top.id)
    BY DEF DeletesGoThrough
  <1>1. stack # <<>> /\ Watched(Top)
    BY DEF At, Watched
  <1>2. Top = stack[1] /\ 1 \in DOMAIN stack
    BY <1>1, TopOfStack DEF Typed, Top
  <1>3. Covered(stack, db, 1)
    BY <1>2, CascadesCovers
  <1>4. QED
    BY <1>1, <1>2, <1>3 DEF Covered, Naming, NamedByOthers

LEMMA DeleteRowKeeps == ASSUME Inductive, DeleteRow PROVE Inductive'
  <1>1. Rest /\ RowsOK /\ Typed /\ StackOK /\ Cascades
    BY Parts
  <1>2. At("delete", "drop") /\ stack # <<>> /\ Top.op = "delete" /\ Top.pc = "drop" /\ Top.todo = {}
    BY DEF DeleteRow, At
  <1>3. Top \in Frame /\ FrameOK(Top)
    BY <1>1, <1>2, TopGood
  <1>4. UNCHANGED <<scope, cloud, jobVars>> /\ UNCHANGED eventVars
    BY DEF DeleteRow
  <1> DEFINE refused == NamedByOthers(Top.id)
             spec == {p \in Named(Top.had, "spec") : Top.kind = "instance"}
  <1>5. /\ db' = IF refused THEN db ELSE [db EXCEPT ![Top.id] = Absent]
        /\ IF spec = {} THEN Exit(refused /\ Top.kind = "security_group")
           ELSE \E p \in spec : Call([Top EXCEPT !.pc = "spec"], SyncFrame(p, Absent))
    BY DEF DeleteRow
  <1>6. Top.kind \notin {"spec", "security_group"} => ~refused
    BY <1>1, <1>2, NotRefused DEF DeletesGoThrough
  <1>7. RowsOK' /\ Shrinks
    <2>1. CASE refused
      BY <1>1, <1>5, <2>1, RowsKept
    <2>2. CASE ~refused
      <3>1. \A q \in Res \ {Top.id} : db[q].here => db[q].refs \cap {Top.id} = {}
        BY <2>2 DEF NamedByOthers
      <3>2. db' = [q \in Res |-> IF q \in {Top.id} THEN Absent ELSE db[q]]
        BY <1>1, <1>5, <2>2 DEF RowsOK
      <3>3. QED
        BY <1>1, <3>1, <3>2, Removal
    <2>3. QED
      BY <2>1, <2>2
  \* The row is gone, or it names nothing, or the caller hears of it.
  <1>8. Top.id \in Res =>
          \/ refused /\ Top.kind = "security_group"
          \/ ~(db'[Top.id].here /\ db'[Top.id].refs # {})
    <2> SUFFICES ASSUME Top.id \in Res, ~(refused /\ Top.kind = "security_group")
                 PROVE  ~(db'[Top.id].here /\ db'[Top.id].refs # {})
      OBVIOUS
    <2>1. Top.kind = KindOf[Top.id] /\ db \in [Res -> Content]
      BY <1>1, <1>2, <1>3 DEF FrameOK, RowsOK
    <2>2. CASE ~refused
      BY <1>5, <2>1, <2>2, AbsentType
    <2>3. CASE refused
      <3>1. Top.kind = "spec" /\ db' = db
        BY <1>5, <1>6, <2>3
      <3>2. db[Top.id].here => Reported(Top.id, db[Top.id])
        BY <1>1 DEF RowsOK, Sound, Fits
      <3>3. db[Top.id].here => db[Top.id].refs = {}
        BY <2>1, <3>1, <3>2, NamesKinds, ColumnTable
      <3>4. QED
        BY <3>1, <3>3
    <2>4. QED
      BY <2>2, <2>3
  <1>9. CASE spec = {}
    <2> DEFINE e == refused /\ Top.kind = "security_group"
               f == Out(Top, e)
    <2>1. Go(f) /\ e \in BOOLEAN
      BY <1>5, <1>9 DEF Exit
    <2>2. f \in Frame /\ f.op = "delete" /\ f.kind = Top.kind /\ f.id = Top.id
          /\ f.pc = "out" /\ f.err = e /\ FrameOK(f)
      BY <1>2, <1>3, <2>1, OutType
    <2>3. Top.id \in Res => (f.pc = "out" /\ f.err) \/ ~(db'[Top.id].here /\ db'[Top.id].refs # {})
      BY <1>8, <2>2
    <2> HIDE DEF e, f
    <2>4. Typed' /\ StackOK'
      BY <1>1, <1>2, <2>1, <2>2, StackGo
    <2>5. Cascades'
      BY <1>1, <1>2, <1>7, <2>1, <2>2, <2>3, CascadesGo DEF Watched
    <2>6. QED
      BY <1>1, <1>4, <1>7, <2>4, <2>5, RestKept, Parts
  <1>10. CASE spec # {}
    <2>1. PICK p \in spec : Call([Top EXCEPT !.pc = "spec"], SyncFrame(p, Absent))
      BY <1>5, <1>10
    <2> DEFINE f == [Top EXCEPT !.pc = "spec"]
               g == SyncFrame(p, Absent)
    <2>2. Top.kind = "instance" /\ p \in Res /\ KindOf[p] = "spec"
      BY <1>3 DEF Named, Of
    <2>3. Call(f, g)
      BY <2>1
    <2>4. f \in Frame /\ f.op = "delete" /\ f.kind = Top.kind /\ f.id = Top.id
          /\ f.pc = "spec" /\ f.seen = Top.seen
      BY <1>2, <1>3 DEF Frame
    <2>5. g \in Frame /\ FrameOK(g) /\ g.op = "sync" /\ g.kind = "spec"
      BY <2>2, AbsentType, SyncFrameGood
    <2> HIDE DEF f, g
    <2>6. FrameOK(f) /\ f.pc \in Calling
      BY <1>2, <1>3, <2>2, <2>4 DEF FrameOK, Calling
    <2>7. Deleting(g) /\ ~Watched(g) /\ ~Watched(f)
      BY <2>4, <2>5 DEF Deleting, Watched
    <2>8. Typed' /\ StackOK'
      BY <1>1, <1>2, <2>3, <2>4, <2>5, <2>6, <2>7, StackCall
    <2>9. Cascades'
      BY <1>1, <1>2, <1>7, <1>8, <2>2, <2>3, <2>4, <2>5, <2>7, CascadesCall
    <2>10. QED
      BY <1>1, <1>4, <1>7, <2>8, <2>9, RestKept, Parts
  <1>11. QED
    BY <1>9, <1>10

LEMMA ErrType ==
  ASSUME NEW f \in Frame, FrameOK(f), NEW b \in BOOLEAN
  PROVE  LET h == [f EXCEPT !.err = b]
         IN  /\ h \in Frame /\ FrameOK(h)
             /\ h.op = f.op /\ h.kind = f.kind /\ h.id = f.id /\ h.pc = f.pc
  <1> DEFINE h == [f EXCEPT !.err = b]
  <1>1. /\ h \in Frame /\ h.op = f.op /\ h.kind = f.kind /\ h.id = f.id /\ h.pc = f.pc
        /\ h.seen = f.seen /\ h.todo = f.todo /\ h.ans = f.ans /\ h.had = f.had
    BY DEF Frame
  <1> HIDE DEF h
  <1>2. FrameOK(h)
    BY <1>1 DEF FrameOK
  <1>3. QED
    BY <1>1, <1>2 DEF h

LEMMA AfterGood ==
  ASSUME NEW f \in Frame, FrameOK(f), f.pc \in Calling, NEW e \in BOOLEAN
  PROVE  /\ After(f, e) \in Frame /\ FrameOK(After(f, e))
         /\ After(f, e).op = f.op /\ After(f, e).kind = f.kind /\ After(f, e).id = f.id
         /\ f.pc = "drop" => After(f, e) = IF e THEN Out(f, TRUE) ELSE f
         /\ f.pc # "drop" => After(f, e).pc # "drop"
  <1>1. CASE f.pc = "drop"
    <2>1. After(f, e) = IF e THEN Out(f, TRUE) ELSE f
      BY <1>1 DEF After
    <2>2. QED
      BY <1>1, <2>1, OutType
  <1>2. CASE f.pc = "each"
    <2>1. After(f, e) = IF e /\ f.kind \in Association THEN Out(f, TRUE)
                        ELSE [f EXCEPT !.err = IF f.kind = "security_group" THEN e ELSE @ \/ e]
      BY <1>2 DEF After
    <2>2. CASE e /\ f.kind \in Association
      BY <1>2, <2>1, <2>2, OutType
    <2>3. CASE ~(e /\ f.kind \in Association)
      <3> DEFINE x == IF f.kind = "security_group" THEN e ELSE f.err \/ e
      <3>1. After(f, e) = [f EXCEPT !.err = x] /\ x \in BOOLEAN
        BY <2>1, <2>3
      <3> HIDE DEF x
      <3>2. QED
        BY <1>2, <3>1, ErrType
    <2>4. QED
      BY <2>2, <2>3
  <1>3. CASE f.pc \in {"early", "late"}
    <2>1. After(f, e) = AfterLookup(f, e)
      BY <1>3 DEF After
    <2> DEFINE g == [f EXCEPT !.want = NoRes]
    <2>2. g \in Frame /\ FrameOK(g) /\ g.op = f.op /\ g.kind = f.kind /\ g.id = f.id /\ g.pc = f.pc
      BY <1>3 DEF Frame, FrameOK
    <2>3. \/ AfterLookup(f, e) = g \/ AfterLookup(f, e) = [g EXCEPT !.err = TRUE]
          \/ \E b \in BOOLEAN : AfterLookup(f, e) = Out(g, b)
      BY DEF AfterLookup
    <2> HIDE DEF g
    <2>4. CASE AfterLookup(f, e) = g
      BY <1>3, <2>1, <2>2, <2>4
    <2>5. CASE AfterLookup(f, e) = [g EXCEPT !.err = TRUE]
      <3> DEFINE h == [g EXCEPT !.err = TRUE]
      <3>1. /\ h \in Frame /\ FrameOK(h)
            /\ h.op = g.op /\ h.kind = g.kind /\ h.id = g.id /\ h.pc = g.pc
        BY <2>2, ErrType
      <3>2. After(f, e) = h
        BY <2>1, <2>5
      <3> HIDE DEF h
      <3>3. QED
        BY <1>3, <2>2, <3>1, <3>2
    <2>6. ASSUME NEW b \in BOOLEAN, AfterLookup(f, e) = Out(g, b)
          PROVE  /\ After(f, e) \in Frame /\ FrameOK(After(f, e)) /\ After(f, e).op = f.op
                 /\ After(f, e).kind = f.kind /\ After(f, e).id = f.id /\ After(f, e).pc = "out"
      BY <2>1, <2>2, <2>6, OutType
    <2>7. CASE \E b \in BOOLEAN : AfterLookup(f, e) = Out(g, b)
      BY <1>3, <2>6, <2>7
    <2>8. QED
      BY <2>3, <2>4, <2>5, <2>7
  <1>4. CASE f.pc = "gone"
    <2>1. After(f, e) = Out(f, e)
      BY <1>4 DEF After
    <2>2. QED
      BY <1>4, <2>1, OutType
  <1>5. CASE f.pc = "spec"
    <2>1. After(f, e) = Out(f, FALSE)
      BY <1>5 DEF After
    <2>2. QED
      BY <1>5, <2>1, OutType
  <1>6. CASE f.pc = "lists"
    <2>1. After(f, e) = [f EXCEPT !.err = e]
      BY <1>6 DEF After
    <2>2. QED
      BY <1>6, <2>1, ErrType
  <1>7. QED
    BY <1>1, <1>2, <1>3, <1>4, <1>5, <1>6 DEF Calling

LEMMA ReturnKeeps == ASSUME Inductive, Return PROVE Inductive'
  <1>1. Rest /\ RowsOK /\ Typed /\ StackOK /\ Cascades
    BY Parts
  <1>2. stack # <<>> /\ Top.pc = "out" /\ UNCHANGED <<scope, cloud, db, phase, round, turn, eventVars>>
    BY DEF Return
  <1>3. Top \in Frame /\ Top = stack[1] /\ DOMAIN stack = 1 .. Len(stack) /\ Len(stack) \in Nat \ {0}
    BY <1>1, <1>2, TopOfStack DEF Typed, Top
  <1>4. RowsOK'
    BY <1>1, <1>2, RowsKept
  <1>5. CASE Len(stack) = 1
    <2>1. stack' = <<>> /\ done' = IF Top.err \/ Top.kind = "spec" THEN done ELSE done \cup {Top.kind}
      BY <1>5 DEF Return
    <2>2. Top.kind \in Range(ListOrder)
      BY <1>1, <1>2, <1>3, <1>5 DEF StackOK
    <2>3. Rest'
      <3>1. done' \subseteq Lists
        BY <1>1, <2>1, <2>2 DEF Rest, Lists
      <3>2. QED
        BY <1>1, <1>2, <3>1 DEF Rest, eventVars
    <2>4. Typed' /\ StackOK'
      BY <2>1 DEF Typed, StackOK
    <2>5. Cascades'
      BY <2>1, CascadesCovers
    <2>6. QED
      BY <1>4, <2>3, <2>4, <2>5, Parts
  <1>6. CASE Len(stack) # 1
    <2> DEFINE f == After(stack[2], Top.err)
    <2>1. stack' = <<f>> \o Tail(Tail(stack)) /\ UNCHANGED done
      BY <1>6 DEF Return
    <2>2. stack[2] \in Frame /\ FrameOK(stack[2]) /\ stack[2].pc \in Calling /\ Top.err \in BOOLEAN
      <3>1. 2 \in DOMAIN stack /\ 2 > 1
        BY <1>3, <1>6
      <3>2. QED
        BY <1>1, <1>3, <3>1, FrameParts DEF Typed, StackOK
    <2>3. /\ f \in Frame /\ FrameOK(f) /\ f.op = stack[2].op /\ f.kind = stack[2].kind
          /\ f.id = stack[2].id
          /\ stack[2].pc = "drop" => f = IF Top.err THEN Out(stack[2], TRUE) ELSE stack[2]
          /\ stack[2].pc # "drop" => f.pc # "drop"
      BY <2>2, AfterGood
    <2> HIDE DEF f
    <2>4. Pop(Frame, stack, f, stack')
      BY <1>1, <1>2, <1>6, <2>1, <2>3, Popped DEF Typed
    <2>5. Typed' /\ StackOK'
      BY <1>1, <1>2, <1>6, <2>3, <2>4, StackReturn
    <2>6. /\ Watched(f) => f = stack[2] /\ ~Top.err
          /\ stack[2].pc = "drop" => f.pc = "drop" \/ (f.pc = "out" /\ f.err)
      BY <2>2, <2>3, OutType DEF Watched
    <2>7. stack[2].pc # "out"
      BY <2>2 DEF Calling
    <2>8. Cascades'
      BY <1>1, <1>2, <1>6, <2>3, <2>4, <2>6, <2>7, CascadesReturn
    <2>9. Rest'
      BY <1>1, <1>2, <2>1 DEF Rest, eventVars
    <2>10. QED
      BY <1>4, <2>5, <2>8, <2>9, Parts
  <1>7. QED
    BY <1>5, <1>6

\* The next list of a pass exists.
LEMMA LeastOf ==
  ASSUME NEW S \in SUBSET (1 .. 12), S # {}
  PROVE  \E i \in S : \A j \in S : i <= j
  <1>1. \/ 1 \in S \/ 2 \in S \/ 3 \in S \/ 4 \in S \/ 5 \in S \/ 6 \in S
        \/ 7 \in S \/ 8 \in S \/ 9 \in S \/ 10 \in S \/ 11 \in S \/ 12 \in S
    <2>1. PICK i : i \in S
      OBVIOUS
    <2>2. i \in 1 .. 12
      BY <2>1
    <2>3. i \in {1, 2, 3, 4, 5, 6, 7, 8, 9, 10, 11, 12}
      BY <2>2
    <2>4. QED
      BY <2>1, <2>3
  <1>2. QED
    BY <1>1

LEMMA ListOrderType ==
  /\ Len(ListOrder) = 12 /\ DOMAIN ListOrder = 1 .. 12
  /\ \A i \in 1 .. 12 : ListOrder[i] \in Kind /\ ListOrder[i] \in Range(ListOrder)
  BY DEF ListOrder, Kind, Association, Range

LEMMA NextListKeeps == ASSUME Inductive, NextList PROVE Inductive'
  <1>1. Rest /\ RowsOK /\ Typed /\ StackOK /\ Cascades
    BY Parts
  <1>2. /\ Left # {} /\ turn' = CHOOSE i \in Left : \A j \in Left : i <= j
        /\ stack' = <<ListFrame(ListOrder[turn'])>>
        /\ UNCHANGED <<scope, cloud, db, phase, round, done, eventVars>>
    BY DEF NextList
  <1>3. Left \in SUBSET (1 .. 12)
    BY ListOrderType DEF Left
  <1>4. \E i \in Left : \A j \in Left : i <= j
    BY <1>2, <1>3, LeastOf
  <1>5. turn' \in Left
    BY <1>2, <1>4
  <1> DEFINE f == ListFrame(ListOrder[turn'])
  <1>6. turn' \in 1 .. 12 /\ ListOrder[turn'] \in Kind /\ ListOrder[turn'] \in Range(ListOrder)
    BY <1>3, <1>5, ListOrderType
  <1>7. f \in Frame /\ FrameOK(f) /\ f.op = "list" /\ f.kind \in Range(ListOrder)
    BY <1>6, ListFrameGood
  <1>8. stack' = <<f>>
    BY <1>2
  <1> HIDE DEF f
  <1>9. Typed' /\ StackOK'
    BY <1>7, <1>8 DEF Typed, StackOK
  <1>10. Cascades'
    BY <1>7, <1>8, CascadesCovers DEF Covered, Watched
  <1>11. Rest'
    BY <1>1, <1>2, <1>6, ListOrderType DEF Rest, eventVars
  <1>12. QED
    BY <1>1, <1>2, <1>9, <1>10, <1>11, RowsKept, Parts

\* A step that leaves the rows and the functions alone.
LEMMA OtherKept ==
  ASSUME Inductive, Rest', UNCHANGED <<db, stack>>
  PROVE  Inductive'
  <1>1. RowsOK /\ Typed /\ StackOK /\ Cascades
    BY Parts
  <1>2. RowsOK'
    BY <1>1, RowsKept
  <1>3. Typed' /\ StackOK'
    BY <1>1 DEF Typed, StackOK
  <1>4. Cascades'
    BY <1>1, CascadesCovers
  <1>5. QED
    BY <1>2, <1>3, <1>4, Parts

LEMMA JobKeeps == ASSUME Inductive, BeginJob \/ EndRound PROVE Inductive'
  <1>1. Rest
    BY Parts
  <1>2. CASE BeginJob
    BY <1>1, <1>2, OtherKept DEF BeginJob, Rest, eventVars
  <1>3. CASE EndRound
    <2>1. UNCHANGED <<scope, cloud, db, stack, done, eventVars>>
      BY <1>3 DEF EndRound
    <2>2. phase' \in {"idle", "run", "end"} /\ round' \in 1 .. MaxRound /\ turn' \in 0 .. Len(ListOrder)
      BY <1>1, <1>3, ListOrderType, ResourceSyncAssumption DEF EndRound, Rest
    <2>3. Rest'
      BY <1>1, <2>1, <2>2 DEF Rest, eventVars
    <2>4. QED
      BY <2>1, <2>3, OtherKept
  <1>4. QED
    BY <1>2, <1>3

LEMMA ChangeKeeps == ASSUME Inductive, Change PROVE Inductive'
  <1>1. Rest
    BY Parts
  <1>2. UNCHANGED <<scope, db, stack, jobVars, faulty>>
    BY DEF Change
  <1>3. events' \in 0 .. MaxEvent
    BY <1>1, ResourceSyncAssumption DEF Change, Rest
  <1>4. PICK r \in scope \ Of("script") : Vanish(r) \/ \E c \in Form[r] : Take(r, c)
    BY DEF Change
  <1>5. r \in Res
    BY <1>1, <1>4, ResourceSyncAssumption DEF Rest
  <1> DEFINE Clouded == /\ cloud' \in [Res -> Content]
                        /\ \A q \in Res : cloud'[q].here => Reported(q, cloud'[q])
                        /\ touched' \subseteq Res
  <1>6. CASE Vanish(r)
    <2> DEFINE gone == GoesWith(r)
    <2>1. gone \subseteq Res /\ r \in gone
      BY <1>5 DEF GoesWith
    <2>2. /\ KindOf[r] \in Loose \/ \A q \in Res \ gone : cloud[q].refs \cap gone = {}
          /\ cloud' = [q \in Res |->
               IF q \in gone THEN Absent
               ELSE IF KindOf[q] = "instance_network"
                    THEN [cloud[q] EXCEPT !.refs = @ \ {r}] ELSE cloud[q]]
          /\ touched' = IF phase = "run" THEN touched \cup gone ELSE touched
      BY <1>6 DEF Vanish
    <2> HIDE DEF gone
    <2>3. \A q \in Res : cloud[q] \in Content
      BY <1>1 DEF Rest
    <2>4. cloud' \in [Res -> Content]
      BY <2>2, <2>3, AbsentType DEF Content
    <2>5. ASSUME NEW q \in Res, cloud'[q].here
          PROVE  Reported(q, cloud'[q])
      <3>1. q \notin gone
        BY <2>2, <2>5, AbsentType
      <3>2. CASE KindOf[q] # "instance_network"
        BY <1>1, <2>2, <2>5, <3>1, <3>2 DEF Rest
      <3>3. CASE KindOf[q] = "instance_network"
        <4>1. cloud'[q] = [cloud[q] EXCEPT !.refs = @ \ {r}]
          BY <2>2, <3>1, <3>3
        <4>2. Reported(q, cloud[q])
          BY <1>1, <2>3, <2>5, <4>1 DEF Rest, Content
        <4>3. CASE r \in cloud[q].refs
          <5>1. KindOf[r] \in Loose
            BY <2>1, <2>2, <3>1, <4>3
          <5>2. KindOf[r] \in {"instance", "network", "subnet", "floating_ip"}
            BY <3>3, <4>2, <4>3, NamesKinds, ColumnTable
          <5>3. KindOf[r] = "floating_ip"
            BY <5>1, <5>2 DEF Loose
          <5>4. Fits(q, cloud[q])
            BY <3>3, <4>2, FitsIsReported
          <5>5. QED
            BY <1>5, <2>3, <4>1, <5>3, <5>4, DetachFits DEF Fits
        <4>4. CASE r \notin cloud[q].refs
          <5>1. cloud'[q].refs = cloud[q].refs
            BY <2>3, <4>1, <4>4 DEF Content
          <5>2. QED
            BY <4>2, <5>1 DEF Reported, Named
        <4>5. QED
          BY <4>3, <4>4
      <3>4. QED
        BY <3>2, <3>3
    <2>6. touched' \subseteq Res
      BY <1>1, <2>1, <2>2 DEF Rest
    <2>7. Clouded
      BY <2>4, <2>5, <2>6
    <2>8. QED
      BY <1>1, <1>2, <1>3, <2>7, OtherKept DEF Rest, jobVars
  <1>7. ASSUME NEW c \in Form[r], Take(r, c) PROVE Inductive'
    <2>1. c \in Content /\ Reported(r, c)
      BY <1>5, ResourceSyncAssumption, ContentsAssumption
    <2>2. Clouded
      BY <1>1, <1>5, <1>7, <2>1 DEF Take, Rest
    <2>3. QED
      BY <1>1, <1>2, <1>3, <2>2, OtherKept DEF Rest, jobVars
  <1>8. QED
    BY <1>4, <1>6, <1>7

LEMMA InitInductive == ASSUME Init PROVE Inductive
  <1>1. scope \in Scopes /\ scope \subseteq Res
    BY ResourceSyncAssumption DEF Init
  <1>2. \A r \in Res : Start[r] \in Content /\ Start[r].here
    BY ResourceSyncAssumption
  <1> DEFINE rows == [r \in Res |-> IF r \in scope THEN Start[r] ELSE Absent]
  <1>3. /\ cloud = [r \in Res |-> IF r \in scope \ Of("script") THEN Start[r] ELSE Absent]
        /\ db \in {Nothing, rows}
    BY DEF Init
  <1>4. cloud \in [Res -> Content] /\ \A r \in Res : cloud[r].here => r \in scope /\ cloud[r] = Start[r]
    BY <1>2, <1>3, AbsentType
  <1>5. rows \in [Res -> Content] /\ \A r \in Res : rows[r] = IF r \in scope THEN Start[r] ELSE Absent
    BY <1>2, AbsentType
  <1> HIDE DEF rows
  <1>6. Sound(rows)
    BY <1>1, <1>2, <1>5, AbsentType, ContentsAssumption DEF Sound
  <1>7. RowsOK
    BY <1>3, <1>5, <1>6, AbsentType DEF RowsOK, Sound, Nothing
  <1>8. Rest
    <2>1. \A r \in Res : cloud[r].here => Reported(r, cloud[r])
      BY <1>4, ContentsAssumption DEF Fits
    <2>2. /\ phase \in {"idle", "run", "end"} /\ round \in 1 .. MaxRound
          /\ turn \in 0 .. Len(ListOrder) /\ events \in 0 .. MaxEvent
      BY ListOrderType, ResourceSyncAssumption DEF Init
    <2>3. done \subseteq Lists /\ touched \subseteq Res /\ faulty \in BOOLEAN
      BY DEF Init
    <2>4. QED
      BY <1>1, <1>4, <2>1, <2>2, <2>3 DEF Rest
  <1>9. stack = <<>>
    BY DEF Init
  <1>10. Typed /\ StackOK /\ Cascades
    BY <1>9 DEF Typed, StackOK, Cascades
  <1>11. QED
    BY <1>7, <1>8, <1>10, Parts

LEMMA StepInductive == ASSUME Inductive, [Next]_vars PROVE Inductive'
  <1>1. CASE UNCHANGED vars
    <2>1. Rest
      BY Parts
    <2>2. UNCHANGED <<db, stack>> /\ Rest'
      BY <1>1, <2>1 DEF vars, Rest
    <2>3. QED
      BY <2>2, OtherKept
  <1>2. CASE Step
    BY <1>2, JobKeeps, NextListKeeps, ReturnKeeps, GetListKeeps, ClearGroupsKeeps,
       DropUnlistedKeeps, SyncListedKeeps, GetOneKeeps, GetDetailsKeeps, GetParentsKeeps, ReadRowKeeps,
       SaveRowKeeps, SyncChildListsKeeps, DropDependentKeeps, DeleteRowKeeps DEF Step
  <1>3. QED
    BY <1>1, <1>2, ChangeKeeps DEF Next, Finished

\* Inductive holds in every state of every behaviour (the functions of sync/).
THEOREM AlwaysInductive == Spec => []Inductive
  BY InitInductive, StepInductive, PTL DEF Spec

\* Every variable and every function being executed has its type, and a job makes
\* at most MaxRound passes (sync.Cluster).
THEOREM TypesHold == Spec => []TypeOK
  <1>1. Inductive => TypeOK
    BY DEF Inductive
  <1>2. QED
    BY <1>1, AlwaysInductive, PTL

\* The DELETE at the end of deleteX is refused by no foreign key, for every X but a
\* spec or a security group, whatever the cascades below it met.
THEOREM CascadesGoThrough == Spec => []DeletesGoThrough
  <1>1. Inductive => DeletesGoThrough
    BY Parts, NotRefused
  <1>2. QED
    BY <1>1, AlwaysInductive, PTL

-----------------------------------------------------------------------------
(* The deletion of the cluster's rows.                                     *)

LEMMA Joined ==
  ASSUME NEW T, NEW x \in Seq(T), NEW y \in Seq(T)
  PROVE  /\ x \o y \in Seq(T) /\ Len(x \o y) = Len(x) + Len(y)
         /\ \A i \in 1 .. Len(x) : (x \o y)[i] = x[i]
         /\ \A i \in 1 .. Len(y) : (x \o y)[Len(x) + i] = y[i]
  OBVIOUS

\* The statements of deleteRelation, one by one.
LEMMA Statements ==
  ASSUME NEW T, NEW s1 \in T, NEW s2 \in T, NEW s3 \in T, NEW s4 \in T, NEW s5 \in T,
         NEW s6 \in T, NEW s7 \in T, NEW s8 \in T, NEW s9 \in T, NEW s10 \in T,
         NEW s11 \in T, NEW s12 \in T, NEW s13 \in T, NEW s14 \in T, NEW s15 \in T,
         NEW s16 \in T, NEW s17 \in T, NEW s18 \in T, NEW s19 \in T,
         NEW t,
         t = <<s1, s2, s3, s4>> \o <<s5, s6, s7>> \o <<s8, s9, s10, s11, s12>>
             \o <<s13, s14, s15>> \o <<s16>> \o <<s17, s18, s19>>
  PROVE  /\ t \in Seq(T) /\ Len(t) = 19
         /\ t[1] = s1 /\ t[2] = s2 /\ t[3] = s3 /\ t[4] = s4 /\ t[5] = s5
         /\ t[6] = s6 /\ t[7] = s7 /\ t[8] = s8 /\ t[9] = s9 /\ t[10] = s10
         /\ t[11] = s11 /\ t[12] = s12 /\ t[13] = s13 /\ t[14] = s14 /\ t[15] = s15
         /\ t[16] = s16 /\ t[17] = s17 /\ t[18] = s18 /\ t[19] = s19
  <1> DEFINE A == <<s1, s2, s3, s4>>
             B == <<s5, s6, s7>>
             C == <<s8, s9, s10, s11, s12>>
             D == <<s13, s14, s15>>
             E == <<s16>>
             F == <<s17, s18, s19>>
             AB == A \o B
             AC == AB \o C
             AD == AC \o D
             AE == AD \o E
             AF == AE \o F
  <1>1. A \in Seq(T) /\ B \in Seq(T) /\ C \in Seq(T) /\ D \in Seq(T) /\ E \in Seq(T) /\ F \in Seq(T)
    OBVIOUS
  <1>2. /\ Len(A) = 4 /\ Len(B) = 3 /\ Len(C) = 5 /\ Len(D) = 3 /\ Len(E) = 1 /\ Len(F) = 3
        /\ A[1] = s1 /\ A[2] = s2 /\ A[3] = s3 /\ A[4] = s4
        /\ B[1] = s5 /\ B[2] = s6 /\ B[3] = s7
        /\ C[1] = s8 /\ C[2] = s9 /\ C[3] = s10 /\ C[4] = s11 /\ C[5] = s12
        /\ D[1] = s13 /\ D[2] = s14 /\ D[3] = s15
        /\ E[1] = s16
        /\ F[1] = s17 /\ F[2] = s18 /\ F[3] = s19
    OBVIOUS
  <1> HIDE DEF A, B, C, D, E, F
  <1>3. /\ AB \in Seq(T) /\ Len(AB) = 7
        /\ AB[1] = s1 /\ AB[2] = s2 /\ AB[3] = s3 /\ AB[4] = s4 /\ AB[5] = s5
        /\ AB[6] = s6 /\ AB[7] = s7
    <2>1. /\ AB \in Seq(T) /\ Len(AB) = Len(A) + Len(B)
          /\ \A i \in 1 .. Len(A) : AB[i] = A[i]
          /\ \A i \in 1 .. Len(B) : AB[Len(A) + i] = B[i]
      BY <1>1, Joined
    <2> HIDE DEF AB
    <2>2. QED
      BY <1>2, <2>1
  <1> HIDE DEF AB
  <1>4. /\ AC \in Seq(T) /\ Len(AC) = 12
        /\ AC[1] = s1 /\ AC[2] = s2 /\ AC[3] = s3 /\ AC[4] = s4 /\ AC[5] = s5
        /\ AC[6] = s6 /\ AC[7] = s7 /\ AC[8] = s8 /\ AC[9] = s9 /\ AC[10] = s10
        /\ AC[11] = s11 /\ AC[12] = s12
    <2>1. /\ AC \in Seq(T) /\ Len(AC) = Len(AB) + Len(C)
          /\ \A i \in 1 .. Len(AB) : AC[i] = AB[i]
          /\ \A i \in 1 .. Len(C) : AC[Len(AB) + i] = C[i]
      <3>1. AB \in Seq(T) /\ C \in Seq(T)
        BY <1>1, <1>3
      <3>2. QED
        BY <3>1, Joined
    <2> HIDE DEF AC
    <2>2. QED
      BY <1>2, <1>3, <2>1
  <1> HIDE DEF AC
  <1>5. /\ AD \in Seq(T) /\ Len(AD) = 15
        /\ AD[1] = s1 /\ AD[2] = s2 /\ AD[3] = s3 /\ AD[4] = s4 /\ AD[5] = s5
        /\ AD[6] = s6 /\ AD[7] = s7 /\ AD[8] = s8 /\ AD[9] = s9 /\ AD[10] = s10
        /\ AD[11] = s11 /\ AD[12] = s12 /\ AD[13] = s13 /\ AD[14] = s14 /\ AD[15] = s15
    <2>1. /\ AD \in Seq(T) /\ Len(AD) = Len(AC) + Len(D)
          /\ \A i \in 1 .. Len(AC) : AD[i] = AC[i]
          /\ \A i \in 1 .. Len(D) : AD[Len(AC) + i] = D[i]
      <3>1. AC \in Seq(T) /\ D \in Seq(T)
        BY <1>1, <1>4
      <3>2. QED
        BY <3>1, Joined
    <2> HIDE DEF AD
    <2>2. QED
      BY <1>2, <1>4, <2>1
  <1> HIDE DEF AD
  <1>6. /\ AE \in Seq(T) /\ Len(AE) = 16
        /\ AE[1] = s1 /\ AE[2] = s2 /\ AE[3] = s3 /\ AE[4] = s4 /\ AE[5] = s5
        /\ AE[6] = s6 /\ AE[7] = s7 /\ AE[8] = s8 /\ AE[9] = s9 /\ AE[10] = s10
        /\ AE[11] = s11 /\ AE[12] = s12 /\ AE[13] = s13 /\ AE[14] = s14 /\ AE[15] = s15
        /\ AE[16] = s16
    <2>1. /\ AE \in Seq(T) /\ Len(AE) = Len(AD) + Len(E)
          /\ \A i \in 1 .. Len(AD) : AE[i] = AD[i]
          /\ \A i \in 1 .. Len(E) : AE[Len(AD) + i] = E[i]
      <3>1. AD \in Seq(T) /\ E \in Seq(T)
        BY <1>1, <1>5
      <3>2. QED
        BY <3>1, Joined
    <2> HIDE DEF AE
    <2>2. QED
      BY <1>2, <1>5, <2>1
  <1> HIDE DEF AE
  <1>7. /\ AF \in Seq(T) /\ Len(AF) = 19
        /\ AF[1] = s1 /\ AF[2] = s2 /\ AF[3] = s3 /\ AF[4] = s4 /\ AF[5] = s5
        /\ AF[6] = s6 /\ AF[7] = s7 /\ AF[8] = s8 /\ AF[9] = s9 /\ AF[10] = s10
        /\ AF[11] = s11 /\ AF[12] = s12 /\ AF[13] = s13 /\ AF[14] = s14 /\ AF[15] = s15
        /\ AF[16] = s16 /\ AF[17] = s17 /\ AF[18] = s18 /\ AF[19] = s19
    <2>1. /\ AF \in Seq(T) /\ Len(AF) = Len(AE) + Len(F)
          /\ \A i \in 1 .. Len(AE) : AF[i] = AE[i]
          /\ \A i \in 1 .. Len(F) : AF[Len(AE) + i] = F[i]
      <3>1. AE \in Seq(T) /\ F \in Seq(T)
        BY <1>1, <1>6
      <3>2. QED
        BY <3>1, Joined
    <2> HIDE DEF AF
    <2>2. QED
      BY <1>2, <1>6, <2>1
  <1> HIDE DEF AF
  <1>8. t = AF
    BY DEF A, B, C, D, E, F, AB, AC, AD, AE, AF
  <1>9. QED
    BY <1>7, <1>8

\* The tables in the order of the statements of deleteRelation.
DeleteOrder ==
  <<"snapshot", "instance_volume", "volume", "storage", "instance_sg", "rule", "security_group",
    "instance_network", "floating_ip", "interface", "subnet", "network", "instance", "spec",
    "keypair", "router", "tenant", "hypervisor", "zone">>

\* Every table comes before those that it names; that of the user scripts is not
\* among them.
LEMMA NamedLater ==
  ASSUME NEW k \in Kind, k # "script"
  PROVE  \E n \in 1 .. 19 :
           DeleteOrder[n] = k /\ \A m \in 1 .. (n - 1) : DeleteOrder[m] \notin ColumnSet(k)
  <1> DEFINE Good(n) == \A m \in 1 .. (n - 1) : DeleteOrder[m] \notin ColumnSet(DeleteOrder[n])
  <1>1. /\ DeleteOrder[1] = "snapshot" /\ DeleteOrder[2] = "instance_volume" /\ DeleteOrder[3] = "volume"
        /\ DeleteOrder[4] = "storage" /\ DeleteOrder[5] = "instance_sg" /\ DeleteOrder[6] = "rule"
        /\ DeleteOrder[7] = "security_group" /\ DeleteOrder[8] = "instance_network" /\ DeleteOrder[9] = "floating_ip"
        /\ DeleteOrder[10] = "interface" /\ DeleteOrder[11] = "subnet" /\ DeleteOrder[12] = "network"
        /\ DeleteOrder[13] = "instance" /\ DeleteOrder[14] = "spec" /\ DeleteOrder[15] = "keypair"
        /\ DeleteOrder[16] = "router" /\ DeleteOrder[17] = "tenant" /\ DeleteOrder[18] = "hypervisor"
        /\ DeleteOrder[19] = "zone"
    BY DEF DeleteOrder
  <1>2. Good(1)
    BY <1>1, ColumnTable
  <1>3. Good(2)
    BY <1>1, ColumnTable
  <1>4. Good(3)
    BY <1>1, ColumnTable
  <1>5. Good(4)
    BY <1>1, ColumnTable
  <1>6. Good(5)
    BY <1>1, ColumnTable
  <1>7. Good(6)
    BY <1>1, ColumnTable
  <1>8. Good(7)
    BY <1>1, ColumnTable
  <1>9. Good(8)
    BY <1>1, ColumnTable
  <1>10. Good(9)
    BY <1>1, ColumnTable
  <1>11. Good(10)
    BY <1>1, ColumnTable
  <1>12. Good(11)
    BY <1>1, ColumnTable
  <1>13. Good(12)
    BY <1>1, ColumnTable
  <1>14. Good(13)
    BY <1>1, ColumnTable
  <1>15. Good(14)
    BY <1>1, ColumnTable
  <1>16. Good(15)
    BY <1>1, ColumnTable
  <1>17. Good(16)
    BY <1>1, ColumnTable
  <1>18. Good(17)
    BY <1>1, ColumnTable
  <1>19. Good(18)
    BY <1>1, ColumnTable
  <1>20. Good(19)
    BY <1>1, ColumnTable
  <1>21. KindSplit(k)
    BY DEF KindSplit, Kind, Association
  <1> HIDE DEF Good
  <1>22. \E n \in 1 .. 19 : DeleteOrder[n] = k /\ Good(n)
    BY <1>1, <1>2, <1>3, <1>4, <1>5, <1>6, <1>7, <1>8, <1>9, <1>10,
       <1>11, <1>12, <1>13, <1>14, <1>15, <1>16, <1>17, <1>18, <1>19,
       <1>20, <1>21 DEF KindSplit
  <1>23. QED
    BY <1>22 DEF Good

\* A condition on a column that may not be null finds all rows of the table.
LEMMA WhereFindsAll ==
  ASSUME NEW d, DOMAIN d \subseteq Res,
         \A r \in DOMAIN d : Reported(r, d[r]) /\ d[r].refs \subseteq DOMAIN d,
         NEW k, NEW j \in ColumnsOf[k].needed \ {"zone"}
  PROVE  Where(d, k, There(d, j)) = There(d, k)
  BY DEF Where, There, Reported, Named, Of

LEMMA NeededTable ==
  /\ "storage" \in ColumnsOf["volume"].needed /\ "volume" \in ColumnsOf["snapshot"].needed
  /\ "volume" \in ColumnsOf["instance_volume"].needed
  /\ "tenant" \in ColumnsOf["security_group"].needed
  /\ "security_group" \in ColumnsOf["instance_sg"].needed
  /\ "tenant" \in ColumnsOf["network"].needed /\ "network" \in ColumnsOf["subnet"].needed
  /\ "network" \in ColumnsOf["instance_network"].needed
  /\ "network" \in ColumnsOf["floating_ip"].needed
  /\ "subnet" \in ColumnsOf["interface"].needed
  /\ "tenant" \in ColumnsOf["instance"].needed /\ "tenant" \in ColumnsOf["router"].needed
  BY DEF ColumnsOf, Columns, ClusterSecurityGroup, ClusterNetwork, ClusterSubnet,
     ClusterFloatingIP, ClusterRouter, ClusterNetworkRoutingInterface, ClusterVolume,
     ClusterVolumeSnapshot, ClusterInstance, ClusterInstanceNetwork,
     ClusterInstanceVolume, ClusterInstanceSecurityGroup, ClusterInstanceUserScript

\* deleteRelation empties one table after the other.
LEMMA DeleteRelationIs ==
  ASSUME NEW d, DOMAIN d \subseteq Res,
         \A r \in DOMAIN d : Reported(r, d[r]) /\ d[r].refs \subseteq DOMAIN d
  PROVE  /\ DOMAIN deleteRelation(d) = 1 .. 19
         /\ \A n \in 1 .. 19 : deleteRelation(d)[n] = There(d, DeleteOrder[n])
  <1> DEFINE T(k) == There(d, k)
  <1>1. /\ Where(d, "volume", T("storage")) = T("volume")
        /\ Where(d, "snapshot", T("volume")) = T("snapshot")
        /\ Where(d, "instance_volume", T("volume")) = T("instance_volume")
        /\ Where(d, "security_group", T("tenant")) = T("security_group")
        /\ Where(d, "instance_sg", T("security_group")) = T("instance_sg")
        /\ Where(d, "network", T("tenant")) = T("network")
        /\ Where(d, "instance_network", T("network")) = T("instance_network")
        /\ Where(d, "floating_ip", T("network")) = T("floating_ip")
        /\ Where(d, "subnet", T("network")) = T("subnet")
        /\ Where(d, "interface", T("subnet")) = T("interface")
        /\ Where(d, "instance", T("tenant")) = T("instance")
        /\ Where(d, "router", T("tenant")) = T("router")
    BY NeededTable, WhereFindsAll
  <1>2. {r \in T("rule") : Home[r] \in T("security_group")} = T("rule")
    <2>1. ASSUME NEW r \in T("rule") PROVE Home[r] \in T("security_group")
      <3>1. r \in DOMAIN d /\ KindOf[r] = "rule" /\ Home[r] \in d[r].refs
        BY DEF There, Reported
      <3>2. KindOf[Home[r]] \in ColumnSet("rule")
        BY <3>1, NamesKinds
      <3>3. QED
        BY <3>1, <3>2, ColumnTable DEF There
    <2>2. QED
      BY <2>1
  <1>3. \A k : T(k) \in SUBSET Res
    BY DEF There
  <1>4. deleteRelation(d) =
          <<T("snapshot"), T("instance_volume"), T("volume"), T("storage")>>
          \o <<T("instance_sg"), T("rule"), T("security_group")>>
          \o <<T("instance_network"), T("floating_ip"), T("interface"), T("subnet"), T("network")>>
          \o <<T("instance"), T("spec"), T("keypair")>>
          \o <<T("router")>> \o <<T("tenant"), T("hypervisor"), T("zone")>>
    <2>1. deleteClusterStorage(d) = <<T("snapshot"), T("instance_volume"), T("volume"), T("storage")>>
      BY <1>1 DEF deleteClusterStorage
    <2>2. cluster_deleteSecurityGroup(d, T("tenant")) = <<T("instance_sg"), T("rule"), T("security_group")>>
      BY <1>1, <1>2 DEF cluster_deleteSecurityGroup
    <2>3. deleteClusterNetwork(d, T("tenant")) =
            <<T("instance_network"), T("floating_ip"), T("interface"), T("subnet"), T("network")>>
      BY <1>1 DEF deleteClusterNetwork
    <2>4. cluster_deleteInstance(d, T("tenant")) = <<T("instance"), T("spec"), T("keypair")>>
      BY <1>1 DEF cluster_deleteInstance
    <2>5. deleteClusterRouter(d, T("tenant")) = <<T("router")>>
      BY <1>1 DEF deleteClusterRouter
    <2>6. QED
      BY <2>1, <2>2, <2>3, <2>4, <2>5 DEF deleteRelation
  <1> DEFINE t == deleteRelation(d)
  <1> HIDE DEF T, t
  <1>5. /\ t \in Seq(SUBSET Res) /\ Len(t) = 19
        /\ t[1] = T("snapshot") /\ t[2] = T("instance_volume") /\ t[3] = T("volume")
        /\ t[4] = T("storage") /\ t[5] = T("instance_sg") /\ t[6] = T("rule")
        /\ t[7] = T("security_group") /\ t[8] = T("instance_network") /\ t[9] = T("floating_ip")
        /\ t[10] = T("interface") /\ t[11] = T("subnet") /\ t[12] = T("network")
        /\ t[13] = T("instance") /\ t[14] = T("spec") /\ t[15] = T("keypair")
        /\ t[16] = T("router") /\ t[17] = T("tenant") /\ t[18] = T("hypervisor")
        /\ t[19] = T("zone")
    BY <1>3, <1>4, Statements DEF t
  <1>6. \A n \in 1 .. 19 : t[n] = T(DeleteOrder[n])
    BY <1>5 DEF DeleteOrder
  <1>7. DOMAIN t = 1 .. 19
    BY <1>5
  <1>8. QED
    BY <1>6, <1>7 DEF T, t

LEMMA ScriptsStay ==
  /\ DeleteOrder[13] = "instance" /\ \A n \in 1 .. 19 : DeleteOrder[n] # "script"
  /\ "instance" \in ColumnsOf["script"].needed
  BY DEF DeleteOrder, ColumnsOf, ClusterInstanceUserScript, Columns

\* Rows without a dangling name are removed one table after the other.
LEMMA RowsGoInTime ==
  ASSUME NEW d, DOMAIN d \subseteq Res,
         \A r \in DOMAIN d : Reported(r, d[r]) /\ d[r].refs \subseteq DOMAIN d,
         NEW r \in DOMAIN d, KindOf[r] # "script"
  PROVE  \E n \in 1 .. 19 :
            /\ r \in deleteRelation(d)[n]
            /\ \A m \in 1 .. (n - 1) : d[r].refs \cap deleteRelation(d)[m] = {}
  <1>1. PICK n \in 1 .. 19 :
          /\ DeleteOrder[n] = KindOf[r]
          /\ \A m \in 1 .. (n - 1) : DeleteOrder[m] \notin ColumnSet(KindOf[r])
    BY KindCases, NamedLater
  <1>2. r \in deleteRelation(d)[n]
    BY <1>1, DeleteRelationIs DEF There
  <1>3. ASSUME NEW m \in 1 .. (n - 1), NEW p \in d[r].refs, p \in deleteRelation(d)[m]
        PROVE  FALSE
    <2>1. m \in 1 .. 19
      BY <1>1
    <2>2. KindOf[p] = DeleteOrder[m]
      BY <1>3, <2>1, DeleteRelationIs DEF There
    <2>3. KindOf[p] \in ColumnSet(KindOf[r])
      BY NamesKinds
    <2>4. QED
      BY <1>1, <2>2, <2>3
  <1>4. QED
    BY <1>2, <1>3

\* Without a user script no statement is refused.
LEMMA NoneRefused ==
  ASSUME NEW d, DOMAIN d \subseteq Res,
         \A r \in DOMAIN d : Reported(r, d[r]) /\ d[r].refs \subseteq DOMAIN d,
         There(d, "script") = {}
  PROVE  GoesThrough(d, deleteRelation(d))
  <1> DEFINE s == deleteRelation(d)
  <1>1. DOMAIN s = 1 .. 19
    BY DeleteRelationIs
  <1>2. ASSUME NEW r \in DOMAIN d
        PROVE  \E n \in 1 .. 19 :
                  r \in s[n] /\ \A m \in 1 .. (n - 1) : d[r].refs \cap s[m] = {}
    BY <1>2, RowsGoInTime DEF There
  <1> HIDE DEF s
  <1>3. ASSUME NEW n \in 1 .. 19, Refused(d, s, n) PROVE FALSE
    <2>1. PICK r \in DOMAIN d : d[r].refs \cap s[n] # {} /\ \A m \in 1 .. n : r \notin s[m]
      BY <1>3 DEF Refused
    <2>2. PICK k \in 1 .. 19 : r \in s[k] /\ \A m \in 1 .. (k - 1) : d[r].refs \cap s[m] = {}
      BY <1>2
    <2>3. k > n
      BY <2>1, <2>2
    <2>4. n \in 1 .. (k - 1)
      BY <2>3
    <2>5. QED
      BY <2>1, <2>2, <2>4
  <1>4. QED
    BY <1>1, <1>2, <1>3 DEF GoesThrough, s

\* The statement that deletes the instances is refused if one has a user script.
LEMMA ScriptRefuses ==
  ASSUME NEW d, DOMAIN d \subseteq Res,
         \A r \in DOMAIN d : Reported(r, d[r]) /\ d[r].refs \subseteq DOMAIN d,
         There(d, "script") # {}
  PROVE  ~GoesThrough(d, deleteRelation(d))
  <1> DEFINE s == deleteRelation(d)
  <1>1. DOMAIN s = 1 .. 19 /\ \A n \in 1 .. 19 : s[n] = There(d, DeleteOrder[n])
    BY DeleteRelationIs
  <1> HIDE DEF s
  <1>2. PICK q \in DOMAIN d : KindOf[q] = "script"
    BY DEF There
  <1>3. PICK p \in d[q].refs : KindOf[p] = "instance"
    BY <1>2, ScriptsStay DEF Reported, Named, Of
  <1>4. p \in s[13]
    BY <1>1, <1>2, <1>3, ScriptsStay DEF There
  <1>5. \A m \in 1 .. 13 : q \notin s[m]
    BY <1>1, <1>2, ScriptsStay DEF There
  <1>6. Refused(d, s, 13)
    BY <1>2, <1>3, <1>4, <1>5 DEF Refused
  <1>7. QED
    BY <1>1, <1>6 DEF GoesThrough, s

LEMMA SoundRowsGo ==
  ASSUME NEW rows \in [Res -> Content], Sound(rows),
         NEW d, d = Restrict(rows, {r \in Res : rows[r].here})
  PROVE  GoesThrough(d, deleteRelation(d)) <=> There(d, "script") = {}
  <1>1. /\ DOMAIN d = {r \in Res : rows[r].here}
        /\ \A r \in DOMAIN d : d[r] = rows[r]
    BY DEF Restrict
  <1>2. \A r \in DOMAIN d : Reported(r, d[r]) /\ d[r].refs \subseteq DOMAIN d
    BY <1>1 DEF Sound, Fits, Content
  <1>3. DOMAIN d \subseteq Res
    BY <1>1
  <1>4. QED
    BY <1>2, <1>3, NoneRefused, ScriptRefuses

\* After every write of a job, wherever it is cut short, the statements of
\* deleteRelation (cluster.go) remove every row but the user scripts, and are
\* refused by a foreign key exactly if there is a user script.
THEOREM ClusterCanBeDeleted == Spec => ClusterCanGo
  <1> DEFINE A == \E rows \in {Restrict(db', {r \in Res : db'[r].here})} :
                    GoesThrough(rows, deleteRelation(rows)) <=> There(rows, "script") = {}
  <1>1. Inductive' => A
    <2> SUFFICES ASSUME Inductive' PROVE A
      OBVIOUS
    <2>1. db' \in [Res -> Content] /\ Sound(db')
      BY Parts DEF RowsOK
    <2>2. QED
      BY <2>1, SoundRowsGo
  <1>2. Inductive /\ [Next]_vars => [db' = db \/ A]_vars
    BY <1>1, StepInductive
  <1>3. QED
    BY <1>2, AlwaysInductive, PTL DEF Spec, ClusterCanGo
=============================================================================
