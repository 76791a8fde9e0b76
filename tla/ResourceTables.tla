--------------------------- MODULE ResourceTables ---------------------------
(***************************************************************************)
(* What the synchroniser of each kind of resource does, one definition for *)
(* each of its functions. ResourceSync executes these tables: the control  *)
(* of the functions SyncClusterX, deleteX and getX is the same for every   *)
(* kind, and what differs is written here.                                 *)
(*                                                                         *)
(* A row, and an answer of the cloud, is [here, refs, attr]: whether it    *)
(* exists, the resources it names (foreign keys of the row), and its other *)
(* columns.                                                                *)
(***************************************************************************)
EXTENDS Naturals, Sequences

CONSTANTS
    Res,        \* resources of the cluster, by UUID (or name)
    NoRes,      \* no resource: a row without an ID, a list without a parent
    KindOf,     \* kind of every resource
    Home        \* the resource that owns a subnet, a rule, a routing interface,
                \* a row that connects an instance, or a user script; NoRes for others

\* Rows that connect a router or an instance with something else.
Association == {"interface", "instance_network", "instance_volume", "instance_sg"}

Kind == Association \cup
    {"tenant", "zone", "hypervisor", "security_group", "rule", "network", "subnet",
     "floating_ip", "router", "storage", "volume", "snapshot", "keypair", "instance",
     "spec", "script"}

ASSUME TablesAssumption ==
    /\ NoRes \notin Res
    /\ KindOf \in [Res -> Kind]
    /\ Home \in [Res -> Res \cup {NoRes}]

Of(k) == {r \in Res : KindOf[r] = k}
Content == [here : BOOLEAN, refs : SUBSET Res, attr : Nat]
Absent == [here |-> FALSE, refs |-> {}, attr |-> 0]
Named(c, k) == c.refs \cap Of(k)

-----------------------------------------------------------------------------
(* The columns of each table that name rows of other tables (model.go, and   *)
(* the foreign keys of the schema): those that may not be null, and those    *)
(* that may. A column that names the cluster is left out. The user script of *)
(* an instance has a row, and nothing in the cloud.                          *)

Columns(needed, optional) == [needed |-> needed, optional |-> optional]

ClusterTenant == Columns({}, {})
ClusterAvailabilityZone == Columns({}, {})
ClusterHypervisor == Columns({"zone"}, {})
ClusterSecurityGroup == Columns({"tenant"}, {})
ClusterSecurityGroupRule == Columns({"security_group"}, {})
ClusterNetwork == Columns({"tenant"}, {})
ClusterSubnet == Columns({"network"}, {})
ClusterFloatingIP == Columns({"tenant", "network"}, {})
ClusterRouter == Columns({"tenant"}, {})
ClusterNetworkRoutingInterface == Columns({"router", "subnet"}, {})
ClusterStorage == Columns({}, {})
ClusterVolume == Columns({"tenant", "storage"}, {})
ClusterVolumeSnapshot == Columns({"volume"}, {})
ClusterKeypair == Columns({}, {})
ClusterInstanceSpec == Columns({}, {})
ClusterInstance == Columns({"tenant", "zone", "hypervisor", "spec"}, {"keypair"})
ClusterInstanceNetwork == Columns({"instance", "network", "subnet"}, {"floating_ip"})
ClusterInstanceVolume == Columns({"instance", "volume"}, {})
ClusterInstanceSecurityGroup == Columns({"instance", "security_group"}, {})
ClusterInstanceUserScript == Columns({"instance"}, {})

ColumnsOf ==
    [tenant |-> ClusterTenant, zone |-> ClusterAvailabilityZone,
     hypervisor |-> ClusterHypervisor, security_group |-> ClusterSecurityGroup,
     rule |-> ClusterSecurityGroupRule, network |-> ClusterNetwork,
     subnet |-> ClusterSubnet, floating_ip |-> ClusterFloatingIP,
     router |-> ClusterRouter, storage |-> ClusterStorage, volume |-> ClusterVolume,
     snapshot |-> ClusterVolumeSnapshot, keypair |-> ClusterKeypair,
     spec |-> ClusterInstanceSpec, instance |-> ClusterInstance,
     interface |-> ClusterNetworkRoutingInterface,
     instance_network |-> ClusterInstanceNetwork,
     instance_volume |-> ClusterInstanceVolume,
     instance_sg |-> ClusterInstanceSecurityGroup,
     script |-> ClusterInstanceUserScript]

\* What the cloud says of a resource: it names nothing but what the row has a
\* column for, and, but for a zone, everything that the row needs.
Reported(r, c) ==
    /\ \A p \in c.refs :
          KindOf[p] \in ColumnsOf[KindOf[r]].needed \cup ColumnsOf[KindOf[r]].optional
    /\ \A k \in ColumnsOf[KindOf[r]].needed \ {"zone"} : Named(c, k) # {}
    /\ KindOf[r] = "rule" => Home[r] \in c.refs

\* A row that has all its columns.
Fits(r, c) ==
    Reported(r, c) /\ ("zone" \in ColumnsOf[KindOf[r]].needed => Named(c, "zone") # {})

-----------------------------------------------------------------------------
(* SyncClusterX: the parents it looks up before it reads the row, those it *)
(* looks up only when it is going to write the row, and the lists it       *)
(* synchronises afterwards. A rule looks up its own group early and the    *)
(* remote group late (see ParentsOf in ResourceSync).                      *)

Steps(early, late, lists) == [early |-> early, late |-> late, lists |-> lists]

SyncClusterTenant == Steps(<<>>, <<>>, <<>>)
SyncClusterAvailabilityZone == Steps(<<>>, <<>>, <<>>)
SyncClusterHypervisor == Steps(<<>>, <<"zone">>, <<>>)
SyncClusterSecurityGroup == Steps(<<>>, <<"tenant">>, <<"rule">>)
SyncClusterSecurityGroupRule == Steps(<<"security_group">>, <<"security_group">>, <<>>)
SyncClusterNetwork == Steps(<<>>, <<"tenant">>, <<"subnet", "floating_ip">>)
(* Faulty variant: the network is looked up after the row of the subnet has been read. *)
SyncClusterSubnetReadsFirst == Steps(<<>>, <<"network">>, <<>>)

SyncClusterSubnet == Steps(<<"network">>, <<>>, <<>>)
SyncClusterFloatingIP == Steps(<<"tenant", "network">>, <<>>, <<>>)
SyncClusterRouter == Steps(<<>>, <<"tenant">>, <<"interface">>)
SyncClusterStorage == Steps(<<>>, <<>>, <<>>)
SyncClusterVolume == Steps(<<>>, <<"tenant", "storage">>, <<>>)
SyncClusterVolumeSnapshot == Steps(<<>>, <<"volume">>, <<>>)
SyncClusterKeypair == Steps(<<>>, <<>>, <<>>)
SyncClusterInstanceSpec == Steps(<<>>, <<>>, <<>>)
SyncClusterInstance ==
    Steps(<<"tenant", "zone", "hypervisor", "spec", "keypair">>, <<>>,
          <<"instance_volume", "instance_network", "instance_sg">>)
syncClusterNetworkRoutingInterfaceList == Steps(<<"subnet">>, <<>>, <<>>)
syncClusterInstanceNetworkList ==
    Steps(<<"network", "subnet", "floating_ip">>, <<>>, <<>>)
syncClusterInstanceVolumeList == Steps(<<"volume">>, <<>>, <<>>)
syncClusterInstanceSecurityGroupList == Steps(<<"security_group">>, <<>>, <<>>)


\* Nothing synchronises a user script.
StepsOf ==
    [tenant |-> SyncClusterTenant, zone |-> SyncClusterAvailabilityZone,
     hypervisor |-> SyncClusterHypervisor, security_group |-> SyncClusterSecurityGroup,
     rule |-> SyncClusterSecurityGroupRule, network |-> SyncClusterNetwork,
     subnet |-> SyncClusterSubnet, floating_ip |-> SyncClusterFloatingIP,
     router |-> SyncClusterRouter, storage |-> SyncClusterStorage,
     volume |-> SyncClusterVolume, snapshot |-> SyncClusterVolumeSnapshot,
     keypair |-> SyncClusterKeypair, spec |-> SyncClusterInstanceSpec,
     instance |-> SyncClusterInstance,
     interface |-> syncClusterNetworkRoutingInterfaceList,
     instance_network |-> syncClusterInstanceNetworkList,
     instance_volume |-> syncClusterInstanceVolumeList,
     instance_sg |-> syncClusterInstanceSecurityGroupList,
     script |-> Steps(<<>>, <<>>, <<>>)]

-----------------------------------------------------------------------------
(* getX of the client: the requests that follow the one for the resource   *)
(* itself, as far as their answers are used (see GetDetails in             *)
(* ResourceSync).                                                          *)

GetInstance ==
    <<"ListHypervisors", "ListSecurityGroupsByServer", "ListFlavors",
      "ShowDetailVolumeAttachment", "ListPortInterfaces",
      "ListFloatingIPsByPortInterface", "ShowSubnetDetails">>
GetVolume == <<"ListAllVolumeTypes", "ShowAttachmentDetails">>
GetNetwork == <<"ListFloatingIPs">>
GetRouter == <<"ListPorts">>

DetailsOf ==
    [k \in Kind |->
        CASE k = "instance" -> GetInstance
          [] k = "volume" -> GetVolume
          [] k = "network" -> GetNetwork
          [] k = "router" -> GetRouter
          [] OTHER -> <<>>]

-----------------------------------------------------------------------------
(* deleteX: the rows that name X and are removed (or detached) before it,  *)
(* in this order.                                                          *)

deleteTenant ==
    <<"instance", "security_group", "volume", "floating_ip", "network", "router">>
deleteAvailabilityZone == <<"instance", "hypervisor">>
deleteHypervisor == <<"instance">>
deleteSecurityGroup == <<"instance_sg", "rule">>
deleteNetwork == <<"instance_network", "floating_ip", "subnet">>

(* Faulty variant: the routing interfaces of the subnet are forgotten. *)
deleteSubnetOnly == <<"instance_network">>

deleteSubnet == <<"instance_network", "interface">>
deleteFloatingIP == <<"instance_network">>
deleteRouter == <<"interface">>
deleteStorage == <<"volume">>
deleteVolume == <<"instance_volume", "snapshot">>
deleteKeypair == <<"instance">>
deleteInstance == <<"instance_network", "instance_volume", "instance_sg", "script">>
deleteInstanceSpec == <<>>
deleteVolumeSnapshot == <<>>
deleteSecurityGroupRule == <<>>
deleteRoutingInterface == <<>>
deleteInstanceNetwork == <<>>
deleteInstanceVolume == <<>>
deleteInstanceSecurityGroup == <<>>
deleteInstanceUserScript == <<>>

DependentsOf ==
    [tenant |-> deleteTenant, zone |-> deleteAvailabilityZone,
     hypervisor |-> deleteHypervisor, security_group |-> deleteSecurityGroup,
     rule |-> deleteSecurityGroupRule, network |-> deleteNetwork,
     subnet |-> deleteSubnet, floating_ip |-> deleteFloatingIP, router |-> deleteRouter,
     storage |-> deleteStorage, volume |-> deleteVolume,
     snapshot |-> deleteVolumeSnapshot, keypair |-> deleteKeypair,
     spec |-> deleteInstanceSpec, instance |-> deleteInstance,
     interface |-> deleteRoutingInterface, instance_network |-> deleteInstanceNetwork,
     instance_volume |-> deleteInstanceVolume,
     instance_sg |-> deleteInstanceSecurityGroup,
     script |-> deleteInstanceUserScript]

-----------------------------------------------------------------------------
(* getX, when the row is still missing after it has synchronised X: "nil"  *)
(* is an answer without a row, which makes the caller give up without an   *)
(* error, "error" an error, and "ignore" lets an instance do without.      *)

getTenant == "nil"
getAvailabilityZone == "nil"
getHypervisor == "nil"
getKeypair == "ignore"
getInstanceSpec == "error"
getSecurityGroup == "error"
getNetwork == "error"
getSubnet == "error"
getFloatingIP == "error"
getStorage == "error"
getVolume == "error"

MissingParent ==
    [tenant |-> getTenant, zone |-> getAvailabilityZone, hypervisor |-> getHypervisor,
     keypair |-> getKeypair, spec |-> getInstanceSpec,
     security_group |-> getSecurityGroup, network |-> getNetwork, subnet |-> getSubnet,
     floating_ip |-> getFloatingIP, storage |-> getStorage, volume |-> getVolume]

-----------------------------------------------------------------------------
(* compareX(row, ans): the row needs no update. Zones, storages, specs,    *)
(* routing interfaces and attached volumes name nothing that can differ.   *)

compareTenant(row, ans) == row.attr = ans.attr
compareAvailabilityZone(row, ans) == row.attr = ans.attr
compareStorage(row, ans) == row.attr = ans.attr
compareInstanceSpec(row, ans) == row.attr = ans.attr
compareRoutingInterface(row, ans) == row.attr = ans.attr

(* Faulty variant: the zone of the hypervisor is not compared. *)
compareHypervisorOnly(row, ans) == row.attr = ans.attr

compareHypervisor(row, ans) == row = ans
compareSecurityGroup(row, ans) == row = ans
compareNetwork(row, ans) == row = ans
compareSubnet(row, ans) == row = ans
compareRouter(row, ans) == row = ans
compareVolume(row, ans) == row = ans
compareVolumeSnapshot(row, ans) == row = ans

\* Not compared: the tenant.
compareFloatingIP(row, ans) ==
    row.attr = ans.attr /\ Named(row, "network") = Named(ans, "network")

\* The own group is compared only when a remote group is named; a rule never
\* moves to another group.
compareSecurityGroupRule(row, ans) == row = ans

\* Not compared: the subnet.
compareInstanceNetwork(row, ans) ==
    row.attr = ans.attr /\ Named(row, "floating_ip") = Named(ans, "floating_ip")

\* An instance without a key pair is compared no further than that.
compareInstance(row, ans) ==
    /\ row.attr = ans.attr
    /\ IF Named(ans, "keypair") = {} THEN Named(row, "keypair") = {}
                                     ELSE row.refs = ans.refs

Unchanged(k, row, ans) ==
    CASE k = "tenant" -> compareTenant(row, ans)
      [] k = "zone" -> compareAvailabilityZone(row, ans)
      [] k = "hypervisor" -> compareHypervisor(row, ans)
      [] k = "security_group" -> compareSecurityGroup(row, ans)
      [] k = "rule" -> compareSecurityGroupRule(row, ans)
      [] k = "network" -> compareNetwork(row, ans)
      [] k = "subnet" -> compareSubnet(row, ans)
      [] k = "floating_ip" -> compareFloatingIP(row, ans)
      [] k = "router" -> compareRouter(row, ans)
      [] k = "interface" -> compareRoutingInterface(row, ans)
      [] k = "storage" -> compareStorage(row, ans)
      [] k = "volume" -> compareVolume(row, ans)
      [] k = "snapshot" -> compareVolumeSnapshot(row, ans)
      [] k = "spec" -> compareInstanceSpec(row, ans)
      [] k = "instance" -> compareInstance(row, ans)
      [] k = "instance_network" -> compareInstanceNetwork(row, ans)
      [] k = "instance_volume" -> row.attr = ans.attr
      [] k = "instance_sg" -> FALSE
      [] k = "keypair" -> TRUE
=============================================================================
