---------------------------- MODULE ReadQueries ----------------------------
(***************************************************************************)
(* The queries by which a request reads the tables of a cluster, in the    *)
(* order of the code, one definition for each function of internal/ that   *)
(* reads. ResourceReads carries them out one at a time: database.Execute   *)
(* is no transaction, so the synchronisers write between any two of them.  *)
(*                                                                         *)
(* A row is <<table, number>>. A query is a record:                        *)
(*   ask      owner: IsClusterOwner; one, maybe: the row `by`; many: the   *)
(*            rows of the table that name `by`; in: those that the rows    *)
(*            read from the table `by` name; list: the rows that the       *)
(*            filters let through; filter: the rows that a filter looks up *)
(*            for the next list or count; page: the count of a list;       *)
(*            exists: the count of a name; each: no query, a loop over the *)
(*            rows read from the table; allowed: IsGroupUser; check: a     *)
(*            check of the request, which may refuse it; sync, save and    *)
(*            update: no reading, see ResourceReads                        *)
(*   by       see ask; of a list, whether a filter has looked rows up      *)
(*   joins    the tables whose named rows are read along                   *)
(*   then     what is read for every row found (Follow), "" for nothing    *)
(*   missing  the error when `by` is not there                             *)
(*   block    the function literal whose error the code drops, <<>> if it  *)
(*            returns the error                                            *)
(*   draft    the row that is being completed and that this error leaves   *)
(*            out of the answer, <<>> for none                             *)
(* Functions of the same name in different packages are distinguished by   *)
(* the package: tenant_Get is Get of internal/tenant. A request r names    *)
(* its cluster and the row it is about (by ID, UUID, name or address).     *)
(***************************************************************************)
EXTENDS Sequences

CONSTANTS
    Refs,       \* the rows that a row names
    Remote,     \* the group that a rule names as remote group, <<>> for none
    External    \* the networks with the external flag

Tables ==
    {"cluster", "group", "permission", "zone", "hypervisor", "tenant", "quota", "network",
     "subnet", "dhcp_pool", "nameserver", "floating_ip", "router", "interface", "route",
     "security_group", "rule", "storage", "volume", "snapshot", "keypair", "spec",
     "extra_spec", "instance", "port", "attachment", "membership", "script"}

Ref(x, t) == CHOOSE y \in Refs[x] : y[1] = t
HasRef(x, t) == \E y \in Refs[x] : y[1] = t

Query(ask, table, by, joins, then) ==
    [ask |-> ask, table |-> table, by |-> by, joins |-> joins, then |-> then,
     missing |-> "NotFound", block |-> <<>>, draft |-> <<>>]

One(x, joins) == Query("one", x[1], x, joins, "")
Many(table, x, joins, then) == Query("many", table, x, joins, then)
List(table, joins, then) == Query("list", table, <<>>, joins, then)
Filter(table, x) == Query("filter", table, x, {}, "")
Page(table) == Query("page", table, <<>>, {}, "")
Exists(x) == Query("exists", x[1], x, {}, "")
Each(table, then) == Query("each", table, <<>>, {}, then)
Sifted == <<"sifted">>

\* A function literal whose error is dropped.
Dropped(block, queries) ==
    [i \in DOMAIN queries |-> [queries[i] EXCEPT !.block = block]]

(* Faulty variant: the IDs that the filter has looked up are used for the count only. *)
ListingUnsifted(filter, list, page) ==
    IF filter = <<>> THEN <<list, page>>
    ELSE <<list>> \o filter \o <<[page EXCEPT !.by = Sifted]>>

\* A list and its count, each after the filter's own query if there is one.
Listing(filter, list, page) ==
    IF filter = <<>> THEN <<list, page>>
    ELSE filter \o <<[list EXCEPT !.by = Sifted]>> \o filter \o <<[page EXCEPT !.by = Sifted]>>

-----------------------------------------------------------------------------
(* internal/cluster. The list is not bound to a cluster of the request.    *)

IsClusterOwner(r) == Query("owner", "cluster", r.cluster, {}, "")
getCluster(r) == One(r.cluster, {})
getGroup(x) == One(Ref(x, "group"), {})
getClusterPermissions(r) == Many("permission", r.cluster, {}, "permission")
getClusters(r) == List("cluster", {}, "cluster")
getClustersPagination(r) == Page("cluster")
cluster_GetList(r) == <<getClusters(r), getClustersPagination(r)>>

\* The groups of the permissions are read after the user has been checked.
cluster_Get(r) ==
    <<getCluster(r), getGroup(r.cluster),
      [getClusterPermissions(r) EXCEPT !.then = ""],
      Query("allowed", "cluster", r.cluster, {}, ""),
      Each("permission", "permission")>>

-----------------------------------------------------------------------------
(* internal/availability_zone, internal/hypervisor *)

getAvailabilityZone(r) == One(r.row, {})
getClusterHypervisors(z) == Many("hypervisor", z, {}, "")
getAvailabilityZoneList(r) == List("zone", {}, "")
getAvailabilityZonesPagination(r) == Page("zone")
availability_zone_Get(r) ==
    <<IsClusterOwner(r), getAvailabilityZone(r), getCluster(r), getClusterHypervisors(r.row)>>
availability_zone_GetList(r) ==
    <<IsClusterOwner(r), getCluster(r), getAvailabilityZoneList(r),
      getAvailabilityZonesPagination(r)>>

getHypervisorRecord(r) == One(r.row, {"zone"})
getHypervisorRecordList(r) == List("hypervisor", {"zone"}, "")
getHypervisorsPagination(r) == Page("hypervisor")
hypervisor_Get(r) == <<IsClusterOwner(r), getCluster(r), getHypervisorRecord(r)>>
hypervisor_GetList(r) ==
    <<IsClusterOwner(r), getCluster(r), getHypervisorRecordList(r),
      getHypervisorsPagination(r)>>
checkValidHypervisor(r) == Query("check", "hypervisor", r.row, {}, "")
\* The UPDATE of a hypervisor that is not there changes nothing and is no error.
hypervisor_Update(r) ==
    <<IsClusterOwner(r), checkValidHypervisor(r), Query("update", "hypervisor", r.row, {}, "")>>
        \o hypervisor_Get(r)

-----------------------------------------------------------------------------
(* internal/tenant *)

GetQuotas(t) == Many("quota", t, {}, "")
getClusterTenant(r) == One(r.row, {})
getClusterTenantByUUID(r) == One(r.row, {})
getClusterTenantList(r) == List("tenant", {}, "tenant")
getTenantPagination(r) == Page("tenant")
checkIsExistTenantByName(r) == Exists(r.row)
tenant_Get(r) ==
    <<IsClusterOwner(r), getCluster(r), getClusterTenant(r), GetQuotas(r.row)>>
tenant_GetByUUID(r) ==
    <<IsClusterOwner(r), getCluster(r), getClusterTenantByUUID(r), GetQuotas(r.row)>>
tenant_GetList(r) ==
    <<IsClusterOwner(r), getCluster(r), getClusterTenantList(r), getTenantPagination(r)>>
CheckIsExistTenant(r) == <<IsClusterOwner(r), checkIsExistTenantByName(r)>>

-----------------------------------------------------------------------------
(* internal/network, internal/floating_ip *)

GetSubnets(n) == Many("subnet", n, {}, "subnet")
GetDHCPPools(s) == Many("dhcp_pool", s, {}, "")
GetSubnetNameservers(s) == Many("nameserver", s, {}, "")
GetFloatingIPs(n) == Many("floating_ip", n, {}, "")
getClusterNetwork(n) == One(n, {"tenant"})
getClusterNetworkByUUID(n) == One(n, {"tenant"})
getClusterNetworks(r) == List("network", {"tenant"}, "")
getNetworksPagination(r) == Page("network")
getClusterSubnet(r) == One(r.row, {})

network_Get(r, n) ==
    <<IsClusterOwner(r), getCluster(r), getClusterNetwork(n), GetSubnets(n),
      GetFloatingIPs(n)>>
network_GetByUUID(r, n) ==
    <<IsClusterOwner(r), getCluster(r), getClusterNetworkByUUID(n), GetSubnets(n),
      GetFloatingIPs(n)>>
network_GetList(r) ==
    <<IsClusterOwner(r), getCluster(r), getClusterNetworks(r), getNetworksPagination(r)>>
GetSubnet(r) ==
    <<IsClusterOwner(r), getClusterSubnet(r), GetDHCPPools(r.row),
      GetSubnetNameservers(r.row)>>

getClusterFloatingIP(r) == One(r.row, {"tenant", "network"})
checkIsExistFloatingIPByIPAddress(r) == Exists(r.row)
GetFloatingIP(r) == <<IsClusterOwner(r), getClusterFloatingIP(r)>>
CheckIsExistFloatingIP(r) == <<IsClusterOwner(r), checkIsExistFloatingIPByIPAddress(r)>>

-----------------------------------------------------------------------------
(* internal/router. Get and GetList drop the error of the literal in which *)
(* they read the interfaces and routes; GetByUUID returns it.              *)

getRoutingInterfaceRecords(x) == Many("interface", x, {"subnet", "network"}, "interface")
GetExtraRoutes(x) == Many("route", x, {}, "")
getRouter(r) == One(r.row, {"tenant"})
getRouterByUUID(r) == One(r.row, {"tenant"})
getRouters(r) == List("router", {"tenant"}, "router")
getRoutersPagination(r) == Page("router")
checkIsExistRoutingInterfaceByIPAddress(r) == Exists(r.row)
CheckIsExistRoutingInterface(r) ==
    <<IsClusterOwner(r), checkIsExistRoutingInterfaceByIPAddress(r)>>

\* The routers with an interface in a subnet of the network n, of none if n is
\* external (external_flag = false is asked for); <<>> for all routers.
Internal(n) == IF n \in External THEN <<>> ELSE n
clusterNetworkFilter(n) == IF n = <<>> THEN <<>> ELSE <<Filter("interface", Internal(n))>>
router_GetList(r, n) ==
    <<IsClusterOwner(r)>> \o
    Dropped(<<"GetList", n>>,
            Listing(clusterNetworkFilter(n), getRouters(r), getRoutersPagination(r)))
router_Get(r) ==
    <<IsClusterOwner(r), getRouter(r)>> \o
    Dropped(<<"Get", r.row>>, <<getRoutingInterfaceRecords(r.row), GetExtraRoutes(r.row)>>)
router_GetByUUID(r) ==
    <<IsClusterOwner(r), getRouterByUUID(r), getRoutingInterfaceRecords(r.row),
      GetExtraRoutes(r.row)>>

-----------------------------------------------------------------------------
(* internal/security_group *)

GetSecurityGroupRules(g) == Many("rule", g, {}, "rule")
(* Faulty variant: gorm's error is passed on as it is. *)
GetRemoteSecurityGroupRaw(u) ==
    [One(Remote[u], {}) EXCEPT !.missing = "record not found", !.draft = u]

(* Faulty variant: the rules of the remote group are read as well. *)
GetRemoteSecurityGroupRules(u) ==
    [One(Remote[u], {}) EXCEPT !.missing = "Unknown", !.draft = u, !.then = "rules"]

\* gorm's record-not-found becomes errors.Unknown.
GetRemoteSecurityGroup(u) ==
    [One(Remote[u], {}) EXCEPT !.missing = "Unknown", !.draft = u]
getSecurityGroup(r) == One(r.row, {"tenant"})
getSecurityGroupByUUID(r) == One(r.row, {"tenant"})
getSecurityGroups(r) == List("security_group", {"tenant"}, "")
getSecurityGroupPagination(r) == Page("security_group")
clusterInstanceIDFilter(r) == IF r.filter = <<>> THEN <<>> ELSE <<Filter("membership", r.filter)>>
security_group_Get(r) ==
    <<IsClusterOwner(r), getCluster(r), getSecurityGroup(r), GetSecurityGroupRules(r.row)>>
security_group_GetByUUID(r) ==
    <<IsClusterOwner(r), getCluster(r), getSecurityGroupByUUID(r), GetSecurityGroupRules(r.row)>>
security_group_GetList(r) ==
    <<IsClusterOwner(r), getCluster(r)>> \o
    Listing(clusterInstanceIDFilter(r), getSecurityGroups(r), getSecurityGroupPagination(r))

\* The caller passes the ID of the cluster as the ID of the tenant.
checkIsExistSecurityGroupByName(tid, x) ==
    [Exists(x) EXCEPT !.joins = {<<"tenant", tid>>}]
CheckIsExistSecurityGroup(r) ==
    <<IsClusterOwner(r), checkIsExistSecurityGroupByName(r.cluster[2], r.row)>>

-----------------------------------------------------------------------------
(* internal/storage, internal/volume *)

getClusterStorage(r) == One(r.row, {})
getClusterStorageList(r) == List("storage", {}, "")
getStoragePagination(r) == Page("storage")
storage_Get(r) == <<IsClusterOwner(r), getCluster(r), getClusterStorage(r)>>
storage_GetList(r) ==
    <<IsClusterOwner(r), getCluster(r), getClusterStorageList(r), getStoragePagination(r)>>

GetVolumeSnapshots(v) == Many("snapshot", v, {}, "")
getVolumeRecord(r) == One(r.row, {"tenant", "storage"})
getVolumeRecordByUUID(r) == One(r.row, {"tenant", "storage"})
getVolumeRecords(r) == List("volume", {"tenant", "storage"}, "volume")
getVolumePagination(r) == Page("volume")
\* GetVolumes reads the attachments of the instance and then their volumes.
volumeInstanceIDFilter(r) ==
    IF r.filter = <<>> THEN <<>>
    ELSE <<Filter("attachment", r.filter), Query("refilter", "volume", r.filter, {}, "")>>
volume_Get(r) ==
    <<IsClusterOwner(r), getCluster(r), getVolumeRecord(r), GetVolumeSnapshots(r.row)>>
volume_GetByUUID(r) ==
    <<IsClusterOwner(r), getCluster(r), getVolumeRecordByUUID(r), GetVolumeSnapshots(r.row)>>
volume_GetList(r) ==
    <<IsClusterOwner(r), getCluster(r)>> \o
    Listing(volumeInstanceIDFilter(r), getVolumeRecords(r), getVolumePagination(r))

-----------------------------------------------------------------------------
(* internal/spec, internal/keypair *)

GetExtraSpecs(s) == Many("extra_spec", s, {}, "")
getInstanceSpec(r) == One(r.row, {})
getInstanceSpecByUUID(r) == One(r.row, {})
getClusterInstanceSpecList(r) == List("spec", {}, "spec")
getInstanceSpecsPagination(r) == Page("spec")
spec_Get(r) == <<IsClusterOwner(r), getCluster(r), getInstanceSpec(r), GetExtraSpecs(r.row)>>
spec_GetByUUID(r) ==
    <<IsClusterOwner(r), getCluster(r), getInstanceSpecByUUID(r), GetExtraSpecs(r.row)>>
spec_GetList(r) ==
    <<IsClusterOwner(r), getCluster(r), getClusterInstanceSpecList(r),
      getInstanceSpecsPagination(r)>>
\* The specs of that name are synchronised, and what is left is counted.
checkIsExistInstanceSpecByName(r) ==
    <<Query("maybe", "spec", r.row, {}, ""), Query("sync", "spec", r.row, {}, ""),
      Exists(r.row)>>
CheckIsExistInstanceSpec(r) == <<IsClusterOwner(r)>> \o checkIsExistInstanceSpecByName(r)

getKeypair(r) == One(r.row, {})
checkIsExistKeypairByName(r) == Exists(r.row)
keypair_Get(r) ==
    <<IsClusterOwner(r)>> \o Dropped(<<"Get", r.row>>, <<getCluster(r), getKeypair(r)>>)
CheckIsExistKeypair(r) == <<IsClusterOwner(r), checkIsExistKeypairByName(r)>>

-----------------------------------------------------------------------------
(* internal/instance *)

getInstanceRecord(x) == One(x, {"tenant", "hypervisor", "zone", "spec"})
getInstanceRecordByUUID(x) == One(x, {"tenant", "hypervisor", "zone", "spec"})
\* An instance without a key pair is no error.
GetKeypair(x) ==
    Query("maybe", "keypair", IF HasRef(x, "keypair") THEN Ref(x, "keypair") ELSE <<>>, {}, "")
getNetworkRecords(x) == Many("port", x, {"network", "subnet", "floating_ip"}, "")
getInstanceVolumeRecords(x) == Many("attachment", x, {"volume", "storage"}, "")
GetSecurityGroups(x) ==
    <<Many("membership", x, {}, ""), Query("in", "security_group", <<"membership">>, {}, "")>>
getClusterInstanceList(r) ==
    List("instance", {"tenant", "hypervisor", "zone"}, "")
getInstancePagination(r) == Page("instance")
getInstanceCount(r) == Page("instance")
volumeFilter(r) == IF r.filter = <<>> THEN <<>> ELSE <<Filter("attachment", r.filter)>>

\* The spec is always the one that the record of the instance was joined with.
Details(r) ==
    <<GetKeypair(r.row), GetExtraSpecs(Ref(r.row, "spec")), getNetworkRecords(r.row),
      Each("port", "routers"), getInstanceVolumeRecords(r.row)>> \o
    GetSecurityGroups(r.row) \o <<[Each("port", "network") EXCEPT !.by = <<"network">>]>>
instance_Get(r) ==
    <<IsClusterOwner(r), getCluster(r), getInstanceRecord(r.row)>> \o Details(r) \o
    <<Each("security_group", "rules")>>
\* The error of the literal that reads the rules of a group is dropped.
instance_GetByUUID(r) ==
    <<IsClusterOwner(r), getCluster(r), getInstanceRecordByUUID(r.row)>> \o Details(r) \o
    <<Each("security_group", "some rules")>>
instance_GetList(r) ==
    <<IsClusterOwner(r), getCluster(r)>> \o
    Listing(volumeFilter(r), getClusterInstanceList(r), getInstancePagination(r))
\* Without a cluster in the request: of all the clusters listed.
GetInstanceNumber(r) ==
    (IF r.row = <<>> THEN cluster_GetList(r) ELSE cluster_Get(r)) \o <<getInstanceCount(r)>>
GetInstanceUserScript(r) == <<Query("maybe", "script", r.row, {}, "")>>
UpdateInstanceUserScript(r) == <<Query("save", "script", r.row, {}, "")>>

-----------------------------------------------------------------------------
(* The loops: what is read for a row x that the query q has found.         *)

\* An interface that is read for a list belongs to its router.
Draft(q, x) == IF q.draft = <<>> THEN x ELSE q.draft

Follow(q, x, r) ==
    CASE q.then = "cluster" -> <<getGroup(x)>>
      [] q.then = "permission" -> <<getGroup(x)>>
      [] q.then = "tenant" -> <<GetQuotas(x)>>
      [] q.then = "subnet" -> <<GetDHCPPools(x), GetSubnetNameservers(x)>>
      [] q.then = "router" ->
            <<[getRoutingInterfaceRecords(x) EXCEPT !.draft = x],
              [GetExtraRoutes(x) EXCEPT !.draft = x]>>
      [] q.then = "interface" ->
            <<[GetSubnetNameservers(Ref(x, "subnet")) EXCEPT !.draft = Draft(q, x)]>>
      [] q.then = "rule" /\ Remote[x] # <<>> -> <<GetRemoteSecurityGroup(x)>>
      [] q.then = "volume" -> <<GetVolumeSnapshots(x)>>
      [] q.then = "spec" -> <<GetExtraSpecs(x)>>
      [] q.then = "routers" -> router_GetList(r, Ref(x, "network"))
      [] q.then = "network" -> network_Get(r, x)
      [] q.then = "rules" -> <<GetSecurityGroupRules(x)>>
      [] q.then = "some rules" -> Dropped(<<"GetByUUID", x>>, <<GetSecurityGroupRules(x)>>)
      [] OTHER -> <<>>
=============================================================================
