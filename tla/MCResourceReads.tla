--------------------------- MODULE MCResourceReads ---------------------------
(* A cluster with two or three rows in the tables that are listed, and the   *)
(* requests that read them.                                                *)
EXTENDS ResourceReads

C == <<"cluster", 1>>
T == <<"tenant", 1>>
N == <<"network", 1>>
I == <<"instance", 1>>
G == <<"security_group", 1>>
G2 == <<"security_group", 2>>

\* <<row, the rows it names>>
World == {
    <<<<"group", 1>>, {}>>, <<<<"group", 2>>, {}>>,
    <<C, {<<"group", 1>>}>>, <<<<"cluster", 2>>, {<<"group", 2>>}>>,
    <<<<"permission", 1>>, {C, <<"group", 2>>}>>,
    <<T, {C}>>, <<<<"tenant", 2>>, {C}>>, <<<<"tenant", 3>>, {C}>>,
    <<<<"quota", 1>>, {T}>>, <<<<"quota", 2>>, {<<"tenant", 2>>}>>,
    <<<<"zone", 1>>, {C}>>, <<<<"zone", 2>>, {C}>>,
    <<<<"hypervisor", 1>>, {C, <<"zone", 1>>}>>, <<<<"hypervisor", 2>>, {C, <<"zone", 1>>}>>,
    <<<<"hypervisor", 3>>, {C, <<"zone", 2>>}>>,
    <<N, {T}>>, <<<<"network", 2>>, {T}>>,
    <<<<"subnet", 1>>, {N}>>, <<<<"subnet", 2>>, {N}>>, <<<<"subnet", 3>>, {<<"network", 2>>}>>,
    <<<<"dhcp_pool", 1>>, {<<"subnet", 1>>}>>, <<<<"nameserver", 1>>, {<<"subnet", 1>>}>>,
    <<<<"dhcp_pool", 3>>, {<<"subnet", 3>>}>>, <<<<"nameserver", 3>>, {<<"subnet", 3>>}>>,
    <<<<"floating_ip", 1>>, {T, N}>>,
    <<<<"router", 1>>, {T}>>, <<<<"router", 2>>, {T}>>,
    <<<<"interface", 1>>, {<<"router", 1>>, <<"subnet", 1>>}>>,
    <<<<"interface", 2>>, {<<"router", 2>>, <<"subnet", 3>>}>>,
    <<<<"route", 1>>, {<<"router", 1>>}>>, <<<<"route", 2>>, {<<"router", 2>>}>>,
    <<G, {T}>>, <<G2, {T}>>,
    <<<<"rule", 1>>, {G}>>, <<<<"rule", 2>>, {G}>>, <<<<"rule", 3>>, {G2}>>,
    <<<<"storage", 1>>, {C}>>, <<<<"storage", 2>>, {C}>>,
    <<<<"volume", 1>>, {T, <<"storage", 1>>}>>, <<<<"volume", 2>>, {T, <<"storage", 1>>}>>,
    <<<<"snapshot", 1>>, {<<"volume", 1>>}>>, <<<<"snapshot", 2>>, {<<"volume", 2>>}>>,
    <<<<"keypair", 1>>, {C}>>, <<<<"spec", 1>>, {C}>>, <<<<"spec", 2>>, {C}>>,
    <<<<"extra_spec", 1>>, {<<"spec", 1>>}>>, <<<<"extra_spec", 2>>, {<<"spec", 2>>}>>,
    <<I, {T, <<"zone", 1>>, <<"hypervisor", 1>>, <<"spec", 1>>, <<"keypair", 1>>}>>,
    <<<<"instance", 2>>, {T, <<"zone", 1>>, <<"hypervisor", 1>>, <<"spec", 1>>}>>,
    <<<<"port", 1>>, {I, N, <<"subnet", 1>>, <<"floating_ip", 1>>}>>,
    <<<<"attachment", 1>>, {I, <<"volume", 1>>}>>,
    <<<<"membership", 1>>, {I, G}>>,
    <<<<"script", 1>>, {I}>> }

MCRefs == [x \in {p[1] : p \in World} |-> (CHOOSE p \in World : p[1] = x)[2]]
MCRemote == [x \in DOMAIN MCRefs |-> IF x = <<"rule", 1>> THEN G2 ELSE IF x = <<"rule", 3>> THEN G ELSE <<>>]
MCExternal == {<<"network", 2>>}

\* The rows of a table, and those of some tables.
In(t) == {x \in DOMAIN MCRefs : x[1] = t}
Of(ts) == UNION {In(t) : t \in ts}

Alone(xs) == [x \in xs |-> {}]

\* A request for one thing, its rows, those that change, and its parts.
Read(op, x, rows, volatile, parts) ==
    [op |-> op, cluster |-> C, row |-> x, table |-> x[1], filter |-> <<>>,
     rows |-> {C} \cup rows, volatile |-> volatile, late |-> {}, parts |-> parts,
     match |-> rows, list |-> FALSE, offset |-> 0, limit |-> <<>>,
     user |-> "owner", valid |-> TRUE]
\* A list of all.
Lists(op, t, rows, volatile, parts) ==
    [Read(op, <<t>>, rows, volatile, parts) EXCEPT !.list = TRUE]
\* Without a list, the answer is the row.
Checks(op, x, rows) == Read(op, x, rows, {x}, Alone({x}))

Tenancy == Of({"tenant", "quota"})
Zones == Of({"zone", "hypervisor"})
Networking == {T} \cup Of({"network", "subnet", "dhcp_pool", "nameserver", "floating_ip"})
Routing == {T} \cup Of({"network", "subnet", "nameserver", "router", "interface", "route"})
Grouping == {T} \cup Of({"security_group", "rule"})
Storing == {T} \cup Of({"storage", "volume", "snapshot"})
Owning == Of({"cluster", "group", "permission"})
Computing == {C, T, <<"zone", 1>>, <<"hypervisor", 1>>, <<"spec", 1>>}
Serving ==
    {C, T, <<"zone", 1>>, <<"hypervisor", 1>>, <<"spec", 1>>, <<"extra_spec", 1>>, <<"keypair", 1>>,
     I, N, <<"subnet", 1>>, <<"nameserver", 1>>, <<"floating_ip", 1>>, <<"router", 1>>,
     <<"interface", 1>>, <<"route", 1>>, <<"port", 1>>, <<"storage", 1>>, <<"volume", 1>>,
     <<"attachment", 1>>, <<"membership", 1>>} \cup Of({"security_group", "rule"})

Network1 == {C, T, N, <<"subnet", 1>>, <<"subnet", 2>>, <<"dhcp_pool", 1>>, <<"nameserver", 1>>,
             <<"floating_ip", 1>>}
Router1 == {T, N, <<"subnet", 1>>, <<"nameserver", 1>>, <<"router", 1>>, <<"interface", 1>>,
            <<"route", 1>>}
\* What routers show of networks, they show because of their interfaces.
Routers(xs) ==
    [x \in xs |-> CASE x \in {N, <<"subnet", 1>>, <<"nameserver", 1>>} -> {<<"interface", 1>>}
                     [] x[1] \in {"network", "subnet", "nameserver"} -> {<<"interface", 2>>}
                     [] x = T -> In("router")
                     [] OTHER -> {}]
Group1 == [x \in {C, T, G, G2, <<"rule", 1>>, <<"rule", 2>>} |->
             IF x = G2 THEN {<<"rule", 1>>} ELSE {}]

Cluster1 == [x \in {C, <<"group", 1>>, <<"group", 2>>, <<"permission", 1>>} |->
               IF x = <<"group", 2>> THEN {<<"permission", 1>>} ELSE {C}]
Clusters == [x \in Of({"cluster", "group"}) |-> {<<"cluster", x[2]>>}]

\* How a part of an instance is connected with it.
Instance1 ==
    [x \in Serving \ {<<"rule", 3>>} |->
        CASE x \in {N, <<"subnet", 1>>, <<"nameserver", 1>>, <<"floating_ip", 1>>} -> {<<"port", 1>>}
          [] x \in {<<"router", 1>>, <<"interface", 1>>, <<"route", 1>>} ->
                {<<"port", 1>>, <<"interface", 1>>}
          [] x \in {<<"volume", 1>>, <<"storage", 1>>} -> {<<"attachment", 1>>}
          [] x \in {G, <<"rule", 1>>, <<"rule", 2>>} -> {<<"membership", 1>>}
          [] x = G2 -> {<<"membership", 1>>, <<"rule", 1>>}
          [] OTHER -> {I}]

Readings == {
    Read("GetCluster", C, Owning, Owning, Cluster1),
    Read("GetClusterAvailabilityZone", <<"zone", 1>>, Zones, {C} \cup Zones,
         Alone({C, <<"zone", 1>>, <<"hypervisor", 1>>, <<"hypervisor", 2>>})),
    Read("GetClusterHypervisor", <<"hypervisor", 1>>, Zones, {C} \cup Zones,
         Alone({C, <<"zone", 1>>, <<"hypervisor", 1>>})),
    Read("UpdateClusterHypervisor", <<"hypervisor", 1>>, Zones, {C} \cup Zones,
         Alone({C, <<"zone", 1>>, <<"hypervisor", 1>>})),
    Read("GetClusterTenant", T, Tenancy, {C} \cup Tenancy, Alone({C, T, <<"quota", 1>>})),
    Read("tenant_GetByUUID", T, Tenancy, {C} \cup Tenancy, Alone({C, T, <<"quota", 1>>})),
    Read("GetClusterNetwork", N, Networking, Networking, Alone(Network1)),
    Read("GetClusterNetworkByUUID", N, Networking, Networking, Alone(Network1)),
    Read("GetClusterSubnet", <<"subnet", 1>>, Networking, Networking,
         Alone({<<"subnet", 1>>, <<"dhcp_pool", 1>>, <<"nameserver", 1>>})),
    Read("GetClusterFloatingIP", <<"floating_ip", 1>>, Networking, {T, N, <<"floating_ip", 1>>},
         Alone({T, N, <<"floating_ip", 1>>})),
    Read("GetClusterRouter", <<"router", 1>>, Routing, Routing, Routers(Router1)),
    Read("router_GetByUUID", <<"router", 1>>, Routing, Routing, Routers(Router1)),
    Read("GetClusterSecurityGroup", G, Grouping, Grouping, Group1),
    Read("security_group_GetByUUID", G, Grouping, Grouping, Group1),
    Read("GetClusterStorage", <<"storage", 1>>, Storing, Storing, Alone({C, <<"storage", 1>>})),
    Read("GetClusterVolume", <<"volume", 1>>, Storing, Storing,
         Alone({C, T, <<"storage", 1>>, <<"volume", 1>>, <<"snapshot", 1>>})),
    Read("volume_GetByUUID", <<"volume", 1>>, Storing, Storing,
         Alone({C, T, <<"storage", 1>>, <<"volume", 1>>, <<"snapshot", 1>>})),
    Read("spec_Get", <<"spec", 1>>, Of({"spec", "extra_spec"}), Of({"spec", "extra_spec"}),
         Alone({C, <<"spec", 1>>, <<"extra_spec", 1>>})),
    Read("GetClusterInstanceSpecByUUID", <<"spec", 1>>, Of({"spec", "extra_spec"}),
         Of({"spec", "extra_spec"}), Alone({C, <<"spec", 1>>, <<"extra_spec", 1>>})),
    Read("GetClusterKeyPair", <<"keypair", 1>>, In("keypair"), In("keypair"),
         Alone({C, <<"keypair", 1>>})),
    Read("GetClusterInstanceUserScript", <<"script", 1>>, Computing \cup {I, <<"script", 1>>},
         {I, <<"script", 1>>}, Alone({<<"script", 1>>})),
    [Read("UpdateClusterInstanceUserScript", <<"script", 1>>, Computing \cup {I, <<"script", 1>>},
          {I, <<"script", 1>>}, Alone({})) EXCEPT !.late = {<<"script", 1>>}],
    Read("GetClusterInstance", I, Serving,
         {I, N, <<"port", 1>>, <<"interface", 1>>, <<"router", 1>>, <<"volume", 1>>, <<"keypair", 1>>,
          <<"membership", 1>>, <<"rule", 1>>, G2}, Instance1),
    Read("GetClusterInstanceByUUID", I, Serving,
         {I, N, <<"port", 1>>, <<"interface", 1>>, <<"attachment", 1>>, <<"floating_ip", 1>>,
          <<"rule", 1>>, G, G2}, Instance1) }

Checkings == {
    Checks("CheckIsExistClusterTenant", T, Tenancy),
    Checks("CheckIsExistClusterFloatingIP", <<"floating_ip", 1>>, Networking),
    Checks("CheckIsExistClusterRoutingInterface", <<"interface", 1>>, Routing),
    Checks("CheckIsExistClusterInstanceSpec", <<"spec", 1>>, Of({"spec"})),
    Checks("CheckIsExistClusterKeypair", <<"keypair", 1>>, In("keypair")),
    Checks("CheckIsExistClusterSecurityGroup", G, Grouping) }

\* Of a list, the tenant is a part if any item is.
Items(t, rows) == [x \in rows |-> IF x[1] \in {"tenant", "storage", "zone", "hypervisor"} /\ x[1] # t
                                  THEN In(t) ELSE {}]

Listings == {
    Lists("GetClusterList", "cluster", Owning \ In("permission"), Of({"cluster", "group"}),
          Clusters),
    Lists("GetClusterAvailabilityZoneList", "zone", Zones, Zones, Alone({C} \cup In("zone"))),
    Lists("GetClusterHypervisorList", "hypervisor", Zones, Zones, Items("hypervisor", {C} \cup Zones)),
    Lists("GetClusterTenantList", "tenant", Tenancy, {C} \cup Tenancy, Alone({C} \cup Tenancy)),
    Lists("GetClusterNetworkList", "network", Networking, Of({"network", "subnet"}),
          Items("network", {C, T} \cup In("network"))),
    Lists("GetClusterRouterList", "router", Routing, Routing, Routers(Routing \ {<<"subnet", 2>>})),
    Lists("GetClusterSecurityGroupList", "security_group", Grouping, Grouping,
          Items("security_group", {C, T} \cup In("security_group"))),
    Lists("GetClusterStorageList", "storage", Storing, Storing, Alone({C} \cup In("storage"))),
    Lists("GetClusterVolumeList", "volume", Storing, Storing,
          Items("volume", {C, T, <<"storage", 1>>} \cup Of({"volume", "snapshot"}))),
    Lists("spec_GetList", "spec", Of({"spec", "extra_spec"}), Of({"spec", "extra_spec"}),
          Alone({C} \cup Of({"spec", "extra_spec"}))),
    Lists("GetClusterInstanceList", "instance", Computing \cup In("instance"), {T} \cup In("instance"),
          Items("instance", {C, T, <<"zone", 1>>, <<"hypervisor", 1>>} \cup In("instance"))) }

\* Lists whose filter looks up other rows first.
Filtered == {
    [Lists("GetClusterRouterList", "router", Routing, {N} \cup Of({"router", "interface"}),
           [x \in Router1 |-> {<<"interface", 1>>}]) EXCEPT !.filter = N],
    [Lists("GetClusterRouterList", "router", Routing, {N} \cup Of({"router", "interface"}),
           Alone({C})) EXCEPT !.filter = <<"network", 2>>],
    [Lists("GetClusterSecurityGroupList", "security_group",
           Computing \cup {I, G, G2, <<"membership", 1>>}, {I, G, <<"membership", 1>>},
           [x \in {C, T, G} |-> {<<"membership", 1>>}]) EXCEPT !.filter = I],
    [Lists("GetClusterVolumeList", "volume",
           Computing \cup Storing \cup {I, <<"attachment", 1>>}, {I, <<"volume", 1>>, <<"attachment", 1>>},
           [x \in {C, T, <<"storage", 1>>, <<"volume", 1>>, <<"snapshot", 1>>} |-> {<<"attachment", 1>>}])
     EXCEPT !.filter = I],
    [Lists("GetClusterInstanceList", "instance",
           Computing \cup Storing \cup In("instance") \cup {<<"attachment", 1>>},
           {I, <<"volume", 1>>, <<"attachment", 1>>},
           [x \in {C, T, <<"zone", 1>>, <<"hypervisor", 1>>, I} |-> {<<"attachment", 1>>}])
     EXCEPT !.filter = <<"volume", 1>>] }

Tenants == Lists("GetClusterTenantList", "tenant", Tenancy, In("tenant"), Alone({C} \cup Tenancy))
Paged == {[Tenants EXCEPT !.offset = o, !.limit = l] : o \in {0, 1, 2, 4}, l \in {<<>>, <<0>>, <<1>>, <<2>>}}

ByUsers == {[r EXCEPT !.user = u] :
             r \in {Read("GetClusterTenant", T, Tenancy, {C, T}, Alone({C, T, <<"quota", 1>>})),
                    Read("GetCluster", C, Owning, {C}, Cluster1)},
             u \in {"other", "stranger", "admin"}}

Number == Read("GetClusterInstanceNumber", C, Owning \cup Computing \cup In("instance"), In("instance"),
               Cluster1)
Others == {
    Number,
    [Number EXCEPT !.row = <<>>, !.parts = Clusters, !.rows = @ \ In("permission")],
    [Tenants EXCEPT !.valid = FALSE],
    [Read("GetClusterTenant", T, Tenancy, Tenancy, Alone({C, T, <<"quota", 1>>})) EXCEPT
        !.late = Tenancy],
    [Tenants EXCEPT !.late = Tenancy] }

MCReads == Readings \cup Checkings \cup Listings \cup Filtered \cup Paged \cup ByUsers \cup Others

\* Requests that refute NameIsFound, MissingIsReported and AdminReadsAll.
KeyPairReads == {Read("GetClusterKeyPair", <<"keypair", 1>>, Tenancy \cup In("keypair"), {}, Alone({C}))}
OtherTenantGroups ==
    {Read("CheckIsExistClusterSecurityGroup", G, Grouping, {}, Alone({G}))}
VisitorReads ==
    {[Read("GetClusterTenant", T, Tenancy, {}, Alone({C, T, <<"quota", 1>>})) EXCEPT !.user = "visitor"]}
=============================================================================
