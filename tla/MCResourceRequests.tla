-------------------------- MODULE MCResourceRequests --------------------------
(* Requests of every kind, each with the part of the cloud that it concerns.  *)
EXTENDS ResourceRequests

Objs(kind, n) == I!Numbered(kind, n)

\* before: what is there. asked: what is there after success. ended: what is not.
\* more: what may come and go on the way. others: what belongs to someone else.
R(op, n, opt, before, asked, ended, more, others) ==
    [op |-> op, n |-> n, opt |-> opt, before |-> before \cup others, asked |-> asked,
     ended |-> ended, others |-> others,
     objects |-> before \cup asked \cup ended \cup more \cup others]

Create(op, n, opt, before, asked, more) == R(op, n, opt, before, asked, {}, more, {})
Delete(op, n, opt, before, ended) == R(op, n, opt, before, {}, ended, {}, {})
ReadOne(op, x) == R(op, 0, {}, {x}, {}, {}, {}, {})

otherDefault == {<<"default", 9>>}
otherSnapshot == {<<"group_snapshot", 9>>}
default == {<<"default", 1>>}
type == {<<"group_type", 1>>}
routed(n) == Objs("port", n) \cup Objs("interface", n)
quotas == {"compute", "network", "storage"}

MCTenants ==
    {R("CreateClusterTenant", 0, quotas, {}, {I!project}, {}, default, otherDefault),
     R("DeleteClusterTenant", 0, {}, {I!project} \cup default, {}, {I!project} \cup default, {},
       otherDefault)}

MCNetworks ==
    {Create("CreateClusterNetwork", 0, {}, {}, {I!network}, {}),
     Delete("DeleteClusterNetwork", 0, {}, {I!network}, {I!network}),
     Create("CreateClusterSubnet", 0, {}, {I!network}, {I!subnet}, {}),
     Delete("DeleteSubnet", 0, {}, {I!network, I!subnet}, {I!subnet}),
     Create("CreateClusterFloatingIP", 0, {}, {I!network}, {I!floating_ip}, {}),
     Delete("DeleteClusterFloatingIP", 0, {}, {I!network, I!floating_ip}, {I!floating_ip}),
     Create("CreateClusterRouter", 2, {"routes"}, {},
            {I!router, <<"route", 1>>} \cup routed(2), {}),
     Delete("DeleteClusterRouter", 2, {}, {I!router, <<"route", 1>>} \cup routed(2),
            {I!router, <<"route", 1>>} \cup routed(2)),
     R("CreateClusterSecurityGroup", 0, {}, {}, {I!security_group}, Objs("rule", 2), {}, {}),
     Create("CreateClusterSecurityGroupRule", 0, {}, {I!security_group}, {<<"rule", 3>>}, {}),
     Delete("DeleteClusterSecurityGroup", 2, {}, {I!security_group} \cup Objs("rule", 3),
            {I!security_group} \cup Objs("rule", 3))}

MCVolumes ==
    {Create("CreateVolume", 0, {"readonly", "bootable"}, {}, {I!volume}, {}),
     Delete("DeleteVolume", 0, {}, {I!volume}, {I!volume}),
     Create("CreateVolumeSnapshot", 0, {}, {I!volume}, {I!snapshot}, {}),
     Delete("DeleteVolumeSnapshot", 0, {}, {I!volume, I!snapshot}, {I!snapshot}),
     Create("ImportClusterVolume", 2, {"metadata", "readonly"}, {},
            {I!volume} \cup Objs("snapshot", 2), {}),
     Delete("UnmanageClusterVolume", 2, {"metadata"}, {I!volume} \cup Objs("snapshot", 2),
            {I!volume} \cup Objs("snapshot", 2)),
     Delete("UnmanageClusterVolume", 2, {}, {I!volume}, {}),
     Create("CopyVolume", 0, {"metadata"}, {I!volume}, {}, {}),
     Delete("DeleteVolumeCopy", 0, {"metadata"}, {I!volume}, {}),
     Create("CopyClusterVolume", 0, {"metadata"}, {I!volume}, {}, {}),
     Delete("DeleteClusterVolumeCopy", 0, {"metadata"}, {I!volume}, {}),
     Delete("DeleteClusterVolume", 0, {}, {I!volume}, {})}

MCVolumeGroups ==
    {Create("CreateClusterVolumeGroup", 0, {}, {}, {I!group} \cup type, {}),
     R("DeleteClusterVolumeGroup", 0, {}, {I!group, I!group_snapshot} \cup type \cup Objs("member", 3),
       {}, {I!group, I!group_snapshot} \cup type \cup Objs("member", 3), {}, otherSnapshot),
     R("UpdateClusterVolumeGroup", 3, {}, {I!group} \cup Objs("member", 3),
       {I!group, <<"member", 4>>, <<"member", 5>>}, Objs("member", 3), {}, {}),
     Create("CreateVolumeGroupSnapshot", 0, {}, {I!group}, {I!group_snapshot}, {}),
     Create("CreateClusterVolumeGroupSnapshot", 0, {}, {I!group}, {}, {}),
     R("DeleteClusterVolumeGroupSnapshot", 0, {}, {I!group, I!group_snapshot}, {},
       {I!group_snapshot}, {}, otherSnapshot),
     ReadOne("GetClusterVolumeGroupList", I!group),
     ReadOne("GetClusterVolumeGroupByUUID", I!group),
     ReadOne("GetClusterVolumeGroupSnapshotList", I!group)}

MCInstances ==
    {Create("CreateClusterInstance", 2, {"floating"}, {I!floating_ip},
            {I!server} \cup Objs("port", 2), {}),
     Delete("DeleteClusterInstance", 0, {}, {I!server} \cup Objs("port", 2),
            {I!server} \cup Objs("port", 2)),
     R("StartInstance", 0, {}, {I!server}, {I!server}, {}, {}, {}),
     R("StopClusterInstance", 0, {}, {I!server}, {I!server}, {}, {}, {}),
     Create("CreateClusterInstanceSpec", 0, {}, {}, {I!flavor}, {}),
     Delete("DeleteClusterInstanceSpec", 0, {}, {I!flavor}, {I!flavor}),
     Create("CreateClusterKeypair", 0, {}, {}, {I!keypair}, {}),
     Delete("DeleteClusterKeypair", 0, {}, {I!keypair}, {I!keypair})}

MCExistence ==
    {R("CheckIsExistClusterInstance", 0, {},
       {I!server, I!subnet, <<"port", 1>>, <<"attachment", 1>>}, {}, {}, {}, {})}

MCReadings ==
    {R("GetVolume", 0, {}, {I!volume, <<"attachment", 1>>}, {}, {}, {}, {})} \cup
    {ReadOne("GetTenant", I!project), ReadOne("GetHypervisor", <<"hypervisor", 1>>),
     ReadOne("GetInstanceSpec", I!flavor), ReadOne("GetInstanceExtraSpec", I!flavor),
     ReadOne("GetKeyPair", I!keypair), ReadOne("GetNetwork", I!network),
     ReadOne("GetSubnet", I!subnet), ReadOne("GetFloatingIP", I!floating_ip),
     ReadOne("GetRouter", I!router), ReadOne("GetSecurityGroup", I!security_group),
     ReadOne("GetSecurityGroupRule", <<"rule", 3>>), ReadOne("GetStorage", <<"storage", 1>>),
     ReadOne("GetVolumeSnapshot", I!snapshot)} \cup
    {ReadOne(op, I!project) :
        op \in {"GetAvailabilityZoneList", "GetHypervisorList", "GetInstanceList",
                "GetKeyPairList", "GetTenantList", "GetNetworkList", "GetRouterList",
                "GetSecurityGroupList", "GetStorageList", "GetVolumeList",
                "GetVolumeSnapshotList"}}

MCRequests ==
    MCTenants \cup MCNetworks \cup MCVolumes \cup MCVolumeGroups \cup MCInstances
        \cup MCExistence \cup MCReadings
MCImports == {r \in MCVolumes : r.op = "ImportClusterVolume"}

MCCatalogs == {{}, {"compute"}, {"network"}, {"volumev3"}}
MCWhole == {{}}
=============================================================================
