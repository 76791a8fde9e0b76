----------------------------- MODULE CloudClient -----------------------------
(***************************************************************************)
(* The OpenStack client (openstack.go, ceph.go): one definition for each   *)
(* of its methods, the requests that it sends, in their order, and what it *)
(* does when one of them fails. ResourceRequests executes these programs.  *)
(*                                                                         *)
(* An object of the cloud is <<kind, n>>. "seen" are the objects that the  *)
(* answers received so far have named: a method that loops over a list     *)
(* loops over what the list showed.                                        *)
(***************************************************************************)
EXTENDS Naturals, Sequences, SequencesExt

CONSTANT Limit      \* volumes in one update of a volume group; 6 in the code

T == INSTANCE CloudCalls

-----------------------------------------------------------------------------
(* Steps. "failing" is what a failed request does to the program:          *)
(*   return    the method returns the error                                *)
(*   warn      it is logged and the next step follows                      *)
(*   end       it is logged and the program ends as if it had succeeded    *)
(*   absent    NotFound ends the program with success, the rest returns    *)
(*   busy      RemoteServerError is logged, the rest returns               *)
(*   else      the next step is tried instead; it is skipped otherwise     *)

Step(call, x, failing) ==
    [call |-> call, obj |-> x, failing |-> failing, lists |-> {}, adds |-> {}, drops |-> {},
     when |-> <<>>]

Do(call, x) == Step(call, x, "return")
Try(call, x) == Step(call, x, "warn")
List(call, x, kinds) == [Step(call, x, "return") EXCEPT !.lists = kinds]

\* A request that names no object which could be absent.
Cloud == <<"cloud", 1>>
Ask(call) == Do(call, Cloud)

\* Something that the client cannot use in a request or in an answer: a missing
\* role, host or parent, a state, a time or a kind of storage that it does not
\* know, different external networks.
Judge == Ask(T!Call("judge", "compute", T!Vague, T!NoCheck))
\* Close and Connect.
Connect == Ask(T!Call("connect", "identity", T!Listing, T!NoCheck))

Each(call, xs) == LET s == SetToSeq(xs) IN [i \in 1..Len(s) |-> Do(call, s[i])]
EachTry(call, xs) == LET s == SetToSeq(xs) IN [i \in 1..Len(s) |-> Try(call, s[i])]
When(c, steps) == IF c THEN steps ELSE <<>>

\* undo: after an error, each step only if the answer named its object ("when").
\* final: after the method has returned, whatever it returned.
Program(steps) == [steps |-> steps, undo |-> <<>>, final |-> <<>>]
Undoing(steps, undo) == [steps |-> steps, undo |-> undo, final |-> <<>>]
If(x, step) == [step EXCEPT !.when = x]

\* Objects 8 and 9 of a kind belong to something else than the object of a request.
Owner(y) == IF y[2] < 8 THEN 1 ELSE 2
Owned(k, x, seen) == {y \in seen : y[1] = k /\ Owner(y) = x[2]}
Shown(k, seen) == {y \in seen : y[1] = k}

-----------------------------------------------------------------------------
(* Tenants *)

updateQuotas(x, quotas) ==
    When("compute" \in quotas, <<Do(T!UpdateComputeQuotas, x)>>) \o
    When("network" \in quotas, <<Do(T!UpdateNetworkQuotaForAProject, x)>>) \o
    When("storage" \in quotas, <<Do(T!UpdateStorageQuotasForAProject, x)>>)

(* Faulty variant: the default groups of all tenants. *)
DropGroupsOfAll(x, seen) ==
    <<Connect, [Step(T!ListSecurityGroups, Cloud, "end") EXCEPT !.lists = {"default"}]>>
    \o EachTry(T!DeleteSecurityGroup, Shown("default", seen))

\* The rest of train.DeleteProject: the groups that the project leaves behind.
DropGroups(x, seen) ==
    <<Connect, [Step(T!ListSecurityGroups, Cloud, "end") EXCEPT !.lists = {"default"}]>>
    \o EachTry(T!DeleteSecurityGroup, Owned("default", x, seen))

DeleteTenant(x, seen) == Program(<<Do(T!DeleteProject, x)>> \o DropGroups(x, seen))

CreateTenant(x, quotas, seen) ==
    Undoing(<<Do(T!CreateProject, x), Judge, Do(T!AssignRoleToUserOnProject, x)>>
                \o updateQuotas(x, quotas),
            LET s == DeleteTenant(x, seen).steps IN [i \in 1..Len(s) |-> If(x, s[i])])

-----------------------------------------------------------------------------
(* Networks *)

CreateNetwork(x) == Program(<<Do(T!CreateNetwork, x)>>)
DeleteNetwork(x) == Program(<<Do(T!DeleteNetwork, x)>>)
CreateSubnet(x) == Program(<<Do(T!CreateSubnet, x)>>)
DeleteSubnet(x) == Program(<<Do(T!DeleteSubnet, x)>>)

CreateFloatingIP(x) ==
    Undoing(<<Do(T!CreateFloatingIP, x), Judge>>, <<If(x, Try(T!DeleteFloatingIP, x))>>)
DeleteFloatingIP(x) == Program(<<Do(T!DeleteFloatingIP, x)>>)

\* Interface i of a router joins the router and port i.
CreateRouter(x, n, routes) ==
    Undoing(<<Judge, Do(T!CreateRouter, x)>>
              \o [i \in 1..(2 * n) |->
                    IF i % 2 = 1 THEN Do(T!CreatePort, <<"port", (i + 1) \div 2>>)
                                 ELSE Do(T!AddInterfaceToRouter, <<"interface", i \div 2>>)]
              \o <<Ask(T!ListPorts)>>
              \o When(routes, <<Step(T!AddExtraRoutesToRouter, <<"route", 1>>, "busy")>>),
            <<If(x, Do(T!RemoveExtraRoutesFromRouter, <<"route", 1>>))>>
              \o [i \in 1..n |-> If(<<"interface", i>>,
                                   Do(T!RemoveInterfaceFromRouter, <<"interface", i>>))]
              \o <<If(x, Do(T!DeleteRouter, x))>>)

DeleteRouter(x, seen) ==
    Program(<<List(T!ListPorts, Cloud, {"interface"}), List(T!ShowRouterDetails, x, {"route"})>>
            \o When(<<"route", 1>> \in seen,
                    <<Do(T!RemoveExtraRoutesFromRouter, <<"route", 1>>)>>)
            \o Each(T!RemoveInterfaceFromRouter, Shown("interface", seen))
            \o <<Do(T!DeleteRouter, x)>>)

\* The answer to the creation of a group names the rules that the cloud put in it.
CreateSecurityGroup(x, seen) ==
    Undoing(<<List(T!CreateSecurityGroup, x, {"rule"})>>
                \o Each(T!DeleteSecurityGroupRule, Shown("rule", seen)),
            <<If(x, Try(T!DeleteSecurityGroup, x))>>)
DeleteSecurityGroup(x) == Program(<<Do(T!DeleteSecurityGroup, x)>>)
CreateSecurityGroupRule(x) == Program(<<Do(T!CreateSecurityGroupRule, x)>>)
DeleteSecurityGroupRule(x) == Program(<<Do(T!DeleteSecurityGroupRule, x)>>)

-----------------------------------------------------------------------------
(* Volumes *)

updateVolumeMode(x, readonly, bootable) ==
    When(readonly, <<Do(T!UpdatesVolumeReadOnlyAccessModeFlag, x)>>) \o
    When(bootable, <<Do(T!UpdateVolumeBootableStatus, x)>>)

(* Faulty variant: a volume that was created is not deleted when its mode fails. *)
CreateVolumeOnly(x, readonly, bootable) ==
    Program(<<Do(T!CreateVolume, x)>> \o updateVolumeMode(x, readonly, bootable))

CreateVolume(x, readonly, bootable) ==
    Undoing(<<Do(T!CreateVolume, x)>> \o updateVolumeMode(x, readonly, bootable),
            <<If(x, Try(T!DeleteVolume, x))>>)
DeleteVolume(x) == Program(<<Do(T!DeleteVolume, x)>>)

\* The time of the creation is parsed.
CreateVolumeSnapshot(x) ==
    Undoing(<<Do(T!CreateVolumeSnapshot, x), Judge>>, <<If(x, Try(T!DeleteVolumeSnapshot, x))>>)
DeleteVolumeSnapshot(x) == Program(<<Do(T!DeleteVolumeSnapshot, x)>>)

getServiceHostname == <<Ask(T!ListAllCinderServices), Judge>>

importCEPH(x, n, readonly, bootable) ==
    <<Judge>> \o getServiceHostname \o <<Do(T!ManageExistingVolume, x)>>
      \o updateVolumeMode(x, readonly, bootable)
      \o [i \in 1..(2 * n) |->
            IF i % 2 = 1
            THEN Do(T!ManageExistingVolumeSnapshot, <<"snapshot", (i + 1) \div 2>>)
            ELSE Judge]

ImportVolume(x, n, readonly, bootable) == Program(importCEPH(x, n, readonly, bootable))

(* Faulty variant: the volume before its snapshots. *)
unmanageCEPHVolumeFirst(x, n) ==
    <<Do(T!UnmanageVolume, x)>>
      \o [i \in 1..n |-> Do(T!UnmanageVolumeSnapshot, <<"snapshot", i>>)]

unmanageCEPH(x, n) ==
    [i \in 1..n |-> Do(T!UnmanageVolumeSnapshot, <<"snapshot", i>>)]
      \o <<Do(T!UnmanageVolume, x)>>

UnmanageVolume(x, n) ==
    Program(<<Step(T!ShowVolumeDetails, x, "absent"), Judge>> \o unmanageCEPH(x, n))

copyCEPH == <<>>
CopyVolume == Program(<<Judge>> \o copyCEPH)
deleteCopyCEPH == <<>>
DeleteVolumeCopy == Program(<<Judge>> \o deleteCopyCEPH)

-----------------------------------------------------------------------------
(* Volume groups: at most Limit volumes join or leave a group in one request. *)

(* Faulty variant: an incomplete part is left out. *)
getPartVolumesWhole(index, volumes) ==
    IF index < Len(volumes) \div Limit
    THEN SubSeq(volumes, index * Limit + 1, (index + 1) * Limit) ELSE <<>>

getPartVolumes(index, volumes) ==
    LET retry == Len(volumes) \div Limit
    IN  CASE index > retry -> <<>>
          [] index = retry -> SubSeq(volumes, index * Limit + 1, Len(volumes))
          [] OTHER -> SubSeq(volumes, index * Limit + 1, (index + 1) * Limit)

Members(x, adds, drops) ==
    [Do(T!UpdateVolumeGroup, x) EXCEPT
        !.adds = {<<"member", adds[i]>> : i \in DOMAIN adds},
        !.drops = {<<"member", drops[i]>> : i \in DOMAIN drops}]

\* Requests until both parts are empty.
Batches(x, adds, drops) ==
    LET part(i) == Members(x, getPartVolumes(i - 1, adds), getPartVolumes(i - 1, drops))
        empty(i) == part(i).adds = {} /\ part(i).drops = {}
        last == CHOOSE n \in 0..(Len(adds) + Len(drops)) :
                    empty(n + 1) /\ \A i \in 1..n : ~empty(i)
    IN  [i \in 1..last |-> part(i)]

CreateVolumeGroup(x) ==
    Undoing(<<Do(T!CreateVolumeGroupType, <<"group_type", x[2]>>), Do(T!CreateVolumeGroup, x)>>,
            <<If(x, Try(T!DeleteVolumeGroup, x)),
              If(<<"group_type", x[2]>>, Try(T!DeleteVolumeGroupType, <<"group_type", x[2]>>))>>)

isContainUUID(n, seen) == <<"member", n>> \in seen

UpdateVolumeGroup(x, add, del, seen) ==
    Program(<<[Step(T!ShowVolumeGroupDetails, x, "absent")
                  EXCEPT !.lists = {"member"}]>>
            \o Batches(x, SetToSeq({n \in add : ~isContainUUID(n, seen)}),
                          SetToSeq({n \in del : isContainUUID(n, seen)})))

DeleteVolumeGroup(x, seen) ==
    Program(<<[Step(T!ShowVolumeGroupDetails, x, "absent") EXCEPT !.lists = {"member"}],
              List(T!ListVolumeGroupSnapshotsWithDetails, Cloud, {"group_snapshot"})>>
            \o Each(T!DeleteVolumeGroupSnapshot, Owned("group_snapshot", x, seen))
            \o Batches(x, <<>>, SetToSeq({y[2] : y \in Shown("member", seen)}))
            \o <<Do(T!DeleteVolumeGroup, x), Do(T!DeleteVolumeGroupType, <<"group_type", x[2]>>)>>)

CreateVolumeGroupSnapshot(x) ==
    Undoing(<<Do(T!CreateVolumeGroupSnapshot, x)>>, <<If(x, Try(T!DeleteVolumeGroupSnapshot, x))>>)
DeleteVolumeGroupSnapshot(x) == Program(<<Do(T!DeleteVolumeGroupSnapshot, x)>>)

-----------------------------------------------------------------------------
(* Instances *)

CreateInstanceSpec(x) ==
    Undoing(<<Do(T!CreateFlavor, x), Do(T!CreateExtraSpecsForFlavor, x)>>,
            <<If(x, Try(T!DeleteFlavor, x))>>)
DeleteInstanceSpec(x) == Program(<<Do(T!DeleteFlavor, x)>>)
CreateKeypair(x) == Program(<<Do(T!ImportOrCreateKeypair, x)>>)
DeleteKeypair(x) == Program(<<Do(T!DeleteKeypair, x)>>)
StartInstance(x) == Program(<<Do(T!StartServer, x)>>)
StopInstance(x) == Program(<<Do(T!StopServer, x)>>)

\* Port 1 gets a floating IP, if there is one.
createPorts(n, floating) ==
    IF n = 0 THEN <<>>
    ELSE <<Do(T!CreatePort, <<"port", 1>>)>>
           \o When(floating, <<Do(T!UpdateFloatingIP, <<"floating_ip", 1>>)>>)
           \o [i \in 1..(n - 1) |-> Do(T!CreatePort, <<"port", i + 1>>)]

\* The metadata of each storage of kind NFS.
PreprocessCreatingInstance == <<Judge>>

\* The last Judge is the state that the client must know.
CreateInstance(x, n, floating) ==
    Undoing(createPorts(n, floating)
              \o <<Do(T!CreateServer, x), Do(T!ShowServerDetails, x), Judge>>,
            <<If(x, Try(T!DeleteServer, x))>>
              \o [i \in 1..n |-> If(<<"port", i>>, Try(T!DeletePort, <<"port", i>>))])

DeleteInstance(x, seen) ==
    [steps |-> <<List(T!ListPortInterfaces, x, {"port"}),
                 Step(T!DeleteServer, x, "else"), Do(T!ForceDeleteServer, x)>>,
     undo |-> <<>>,
     final |-> EachTry(T!DeletePort, Shown("port", seen))]

-----------------------------------------------------------------------------
(* Readings. The lists are one request each; a resource may take several,  *)
(* and what the first one named may be gone when the next one asks for it. *)

GetAvailabilityZoneList == Program(<<Ask(T!GetAvailabilityZoneInformation)>>)
GetHypervisorList == Program(<<Ask(T!ListHypervisors)>>)
GetInstanceList == Program(<<Ask(T!ListServers)>>)
GetKeyPairList == Program(<<Ask(T!ListKeypairs)>>)
GetTenantList == Program(<<Ask(T!ListProjects)>>)
GetNetworkList == Program(<<Ask(T!ListNetworks)>>)
GetRouterList == Program(<<Ask(T!ListRouters)>>)
GetSecurityGroupList == Program(<<Ask(T!ListSecurityGroups)>>)
GetStorageList == Program(<<Ask(T!ListAllVolumeTypes)>>)
GetVolumeList == Program(<<Ask(T!ListAccessibleVolumes)>>)
GetVolumeGroupList == Program(<<Ask(T!ListAllVolumeGroups)>>)
GetVolumeGroupSnapshotList == Program(<<Ask(T!ListVolumeGroupSnapshotsWithDetails)>>)
GetVolumeSnapshotList == Program(<<Ask(T!ListAccessibleSnapshots)>>)

GetTenant(x) ==
    Program(<<Do(T!ShowProjectDetails, x), Ask(T!ShowComputeQuota), Ask(T!ShowNetworkQuota),
              Ask(T!ShowStorageQuota)>>)
GetHypervisor(x) == Program(<<Do(T!ShowHypervisorDetails, x), Ask(T!ListComputeServices)>>)
GetInstanceSpec(x) == Program(<<Do(T!ShowFlavorDetails, x)>>)
GetInstanceExtraSpec(x) == Program(<<Do(T!ShowFlavorExtraSpec, x)>>)
GetKeyPair(x) == Program(<<Do(T!ShowKeypairDetails, x)>>)
GetNetwork(x) == Program(<<Do(T!ShowNetworkDetails, x), Ask(T!ListFloatingIPs)>>)
GetSubnet(x) == Program(<<Do(T!ShowSubnetDetails, x)>>)
GetFloatingIP(x) == Program(<<Do(T!ShowFloatingIPDetails, x)>>)
GetRouter(x) == Program(<<Do(T!ShowRouterDetails, x), Ask(T!ListPorts)>>)
GetSecurityGroup(x) == Program(<<Do(T!ShowSecurityGroup, x)>>)
GetSecurityGroupRule(x) == Program(<<Do(T!ShowSecurityGroupRule, x)>>)

\* The capacity of a storage may stay unknown.
GetStorage(x) ==
    Program(<<Do(T!ShowVolumeTypeDetail, x), Judge, Try(T!ListAllBackendStoragePools, Cloud)>>)

\* Of the attachments only the first, if there is one.
GetVolume(x, seen) ==
    Program(<<List(T!ShowVolumeDetails, x, {"attachment"}), Judge,
              Ask(T!ListAllVolumeTypes), Judge>>
            \o Each(T!ShowAttachmentDetails, Shown("attachment", seen)))
GetVolumeSnapshot(x) == Program(<<Do(T!ShowVolumeSnapshotDetails, x), Judge>>)
GetVolumeGroup(x) == Program(<<Do(T!ShowVolumeGroupDetails, x)>>)

\* The first Judge is the state, the others the hypervisor and the flavor.
GetInstance(x, seen) ==
    Program(<<List(T!ShowServerDetails, x, {"attachment"}), Judge,
              Ask(T!ListHypervisors), Judge, Do(T!ListSecurityGroupsByServer, x),
              Ask(T!ListFlavors), Judge>>
            \o Each(T!ShowDetailVolumeAttachment, Shown("attachment", seen))
            \o <<List(T!ListPortInterfaces, x, {"port"})>>
            \o When(<<"port", 1>> \in seen,
                    <<Ask(T!ListFloatingIPsByPortInterface), Do(T!ShowSubnetDetails, <<"subnet", 1>>)>>))
=============================================================================
