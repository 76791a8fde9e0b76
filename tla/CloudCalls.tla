----------------------------- MODULE CloudCalls -----------------------------
(***************************************************************************)
(* The requests that the OpenStack client sends (package train), one       *)
(* definition for each function, and what each makes of the answer.        *)
(*                                                                         *)
(* Every function does the same: it looks up the address of the service,   *)
(* sends the request, turns a status of 400 or more into an error (after   *)
(* it has dropped its token from the cache), decodes the body, and then    *)
(* asks again and again whether what it started has ended. What differs is *)
(* written here: the service, what the request does to its object, the     *)
(* errors, and the question that is repeated.                              *)
(***************************************************************************)
EXTENDS Naturals

Services == {"compute", "identity", "network", "volumev3"}

\* The states of an object that the client tells apart. "building", "changing"
\* and "leaving" are transitions; "parked" is a server that is SOFT_DELETED.
States == {"absent", "building", "changing", "leaving", "ready", "off", "failed", "parked"}

-----------------------------------------------------------------------------
(* Errors, by the status of the answer. 400 and 412 are Unknown everywhere.*)
(* "ok": the status is taken for success.                                  *)

Statuses == {400, 401, 403, 404, 409, 500}

(* Faulty variant: an error of the server reaches the caller as it is. *)
VagueAsIs == [s \in Statuses |-> IF s = 500 THEN "InternalServerError" ELSE "Unknown"]
Vague == [s \in Statuses |-> IF s = 500 THEN "RemoteServerError" ELSE "Unknown"]
Plain == [Vague EXCEPT ![403] = "UnAuthorized"]
Listing == [Plain EXCEPT ![401] = "UnAuthenticated"]
(* Faulty variant: what may not be read is taken for missing. *)
ShowingForbiddenAsMissing == [Listing EXCEPT ![404] = "NotFound", ![403] = "NotFound"]
Showing == [Listing EXCEPT ![404] = "NotFound"]
Missing == [Plain EXCEPT ![404] = "NotFound"]
Taken == [Plain EXCEPT ![409] = "Conflict"]
MissingOrTaken == [Missing EXCEPT ![409] = "Conflict"]
Idempotent == [Plain EXCEPT ![404] = "ok"]
IdempotentInUse == [Idempotent EXCEPT ![409] = "Conflict"]

-----------------------------------------------------------------------------
(* checkX: the states that end the waiting, well or with an error. In any  *)
(* other state it goes on, until the state changes or a time limit passes. *)

Until(done, fail) == [done |-> done, fail |-> fail]
NoCheck == Until({}, {})

checkInstanceCreation == Until({"ready"}, {"failed", "absent"})

(* Faulty variant: a server that is on its way out counts as deleted.      *)
checkInstanceDeletionEarly == Until({"absent", "leaving"}, {"parked"})

checkInstanceDeletion == Until({"absent"}, {"parked"})
checkInstanceForceDeletion == Until({"absent"}, {})
checkInstanceStarted == Until({"ready"}, {"failed", "absent"})
checkInstanceStopped == Until({"off"}, {"absent"})
checkFlavorDeletion == Until({"absent"}, {})
checkKeypairDeletion == Until({"absent"}, {})
checkVolumeReadOnlyFlag == Until({"ready"}, {"failed", "absent"})
checkVolumeCreation == Until({"ready"}, {"failed", "absent"})
checkVolumeDeletion == Until({"absent"}, {"failed"})
checkVolumeUnmanaging == Until({"absent"}, States \ {"leaving", "absent"})
checkVolumeGroupCreation == Until({"ready"}, {"failed", "absent"})
checkVolumeGroupDeletion == Until({"absent"}, {"failed"})
checkVolumeGroupUpdate == Until({"ready"}, {"failed", "absent"})
checkVolumeGroupSnapshotCreation == Until({"ready"}, {"failed", "absent"})
checkVolumeGroupSnapshotDeletion == Until({"absent"}, {"failed"})
checkVolumeSnapshotCreation == Until({"ready"}, {"failed", "absent"})
checkVolumeSnapshotDeletion == Until({"absent"}, {"failed"})
checkVolumeSnapshotUnmanaging == Until({"absent"}, States \ {"leaving", "absent"})

-----------------------------------------------------------------------------
(* The requests. A Make tells the caller the ID of the object as soon as   *)
(* its answer could be decoded, even if the waiting that follows fails.    *)

Call(effect, service, errors, check) ==
    [effect |-> effect, service |-> service, errors |-> errors, check |-> check]

Read(service, errors) == Call("read", service, errors, NoCheck)
Make(service, errors, check) == Call("make", service, errors, check)
Change(service, errors, check) == Call("change", service, errors, check)
Remove(service, errors, check) == Call("remove", service, errors, check)

\* Compute
GetAvailabilityZoneInformation == Read("compute", Listing)
ListHypervisors == Read("compute", Listing)
ShowHypervisorDetails == Read("compute", Listing)
ListComputeServices == Read("compute", Listing)
ListServers == Read("compute", Listing)
ShowServerDetails == Read("compute", Showing)
ListSecurityGroupsByServer == Read("compute", Showing)
ListFlavors == Read("compute", Listing)
ShowDetailVolumeAttachment == Read("compute", Showing)
ListPortInterfaces == Read("compute", Showing)
ListFloatingIPsByPortInterface == Read("network", Listing)
CreateServer == Make("compute", MissingOrTaken, checkInstanceCreation)
DeleteServer == Remove("compute", IdempotentInUse, checkInstanceDeletion)
ForceDeleteServer ==
    Remove("compute", IdempotentInUse, checkInstanceForceDeletion)
StartServer == Change("compute", MissingOrTaken, checkInstanceStarted)
StopServer == Change("compute", MissingOrTaken, checkInstanceStopped)
ShowFlavorExtraSpec == Read("compute", Showing)
CreateExtraSpecsForFlavor == Change("compute", MissingOrTaken, NoCheck)
ShowFlavorDetails == Read("compute", Showing)
CreateFlavor == Make("compute", Taken, NoCheck)
DeleteFlavor == Remove("compute", Idempotent, checkFlavorDeletion)
ListKeypairs == Read("compute", Listing)
ShowKeypairDetails == Read("compute", Showing)
ImportOrCreateKeypair == Make("compute", [Listing EXCEPT ![409] = "Conflict"], NoCheck)
DeleteKeypair == Remove("compute", Idempotent, checkKeypairDeletion)
ShowComputeQuota == Read("compute", Listing)
UpdateComputeQuotas == Change("compute", Vague, NoCheck)

\* Identity
AssignRoleToUserOnProject == Change("identity", MissingOrTaken, NoCheck)
CreateProject == Make("identity", Taken, NoCheck)
DeleteProject == Remove("identity", Idempotent, NoCheck)
ListProjects == Read("identity", Listing)
ShowProjectDetails == Read("identity", Showing)

\* Network
AddExtraRoutesToRouter == Make("network", Missing, NoCheck)
RemoveExtraRoutesFromRouter == Remove("network", Idempotent, NoCheck)
CreateFloatingIP == Make("network", MissingOrTaken, NoCheck)
ListFloatingIPs == Read("network", Listing)
ShowFloatingIPDetails == Read("network", Showing)
DeleteFloatingIP == Remove("network", Idempotent, NoCheck)
UpdateFloatingIP == Change("network", MissingOrTaken, NoCheck)
CreateNetwork == Make("network", Plain, NoCheck)
DeleteNetwork == Remove("network", IdempotentInUse, NoCheck)
ListNetworks == Read("network", Listing)
ShowNetworkDetails == Read("network", Showing)
CreatePort == Make("network", Missing, NoCheck)
DeletePort == Remove("network", Idempotent, NoCheck)
UpdateNetworkQuotaForAProject == Change("network", Vague, NoCheck)
ShowNetworkQuota == Read("network", Listing)
CreateRouter == Make("network", Taken, NoCheck)
DeleteRouter == Remove("network", IdempotentInUse, NoCheck)
ListRouters == Read("network", Listing)
ShowRouterDetails == Read("network", Showing)
ListPorts == Read("network", Listing)
AddInterfaceToRouter == Make("network", MissingOrTaken, NoCheck)
RemoveInterfaceFromRouter == Remove("network", IdempotentInUse, NoCheck)
CreateSecurityGroup == Make("network", Taken, NoCheck)
DeleteSecurityGroup == Remove("network", IdempotentInUse, NoCheck)
ListSecurityGroups == Read("network", Listing)
ShowSecurityGroup == Read("network", Showing)
CreateSecurityGroupRule == Make("network", MissingOrTaken, NoCheck)
DeleteSecurityGroupRule == Remove("network", Idempotent, NoCheck)
ShowSecurityGroupRule == Read("network", Showing)
CreateSubnet == Make("network", MissingOrTaken, NoCheck)
DeleteSubnet == Remove("network", IdempotentInUse, NoCheck)
ShowSubnetDetails == Read("network", Showing)

\* Block storage
UpdateStorageQuotasForAProject == Change("volumev3", Vague, NoCheck)
ShowStorageQuota == Read("volumev3", Listing)
ListAllVolumeTypes == Read("volumev3", Listing)
ShowVolumeTypeDetail == Read("volumev3", Showing)
ListAllBackendStoragePools == Read("volumev3", Listing)
ListAccessibleVolumes == Read("volumev3", Listing)
ShowVolumeDetails == Read("volumev3", Showing)
CreateVolume == Make("volumev3", Plain, checkVolumeCreation)
UpdatesVolumeReadOnlyAccessModeFlag ==
    Change("volumev3", Plain, checkVolumeReadOnlyFlag)
UpdateVolumeBootableStatus == Change("volumev3", Plain, NoCheck)
DeleteVolume == Remove("volumev3", Idempotent, checkVolumeDeletion)
UnmanageVolume == Remove("volumev3", Idempotent, checkVolumeUnmanaging)
ManageExistingVolume == Make("volumev3", Plain, checkVolumeCreation)
ListAllCinderServices == Read("volumev3", Plain)
ShowAttachmentDetails == Read("volumev3", Showing)
ListAllVolumeGroups == Read("volumev3", Listing)
CreateVolumeGroup == Make("volumev3", Missing, checkVolumeGroupCreation)
DeleteVolumeGroup == Remove("volumev3", Idempotent, checkVolumeGroupDeletion)
ShowVolumeGroupDetails == Read("volumev3", Missing)
UpdateVolumeGroup == Change("volumev3", Missing, checkVolumeGroupUpdate)
ListVolumeGroupSnapshotsWithDetails == Read("volumev3", Plain)
DeleteVolumeGroupSnapshot ==
    Remove("volumev3", Idempotent, checkVolumeGroupSnapshotDeletion)
ShowVolumeGroupSnapshotDetails == Read("volumev3", Missing)
CreateVolumeGroupSnapshot ==
    Make("volumev3", Missing, checkVolumeGroupSnapshotCreation)
CreateVolumeGroupType == Make("volumev3", MissingOrTaken, NoCheck)
DeleteVolumeGroupType == Remove("volumev3", Idempotent, NoCheck)
ListAccessibleSnapshots == Read("volumev3", Listing)
ShowVolumeSnapshotDetails == Read("volumev3", Showing)
CreateVolumeSnapshot == Make("volumev3", Vague, checkVolumeSnapshotCreation)
ManageExistingVolumeSnapshot ==
    Make("volumev3", Plain, checkVolumeSnapshotCreation)
DeleteVolumeSnapshot ==
    Remove("volumev3", Idempotent, checkVolumeSnapshotDeletion)
UnmanageVolumeSnapshot ==
    Remove("volumev3", Idempotent, checkVolumeSnapshotUnmanaging)
=============================================================================
