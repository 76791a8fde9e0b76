---------------------------- MODULE CloudRequests ----------------------------
(***************************************************************************)
(* The packages under internal/ that carry out a request on the cloud: one *)
(* definition for each function, the program of client requests that it    *)
(* runs. Every function decrypts the credential, validates the request,    *)
(* connects a client, and converts the answer at the end; ResourceRequests *)
(* has a phase for each of these.                                          *)
(*                                                                         *)
(* A request r has a number n (of ports, interfaces, rules, snapshots or   *)
(* volumes) and the set opt of the optional parts that it asks for.        *)
(***************************************************************************)
EXTENDS Naturals, Sequences

CONSTANT Limit

C == INSTANCE CloudClient

\* back: run when the answer cannot be converted. convert: there is an answer.
Answering(p) ==
    [steps |-> p.steps, undo |-> p.undo, final |-> p.final, convert |-> TRUE, back |-> <<>>]
Silent(p) == [Answering(p) EXCEPT !.convert = FALSE]
Reversible(p, reverse) == [Answering(p) EXCEPT !.back = reverse.steps]
Nothing == Silent(C!Program(<<>>))

Numbered(kind, n) == {<<kind, i>> : i \in 1..n}
project == <<"project", 1>>
network == <<"network", 1>>
subnet == <<"subnet", 1>>
floating_ip == <<"floating_ip", 1>>
router == <<"router", 1>>
security_group == <<"security_group", 1>>
volume == <<"volume", 1>>
snapshot == <<"snapshot", 1>>
group == <<"group", 1>>
group_snapshot == <<"group_snapshot", 1>>
server == <<"server", 1>>
flavor == <<"flavor", 1>>
keypair == <<"keypair", 1>>

-----------------------------------------------------------------------------
(* Tenants and networks *)

CreateTenant(r, seen) ==
    Reversible(C!CreateTenant(project, r.opt, seen), C!DeleteTenant(project, seen))
DeleteTenant(r, seen) == Silent(C!DeleteTenant(project, seen))

CreateNetwork(r, seen) == Reversible(C!CreateNetwork(network), C!DeleteNetwork(network))
DeleteNetwork(r, seen) == Silent(C!DeleteNetwork(network))
CreateSubnet(r, seen) == Reversible(C!CreateSubnet(subnet), C!DeleteSubnet(subnet))
DeleteSubnet(r, seen) == Silent(C!DeleteSubnet(subnet))

CreateFloatingIP(r, seen) ==
    Reversible(C!CreateFloatingIP(floating_ip), C!DeleteFloatingIP(floating_ip))
DeleteFloatingIP(r, seen) == Silent(C!DeleteFloatingIP(floating_ip))

CreateRouter(r, seen) ==
    Reversible(C!CreateRouter(router, r.n, "routes" \in r.opt), C!DeleteRouter(router, seen))
DeleteRouter(r, seen) == Silent(C!DeleteRouter(router, seen))

CreateSecurityGroup(r, seen) ==
    Reversible(C!CreateSecurityGroup(security_group, seen), C!DeleteSecurityGroup(security_group))
CreateSecurityGroupRule(r, seen) ==
    Reversible(C!CreateSecurityGroupRule(<<"rule", 3>>), C!DeleteSecurityGroupRule(<<"rule", 3>>))

\* The rules that the request names, then the group.
DeleteSecurityGroup(r, seen) ==
    Silent(C!Program(C!Each(C!T!DeleteSecurityGroupRule, Numbered("rule", r.n))
                     \o C!DeleteSecurityGroup(security_group).steps))

-----------------------------------------------------------------------------
(* Volumes. A request without metadata of the target storage is answered with *)
(* success before anything is sent.                                           *)

CreateVolume(r, seen) ==
    Answering(C!CreateVolume(volume, "readonly" \in r.opt, "bootable" \in r.opt))
DeleteVolume(r, seen) == Silent(C!DeleteVolume(volume))
CreateVolumeSnapshot(r, seen) == Answering(C!CreateVolumeSnapshot(snapshot))
DeleteVolumeSnapshot(r, seen) == Silent(C!DeleteVolumeSnapshot(snapshot))

ImportVolume(r, seen) ==
    IF "metadata" \in r.opt
    THEN Answering(C!ImportVolume(volume, r.n, "readonly" \in r.opt, "bootable" \in r.opt))
    ELSE Nothing
UnmanageVolume(r, seen) ==
    IF "metadata" \in r.opt THEN Silent(C!UnmanageVolume(volume, r.n)) ELSE Nothing
CopyVolume(r, seen) == IF "metadata" \in r.opt THEN Answering(C!CopyVolume) ELSE Nothing
DeleteVolumeCopy(r, seen) ==
    IF "metadata" \in r.opt THEN Silent(C!DeleteVolumeCopy) ELSE Nothing

-----------------------------------------------------------------------------
(* Volume groups. n volumes are to join, from number 3 on, and the first n  *)
(* are to leave.                                                            *)

ToJoin(r) == 3..(r.n + 2)
ToLeave(r) == 1..r.n

CreateVolumeGroup(r, seen) ==
    Reversible(C!CreateVolumeGroup(group), C!DeleteVolumeGroup(group, seen))
DeleteVolumeGroup(r, seen) == Silent(C!DeleteVolumeGroup(group, seen))
UpdateVolumeGroup(r, seen) ==
    Silent(C!UpdateVolumeGroup(group, ToJoin(r), ToLeave(r), seen))
CreateVolumeGroupSnapshot(r, seen) == Answering(C!CreateVolumeGroupSnapshot(group_snapshot))
DeleteVolumeGroupSnapshot(r, seen) == Silent(C!DeleteVolumeGroupSnapshot(group_snapshot))

\* Each group of the list, then the row of each of its volumes.
GetVolumeGroupList(r, seen) ==
    Answering(C!Program(<<[C!GetVolumeGroupList.steps[1] EXCEPT !.lists = {"group"}]>>
                        \o C!Each(C!T!ShowVolumeGroupDetails, C!Shown("group", seen))
                        \o <<C!Judge>>))
GetVolumeGroupByUUID(r, seen) ==
    Answering(C!Program(C!GetVolumeGroup(group).steps \o <<C!Judge>>))
GetClusterVolumeGroupSnapshotList(r, seen) == Answering(C!GetVolumeGroupSnapshotList)

-----------------------------------------------------------------------------
(* Instances *)

\* The user script is read from the database.
CreateInstance(r, seen) ==
    LET p == C!CreateInstance(server, r.n, "floating" \in r.opt)
    IN  Answering([p EXCEPT !.steps = C!PreprocessCreatingInstance \o <<C!Judge>> \o @])
DeleteInstance(r, seen) == Silent(C!DeleteInstance(server, seen))
StartInstance(r, seen) == Silent(C!StartInstance(server))
StopInstance(r, seen) == Silent(C!StopInstance(server))
CheckIsExistInstance(r, seen) == Silent(C!GetInstance(server, seen))

CreateInstanceSpec(r, seen) == Answering(C!CreateInstanceSpec(flavor))
\* The row follows: the synchronisation of one flavor, whose errors are logged.
DeleteInstanceSpec(r, seen) ==
    Silent(C!Program(C!DeleteInstanceSpec(flavor).steps
                     \o <<C!Try(C!T!ShowFlavorDetails, flavor)>>))
CreateKeypair(r, seen) == Answering(C!CreateKeypair(keypair))
DeleteKeypair(r, seen) == Silent(C!DeleteKeypair(keypair))
=============================================================================
