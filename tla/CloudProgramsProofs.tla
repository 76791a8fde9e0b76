------------------------ MODULE CloudProgramsProofs ------------------------
(***************************************************************************)
(* What every program of requests to the cloud has in common, whichever    *)
(* handler it is of, for any number of ports, rules, snapshots and volumes *)
(* and whatever the cloud has shown (seen): it consists of well-formed     *)
(* steps, it writes only to objects that are the request's own, and what   *)
(* deletes or reads makes nothing. One lemma for each method of the client *)
(* and each function of internal/, resting on one for each way of building *)
(* a program. The second half shows that every program is Tended: that it  *)
(* sees to all that its request promises, step by step, whatever answers   *)
(* it goes by (RequestsAreTended).                                         *)
(***************************************************************************)
EXTENDS ResourceRequests, FiniteSetTheorems, SequenceTheorems, WellFoundedInduction, TLAPS

Errors == {"ok", "NotFoundEndpoint", "UnAuthenticated", "UnAuthorized", "NotFound", "Conflict",
           "RemoteServerError", "Unknown"}

\* What a call makes of each status: only a 404 is called NotFound, or taken for
\* success, and only a 500 is called an error of the server.
Truthful ==
    {f \in [T!Statuses -> Errors] :
        \A c \in T!Statuses : /\ f[c] \in {"NotFound", "ok"} => c = 404
                              /\ f[c] = "RemoteServerError" => c = 500}

Checks == [done : SUBSET T!States, fail : SUBSET T!States]

Effects == {"read", "make", "change", "remove", "judge", "connect"}
Reactions == {"return", "warn", "end", "absent", "busy", "else"}

\* What is removed is removed when it is absent, and is taken for removed when it
\* was absent before; what is made is made when it is ready.
Calls ==
    {c \in [effect : Effects, service : T!Services, errors : Truthful, check : Checks] :
        /\ c.effect = "remove" => c.check.done \subseteq {"absent"}
        /\ c.effect = "make" => c.check.done \subseteq {"ready"}
        /\ c.effect = "remove" <=> c.errors[404] = "ok"}

-----------------------------------------------------------------------------
(* Steps *)

\* What a request may write to.
Ours == {x \in Objects : x[1] # "cloud" /\ ~Foreign(x)}

\* A step writes only to objects of the request, only these are waited for, and
\* what is waited for lists nothing.
Steps ==
    {s \in [call : Calls, obj : Objects, failing : Reactions, lists : SUBSET Kinds,
            adds : SUBSET Objects, drops : SUBSET Objects, when : Objects \cup {<<>>}] :
        /\ IF s.call.effect \in {"make", "change", "remove"}
           THEN s.obj \in Ours ELSE s.call.check = T!NoCheck
        /\ s.lists # {} => s.call.check = T!NoCheck
        /\ s.adds \cup s.drops \subseteq Ours}

\* A step that makes nothing.
Gentle == {s \in Steps : s.call.effect # "make" /\ s.adds = {}}

Programs(S) == [steps : Seq(S), undo : Seq(S), final : Seq(S)]
Requested(S) == [steps : Seq(S), undo : Seq(S), final : Seq(S), convert : BOOLEAN, back : Seq(S)]

\* What the answers have shown.
Answers(xs) == xs \subseteq Objects /\ IsFiniteSet(xs)

-----------------------------------------------------------------------------
(* Calls *)

Reads == {c \in Calls : c.effect = "read" /\ c.check = T!NoCheck}
Makes == {c \in Calls : c.effect = "make"}
Changes == {c \in Calls : c.effect = "change"}
Removes == {c \in Calls : c.effect = "remove"}
Settings == {c \in Changes : c.check.done \subseteq {"ready"}}
Writes == Changes \cup Removes

Strict == {f \in Truthful : f[404] # "ok"}
Lenient == {f \in Truthful : f[404] = "ok"}

LEMMA TablesTruthful ==
  /\ I!C!T!Vague \in Strict
  /\ I!C!T!Plain \in Strict
  /\ I!C!T!Listing \in Strict
  /\ I!C!T!Showing \in Strict
  /\ I!C!T!Missing \in Strict
  /\ I!C!T!Taken \in Strict
  /\ I!C!T!MissingOrTaken \in Strict
  /\ I!C!T!Idempotent \in Lenient
  /\ I!C!T!IdempotentInUse \in Lenient
  /\ [I!C!T!Listing EXCEPT ![409] = "Conflict"] \in Strict
  <1> USE DEF I!C!T!Statuses, T!Statuses, Truthful, Strict, Lenient, Errors
  <1>1. I!C!T!Vague \in Strict
    BY DEF I!C!T!Vague
  <1>2. I!C!T!Plain \in Strict
    BY <1>1 DEF I!C!T!Plain
  <1>3. I!C!T!Listing \in Strict
    BY <1>2 DEF I!C!T!Listing
  <1>4. I!C!T!Showing \in Strict
    BY <1>3 DEF I!C!T!Showing
  <1>5. I!C!T!Missing \in Strict
    BY <1>2 DEF I!C!T!Missing
  <1>6. I!C!T!Taken \in Strict
    BY <1>2 DEF I!C!T!Taken
  <1>7. I!C!T!MissingOrTaken \in Strict
    BY <1>5 DEF I!C!T!MissingOrTaken
  <1>8. I!C!T!Idempotent \in Lenient
    BY <1>2 DEF I!C!T!Idempotent
  <1>9. I!C!T!IdempotentInUse \in Lenient
    BY <1>8 DEF I!C!T!IdempotentInUse
  <1>10. [I!C!T!Listing EXCEPT ![409] = "Conflict"] \in Strict
    BY <1>3
  <1>11. QED
    BY <1>1, <1>2, <1>3, <1>4, <1>5, <1>6, <1>7, <1>8, <1>9, <1>10

\* The checks that end well when the object is ready, or absent.
Readying == {c \in Checks : c.done \subseteq {"ready"}}
Clearing == {c \in Checks : c.done \subseteq {"absent"}}

LEMMA ChecksTyped ==
  /\ I!C!T!NoCheck \in Readying \cap Clearing
  /\ I!C!T!NoCheck = T!NoCheck
  /\ {I!C!T!checkInstanceCreation, I!C!T!checkInstanceStarted,
      I!C!T!checkVolumeReadOnlyFlag, I!C!T!checkVolumeCreation,
      I!C!T!checkVolumeGroupCreation, I!C!T!checkVolumeGroupUpdate,
      I!C!T!checkVolumeGroupSnapshotCreation, I!C!T!checkVolumeSnapshotCreation}
        \subseteq Readying
  /\ {I!C!T!checkInstanceDeletion, I!C!T!checkInstanceForceDeletion,
      I!C!T!checkFlavorDeletion, I!C!T!checkKeypairDeletion, I!C!T!checkVolumeDeletion,
      I!C!T!checkVolumeUnmanaging, I!C!T!checkVolumeGroupDeletion,
      I!C!T!checkVolumeGroupSnapshotDeletion, I!C!T!checkVolumeSnapshotDeletion,
      I!C!T!checkVolumeSnapshotUnmanaging} \subseteq Clearing
  /\ I!C!T!checkInstanceStopped \in {c \in Checks : c.done \subseteq {"off"}}
  BY DEF I!C!T!NoCheck, T!NoCheck, I!C!T!Until, T!Until, Checks, Readying, Clearing,
         I!C!T!States, T!States,
         I!C!T!checkInstanceCreation, I!C!T!checkInstanceDeletion,
         I!C!T!checkInstanceForceDeletion, I!C!T!checkInstanceStarted,
         I!C!T!checkInstanceStopped, I!C!T!checkFlavorDeletion,
         I!C!T!checkKeypairDeletion, I!C!T!checkVolumeReadOnlyFlag,
         I!C!T!checkVolumeCreation, I!C!T!checkVolumeDeletion,
         I!C!T!checkVolumeUnmanaging, I!C!T!checkVolumeGroupCreation,
         I!C!T!checkVolumeGroupDeletion, I!C!T!checkVolumeGroupUpdate,
         I!C!T!checkVolumeGroupSnapshotCreation, I!C!T!checkVolumeGroupSnapshotDeletion,
         I!C!T!checkVolumeSnapshotCreation, I!C!T!checkVolumeSnapshotDeletion,
         I!C!T!checkVolumeSnapshotUnmanaging

LEMMA CallsTyped ==
  ASSUME NEW service \in T!Services, NEW errors \in Strict
  PROVE  /\ I!C!T!Read(service, errors) \in Reads
         /\ \A check \in Readying : I!C!T!Make(service, errors, check) \in Makes
         /\ \A check \in Checks : I!C!T!Change(service, errors, check) \in Changes
         /\ \A check \in Readying : I!C!T!Change(service, errors, check) \in Settings
  BY ChecksTyped
     DEF I!C!T!Read, I!C!T!Make, I!C!T!Change, I!C!T!Call, Reads, Makes, Changes, Settings,
         Calls, Effects, Strict, Readying, Clearing

LEMMA RemovalsTyped ==
  ASSUME NEW service \in T!Services, NEW errors \in Lenient, NEW check \in Clearing
  PROVE  I!C!T!Remove(service, errors, check) \in Removes
  BY DEF I!C!T!Remove, I!C!T!Call, Removes, Calls, Effects, Lenient, Clearing

LEMMA CallsThatRead ==
  {I!C!T!GetAvailabilityZoneInformation, I!C!T!ListHypervisors,
   I!C!T!ShowHypervisorDetails, I!C!T!ListComputeServices, I!C!T!ListServers,
   I!C!T!ShowServerDetails, I!C!T!ListSecurityGroupsByServer, I!C!T!ListFlavors,
   I!C!T!ShowDetailVolumeAttachment, I!C!T!ListPortInterfaces,
   I!C!T!ListFloatingIPsByPortInterface, I!C!T!ShowFlavorExtraSpec,
   I!C!T!ShowFlavorDetails, I!C!T!ListKeypairs, I!C!T!ShowKeypairDetails,
   I!C!T!ShowComputeQuota, I!C!T!ListProjects, I!C!T!ShowProjectDetails,
   I!C!T!ListFloatingIPs, I!C!T!ShowFloatingIPDetails, I!C!T!ListNetworks,
   I!C!T!ShowNetworkDetails, I!C!T!ShowNetworkQuota, I!C!T!ListRouters,
   I!C!T!ShowRouterDetails, I!C!T!ListPorts, I!C!T!ListSecurityGroups,
   I!C!T!ShowSecurityGroup, I!C!T!ShowSecurityGroupRule, I!C!T!ShowSubnetDetails,
   I!C!T!ShowStorageQuota, I!C!T!ListAllVolumeTypes, I!C!T!ShowVolumeTypeDetail,
   I!C!T!ListAllBackendStoragePools, I!C!T!ListAccessibleVolumes, I!C!T!ShowVolumeDetails,
   I!C!T!ListAllCinderServices, I!C!T!ShowAttachmentDetails, I!C!T!ListAllVolumeGroups,
   I!C!T!ShowVolumeGroupDetails, I!C!T!ListVolumeGroupSnapshotsWithDetails,
   I!C!T!ListAccessibleSnapshots, I!C!T!ShowVolumeSnapshotDetails}
      \subseteq Reads
  BY CallsTyped, TablesTruthful, ChecksTyped
     DEF T!Services,
         I!C!T!GetAvailabilityZoneInformation, I!C!T!ListHypervisors,
         I!C!T!ShowHypervisorDetails, I!C!T!ListComputeServices, I!C!T!ListServers,
         I!C!T!ShowServerDetails, I!C!T!ListSecurityGroupsByServer, I!C!T!ListFlavors,
         I!C!T!ShowDetailVolumeAttachment, I!C!T!ListPortInterfaces,
         I!C!T!ListFloatingIPsByPortInterface, I!C!T!ShowFlavorExtraSpec,
         I!C!T!ShowFlavorDetails, I!C!T!ListKeypairs, I!C!T!ShowKeypairDetails,
         I!C!T!ShowComputeQuota, I!C!T!ListProjects, I!C!T!ShowProjectDetails,
         I!C!T!ListFloatingIPs, I!C!T!ShowFloatingIPDetails, I!C!T!ListNetworks,
         I!C!T!ShowNetworkDetails, I!C!T!ShowNetworkQuota, I!C!T!ListRouters,
         I!C!T!ShowRouterDetails, I!C!T!ListPorts, I!C!T!ListSecurityGroups,
         I!C!T!ShowSecurityGroup, I!C!T!ShowSecurityGroupRule, I!C!T!ShowSubnetDetails,
         I!C!T!ShowStorageQuota, I!C!T!ListAllVolumeTypes, I!C!T!ShowVolumeTypeDetail,
         I!C!T!ListAllBackendStoragePools, I!C!T!ListAccessibleVolumes,
         I!C!T!ShowVolumeDetails, I!C!T!ListAllCinderServices,
         I!C!T!ShowAttachmentDetails, I!C!T!ListAllVolumeGroups,
         I!C!T!ShowVolumeGroupDetails, I!C!T!ListVolumeGroupSnapshotsWithDetails,
         I!C!T!ListAccessibleSnapshots, I!C!T!ShowVolumeSnapshotDetails

LEMMA CallsThatMake ==
  {I!C!T!CreateServer, I!C!T!CreateFlavor, I!C!T!ImportOrCreateKeypair,
   I!C!T!CreateProject, I!C!T!AddExtraRoutesToRouter, I!C!T!CreateFloatingIP,
   I!C!T!CreateNetwork, I!C!T!CreatePort, I!C!T!CreateRouter, I!C!T!AddInterfaceToRouter,
   I!C!T!CreateSecurityGroup, I!C!T!CreateSecurityGroupRule, I!C!T!CreateSubnet,
   I!C!T!CreateVolume, I!C!T!ManageExistingVolume, I!C!T!CreateVolumeGroup,
   I!C!T!CreateVolumeGroupSnapshot, I!C!T!CreateVolumeGroupType,
   I!C!T!CreateVolumeSnapshot, I!C!T!ManageExistingVolumeSnapshot}
      \subseteq Makes
  BY CallsTyped, TablesTruthful, ChecksTyped
     DEF T!Services,
         I!C!T!CreateServer, I!C!T!CreateFlavor, I!C!T!ImportOrCreateKeypair,
         I!C!T!CreateProject, I!C!T!AddExtraRoutesToRouter, I!C!T!CreateFloatingIP,
         I!C!T!CreateNetwork, I!C!T!CreatePort, I!C!T!CreateRouter,
         I!C!T!AddInterfaceToRouter, I!C!T!CreateSecurityGroup,
         I!C!T!CreateSecurityGroupRule, I!C!T!CreateSubnet, I!C!T!CreateVolume,
         I!C!T!ManageExistingVolume, I!C!T!CreateVolumeGroup,
         I!C!T!CreateVolumeGroupSnapshot, I!C!T!CreateVolumeGroupType,
         I!C!T!CreateVolumeSnapshot, I!C!T!ManageExistingVolumeSnapshot

LEMMA CallsThatChange ==
  /\ {I!C!T!StartServer, I!C!T!CreateExtraSpecsForFlavor, I!C!T!UpdateComputeQuotas,
      I!C!T!AssignRoleToUserOnProject, I!C!T!UpdateFloatingIP,
      I!C!T!UpdateNetworkQuotaForAProject, I!C!T!UpdateStorageQuotasForAProject,
      I!C!T!UpdatesVolumeReadOnlyAccessModeFlag, I!C!T!UpdateVolumeBootableStatus,
      I!C!T!UpdateVolumeGroup}
        \subseteq Settings
  /\ I!C!T!StopServer \in Changes
  BY CallsTyped, TablesTruthful, ChecksTyped
     DEF T!Services, Checks, Readying, I!C!T!StopServer,
         I!C!T!StartServer, I!C!T!CreateExtraSpecsForFlavor, I!C!T!UpdateComputeQuotas,
         I!C!T!AssignRoleToUserOnProject, I!C!T!UpdateFloatingIP,
         I!C!T!UpdateNetworkQuotaForAProject, I!C!T!UpdateStorageQuotasForAProject,
         I!C!T!UpdatesVolumeReadOnlyAccessModeFlag, I!C!T!UpdateVolumeBootableStatus,
         I!C!T!UpdateVolumeGroup

LEMMA CallsThatRemove ==
  {I!C!T!DeleteServer, I!C!T!ForceDeleteServer, I!C!T!DeleteFlavor, I!C!T!DeleteKeypair,
   I!C!T!DeleteProject, I!C!T!RemoveExtraRoutesFromRouter, I!C!T!DeleteFloatingIP,
   I!C!T!DeleteNetwork, I!C!T!DeletePort, I!C!T!DeleteRouter,
   I!C!T!RemoveInterfaceFromRouter, I!C!T!DeleteSecurityGroup,
   I!C!T!DeleteSecurityGroupRule, I!C!T!DeleteSubnet, I!C!T!DeleteVolume,
   I!C!T!UnmanageVolume, I!C!T!DeleteVolumeGroup, I!C!T!DeleteVolumeGroupSnapshot,
   I!C!T!DeleteVolumeGroupType, I!C!T!DeleteVolumeSnapshot, I!C!T!UnmanageVolumeSnapshot}
      \subseteq Removes
  BY RemovalsTyped, TablesTruthful, ChecksTyped
     DEF T!Services,
         I!C!T!DeleteServer, I!C!T!ForceDeleteServer, I!C!T!DeleteFlavor,
         I!C!T!DeleteKeypair, I!C!T!DeleteProject, I!C!T!RemoveExtraRoutesFromRouter,
         I!C!T!DeleteFloatingIP, I!C!T!DeleteNetwork, I!C!T!DeletePort, I!C!T!DeleteRouter,
         I!C!T!RemoveInterfaceFromRouter, I!C!T!DeleteSecurityGroup,
         I!C!T!DeleteSecurityGroupRule, I!C!T!DeleteSubnet, I!C!T!DeleteVolume,
         I!C!T!UnmanageVolume, I!C!T!DeleteVolumeGroup, I!C!T!DeleteVolumeGroupSnapshot,
         I!C!T!DeleteVolumeGroupType, I!C!T!DeleteVolumeSnapshot,
         I!C!T!UnmanageVolumeSnapshot

LEMMA CallsThatWrite ==
  {I!C!T!StartServer, I!C!T!CreateExtraSpecsForFlavor, I!C!T!UpdateComputeQuotas,
   I!C!T!AssignRoleToUserOnProject, I!C!T!UpdateFloatingIP,
   I!C!T!UpdateNetworkQuotaForAProject, I!C!T!UpdateStorageQuotasForAProject,
   I!C!T!UpdatesVolumeReadOnlyAccessModeFlag, I!C!T!UpdateVolumeBootableStatus,
   I!C!T!UpdateVolumeGroup, I!C!T!DeleteServer, I!C!T!ForceDeleteServer, I!C!T!DeleteFlavor,
   I!C!T!DeleteKeypair, I!C!T!DeleteProject, I!C!T!RemoveExtraRoutesFromRouter,
   I!C!T!DeleteFloatingIP, I!C!T!DeleteNetwork, I!C!T!DeletePort, I!C!T!DeleteRouter,
   I!C!T!RemoveInterfaceFromRouter, I!C!T!DeleteSecurityGroup,
   I!C!T!DeleteSecurityGroupRule, I!C!T!DeleteSubnet, I!C!T!DeleteVolume,
   I!C!T!UnmanageVolume, I!C!T!DeleteVolumeGroup, I!C!T!DeleteVolumeGroupSnapshot,
   I!C!T!DeleteVolumeGroupType, I!C!T!DeleteVolumeSnapshot, I!C!T!UnmanageVolumeSnapshot,
   I!C!T!StopServer}
      \subseteq Writes
  BY CallsThatChange, CallsThatRemove DEF Settings, Writes

-----------------------------------------------------------------------------
(* Objects *)

\* An object of the request: by its number, or by its kind.
LEMMA OwnByNumber ==
  ASSUME NEW k \in Kinds, k # "cloud", NEW i \in Nat,
         i < 8 \/ k \in {"port", "interface", "rule", "snapshot", "member"}
  PROVE  <<k, i>> \in Ours
  BY DEF Ours, Objects, Foreign, I!C!Owner

LEMMA OwnObjects ==
  /\ {I!project, I!network, I!subnet, I!floating_ip, I!router, I!security_group, I!volume,
      I!snapshot, I!group, I!group_snapshot, I!server, I!flavor, I!keypair,
      <<"group_type", 1>>, <<"route", 1>>, <<"rule", 3>>, <<"default", 1>>} \subseteq Ours
  /\ \A i \in Nat : {<<"port", i>>, <<"interface", i>>, <<"rule", i>>, <<"snapshot", i>>,
                     <<"member", i>>} \subseteq Ours
  /\ Ours \subseteq Objects
  /\ I!C!Cloud \in Objects
  <1>1. {I!project, I!network, I!subnet, I!floating_ip, I!router, I!security_group, I!volume,
         I!snapshot, I!group, I!group_snapshot, I!server, I!flavor, I!keypair,
         <<"group_type", 1>>, <<"route", 1>>, <<"rule", 3>>, <<"default", 1>>} \subseteq Ours
    BY OwnByNumber
       DEF I!project, I!network, I!subnet, I!floating_ip, I!router, I!security_group,
           I!volume, I!snapshot, I!group, I!group_snapshot, I!server, I!flavor, I!keypair,
           Kinds
  <1>2. \A i \in Nat : {<<"port", i>>, <<"interface", i>>, <<"rule", i>>, <<"snapshot", i>>,
                        <<"member", i>>} \subseteq Ours
    BY OwnByNumber DEF Kinds
  <1>3. Ours \subseteq Objects
    BY DEF Ours
  <1>4. I!C!Cloud \in Objects
    BY DEF I!C!Cloud, Objects, Kinds
  <1>5. QED
    BY <1>1, <1>2, <1>3, <1>4

LEMMA OwnRules ==
  ASSUME NEW n \in Nat
  PROVE  I!Numbered("rule", n) \subseteq Ours
  <1>1. ASSUME NEW i \in Nat
        PROVE  <<"rule", i>> \in Ours
    BY OwnObjects
  <1>2. QED
    BY <1>1 DEF I!Numbered

\* What is made or removed along with an object of the request is its own.
LEMMA OwnFollow ==
  ASSUME NEW x \in Ours, NEW services
  PROVE  GoesWith(x) \cup ComesWith(x, services) \subseteq Ours
  <1>1. x[2] \in Nat
    BY DEF Ours, Objects
  <1>2. \A n \in Nat : I!Numbered("rule", n) \subseteq Ours
    BY OwnRules
  <1>3. GoesWith(x) \subseteq Ours
    <2>1. CASE x[1] = "interface"
      BY <1>1, <2>1, OwnObjects DEF GoesWith
    <2>2. CASE x[1] = "security_group"
      BY <1>2, <2>2 DEF GoesWith
    <2>3. CASE x[1] \notin {"interface", "security_group"}
      BY <2>3 DEF GoesWith
    <2>4. QED
      BY <2>1, <2>2, <2>3
  <1>4. ComesWith(x, services) \subseteq Ours
    <2>1. CASE x[1] = "project"
      BY <2>1, OwnObjects DEF ComesWith
    <2>2. CASE x[1] = "security_group"
      BY <1>2, <2>2 DEF ComesWith
    <2>3. CASE x[1] \notin {"project", "security_group"}
      BY <2>3 DEF ComesWith
    <2>4. QED
      BY <2>1, <2>2, <2>3
  <1>5. QED
    BY <1>3, <1>4

-----------------------------------------------------------------------------
(* Ways of making steps *)

LEMMA ReadingSteps ==
  ASSUME NEW c \in Reads, NEW x \in Objects, NEW failing \in Reactions, NEW kinds \in SUBSET Kinds
  PROVE  /\ I!C!Step(c, x, failing) \in Gentle
         /\ [I!C!Step(c, x, failing) EXCEPT !.lists = kinds] \in Gentle
         /\ I!C!Do(c, x) \in Gentle
         /\ I!C!Try(c, x) \in Gentle
         /\ I!C!List(c, x, kinds) \in Gentle
  BY OwnObjects DEF Reads, Gentle, Steps, Reactions, I!C!Step, I!C!Do, I!C!Try, I!C!List

LEMMA AskingSteps ==
  ASSUME NEW c \in Reads
  PROVE  I!C!Ask(c) \in Gentle
  <1>1. I!C!Cloud \in Objects /\ "return" \in Reactions
    BY OwnObjects DEF Reactions
  <1>2. QED
    BY <1>1, ReadingSteps DEF I!C!Ask

LEMMA WritingSteps ==
  ASSUME NEW c \in Writes, NEW x \in Ours, NEW failing \in Reactions
  PROVE  /\ I!C!Step(c, x, failing) \in Gentle
         /\ I!C!Do(c, x) \in Gentle
         /\ I!C!Try(c, x) \in Gentle
  BY OwnObjects DEF Writes, Changes, Removes, Gentle, Steps, Reactions, I!C!Step, I!C!Do, I!C!Try

LEMMA MakingSteps ==
  ASSUME NEW c \in Makes, NEW x \in Ours, NEW failing \in Reactions, NEW kinds \in SUBSET Kinds
  PROVE  /\ I!C!Step(c, x, failing) \in Steps
         /\ I!C!Do(c, x) \in Steps
         /\ c.check = T!NoCheck => I!C!List(c, x, kinds) \in Steps
  BY OwnObjects DEF Makes, Steps, Reactions, I!C!Step, I!C!Do, I!C!List

LEMMA JudgingSteps ==
  /\ I!C!Judge \in Gentle
  /\ I!C!Connect \in Gentle
  <1>1. ASSUME NEW e \in {"judge", "connect"}, NEW service \in T!Services,
               NEW errors \in Strict
        PROVE  I!C!Ask(I!C!T!Call(e, service, errors, I!C!T!NoCheck)) \in Gentle
    BY ChecksTyped, OwnObjects
       DEF I!C!T!Call, I!C!Ask, I!C!Do, I!C!Step, Gentle, Steps, Calls, Effects, Reactions,
           Strict, Readying
  <1>2. QED
    BY <1>1, TablesTruthful DEF I!C!Judge, I!C!Connect, T!Services, Strict

LEMMA ConditionalSteps ==
  ASSUME NEW S \in {Steps, Gentle}, NEW s \in S, NEW x \in Ours
  PROVE  I!C!If(x, s) \in S
  BY OwnObjects DEF I!C!If, Steps, Gentle

-----------------------------------------------------------------------------
(* Ways of putting steps together *)

LEMMA OneByOne ==
  ASSUME NEW S, NEW n \in Nat, NEW f \in [1..n -> S]
  PROVE  f \in Seq(S)
  OBVIOUS

LEMMA Joining ==
  ASSUME NEW S, NEW s \in Seq(S), NEW t \in Seq(S)
  PROVE  s \o t \in Seq(S)
  OBVIOUS

LEMMA Optional ==
  ASSUME NEW S, NEW s \in S, NEW c
  PROVE  I!C!When(c, <<s>>) \in Seq(S)
  <1>1. <<s>> \in Seq(S) /\ <<>> \in Seq(S)
    OBVIOUS
  <1>2. QED
    BY <1>1 DEF I!C!When

\* A finite set in some order.
LEMMA InSomeOrder ==
  ASSUME NEW S, IsFiniteSet(S), NEW R, S \subseteq R
  PROVE  I!C!SetToSeq(S) \in Seq(R)
  <1>1. Cardinality(S) \in Nat /\ ExistsBijection(1..Cardinality(S), S)
    BY FS_CardinalityType
  <1>2. PICK f \in [1..Cardinality(S) -> S] : I!C!IsInjective(f)
    BY <1>1
       DEF ExistsBijection, Bijection, Injection, Surjection, IsInjective, I!C!IsInjective
  <1>3. I!C!Cardinality(S) = Cardinality(S)
    BY DEF I!C!Cardinality, Cardinality
  <1>4. I!C!SetToSeq(S) \in [1..Cardinality(S) -> S]
    BY <1>2, <1>3 DEF I!C!SetToSeq
  <1>5. I!C!SetToSeq(S) \in [1..Cardinality(S) -> R]
    BY <1>4
  <1>6. QED
    BY <1>1, <1>5

\* The same request for each object of a set.
LEMMA ForEach ==
  ASSUME NEW c, NEW xs, IsFiniteSet(xs), NEW S,
         \A x \in xs : I!C!Do(c, x) \in S /\ I!C!Try(c, x) \in S
  PROVE  I!C!Each(c, xs) \in Seq(S) /\ I!C!EachTry(c, xs) \in Seq(S)
  <1> DEFINE s == I!C!SetToSeq(xs)
  <1>1. s \in Seq(xs)
    BY InSomeOrder
  <1>2. Len(s) \in Nat /\ \A i \in 1..Len(s) : s[i] \in xs
    BY <1>1
  <1>3. [i \in 1..Len(s) |-> I!C!Do(c, s[i])] \in Seq(S)
    BY <1>2, OneByOne
  <1>4. [i \in 1..Len(s) |-> I!C!Try(c, s[i])] \in Seq(S)
    BY <1>2, OneByOne
  <1>5. QED
    BY <1>3, <1>4 DEF I!C!Each, I!C!EachTry

\* What the answers have shown of a kind, or of what belongs to the request.
LEMMA ShownObjects ==
  ASSUME NEW xs, Answers(xs)
  PROVE  /\ \A k : /\ I!C!Shown(k, xs) \subseteq Objects
                   /\ IsFiniteSet(I!C!Shown(k, xs))
         /\ \A k, x : IsFiniteSet(I!C!Owned(k, x, xs))
         /\ \A k \in {"interface", "rule", "port"} : I!C!Shown(k, xs) \subseteq Ours
         /\ \A k \in {"default", "group_snapshot"}, x \in Objects :
              x[2] = 1 => I!C!Owned(k, x, xs) \subseteq Ours
  <1>1. \A k : I!C!Shown(k, xs) \in SUBSET xs
    BY DEF I!C!Shown
  <1>2. \A k, x : I!C!Owned(k, x, xs) \in SUBSET xs
    BY DEF I!C!Owned
  <1>3. \A k \in {"interface", "rule", "port"} : I!C!Shown(k, xs) \subseteq Ours
    BY DEF I!C!Shown, Ours, Foreign, Answers
  <1>4. \A k \in {"default", "group_snapshot"}, x \in Objects :
              x[2] = 1 => I!C!Owned(k, x, xs) \subseteq Ours
    BY DEF I!C!Owned, Ours, Foreign, Answers
  <1>5. QED
    BY <1>1, <1>2, <1>3, <1>4, FS_Subset DEF Answers
\* What makes nothing is a program, too.
LEMMA GentleIsOrderly ==
  /\ Gentle \subseteq Steps
  /\ Seq(Gentle) \subseteq Seq(Steps)
  /\ Programs(Gentle) \subseteq Programs(Steps)
  /\ Requested(Gentle) \subseteq Requested(Steps)
  <1>1. Gentle \subseteq Steps
    BY DEF Gentle
  <1>2. Seq(Gentle) \subseteq Seq(Steps)
    BY <1>1
  <1>3. QED
    BY <1>1, <1>2 DEF Programs, Requested

LEMMA Methods ==
  ASSUME NEW S, NEW s \in Seq(S), NEW t \in Seq(S)
  PROVE  /\ I!C!Program(s) \in Programs(S)
         /\ I!C!Undoing(s, t) \in Programs(S)
         /\ I!C!Program(s).steps = s
  BY DEF I!C!Program, I!C!Undoing, Programs

\* The internal functions add a conversion and its rollback.
LEMMA Functions ==
  ASSUME NEW S, NEW p \in Programs(S), NEW q \in Programs(S)
  PROVE  /\ I!Answering(p) \in Requested(S)
         /\ I!Silent(p) \in Requested(S)
         /\ I!Reversible(p, q) \in Requested(S)
  <1>1. I!Answering(p) \in Requested(S)
    BY DEF I!Answering, Programs, Requested
  <1>2. I!Silent(p) \in Requested(S)
    BY <1>1 DEF I!Silent, Requested
  <1>3. q.steps \in Seq(S)
    BY DEF Programs
  <1>4. I!Reversible(p, q) \in Requested(S)
    BY <1>1, <1>3 DEF I!Reversible, Requested
  <1>5. QED
    BY <1>1, <1>2, <1>4

LEMMA NothingIsGentle == I!Nothing \in Requested(Gentle)
  <1>1. <<>> \in Seq(Gentle)
    OBVIOUS
  <1>2. QED
    BY <1>1, Methods, Functions DEF I!Nothing

-----------------------------------------------------------------------------
(* The methods of the client *)

\* DeleteTenant deletes only the default groups of its own project.
LEMMA TenantPrograms ==
  ASSUME NEW quotas, NEW xs, Answers(xs)
  PROVE  /\ I!C!DeleteTenant(I!project, xs) \in Programs(Gentle)
         /\ I!C!CreateTenant(I!project, quotas, xs) \in Programs(Steps)
  <1> DEFINE p == I!project
  <1>1. p \in Ours /\ p[2] = 1
    BY OwnObjects DEF I!project
  <1>2. I!C!updateQuotas(p, quotas) \in Seq(Gentle)
    <2>1. /\ I!C!Do(I!C!T!UpdateComputeQuotas, p) \in Gentle
          /\ I!C!Do(I!C!T!UpdateNetworkQuotaForAProject, p) \in Gentle
          /\ I!C!Do(I!C!T!UpdateStorageQuotasForAProject, p) \in Gentle
      BY <1>1, CallsThatWrite, WritingSteps DEF Reactions
    <2>2. QED
      BY <2>1, Optional, Joining DEF I!C!updateQuotas
  <1>3. I!C!DropGroups(p, xs) \in Seq(Gentle)
    <2>1. [I!C!Step(I!C!T!ListSecurityGroups, I!C!Cloud, "end") EXCEPT !.lists = {"default"}]
            \in Gentle
      BY CallsThatRead, ReadingSteps, OwnObjects DEF Reactions, Kinds
    <2>2. /\ I!C!Owned("default", p, xs) \subseteq Ours
          /\ IsFiniteSet(I!C!Owned("default", p, xs))
      BY <1>1, ShownObjects, OwnObjects
    <2>3. \A x \in I!C!Owned("default", p, xs) :
            /\ I!C!Do(I!C!T!DeleteSecurityGroup, x) \in Gentle
            /\ I!C!Try(I!C!T!DeleteSecurityGroup, x) \in Gentle
      BY <2>2, CallsThatWrite, WritingSteps DEF Reactions
    <2>4. I!C!EachTry(I!C!T!DeleteSecurityGroup, I!C!Owned("default", p, xs)) \in Seq(Gentle)
      BY <2>2, <2>3, ForEach
    <2>5. QED
      BY <2>1, <2>4, JudgingSteps, Joining DEF I!C!DropGroups
  <1>4. <<I!C!Do(I!C!T!DeleteProject, p)>> \o I!C!DropGroups(p, xs) \in Seq(Gentle)
    BY <1>1, <1>3, CallsThatWrite, WritingSteps, Joining DEF Reactions
  <1>5. I!C!DeleteTenant(p, xs) \in Programs(Gentle)
    BY <1>4, Methods DEF I!C!DeleteTenant
  <1>6. I!C!CreateTenant(p, quotas, xs) \in Programs(Steps)
    <2> DEFINE s == I!C!DeleteTenant(p, xs).steps
               undo == [i \in 1..Len(s) |-> I!C!If(p, s[i])]
               made == <<I!C!Do(I!C!T!CreateProject, p), I!C!Judge,
                         I!C!Do(I!C!T!AssignRoleToUserOnProject, p)>>
    <2>1. s \in Seq(Steps)
      BY <1>5, GentleIsOrderly DEF Programs
    <2>2. undo \in Seq(Steps)
      <3>1. Len(s) \in Nat /\ \A i \in 1..Len(s) : s[i] \in Steps
        BY <2>1
      <3>2. undo \in [1..Len(s) -> Steps]
        BY <1>1, <3>1, ConditionalSteps
      <3>3. QED
        BY <3>1, <3>2, OneByOne
    <2>3. made \in Seq(Steps)
      <3>1. I!C!Do(I!C!T!CreateProject, p) \in Steps
        BY <1>1, CallsThatMake, MakingSteps DEF Reactions
      <3>2. I!C!Do(I!C!T!AssignRoleToUserOnProject, p) \in Gentle
        BY <1>1, CallsThatWrite, WritingSteps DEF Reactions
      <3>3. QED
        BY <3>1, <3>2, JudgingSteps, GentleIsOrderly
    <2>4. made \o I!C!updateQuotas(p, quotas) \in Seq(Steps)
      BY <1>2, <2>3, GentleIsOrderly, Joining
    <2>5. QED
      BY <2>2, <2>4, Methods DEF I!C!CreateTenant
  <1>7. QED
    BY <1>5, <1>6

\* A program of one request.
LEMMA OneRequest ==
  /\ \A c \in Reads, x \in Objects : I!C!Program(<<I!C!Do(c, x)>>) \in Programs(Gentle)
  /\ \A c \in Writes, x \in Ours : I!C!Program(<<I!C!Do(c, x)>>) \in Programs(Gentle)
  /\ \A c \in Makes, x \in Ours : I!C!Program(<<I!C!Do(c, x)>>) \in Programs(Steps)
  <1>1. ASSUME NEW S, NEW s \in S
        PROVE  I!C!Program(<<s>>) \in Programs(S)
    <2>1. <<s>> \in Seq(S)
      OBVIOUS
    <2>2. QED
      BY <2>1, Methods
  <1>2. "return" \in Reactions
    BY DEF Reactions
  <1>3. QED
    BY <1>1, <1>2, ReadingSteps, WritingSteps, MakingSteps

LEMMA NetworkPrograms ==
  /\ I!C!CreateNetwork(I!network) \in Programs(Steps)
  /\ I!C!DeleteNetwork(I!network) \in Programs(Gentle)
  /\ I!C!CreateSubnet(I!subnet) \in Programs(Steps)
  /\ I!C!DeleteSubnet(I!subnet) \in Programs(Gentle)
  /\ I!C!CreateFloatingIP(I!floating_ip) \in Programs(Steps)
  /\ I!C!DeleteFloatingIP(I!floating_ip) \in Programs(Gentle)
  <1>1. I!C!CreateNetwork(I!network) \in Programs(Steps)
    BY CallsThatMake, OwnObjects, OneRequest DEF I!C!CreateNetwork
  <1>2. I!C!DeleteNetwork(I!network) \in Programs(Gentle)
    BY CallsThatWrite, OwnObjects, OneRequest DEF I!C!DeleteNetwork
  <1>3. I!C!CreateSubnet(I!subnet) \in Programs(Steps)
    BY CallsThatMake, OwnObjects, OneRequest DEF I!C!CreateSubnet
  <1>4. I!C!DeleteSubnet(I!subnet) \in Programs(Gentle)
    BY CallsThatWrite, OwnObjects, OneRequest DEF I!C!DeleteSubnet
  <1>5. I!C!DeleteFloatingIP(I!floating_ip) \in Programs(Gentle)
    BY CallsThatWrite, OwnObjects, OneRequest DEF I!C!DeleteFloatingIP
  <1>6. I!C!CreateFloatingIP(I!floating_ip) \in Programs(Steps)
    <2>1. I!C!Do(I!C!T!CreateFloatingIP, I!floating_ip) \in Steps
      BY CallsThatMake, OwnObjects, MakingSteps DEF Reactions
    <2>2. I!C!If(I!floating_ip, I!C!Try(I!C!T!DeleteFloatingIP, I!floating_ip)) \in Gentle
      BY CallsThatWrite, OwnObjects, WritingSteps, ConditionalSteps DEF Reactions
    <2>3. /\ <<I!C!Do(I!C!T!CreateFloatingIP, I!floating_ip), I!C!Judge>> \in Seq(Steps)
          /\ <<I!C!If(I!floating_ip, I!C!Try(I!C!T!DeleteFloatingIP, I!floating_ip))>>
               \in Seq(Steps)
      BY <2>1, <2>2, JudgingSteps, GentleIsOrderly
    <2>4. QED
      BY <2>3, Methods DEF I!C!CreateFloatingIP
  <1>7. QED
    BY <1>1, <1>2, <1>3, <1>4, <1>5, <1>6

\* Interfaces and ports are numbered by the request, those that are deleted are
\* shown for its router.
LEMMA RouterPrograms ==
  ASSUME NEW n \in Nat, NEW routes, NEW xs, Answers(xs)
  PROVE  /\ I!C!CreateRouter(I!router, n, routes) \in Programs(Steps)
         /\ I!C!DeleteRouter(I!router, xs) \in Programs(Gentle)
  <1> DEFINE r == I!router
             route == <<"route", 1>>
  <1>1. r \in Ours /\ route \in Ours
    BY OwnObjects
  <1>2. ASSUME NEW i \in Nat
        PROVE  <<"port", i>> \in Ours /\ <<"interface", i>> \in Ours
    BY OwnObjects
  <1>3. I!C!Do(I!C!T!RemoveExtraRoutesFromRouter, route) \in Gentle
    BY <1>1, CallsThatWrite, WritingSteps DEF Reactions
  <1>4. I!C!Do(I!C!T!DeleteRouter, r) \in Gentle
    BY <1>1, CallsThatWrite, WritingSteps DEF Reactions
  <1>5. \A x \in Ours : /\ I!C!Do(I!C!T!RemoveInterfaceFromRouter, x) \in Gentle
                        /\ I!C!Try(I!C!T!RemoveInterfaceFromRouter, x) \in Gentle
    BY CallsThatWrite, WritingSteps DEF Reactions
  <1>6. I!C!CreateRouter(r, n, routes) \in Programs(Steps)
    <2> DEFINE first == <<I!C!Judge, I!C!Do(I!C!T!CreateRouter, r)>>
               joins == [i \in 1..(2 * n) |->
                    IF i % 2 = 1 THEN I!C!Do(I!C!T!CreatePort, <<"port", (i + 1) \div 2>>)
                    ELSE I!C!Do(I!C!T!AddInterfaceToRouter, <<"interface", i \div 2>>)]
               add == I!C!Step(I!C!T!AddExtraRoutesToRouter, route, "busy")
               parts == [i \in 1..n |-> I!C!If(<<"interface", i>>,
                           I!C!Do(I!C!T!RemoveInterfaceFromRouter, <<"interface", i>>))]
    <2>1. first \in Seq(Steps)
      <3>1. I!C!Do(I!C!T!CreateRouter, r) \in Steps
        BY <1>1, CallsThatMake, MakingSteps DEF Reactions
      <3>2. QED
        BY <3>1, JudgingSteps, GentleIsOrderly
    <2>2. joins \in Seq(Steps)
      <3>1. \A x \in Ours : /\ I!C!Do(I!C!T!CreatePort, x) \in Steps
                            /\ I!C!Do(I!C!T!AddInterfaceToRouter, x) \in Steps
        BY CallsThatMake, MakingSteps DEF Reactions
      <3>2. 2 * n \in Nat /\ \A i \in 1..(2 * n) : (i + 1) \div 2 \in Nat /\ i \div 2 \in Nat
        OBVIOUS
      <3>3. joins \in [1..(2 * n) -> Steps]
        BY <1>2, <3>1, <3>2
      <3>4. QED
        BY <3>2, <3>3, OneByOne
    <2>3. <<I!C!Ask(I!C!T!ListPorts)>> \in Seq(Steps)
      <3>1. I!C!Ask(I!C!T!ListPorts) \in Gentle
        BY CallsThatRead, AskingSteps
      <3>2. QED
        BY <3>1, GentleIsOrderly
    <2>4. I!C!When(routes, <<add>>) \in Seq(Steps)
      <3>1. add \in Steps
        BY <1>1, CallsThatMake, MakingSteps DEF Reactions
      <3>2. QED
        BY <3>1, Optional
    <2>5. parts \in Seq(Steps)
      <3>1. ASSUME NEW i \in 1..n
            PROVE  I!C!If(<<"interface", i>>,
                     I!C!Do(I!C!T!RemoveInterfaceFromRouter, <<"interface", i>>)) \in Gentle
        <4>1. <<"interface", i>> \in Ours
          BY <1>2, i \in Nat
        <4>2. QED
          BY <1>5, <4>1, ConditionalSteps
      <3>2. parts \in [1..n -> Steps]
        BY <3>1, GentleIsOrderly
      <3>3. QED
        BY <3>2, OneByOne
    <2>6. /\ <<I!C!If(r, I!C!Do(I!C!T!RemoveExtraRoutesFromRouter, route))>> \in Seq(Steps)
          /\ <<I!C!If(r, I!C!Do(I!C!T!DeleteRouter, r))>> \in Seq(Steps)
      BY <1>1, <1>3, <1>4, ConditionalSteps, GentleIsOrderly
    <2> HIDE DEF first, joins, add, parts
    <2>7. /\ first \o joins \o <<I!C!Ask(I!C!T!ListPorts)>> \o I!C!When(routes, <<add>>)
               \in Seq(Steps)
          /\ <<I!C!If(r, I!C!Do(I!C!T!RemoveExtraRoutesFromRouter, route))>> \o parts
               \o <<I!C!If(r, I!C!Do(I!C!T!DeleteRouter, r))>> \in Seq(Steps)
      BY <2>1, <2>2, <2>3, <2>4, <2>5, <2>6, Joining
    <2>8. QED
      BY <2>7, Methods DEF I!C!CreateRouter, first, joins, add, parts
  <1>7. I!C!DeleteRouter(r, xs) \in Programs(Gentle)
    <2>1. /\ I!C!List(I!C!T!ListPorts, I!C!Cloud, {"interface"}) \in Gentle
          /\ I!C!List(I!C!T!ShowRouterDetails, r, {"route"}) \in Gentle
      BY <1>1, CallsThatRead, ReadingSteps, OwnObjects DEF Reactions, Kinds
    <2>2. I!C!When(route \in xs, <<I!C!Do(I!C!T!RemoveExtraRoutesFromRouter, route)>>)
            \in Seq(Gentle)
      BY <1>3, Optional
    <2>3. I!C!Each(I!C!T!RemoveInterfaceFromRouter, I!C!Shown("interface", xs)) \in Seq(Gentle)
      <3>1. /\ IsFiniteSet(I!C!Shown("interface", xs))
            /\ I!C!Shown("interface", xs) \subseteq Ours
        BY ShownObjects
      <3>2. QED
        BY <1>5, <3>1, ForEach
    <2>4. /\ <<I!C!List(I!C!T!ListPorts, I!C!Cloud, {"interface"}),
               I!C!List(I!C!T!ShowRouterDetails, r, {"route"})>> \in Seq(Gentle)
          /\ <<I!C!Do(I!C!T!DeleteRouter, r)>> \in Seq(Gentle)
      BY <1>4, <2>1
    <2>5. QED
      BY <2>2, <2>3, <2>4, Joining, Methods DEF I!C!DeleteRouter
  <1>8. QED
    BY <1>6, <1>7

LEMMA SecurityGroupPrograms ==
  ASSUME NEW xs, Answers(xs), NEW n \in Nat
  PROVE  /\ I!C!CreateSecurityGroup(I!security_group, xs) \in Programs(Steps)
         /\ I!C!DeleteSecurityGroup(I!security_group) \in Programs(Gentle)
         /\ I!C!CreateSecurityGroupRule(<<"rule", 3>>) \in Programs(Steps)
         /\ I!C!DeleteSecurityGroupRule(<<"rule", 3>>) \in Programs(Gentle)
         /\ I!C!Each(I!C!T!DeleteSecurityGroupRule, I!Numbered("rule", n)) \in Seq(Gentle)
  <1> DEFINE g == I!security_group
  <1>1. \A x \in Ours : /\ I!C!Do(I!C!T!DeleteSecurityGroupRule, x) \in Gentle
                        /\ I!C!Try(I!C!T!DeleteSecurityGroupRule, x) \in Gentle
    BY CallsThatWrite, WritingSteps DEF Reactions
  <1>2. I!C!CreateSecurityGroup(g, xs) \in Programs(Steps)
    <2>1. I!C!List(I!C!T!CreateSecurityGroup, g, {"rule"}) \in Steps
      <3>1. I!C!T!CreateSecurityGroup.check = T!NoCheck
        BY ChecksTyped DEF I!C!T!CreateSecurityGroup, I!C!T!Make, I!C!T!Call
      <3>2. QED
        BY <3>1, CallsThatMake, MakingSteps, OwnObjects DEF Reactions, Kinds
    <2>2. I!C!Each(I!C!T!DeleteSecurityGroupRule, I!C!Shown("rule", xs)) \in Seq(Steps)
      <3>1. IsFiniteSet(I!C!Shown("rule", xs)) /\ I!C!Shown("rule", xs) \subseteq Ours
        BY ShownObjects
      <3>2. QED
        BY <1>1, <3>1, ForEach, GentleIsOrderly
    <2>3. I!C!If(g, I!C!Try(I!C!T!DeleteSecurityGroup, g)) \in Steps
      BY CallsThatWrite, OwnObjects, WritingSteps, ConditionalSteps, GentleIsOrderly
         DEF Reactions
    <2>4. /\ <<I!C!List(I!C!T!CreateSecurityGroup, g, {"rule"})>> \in Seq(Steps)
          /\ <<I!C!If(g, I!C!Try(I!C!T!DeleteSecurityGroup, g))>> \in Seq(Steps)
      BY <2>1, <2>3
    <2>5. QED
      BY <2>2, <2>4, Joining, Methods DEF I!C!CreateSecurityGroup
  <1>3. I!C!DeleteSecurityGroup(g) \in Programs(Gentle)
    BY CallsThatWrite, OwnObjects, OneRequest DEF I!C!DeleteSecurityGroup
  <1>4. I!C!CreateSecurityGroupRule(<<"rule", 3>>) \in Programs(Steps)
    BY CallsThatMake, OwnObjects, OneRequest DEF I!C!CreateSecurityGroupRule
  <1>5. I!C!DeleteSecurityGroupRule(<<"rule", 3>>) \in Programs(Gentle)
    BY CallsThatWrite, OwnObjects, OneRequest DEF I!C!DeleteSecurityGroupRule
  <1>6. I!C!Each(I!C!T!DeleteSecurityGroupRule, I!Numbered("rule", n)) \in Seq(Gentle)
    <2>1. I!Numbered("rule", n) \subseteq Ours
      BY OwnRules
    <2>2. IsFiniteSet(I!Numbered("rule", n))
      <3> DEFINE f == [i \in 1..n |-> <<"rule", i>>]
      <3>1. f \in Surjection(1..n, I!Numbered("rule", n))
        BY DEF Surjection, I!Numbered
      <3>2. IsFiniteSet(1..n)
        BY FS_Interval
      <3>3. QED
        BY <3>1, <3>2, FS_Surjection
    <2>3. QED
      BY <1>1, <2>1, <2>2, ForEach
  <1>7. QED
    BY <1>2, <1>3, <1>4, <1>5, <1>6

LEMMA VolumePrograms ==
  ASSUME NEW n \in Nat, NEW readonly, NEW bootable
  PROVE  /\ I!C!CreateVolume(I!volume, readonly, bootable) \in Programs(Steps)
         /\ I!C!DeleteVolume(I!volume) \in Programs(Gentle)
         /\ I!C!CreateVolumeSnapshot(I!snapshot) \in Programs(Steps)
         /\ I!C!DeleteVolumeSnapshot(I!snapshot) \in Programs(Gentle)
         /\ I!C!ImportVolume(I!volume, n, readonly, bootable) \in Programs(Steps)
         /\ I!C!UnmanageVolume(I!volume, n) \in Programs(Gentle)
         /\ I!C!CopyVolume \in Programs(Gentle)
         /\ I!C!DeleteVolumeCopy \in Programs(Gentle)
  <1> DEFINE v == I!volume
             mode == I!C!updateVolumeMode(v, readonly, bootable)
  <1>1. v \in Ours /\ I!snapshot \in Ours
    BY OwnObjects
  <1>2. ASSUME NEW i \in Nat
        PROVE  <<"snapshot", i>> \in Ours
    BY OwnObjects
  <1>3. mode \in Seq(Steps)
    <2>1. /\ I!C!Do(I!C!T!UpdatesVolumeReadOnlyAccessModeFlag, v) \in Steps
          /\ I!C!Do(I!C!T!UpdateVolumeBootableStatus, v) \in Steps
      BY <1>1, CallsThatWrite, WritingSteps, GentleIsOrderly DEF Reactions
    <2>2. QED
      BY <2>1, Optional, Joining DEF I!C!updateVolumeMode
  <1> HIDE DEF mode
  <1>4. I!C!CreateVolume(v, readonly, bootable) \in Programs(Steps)
    <2>1. I!C!Do(I!C!T!CreateVolume, v) \in Steps
      BY <1>1, CallsThatMake, MakingSteps DEF Reactions
    <2>2. I!C!If(v, I!C!Try(I!C!T!DeleteVolume, v)) \in Gentle
      BY <1>1, CallsThatWrite, WritingSteps, ConditionalSteps DEF Reactions
    <2>3. /\ <<I!C!Do(I!C!T!CreateVolume, v)>> \o mode \in Seq(Steps)
          /\ <<I!C!If(v, I!C!Try(I!C!T!DeleteVolume, v))>> \in Seq(Steps)
      BY <1>3, <2>1, <2>2, GentleIsOrderly, Joining
    <2>4. QED
      BY <2>3, Methods DEF I!C!CreateVolume, mode
  <1>5. I!C!DeleteVolume(v) \in Programs(Gentle)
    BY <1>1, CallsThatWrite, OneRequest DEF I!C!DeleteVolume
  <1>6. I!C!CreateVolumeSnapshot(I!snapshot) \in Programs(Steps)
    <2>1. I!C!Do(I!C!T!CreateVolumeSnapshot, I!snapshot) \in Steps
      BY <1>1, CallsThatMake, MakingSteps DEF Reactions
    <2>2. I!C!If(I!snapshot, I!C!Try(I!C!T!DeleteVolumeSnapshot, I!snapshot)) \in Gentle
      BY <1>1, CallsThatWrite, WritingSteps, ConditionalSteps DEF Reactions
    <2>3. /\ <<I!C!Do(I!C!T!CreateVolumeSnapshot, I!snapshot), I!C!Judge>> \in Seq(Steps)
          /\ <<I!C!If(I!snapshot, I!C!Try(I!C!T!DeleteVolumeSnapshot, I!snapshot))>>
               \in Seq(Steps)
      BY <2>1, <2>2, JudgingSteps, GentleIsOrderly
    <2>4. QED
      BY <2>3, Methods DEF I!C!CreateVolumeSnapshot
  <1>7. I!C!DeleteVolumeSnapshot(I!snapshot) \in Programs(Gentle)
    BY <1>1, CallsThatWrite, OneRequest DEF I!C!DeleteVolumeSnapshot
  <1>8. I!C!ImportVolume(v, n, readonly, bootable) \in Programs(Steps)
    <2> DEFINE snapshots == [i \in 1..(2 * n) |->
                 IF i % 2 = 1
                 THEN I!C!Do(I!C!T!ManageExistingVolumeSnapshot,
                             <<"snapshot", (i + 1) \div 2>>)
                 ELSE I!C!Judge]
    <2>1. snapshots \in Seq(Steps)
      <3>1. 2 * n \in Nat
        OBVIOUS
      <3>2. ASSUME NEW i \in 1..(2 * n)
            PROVE  snapshots[i] \in Steps
        <4>1. <<"snapshot", (i + 1) \div 2>> \in Ours
          BY <1>2, (i + 1) \div 2 \in Nat
        <4>2. I!C!Do(I!C!T!ManageExistingVolumeSnapshot, <<"snapshot", (i + 1) \div 2>>) \in Steps
          BY <4>1, CallsThatMake, MakingSteps DEF Reactions
        <4>3. QED
          BY <4>2, JudgingSteps, GentleIsOrderly
      <3>3. QED
        BY <3>1, <3>2, OneByOne
    <2>2. I!C!getServiceHostname \in Seq(Steps)
      <3>1. I!C!Ask(I!C!T!ListAllCinderServices) \in Gentle
        BY CallsThatRead, AskingSteps
      <3>2. QED
        BY <3>1, JudgingSteps, GentleIsOrderly DEF I!C!getServiceHostname
    <2>3. <<I!C!Judge>> \in Seq(Steps) /\ <<I!C!Do(I!C!T!ManageExistingVolume, v)>> \in Seq(Steps)
      <3>1. I!C!Do(I!C!T!ManageExistingVolume, v) \in Steps
        BY <1>1, CallsThatMake, MakingSteps DEF Reactions
      <3>2. QED
        BY <3>1, JudgingSteps, GentleIsOrderly
    <2> HIDE DEF snapshots
    <2>4. I!C!importCEPH(v, n, readonly, bootable) \in Seq(Steps)
      BY <1>3, <2>1, <2>2, <2>3, Joining DEF I!C!importCEPH, mode, snapshots
    <2>5. QED
      BY <2>4, Methods DEF I!C!ImportVolume
  <1>9. I!C!UnmanageVolume(v, n) \in Programs(Gentle)
    <2> DEFINE snapshots ==
                 [i \in 1..n |-> I!C!Do(I!C!T!UnmanageVolumeSnapshot, <<"snapshot", i>>)]
    <2>1. snapshots \in Seq(Gentle)
      <3>1. ASSUME NEW i \in 1..n
            PROVE  snapshots[i] \in Gentle
        <4>1. <<"snapshot", i>> \in Ours
          BY <1>2
        <4>2. QED
          BY <4>1, CallsThatWrite, WritingSteps DEF Reactions
      <3>2. QED
        BY <3>1, OneByOne
    <2>2. <<I!C!Do(I!C!T!UnmanageVolume, v)>> \in Seq(Gentle)
      BY <1>1, CallsThatWrite, WritingSteps DEF Reactions
    <2> HIDE DEF snapshots
    <2>3. I!C!unmanageCEPH(v, n) \in Seq(Gentle)
      BY <2>1, <2>2, Joining DEF I!C!unmanageCEPH, snapshots
    <2>4. <<I!C!Step(I!C!T!ShowVolumeDetails, v, "absent"), I!C!Judge>> \in Seq(Gentle)
      <3>1. I!C!Step(I!C!T!ShowVolumeDetails, v, "absent") \in Gentle
        BY <1>1, CallsThatRead, ReadingSteps, OwnObjects DEF Reactions
      <3>2. QED
        BY <3>1, JudgingSteps
    <2>5. QED
      BY <2>3, <2>4, Joining, Methods DEF I!C!UnmanageVolume
  <1>10. I!C!CopyVolume \in Programs(Gentle) /\ I!C!DeleteVolumeCopy \in Programs(Gentle)
    <2>1. <<I!C!Judge>> \o <<>> \in Seq(Gentle)
      BY JudgingSteps
    <2>2. QED
      BY <2>1, Methods
         DEF I!C!CopyVolume, I!C!copyCEPH, I!C!DeleteVolumeCopy, I!C!deleteCopyCEPH
  <1>11. QED
    BY <1>4, <1>5, <1>6, <1>7, <1>8, <1>9, <1>10

-----------------------------------------------------------------------------
(* The batches of a volume group *)

LEMMA Smallest ==
  ASSUME NEW S \in SUBSET Nat, S # {}
  PROVE  \E n \in S : \A m \in S : n <= m
  <1> DEFINE R == OpToRel(<, Nat)
  <1>1. IsWellFoundedOn(R, Nat)
    BY NatLessThanWellFounded
  <1> HIDE DEF R
  <1>2. PICK n \in S : \A m \in S : ~(<<m, n>> \in R)
    BY <1>1, WFMin
  <1>3. \A m, k \in Nat : m < k => <<m, k>> \in R
    BY DEF R, OpToRel
  <1>4. ASSUME NEW m \in S
        PROVE  n <= m
    <2>1. ~(<<m, n>> \in R)
      BY <1>2
    <2>2. m \in Nat /\ n \in Nat
      OBVIOUS
    <2>3. m < n => <<m, n>> \in R
      BY <1>3, <2>2
    <2>4. QED
      BY <2>1, <2>2, <2>3
  <1>5. QED
    BY <1>4

\* A part has volumes of the list, and there are as many parts as it takes.
LEMMA PartsOfVolumes ==
  ASSUME NEW volumes \in Seq(Nat), NEW index \in Nat
  PROVE  /\ I!C!getPartVolumes(index, volumes) \in Seq(Nat)
         /\ index > Len(volumes) => I!C!getPartVolumes(index, volumes) = <<>>
         /\ index = Len(volumes) => I!C!getPartVolumes(index, volumes) = <<>>
  <1> DEFINE retry == Len(volumes) \div Limit
  <1>1. /\ Len(volumes) \in Nat
        /\ retry \in Nat
        /\ retry * Limit <= Len(volumes)
        /\ retry <= Len(volumes)
        /\ Limit \in Nat \ {0}
    BY LimitAssumption
  <1>2. I!C!getPartVolumes(index, volumes) =
          CASE index > retry -> <<>>
            [] index = retry -> SubSeq(volumes, index * Limit + 1, Len(volumes))
            [] OTHER -> SubSeq(volumes, index * Limit + 1, (index + 1) * Limit)
    BY DEF I!C!getPartVolumes
  <1> HIDE DEF retry
  <1>3. CASE index > retry
    <2>1. I!C!getPartVolumes(index, volumes) = <<>>
      BY <1>2, <1>3
    <2>2. QED
      BY <2>1
  <1>4. CASE index = retry
    <2>1. I!C!getPartVolumes(index, volumes)
            = SubSeq(volumes, index * Limit + 1, Len(volumes))
      <3>1. ~(index > retry)
        BY <1>1, <1>4
      <3>2. QED
        BY <1>2, <1>4, <3>1
    <2>2. index * Limit \in Nat
      BY <1>1
    <2>3. index = Len(volumes) => index * Limit + 1 > Len(volumes)
      BY <1>1, <1>4, <2>2
    <2>4. index <= Len(volumes)
      BY <1>1, <1>4
    <2>5. SubSeq(volumes, index * Limit + 1, Len(volumes)) \in Seq(Nat)
      <3>1. \A i \in (index * Limit + 1)..Len(volumes) : volumes[i] \in Nat
        BY <1>1, <2>2
      <3>2. index * Limit + 1 \in Int /\ Len(volumes) \in Int
        BY <1>1, <2>2
      <3>3. QED
        BY <3>1, <3>2, SubSeqProperties
    <2>6. index * Limit + 1 > Len(volumes)
            => SubSeq(volumes, index * Limit + 1, Len(volumes)) = <<>>
      BY <1>1, <2>2, SubSeqEmpty
    <2>7. QED
      BY <1>1, <2>1, <2>3, <2>4, <2>5, <2>6
  <1>5. CASE index < retry
    <2>1. I!C!getPartVolumes(index, volumes)
            = SubSeq(volumes, index * Limit + 1, (index + 1) * Limit)
      <3>1. ~(index > retry) /\ index # retry
        BY <1>1, <1>5
      <3>2. QED
        BY <1>2, <3>1
    <2>2. index * Limit \in Nat /\ (index + 1) * Limit \in Nat
      BY <1>1
    <2>3. (index + 1) * Limit <= Len(volumes)
      <3>1. index + 1 <= retry
        BY <1>1, <1>5
      <3>2. (index + 1) * Limit <= retry * Limit
        BY <1>1, <3>1
      <3>3. QED
        BY <1>1, <2>2, <3>2
    <2>4. SubSeq(volumes, index * Limit + 1, (index + 1) * Limit) \in Seq(Nat)
      <3>1. \A i \in (index * Limit + 1)..((index + 1) * Limit) : volumes[i] \in Nat
        BY <1>1, <2>2, <2>3
      <3>2. index * Limit + 1 \in Int /\ (index + 1) * Limit \in Int
        BY <1>1, <2>2
      <3>3. QED
        BY <3>1, <3>2, SubSeqProperties
    <2>5. QED
      BY <1>1, <1>5, <2>1, <2>4
  <1>6. QED
    BY <1>1, <1>3, <1>4, <1>5

\* The requests that join volumes to a group and take others away: the last one
\* is well defined, each changes the group, and nothing joins if none is to join.
LEMMA BatchesOfVolumes ==
  ASSUME NEW x \in Ours, NEW adds \in Seq(Nat), NEW drops \in Seq(Nat)
  PROVE  /\ I!C!Batches(x, adds, drops) \in Seq(Steps)
         /\ adds = <<>> => I!C!Batches(x, adds, drops) \in Seq(Gentle)
  <1> DEFINE part(i) == I!C!Members(x, I!C!getPartVolumes(i - 1, adds),
                                       I!C!getPartVolumes(i - 1, drops))
             empty(i) == part(i).adds = {} /\ part(i).drops = {}
             IsLast(n) == empty(n + 1) /\ \A i \in 1..n : ~empty(i)
             most == Len(adds) + Len(drops)
             last == CHOOSE n \in 0..most : IsLast(n)
  <1>1. ASSUME NEW a \in Seq(Nat)
        PROVE  /\ {<<"member", a[i]>> : i \in DOMAIN a} \subseteq Ours
               /\ a = <<>> => {<<"member", a[i]>> : i \in DOMAIN a} = {}
    <2>1. ASSUME NEW i \in DOMAIN a
          PROVE  <<"member", a[i]>> \in Ours
      <3>1. a[i] \in Nat
        OBVIOUS
      <3>2. QED
        BY <3>1, OwnObjects
    <2>2. QED
      BY <2>1
  <1>2. I!C!Do(I!C!T!UpdateVolumeGroup, x) \in Gentle
    BY CallsThatWrite, WritingSteps DEF Reactions
  <1>3. ASSUME NEW a \in Seq(Nat), NEW d \in Seq(Nat)
        PROVE  /\ I!C!Members(x, a, d) \in Steps
               /\ I!C!Members(x, a, d).adds \subseteq Ours
               /\ a = <<>> => I!C!Members(x, a, d) \in Gentle
               /\ a = <<>> => I!C!Members(x, a, d).adds = {}
               /\ d = <<>> => I!C!Members(x, a, d).drops = {}
    <2> DEFINE A == {<<"member", a[i]>> : i \in DOMAIN a}
               D == {<<"member", d[i]>> : i \in DOMAIN d}
               s == I!C!Do(I!C!T!UpdateVolumeGroup, x)
    <2>1. A \subseteq Ours /\ D \subseteq Ours /\ (a = <<>> => A = {}) /\ (d = <<>> => D = {})
      BY <1>1
    <2>2. I!C!Members(x, a, d) = [s EXCEPT !.adds = A, !.drops = D]
      BY DEF I!C!Members
    <2> HIDE DEF A, D, s
    <2>3. s \in Gentle
      BY <1>2 DEF s
    <2>4. QED
      BY <2>1, <2>2, <2>3, OwnObjects DEF Gentle, Steps
  <1>4. ASSUME NEW i \in Nat \ {0}
        PROVE  /\ part(i) \in Steps
               /\ adds = <<>> => part(i) \in Gentle
    <2>1. i - 1 \in Nat
      OBVIOUS
    <2>2. /\ I!C!getPartVolumes(i - 1, adds) \in Seq(Nat)
          /\ I!C!getPartVolumes(i - 1, drops) \in Seq(Nat)
      BY <2>1, PartsOfVolumes
    <2>3. adds = <<>> => I!C!getPartVolumes(i - 1, adds) = <<>>
      BY <2>1, PartsOfVolumes
    <2>4. QED
      BY <1>3, <2>2, <2>3
  <1>5. most \in Nat /\ Len(adds) <= most /\ Len(drops) <= most
    OBVIOUS
  <1>6. empty(most + 1)
    <2> HIDE DEF most
    <2>1. ASSUME NEW a \in Seq(Nat), Len(a) <= most
          PROVE  I!C!getPartVolumes(most, a) = <<>>
      <3>1. Len(a) \in Nat
        OBVIOUS
      <3>2. most > Len(a) \/ most = Len(a)
        BY <1>5, <2>1, <3>1
      <3>3. QED
        BY <1>5, <3>2, PartsOfVolumes
    <2>2. (most + 1) - 1 = most
      BY <1>5
    <2>3. /\ I!C!getPartVolumes((most + 1) - 1, adds) = <<>>
          /\ I!C!getPartVolumes((most + 1) - 1, drops) = <<>>
      BY <1>5, <2>1, <2>2
    <2>4. <<>> \in Seq(Nat)
      OBVIOUS
    <2>5. QED
      BY <1>3, <2>3, <2>4
  <1> HIDE DEF empty, most, part
  <1>7. \E n \in 0..most : IsLast(n)
    <2> DEFINE S == {n \in Nat : empty(n + 1)}
    <2>1. most \in S
      BY <1>5, <1>6
    <2>2. PICK n \in S : \A m \in S : n <= m
      BY <2>1, Smallest
    <2>3. n \in 0..most
      BY <1>5, <2>1, <2>2
    <2>4. ASSUME NEW i \in 1..n
          PROVE  ~empty(i)
      <3>1. i - 1 \in Nat /\ ~(n <= i - 1) /\ (i - 1) + 1 = i
        BY <2>3
      <3>2. i - 1 \notin S
        BY <2>2, <3>1
      <3>3. QED
        BY <3>1, <3>2
    <2>5. QED
      BY <2>2, <2>3, <2>4
  <1>8. last \in 0..most
    BY <1>7
  <1> HIDE DEF last, IsLast
  <1>9. last \in Nat /\ \A i \in 1..last : i \in Nat \ {0}
    BY <1>5, <1>8
  <1>10. [i \in 1..last |-> part(i)] \in Seq(Steps)
    BY <1>4, <1>9, OneByOne
  <1>11. adds = <<>> => [i \in 1..last |-> part(i)] \in Seq(Gentle)
    BY <1>4, <1>9, OneByOne
  <1>12. I!C!Batches(x, adds, drops) = [i \in 1..last |-> part(i)]
    BY DEF I!C!Batches, part, empty, IsLast, last, most
  <1>13. QED
    BY <1>10, <1>11, <1>12

\* What leaves with a group are its members and its own snapshots.
LEMMA VolumeGroupPrograms ==
  ASSUME NEW xs, Answers(xs), NEW add \in SUBSET Nat, NEW del \in SUBSET Nat,
         IsFiniteSet(add), IsFiniteSet(del)
  PROVE  /\ I!C!CreateVolumeGroup(I!group) \in Programs(Steps)
         /\ I!C!UpdateVolumeGroup(I!group, add, del, xs) \in Programs(Steps)
         /\ I!C!DeleteVolumeGroup(I!group, xs) \in Programs(Gentle)
         /\ I!C!CreateVolumeGroupSnapshot(I!group_snapshot) \in Programs(Steps)
         /\ I!C!DeleteVolumeGroupSnapshot(I!group_snapshot) \in Programs(Gentle)
         /\ I!C!GetVolumeGroup(I!group) \in Programs(Gentle)
  <1> DEFINE g == I!group
             gt == <<"group_type", 1>>
             gs == I!group_snapshot
  <1>1. g \in Ours /\ gs \in Ours /\ gt \in Ours /\ g[2] = 1
    BY OwnObjects DEF I!group
  <1> HIDE DEF g, gt, gs
  <1>2. /\ I!C!Do(I!C!T!CreateVolumeGroupType, gt) \in Steps
        /\ I!C!Do(I!C!T!CreateVolumeGroup, g) \in Steps
        /\ I!C!Do(I!C!T!CreateVolumeGroupSnapshot, gs) \in Steps
    BY <1>1, CallsThatMake, MakingSteps DEF Reactions
  <1>3. /\ I!C!Do(I!C!T!DeleteVolumeGroup, g) \in Gentle
        /\ I!C!Try(I!C!T!DeleteVolumeGroup, g) \in Gentle
        /\ I!C!Do(I!C!T!DeleteVolumeGroupType, gt) \in Gentle
        /\ I!C!Try(I!C!T!DeleteVolumeGroupType, gt) \in Gentle
        /\ I!C!Try(I!C!T!DeleteVolumeGroupSnapshot, gs) \in Gentle
    BY <1>1, CallsThatWrite, WritingSteps DEF Reactions
  <1>4. [I!C!Step(I!C!T!ShowVolumeGroupDetails, g, "absent") EXCEPT !.lists = {"member"}]
          \in Gentle
    BY <1>1, CallsThatRead, ReadingSteps, OwnObjects DEF Reactions, Kinds
  <1>5. I!C!CreateVolumeGroup(g) \in Programs(Steps)
    <2>1. /\ I!C!If(g, I!C!Try(I!C!T!DeleteVolumeGroup, g)) \in Gentle
          /\ I!C!If(gt, I!C!Try(I!C!T!DeleteVolumeGroupType, gt)) \in Gentle
      BY <1>1, <1>3, ConditionalSteps
    <2>2. /\ <<I!C!Do(I!C!T!CreateVolumeGroupType, gt), I!C!Do(I!C!T!CreateVolumeGroup, g)>>
               \in Seq(Steps)
          /\ <<I!C!If(g, I!C!Try(I!C!T!DeleteVolumeGroup, g)),
               I!C!If(gt, I!C!Try(I!C!T!DeleteVolumeGroupType, gt))>> \in Seq(Steps)
      BY <1>2, <2>1, GentleIsOrderly
    <2>3. <<"group_type", g[2]>> = gt
      BY <1>1 DEF gt
    <2>4. QED
      BY <2>2, <2>3, Methods DEF I!C!CreateVolumeGroup
  <1>6. I!C!UpdateVolumeGroup(g, add, del, xs) \in Programs(Steps)
    <2> DEFINE joining == {n \in add : ~I!C!isContainUUID(n, xs)}
               leaving == {n \in del : I!C!isContainUUID(n, xs)}
    <2>1. /\ joining \in SUBSET add /\ joining \subseteq Nat
          /\ leaving \in SUBSET del /\ leaving \subseteq Nat
      OBVIOUS
    <2> HIDE DEF joining, leaving
    <2>2. IsFiniteSet(joining) /\ IsFiniteSet(leaving)
      BY <2>1, FS_Subset
    <2>3. I!C!SetToSeq(joining) \in Seq(Nat) /\ I!C!SetToSeq(leaving) \in Seq(Nat)
      BY <2>1, <2>2, InSomeOrder
    <2>4. I!C!Batches(g, I!C!SetToSeq(joining), I!C!SetToSeq(leaving)) \in Seq(Steps)
      BY <1>1, <2>3, BatchesOfVolumes
    <2>5. <<[I!C!Step(I!C!T!ShowVolumeGroupDetails, g, "absent") EXCEPT !.lists = {"member"}]>>
            \in Seq(Steps)
      BY <1>4, GentleIsOrderly
    <2>6. QED
      BY <2>4, <2>5, Joining, Methods DEF I!C!UpdateVolumeGroup, joining, leaving
  <1>7. I!C!DeleteVolumeGroup(g, xs) \in Programs(Gentle)
    <2> DEFINE own == I!C!Owned("group_snapshot", g, xs)
               numbers == {y[2] : y \in I!C!Shown("member", xs)}
    <2>1. own \subseteq Ours /\ IsFiniteSet(own)
      BY <1>1, ShownObjects, OwnObjects
    <2>2. numbers \subseteq Nat /\ IsFiniteSet(numbers)
      <3>1. /\ I!C!Shown("member", xs) \subseteq Objects
            /\ IsFiniteSet(I!C!Shown("member", xs))
        BY ShownObjects
      <3>2. [y \in I!C!Shown("member", xs) |-> y[2]]
              \in Surjection(I!C!Shown("member", xs), numbers)
        BY DEF Surjection
      <3>3. numbers \subseteq Nat
        BY <3>1 DEF Objects
      <3>4. QED
        BY <3>1, <3>2, <3>3, FS_Surjection
    <2> HIDE DEF own, numbers
    <2>3. I!C!Each(I!C!T!DeleteVolumeGroupSnapshot, own) \in Seq(Gentle)
      <3>1. \A x \in own : /\ I!C!Do(I!C!T!DeleteVolumeGroupSnapshot, x) \in Gentle
                           /\ I!C!Try(I!C!T!DeleteVolumeGroupSnapshot, x) \in Gentle
        BY <2>1, CallsThatWrite, WritingSteps DEF Reactions
      <3>2. QED
        BY <2>1, <3>1, ForEach
    <2>4. I!C!Batches(g, <<>>, I!C!SetToSeq(numbers)) \in Seq(Gentle)
      <3>1. I!C!SetToSeq(numbers) \in Seq(Nat)
        BY <2>2, InSomeOrder
      <3>2. <<>> \in Seq(Nat)
        OBVIOUS
      <3>3. QED
        BY <1>1, <3>1, <3>2, BatchesOfVolumes
    <2>5. I!C!List(I!C!T!ListVolumeGroupSnapshotsWithDetails, I!C!Cloud, {"group_snapshot"})
            \in Gentle
      BY CallsThatRead, ReadingSteps, OwnObjects DEF Reactions, Kinds
    <2>6. /\ <<[I!C!Step(I!C!T!ShowVolumeGroupDetails, g, "absent")
                  EXCEPT !.lists = {"member"}],
               I!C!List(I!C!T!ListVolumeGroupSnapshotsWithDetails, I!C!Cloud,
                        {"group_snapshot"})>> \in Seq(Gentle)
          /\ <<I!C!Do(I!C!T!DeleteVolumeGroup, g),
               I!C!Do(I!C!T!DeleteVolumeGroupType, gt)>> \in Seq(Gentle)
      BY <1>3, <1>4, <2>5
    <2>7. <<"group_type", g[2]>> = gt
      BY <1>1 DEF gt
    <2>8. QED
      BY <2>3, <2>4, <2>6, <2>7, Joining, Methods DEF I!C!DeleteVolumeGroup, own, numbers
  <1>8. I!C!CreateVolumeGroupSnapshot(gs) \in Programs(Steps)
    <2>1. I!C!If(gs, I!C!Try(I!C!T!DeleteVolumeGroupSnapshot, gs)) \in Gentle
      BY <1>1, <1>3, ConditionalSteps
    <2>2. /\ <<I!C!Do(I!C!T!CreateVolumeGroupSnapshot, gs)>> \in Seq(Steps)
          /\ <<I!C!If(gs, I!C!Try(I!C!T!DeleteVolumeGroupSnapshot, gs))>> \in Seq(Steps)
      BY <1>2, <2>1, GentleIsOrderly
    <2>3. QED
      BY <2>2, Methods DEF I!C!CreateVolumeGroupSnapshot
  <1>9. I!C!DeleteVolumeGroupSnapshot(gs) \in Programs(Gentle)
    BY <1>1, CallsThatWrite, OneRequest DEF I!C!DeleteVolumeGroupSnapshot
  <1>10. I!C!GetVolumeGroup(g) \in Programs(Gentle)
    BY <1>1, CallsThatRead, OneRequest, OwnObjects DEF I!C!GetVolumeGroup
  <1>11. QED
    BY <1>5, <1>6, <1>7, <1>8, <1>9, <1>10 DEF g, gs

LEMMA InstancePrograms ==
  ASSUME NEW n \in Nat, NEW floating, NEW xs, Answers(xs)
  PROVE  /\ I!C!CreateInstanceSpec(I!flavor) \in Programs(Steps)
         /\ I!C!DeleteInstanceSpec(I!flavor) \in Programs(Gentle)
         /\ I!C!CreateKeypair(I!keypair) \in Programs(Steps)
         /\ I!C!DeleteKeypair(I!keypair) \in Programs(Gentle)
         /\ I!C!StartInstance(I!server) \in Programs(Gentle)
         /\ I!C!StopInstance(I!server) \in Programs(Gentle)
         /\ I!C!PreprocessCreatingInstance \in Seq(Steps)
         /\ I!C!CreateInstance(I!server, n, floating) \in Programs(Steps)
         /\ I!C!DeleteInstance(I!server, xs) \in Programs(Gentle)
  <1> DEFINE f == I!flavor
             k == I!keypair
             v == I!server
  <1>1. f \in Ours /\ k \in Ours /\ v \in Ours
    BY OwnObjects
  <1> HIDE DEF f, k, v
  <1>2. ASSUME NEW i \in Nat
        PROVE  <<"port", i>> \in Ours
    BY OwnObjects
  <1>3. /\ I!C!DeleteInstanceSpec(f) \in Programs(Gentle)
        /\ I!C!DeleteKeypair(k) \in Programs(Gentle)
        /\ I!C!StartInstance(v) \in Programs(Gentle)
        /\ I!C!StopInstance(v) \in Programs(Gentle)
    BY <1>1, CallsThatWrite, OneRequest
       DEF I!C!DeleteInstanceSpec, I!C!DeleteKeypair, I!C!StartInstance, I!C!StopInstance
  <1>4. I!C!CreateKeypair(k) \in Programs(Steps)
    BY <1>1, CallsThatMake, OneRequest DEF I!C!CreateKeypair
  <1>5. I!C!CreateInstanceSpec(f) \in Programs(Steps)
    <2>1. I!C!Do(I!C!T!CreateFlavor, f) \in Steps
      BY <1>1, CallsThatMake, MakingSteps DEF Reactions
    <2>2. I!C!Do(I!C!T!CreateExtraSpecsForFlavor, f) \in Gentle
      BY <1>1, CallsThatWrite, WritingSteps DEF Reactions
    <2>3. I!C!If(f, I!C!Try(I!C!T!DeleteFlavor, f)) \in Gentle
      BY <1>1, CallsThatWrite, WritingSteps, ConditionalSteps DEF Reactions
    <2>4. /\ <<I!C!Do(I!C!T!CreateFlavor, f), I!C!Do(I!C!T!CreateExtraSpecsForFlavor, f)>>
               \in Seq(Steps)
          /\ <<I!C!If(f, I!C!Try(I!C!T!DeleteFlavor, f))>> \in Seq(Steps)
      BY <2>1, <2>2, <2>3, GentleIsOrderly
    <2>5. QED
      BY <2>4, Methods DEF I!C!CreateInstanceSpec
  <1>6. I!C!PreprocessCreatingInstance \in Seq(Steps)
    BY JudgingSteps, GentleIsOrderly DEF I!C!PreprocessCreatingInstance
  <1>7. ASSUME NEW i \in Nat
        PROVE  I!C!Do(I!C!T!CreatePort, <<"port", i>>) \in Steps
    BY <1>2, CallsThatMake, MakingSteps DEF Reactions
  <1>8. I!C!createPorts(n, floating) \in Seq(Steps)
    <2>1. CASE n = 0
      BY <2>1 DEF I!C!createPorts
    <2>2. CASE n # 0
      <3> DEFINE more == [i \in 1..(n - 1) |-> I!C!Do(I!C!T!CreatePort, <<"port", i + 1>>)]
                 first == I!C!Do(I!C!T!CreatePort, <<"port", 1>>)
                 assign == I!C!Do(I!C!T!UpdateFloatingIP, <<"floating_ip", 1>>)
      <3>1. more \in Seq(Steps)
        <4>1. n - 1 \in Nat /\ \A i \in 1..(n - 1) : i + 1 \in Nat
          BY <2>2
        <4>2. more \in [1..(n - 1) -> Steps]
          BY <1>7, <4>1
        <4>3. QED
          BY <4>1, <4>2, OneByOne
      <3>2. <<first>> \in Seq(Steps)
        BY <1>7, 1 \in Nat
      <3>3. assign \in Steps
        <4>1. <<"floating_ip", 1>> \in Ours
          BY OwnObjects DEF I!floating_ip
        <4>2. QED
          BY <4>1, CallsThatWrite, WritingSteps, GentleIsOrderly DEF Reactions
      <3>4. I!C!When(floating, <<assign>>) \in Seq(Steps)
        BY <3>3, Optional
      <3>5. I!C!createPorts(n, floating) = <<first>> \o I!C!When(floating, <<assign>>) \o more
        BY <2>2 DEF I!C!createPorts
      <3> HIDE DEF first, assign, more
      <3>6. QED
        BY <3>1, <3>2, <3>4, <3>5, Joining
    <2>3. QED
      BY <2>1, <2>2
  <1>9. I!C!CreateInstance(v, n, floating) \in Programs(Steps)
    <2> DEFINE ports == [i \in 1..n |->
                           I!C!If(<<"port", i>>, I!C!Try(I!C!T!DeletePort, <<"port", i>>))]
    <2>1. ports \in Seq(Steps)
      <3>1. ASSUME NEW i \in 1..n
            PROVE  ports[i] \in Steps
        <4>1. <<"port", i>> \in Ours
          BY <1>2, i \in Nat
        <4>2. I!C!Try(I!C!T!DeletePort, <<"port", i>>) \in Gentle
          BY <4>1, CallsThatWrite, WritingSteps DEF Reactions
        <4>3. QED
          BY <4>1, <4>2, ConditionalSteps, GentleIsOrderly
      <3>2. QED
        BY <3>1, OneByOne
    <2>2. I!C!Do(I!C!T!CreateServer, v) \in Steps
      BY <1>1, CallsThatMake, MakingSteps DEF Reactions
    <2>3. I!C!Do(I!C!T!ShowServerDetails, v) \in Gentle
      BY <1>1, CallsThatRead, ReadingSteps, OwnObjects DEF Reactions
    <2>4. I!C!If(v, I!C!Try(I!C!T!DeleteServer, v)) \in Gentle
      BY <1>1, CallsThatWrite, WritingSteps, ConditionalSteps DEF Reactions
    <2>5. /\ <<I!C!Do(I!C!T!CreateServer, v), I!C!Do(I!C!T!ShowServerDetails, v), I!C!Judge>>
               \in Seq(Steps)
          /\ <<I!C!If(v, I!C!Try(I!C!T!DeleteServer, v))>> \in Seq(Steps)
      BY <2>2, <2>3, <2>4, JudgingSteps, GentleIsOrderly
    <2> HIDE DEF ports
    <2>6. QED
      BY <1>8, <2>1, <2>5, Joining, Methods DEF I!C!CreateInstance, ports
  <1>10. I!C!DeleteInstance(v, xs) \in Programs(Gentle)
    <2>1. I!C!List(I!C!T!ListPortInterfaces, v, {"port"}) \in Gentle
      BY <1>1, CallsThatRead, ReadingSteps, OwnObjects DEF Reactions, Kinds
    <2>2. /\ I!C!Step(I!C!T!DeleteServer, v, "else") \in Gentle
          /\ I!C!Do(I!C!T!ForceDeleteServer, v) \in Gentle
      BY <1>1, CallsThatWrite, WritingSteps DEF Reactions
    <2>3. I!C!EachTry(I!C!T!DeletePort, I!C!Shown("port", xs)) \in Seq(Gentle)
      <3>1. IsFiniteSet(I!C!Shown("port", xs)) /\ I!C!Shown("port", xs) \subseteq Ours
        BY ShownObjects
      <3>2. \A x \in I!C!Shown("port", xs) :
              I!C!Do(I!C!T!DeletePort, x) \in Gentle /\ I!C!Try(I!C!T!DeletePort, x) \in Gentle
        BY <3>1, CallsThatWrite, WritingSteps DEF Reactions
      <3>3. QED
        BY <3>1, <3>2, ForEach
    <2>4. <<I!C!List(I!C!T!ListPortInterfaces, v, {"port"}),
            I!C!Step(I!C!T!DeleteServer, v, "else"), I!C!Do(I!C!T!ForceDeleteServer, v)>>
            \in Seq(Gentle)
      BY <2>1, <2>2
    <2>5. <<>> \in Seq(Gentle)
      OBVIOUS
    <2>6. QED
      BY <2>3, <2>4, <2>5 DEF I!C!DeleteInstance, Programs
  <1>11. QED
    BY <1>3, <1>4, <1>5, <1>6, <1>9, <1>10 DEF f, k, v

LEMMA ListPrograms ==
  /\ I!C!GetAvailabilityZoneList \in Programs(Gentle)
  /\ I!C!GetHypervisorList \in Programs(Gentle)
  /\ I!C!GetInstanceList \in Programs(Gentle)
  /\ I!C!GetKeyPairList \in Programs(Gentle)
  /\ I!C!GetTenantList \in Programs(Gentle)
  /\ I!C!GetNetworkList \in Programs(Gentle)
  /\ I!C!GetRouterList \in Programs(Gentle)
  /\ I!C!GetSecurityGroupList \in Programs(Gentle)
  /\ I!C!GetStorageList \in Programs(Gentle)
  /\ I!C!GetVolumeList \in Programs(Gentle)
  /\ I!C!GetVolumeGroupList \in Programs(Gentle)
  /\ I!C!GetVolumeGroupSnapshotList \in Programs(Gentle)
  /\ I!C!GetVolumeSnapshotList \in Programs(Gentle)
  <1>1. ASSUME NEW c \in Reads
        PROVE  I!C!Program(<<I!C!Ask(c)>>) \in Programs(Gentle)
    <2>1. <<I!C!Ask(c)>> \in Seq(Gentle)
      BY AskingSteps
    <2>2. QED
      BY <2>1, Methods
  <1>2. QED
    BY <1>1, CallsThatRead
       DEF I!C!GetAvailabilityZoneList, I!C!GetHypervisorList, I!C!GetInstanceList,
           I!C!GetKeyPairList, I!C!GetTenantList, I!C!GetNetworkList, I!C!GetRouterList,
           I!C!GetSecurityGroupList, I!C!GetStorageList, I!C!GetVolumeList,
           I!C!GetVolumeGroupList, I!C!GetVolumeGroupSnapshotList,
           I!C!GetVolumeSnapshotList

LEMMA ReadingPrograms ==
  /\ I!C!GetInstanceSpec(I!flavor) \in Programs(Gentle)
  /\ I!C!GetInstanceExtraSpec(I!flavor) \in Programs(Gentle)
  /\ I!C!GetKeyPair(I!keypair) \in Programs(Gentle)
  /\ I!C!GetSubnet(I!subnet) \in Programs(Gentle)
  /\ I!C!GetFloatingIP(I!floating_ip) \in Programs(Gentle)
  /\ I!C!GetSecurityGroup(I!security_group) \in Programs(Gentle)
  /\ I!C!GetSecurityGroupRule(<<"rule", 3>>) \in Programs(Gentle)
  /\ I!C!GetTenant(I!project) \in Programs(Gentle)
  /\ I!C!GetHypervisor(<<"hypervisor", 1>>) \in Programs(Gentle)
  /\ I!C!GetNetwork(I!network) \in Programs(Gentle)
  /\ I!C!GetRouter(I!router) \in Programs(Gentle)
  /\ I!C!GetStorage(<<"storage", 1>>) \in Programs(Gentle)
  /\ I!C!GetVolumeSnapshot(I!snapshot) \in Programs(Gentle)
  <1>1. {I!flavor, I!keypair, I!subnet, I!floating_ip, I!security_group, I!project, I!network,
         I!router, I!snapshot, <<"rule", 3>>, <<"hypervisor", 1>>, <<"storage", 1>>}
          \subseteq Objects
    <2>1. <<"hypervisor", 1>> \in Objects /\ <<"storage", 1>> \in Objects
      BY DEF Objects, Kinds
    <2>2. QED
      BY <2>1, OwnObjects
  <1>2. I!C!GetInstanceSpec(I!flavor) \in Programs(Gentle)
    BY <1>1, CallsThatRead, OneRequest DEF I!C!GetInstanceSpec
  <1>3. I!C!GetInstanceExtraSpec(I!flavor) \in Programs(Gentle)
    BY <1>1, CallsThatRead, OneRequest DEF I!C!GetInstanceExtraSpec
  <1>4. I!C!GetKeyPair(I!keypair) \in Programs(Gentle)
    BY <1>1, CallsThatRead, OneRequest DEF I!C!GetKeyPair
  <1>5. I!C!GetSubnet(I!subnet) \in Programs(Gentle)
    BY <1>1, CallsThatRead, OneRequest DEF I!C!GetSubnet
  <1>6. I!C!GetFloatingIP(I!floating_ip) \in Programs(Gentle)
    BY <1>1, CallsThatRead, OneRequest DEF I!C!GetFloatingIP
  <1>7. I!C!GetSecurityGroup(I!security_group) \in Programs(Gentle)
    BY <1>1, CallsThatRead, OneRequest DEF I!C!GetSecurityGroup
  <1>8. I!C!GetSecurityGroupRule(<<"rule", 3>>) \in Programs(Gentle)
    BY <1>1, CallsThatRead, OneRequest DEF I!C!GetSecurityGroupRule
  <1>9. I!C!GetTenant(I!project) \in Programs(Gentle)
    <2>1. I!C!Do(I!C!T!ShowProjectDetails, I!project) \in Gentle
      BY CallsThatRead, <1>1, ReadingSteps, OwnObjects DEF Reactions
    <2>2. I!C!Ask(I!C!T!ShowComputeQuota) \in Gentle
      BY CallsThatRead, AskingSteps
    <2>3. I!C!Ask(I!C!T!ShowNetworkQuota) \in Gentle
      BY CallsThatRead, AskingSteps
    <2>4. I!C!Ask(I!C!T!ShowStorageQuota) \in Gentle
      BY CallsThatRead, AskingSteps
    <2>5. <<I!C!Do(I!C!T!ShowProjectDetails, I!project),
            I!C!Ask(I!C!T!ShowComputeQuota),
            I!C!Ask(I!C!T!ShowNetworkQuota),
            I!C!Ask(I!C!T!ShowStorageQuota)>> \in Seq(Gentle)
      BY <2>1, <2>2, <2>3, <2>4
    <2>6. QED
      BY <2>5, Methods DEF I!C!GetTenant
  <1>10. I!C!GetHypervisor(<<"hypervisor", 1>>) \in Programs(Gentle)
    <2>1. I!C!Do(I!C!T!ShowHypervisorDetails, <<"hypervisor", 1>>) \in Gentle
      BY CallsThatRead, <1>1, ReadingSteps, OwnObjects DEF Reactions
    <2>2. I!C!Ask(I!C!T!ListComputeServices) \in Gentle
      BY CallsThatRead, AskingSteps
    <2>3. <<I!C!Do(I!C!T!ShowHypervisorDetails, <<"hypervisor", 1>>),
            I!C!Ask(I!C!T!ListComputeServices)>> \in Seq(Gentle)
      BY <2>1, <2>2
    <2>4. QED
      BY <2>3, Methods DEF I!C!GetHypervisor
  <1>11. I!C!GetNetwork(I!network) \in Programs(Gentle)
    <2>1. I!C!Do(I!C!T!ShowNetworkDetails, I!network) \in Gentle
      BY CallsThatRead, <1>1, ReadingSteps, OwnObjects DEF Reactions
    <2>2. I!C!Ask(I!C!T!ListFloatingIPs) \in Gentle
      BY CallsThatRead, AskingSteps
    <2>3. <<I!C!Do(I!C!T!ShowNetworkDetails, I!network),
            I!C!Ask(I!C!T!ListFloatingIPs)>> \in Seq(Gentle)
      BY <2>1, <2>2
    <2>4. QED
      BY <2>3, Methods DEF I!C!GetNetwork
  <1>12. I!C!GetRouter(I!router) \in Programs(Gentle)
    <2>1. I!C!Do(I!C!T!ShowRouterDetails, I!router) \in Gentle
      BY CallsThatRead, <1>1, ReadingSteps, OwnObjects DEF Reactions
    <2>2. I!C!Ask(I!C!T!ListPorts) \in Gentle
      BY CallsThatRead, AskingSteps
    <2>3. <<I!C!Do(I!C!T!ShowRouterDetails, I!router),
            I!C!Ask(I!C!T!ListPorts)>> \in Seq(Gentle)
      BY <2>1, <2>2
    <2>4. QED
      BY <2>3, Methods DEF I!C!GetRouter
  <1>13. I!C!GetStorage(<<"storage", 1>>) \in Programs(Gentle)
    <2>1. I!C!Do(I!C!T!ShowVolumeTypeDetail, <<"storage", 1>>) \in Gentle
      BY CallsThatRead, <1>1, ReadingSteps, OwnObjects DEF Reactions
    <2>2. I!C!Try(I!C!T!ListAllBackendStoragePools, I!C!Cloud) \in Gentle
      BY CallsThatRead, <1>1, ReadingSteps, OwnObjects DEF Reactions
    <2>3. <<I!C!Do(I!C!T!ShowVolumeTypeDetail, <<"storage", 1>>),
            I!C!Judge,
            I!C!Try(I!C!T!ListAllBackendStoragePools, I!C!Cloud)>> \in Seq(Gentle)
      BY <2>1, <2>2, JudgingSteps
    <2>4. QED
      BY <2>3, Methods DEF I!C!GetStorage
  <1>14. I!C!GetVolumeSnapshot(I!snapshot) \in Programs(Gentle)
    <2>1. I!C!Do(I!C!T!ShowVolumeSnapshotDetails, I!snapshot) \in Gentle
      BY CallsThatRead, <1>1, ReadingSteps, OwnObjects DEF Reactions
    <2>2. <<I!C!Do(I!C!T!ShowVolumeSnapshotDetails, I!snapshot),
            I!C!Judge>> \in Seq(Gentle)
      BY <2>1, JudgingSteps
    <2>3. QED
      BY <2>2, Methods DEF I!C!GetVolumeSnapshot
  <1>15. QED
    BY <1>2, <1>3, <1>4, <1>5, <1>6, <1>7, <1>8, <1>9, <1>10, <1>11, <1>12, <1>13, <1>14

LEMMA LongReadingPrograms ==
  ASSUME NEW xs, Answers(xs)
  PROVE  /\ I!C!GetVolume(I!volume, xs) \in Programs(Gentle)
         /\ I!C!GetInstance(I!server, xs) \in Programs(Gentle)
  <1> DEFINE seenAttachments == I!C!Shown("attachment", xs)
  <1>1. I!volume \in Objects /\ I!server \in Objects /\ <<"subnet", 1>> \in Objects
    BY OwnObjects DEF I!subnet
  <1>2. ASSUME NEW c \in Reads
        PROVE  I!C!Each(c, seenAttachments) \in Seq(Gentle)
    <2>1. /\ seenAttachments \subseteq Objects
          /\ IsFiniteSet(seenAttachments)
      BY ShownObjects
    <2>2. \A x \in seenAttachments : I!C!Do(c, x) \in Gentle /\ I!C!Try(c, x) \in Gentle
      BY <2>1, ReadingSteps DEF Reactions
    <2>3. QED
      BY <2>1, <2>2, ForEach
  <1>3. ASSUME NEW c \in Reads, NEW x \in Objects, NEW k \in Kinds
        PROVE  I!C!List(c, x, {k}) \in Gentle
    BY ReadingSteps DEF Reactions
  <1>4. I!C!GetVolume(I!volume, xs) \in Programs(Gentle)
    <2>1. I!C!List(I!C!T!ShowVolumeDetails, I!volume, {"attachment"}) \in Gentle
      BY <1>1, <1>3, CallsThatRead DEF Kinds
    <2>2. I!C!Ask(I!C!T!ListAllVolumeTypes) \in Gentle
      BY CallsThatRead, AskingSteps
    <2>3. <<I!C!List(I!C!T!ShowVolumeDetails, I!volume, {"attachment"}), I!C!Judge,
            I!C!Ask(I!C!T!ListAllVolumeTypes), I!C!Judge>> \in Seq(Gentle)
      BY <2>1, <2>2, JudgingSteps
    <2>4. I!C!Each(I!C!T!ShowAttachmentDetails, seenAttachments) \in Seq(Gentle)
      BY <1>2, CallsThatRead
    <2>5. QED
      BY <2>3, <2>4, Joining, Methods DEF I!C!GetVolume
  <1>5. I!C!GetInstance(I!server, xs) \in Programs(Gentle)
    <2> DEFINE first == <<I!C!List(I!C!T!ShowServerDetails, I!server, {"attachment"}),
                          I!C!Judge, I!C!Ask(I!C!T!ListHypervisors), I!C!Judge,
                          I!C!Do(I!C!T!ListSecurityGroupsByServer, I!server),
                          I!C!Ask(I!C!T!ListFlavors), I!C!Judge>>
               second == I!C!Each(I!C!T!ShowDetailVolumeAttachment, seenAttachments)
               third == <<I!C!List(I!C!T!ListPortInterfaces, I!server, {"port"})>>
               fourth == <<I!C!Ask(I!C!T!ListFloatingIPsByPortInterface),
                           I!C!Do(I!C!T!ShowSubnetDetails, <<"subnet", 1>>)>>
               has == <<"port", 1>> \in xs
    <2>1. first \in Seq(Gentle)
      <3>1. I!C!List(I!C!T!ShowServerDetails, I!server, {"attachment"}) \in Gentle
        BY <1>1, <1>3, CallsThatRead DEF Kinds
      <3>2. I!C!Ask(I!C!T!ListHypervisors) \in Gentle /\ I!C!Ask(I!C!T!ListFlavors) \in Gentle
        BY CallsThatRead, AskingSteps
      <3>3. I!C!Do(I!C!T!ListSecurityGroupsByServer, I!server) \in Gentle
        BY <1>1, CallsThatRead, ReadingSteps DEF Reactions
      <3>4. QED
        BY <3>1, <3>2, <3>3, JudgingSteps
    <2>2. second \in Seq(Gentle)
      BY <1>2, CallsThatRead
    <2>3. third \in Seq(Gentle)
      BY <1>1, <1>3, CallsThatRead DEF Kinds
    <2>4. fourth \in Seq(Gentle)
      <3>1. I!C!Ask(I!C!T!ListFloatingIPsByPortInterface) \in Gentle
        BY CallsThatRead, AskingSteps
      <3>2. I!C!Do(I!C!T!ShowSubnetDetails, <<"subnet", 1>>) \in Gentle
        BY <1>1, CallsThatRead, ReadingSteps DEF Reactions
      <3>3. QED
        BY <3>1, <3>2
    <2> HIDE DEF first, second, third, fourth, has
    <2>5. I!C!When(has, fourth) \in Seq(Gentle)
      <3>1. <<>> \in Seq(Gentle)
        OBVIOUS
      <3>2. QED
        BY <2>4, <3>1 DEF I!C!When
    <2>6. first \o second \o third \o I!C!When(has, fourth) \in Seq(Gentle)
      BY <2>1, <2>2, <2>3, <2>5, Joining
    <2>7. QED
      BY <2>6, Methods DEF I!C!GetInstance, first, second, third, fourth, has
  <1>6. QED
    BY <1>4, <1>5

-----------------------------------------------------------------------------
(* The functions of internal/, one lemma for what makes something and one   *)
(* for the rest.                                                            *)

LEMMA CreatingFunctions ==
  ASSUME NEW r, r.n \in Nat, NEW xs, Answers(xs)
  PROVE  /\ I!CreateTenant(r, xs) \in Requested(Steps)
         /\ I!CreateNetwork(r, xs) \in Requested(Steps)
         /\ I!CreateSubnet(r, xs) \in Requested(Steps)
         /\ I!CreateFloatingIP(r, xs) \in Requested(Steps)
         /\ I!CreateRouter(r, xs) \in Requested(Steps)
         /\ I!CreateSecurityGroup(r, xs) \in Requested(Steps)
         /\ I!CreateSecurityGroupRule(r, xs) \in Requested(Steps)
         /\ I!CreateVolume(r, xs) \in Requested(Steps)
         /\ I!CreateVolumeSnapshot(r, xs) \in Requested(Steps)
         /\ I!ImportVolume(r, xs) \in Requested(Steps)
         /\ I!CreateVolumeGroup(r, xs) \in Requested(Steps)
         /\ I!UpdateVolumeGroup(r, xs) \in Requested(Steps)
         /\ I!CreateVolumeGroupSnapshot(r, xs) \in Requested(Steps)
         /\ I!CreateInstance(r, xs) \in Requested(Steps)
         /\ I!CreateInstanceSpec(r, xs) \in Requested(Steps)
         /\ I!CreateKeypair(r, xs) \in Requested(Steps)
  <1> DEFINE P == Programs(Steps)
  <1>1. ASSUME NEW p \in P
        PROVE  I!Answering(p) \in Requested(Steps) /\ I!Silent(p) \in Requested(Steps)
    BY Functions
  <1>2. ASSUME NEW p \in P, NEW q \in Programs(Gentle)
        PROVE  I!Reversible(p, q) \in Requested(Steps)
    BY Functions, GentleIsOrderly
  <1>3. I!CreateTenant(r, xs) \in Requested(Steps)
    BY <1>2, TenantPrograms DEF I!CreateTenant
  <1>4. /\ I!CreateNetwork(r, xs) \in Requested(Steps)
        /\ I!CreateSubnet(r, xs) \in Requested(Steps)
        /\ I!CreateFloatingIP(r, xs) \in Requested(Steps)
    BY <1>2, NetworkPrograms DEF I!CreateNetwork, I!CreateSubnet, I!CreateFloatingIP
  <1>5. I!CreateRouter(r, xs) \in Requested(Steps)
    BY <1>2, RouterPrograms DEF I!CreateRouter
  <1>6. /\ I!CreateSecurityGroup(r, xs) \in Requested(Steps)
        /\ I!CreateSecurityGroupRule(r, xs) \in Requested(Steps)
    BY <1>2, SecurityGroupPrograms DEF I!CreateSecurityGroup, I!CreateSecurityGroupRule
  <1>7. /\ I!CreateVolume(r, xs) \in Requested(Steps)
        /\ I!CreateVolumeSnapshot(r, xs) \in Requested(Steps)
    BY <1>1, VolumePrograms DEF I!CreateVolume, I!CreateVolumeSnapshot
  <1>8. I!ImportVolume(r, xs) \in Requested(Steps)
    <2>1. I!Nothing \in Requested(Steps)
      BY NothingIsGentle, GentleIsOrderly
    <2>2. QED
      BY <1>1, <2>1, VolumePrograms DEF I!ImportVolume
  <1>9. /\ I!CreateVolumeGroup(r, xs) \in Requested(Steps)
        /\ I!UpdateVolumeGroup(r, xs) \in Requested(Steps)
        /\ I!CreateVolumeGroupSnapshot(r, xs) \in Requested(Steps)
    <2>1. /\ I!ToJoin(r) \in SUBSET Nat /\ IsFiniteSet(I!ToJoin(r))
          /\ I!ToLeave(r) \in SUBSET Nat /\ IsFiniteSet(I!ToLeave(r))
      <3>1. r.n \in Int /\ r.n + 2 \in Int /\ 3 \in Int /\ 1 \in Int
        OBVIOUS
      <3>2. IsFiniteSet(3..(r.n + 2)) /\ IsFiniteSet(1..r.n)
        BY <3>1, FS_Interval
      <3>3. 3..(r.n + 2) \subseteq Nat /\ 1..r.n \subseteq Nat
        OBVIOUS
      <3>4. QED
        BY <3>2, <3>3 DEF I!ToJoin, I!ToLeave
    <2>2. /\ I!C!CreateVolumeGroup(I!group) \in P
          /\ I!C!DeleteVolumeGroup(I!group, xs) \in Programs(Gentle)
          /\ I!C!UpdateVolumeGroup(I!group, I!ToJoin(r), I!ToLeave(r), xs) \in P
          /\ I!C!CreateVolumeGroupSnapshot(I!group_snapshot) \in P
      BY <2>1, VolumeGroupPrograms
    <2>3. QED
      BY <1>1, <1>2, <2>2
         DEF I!CreateVolumeGroup, I!UpdateVolumeGroup, I!CreateVolumeGroupSnapshot
  <1>10. I!CreateInstance(r, xs) \in Requested(Steps)
    <2> DEFINE p == I!C!CreateInstance(I!server, r.n, "floating" \in r.opt)
               before == I!C!PreprocessCreatingInstance \o <<I!C!Judge>>
    <2>1. p \in P /\ I!C!PreprocessCreatingInstance \in Seq(Steps)
      BY InstancePrograms
    <2>2. before \in Seq(Steps)
      <3>1. <<I!C!Judge>> \in Seq(Steps)
        BY JudgingSteps, GentleIsOrderly
      <3>2. QED
        BY <2>1, <3>1, Joining
    <2> HIDE DEF p, before
    <2>3. before \o p.steps \in Seq(Steps)
      BY <2>1, <2>2, Joining DEF Programs
    <2>4. [p EXCEPT !.steps = before \o @] \in P
      BY <2>1, <2>3 DEF Programs
    <2>5. QED
      BY <1>1, <2>4 DEF I!CreateInstance, p, before
  <1>11. /\ I!CreateInstanceSpec(r, xs) \in Requested(Steps)
         /\ I!CreateKeypair(r, xs) \in Requested(Steps)
    BY <1>1, InstancePrograms DEF I!CreateInstanceSpec, I!CreateKeypair
  <1>12. QED
    BY <1>3, <1>4, <1>5, <1>6, <1>7, <1>8, <1>9, <1>10, <1>11

LEMMA OtherFunctions ==
  ASSUME NEW r, r.n \in Nat, NEW xs, Answers(xs)
  PROVE  /\ I!DeleteTenant(r, xs) \in Requested(Gentle)
         /\ I!DeleteNetwork(r, xs) \in Requested(Gentle)
         /\ I!DeleteSubnet(r, xs) \in Requested(Gentle)
         /\ I!DeleteFloatingIP(r, xs) \in Requested(Gentle)
         /\ I!DeleteRouter(r, xs) \in Requested(Gentle)
         /\ I!DeleteSecurityGroup(r, xs) \in Requested(Gentle)
         /\ I!DeleteVolume(r, xs) \in Requested(Gentle)
         /\ I!DeleteVolumeSnapshot(r, xs) \in Requested(Gentle)
         /\ I!UnmanageVolume(r, xs) \in Requested(Gentle)
         /\ I!CopyVolume(r, xs) \in Requested(Gentle)
         /\ I!DeleteVolumeCopy(r, xs) \in Requested(Gentle)
         /\ I!DeleteVolumeGroup(r, xs) \in Requested(Gentle)
         /\ I!DeleteVolumeGroupSnapshot(r, xs) \in Requested(Gentle)
         /\ I!GetVolumeGroupList(r, xs) \in Requested(Gentle)
         /\ I!GetVolumeGroupByUUID(r, xs) \in Requested(Gentle)
         /\ I!GetClusterVolumeGroupSnapshotList(r, xs) \in Requested(Gentle)
         /\ I!DeleteInstance(r, xs) \in Requested(Gentle)
         /\ I!StartInstance(r, xs) \in Requested(Gentle)
         /\ I!StopInstance(r, xs) \in Requested(Gentle)
         /\ I!CheckIsExistInstance(r, xs) \in Requested(Gentle)
         /\ I!DeleteInstanceSpec(r, xs) \in Requested(Gentle)
         /\ I!DeleteKeypair(r, xs) \in Requested(Gentle)
  <1>1. ASSUME NEW p \in Programs(Gentle)
        PROVE  I!Answering(p) \in Requested(Gentle) /\ I!Silent(p) \in Requested(Gentle)
    BY Functions
  <1>2. I!DeleteTenant(r, xs) \in Requested(Gentle)
    BY <1>1, TenantPrograms DEF I!DeleteTenant
  <1>3. /\ I!DeleteNetwork(r, xs) \in Requested(Gentle)
        /\ I!DeleteSubnet(r, xs) \in Requested(Gentle)
        /\ I!DeleteFloatingIP(r, xs) \in Requested(Gentle)
    BY <1>1, NetworkPrograms DEF I!DeleteNetwork, I!DeleteSubnet, I!DeleteFloatingIP
  <1>4. I!DeleteRouter(r, xs) \in Requested(Gentle)
    BY <1>1, RouterPrograms DEF I!DeleteRouter
  <1>5. I!DeleteSecurityGroup(r, xs) \in Requested(Gentle)
    <2>1. I!C!DeleteSecurityGroup(I!security_group).steps \in Seq(Gentle)
      BY SecurityGroupPrograms DEF Programs
    <2>2. I!C!Each(I!C!T!DeleteSecurityGroupRule, I!Numbered("rule", r.n))
            \o I!C!DeleteSecurityGroup(I!security_group).steps \in Seq(Gentle)
      BY <2>1, SecurityGroupPrograms, Joining
    <2>3. QED
      BY <1>1, <2>2, Methods DEF I!DeleteSecurityGroup
  <1>6. /\ I!DeleteVolume(r, xs) \in Requested(Gentle)
        /\ I!DeleteVolumeSnapshot(r, xs) \in Requested(Gentle)
        /\ I!UnmanageVolume(r, xs) \in Requested(Gentle)
        /\ I!CopyVolume(r, xs) \in Requested(Gentle)
        /\ I!DeleteVolumeCopy(r, xs) \in Requested(Gentle)
    BY <1>1, NothingIsGentle, VolumePrograms
       DEF I!DeleteVolume, I!DeleteVolumeSnapshot, I!UnmanageVolume, I!CopyVolume,
           I!DeleteVolumeCopy
  <1>7. /\ I!DeleteVolumeGroup(r, xs) \in Requested(Gentle)
        /\ I!DeleteVolumeGroupSnapshot(r, xs) \in Requested(Gentle)
    BY <1>1, VolumeGroupPrograms, FS_EmptySet DEF I!DeleteVolumeGroup, I!DeleteVolumeGroupSnapshot
  <1>8. I!GetVolumeGroupList(r, xs) \in Requested(Gentle)
    <2> DEFINE list == [I!C!GetVolumeGroupList.steps[1] EXCEPT !.lists = {"group"}]
               each == I!C!Each(I!C!T!ShowVolumeGroupDetails, I!C!Shown("group", xs))
    <2>1. list \in Gentle
      <3>1. I!C!GetVolumeGroupList.steps[1] = I!C!Ask(I!C!T!ListAllVolumeGroups)
        BY DEF I!C!GetVolumeGroupList, I!C!Program
      <3>2. [I!C!Step(I!C!T!ListAllVolumeGroups, I!C!Cloud, "return")
                EXCEPT !.lists = {"group"}] \in Gentle
        BY CallsThatRead, ReadingSteps, OwnObjects DEF Reactions, Kinds
      <3>3. QED
        BY <3>1, <3>2 DEF I!C!Ask, I!C!Do
    <2>2. each \in Seq(Gentle)
      <3>1. /\ I!C!Shown("group", xs) \subseteq Objects
            /\ IsFiniteSet(I!C!Shown("group", xs))
        BY ShownObjects
      <3>2. \A x \in I!C!Shown("group", xs) :
              /\ I!C!Do(I!C!T!ShowVolumeGroupDetails, x) \in Gentle
              /\ I!C!Try(I!C!T!ShowVolumeGroupDetails, x) \in Gentle
        BY <3>1, CallsThatRead, ReadingSteps DEF Reactions
      <3>3. QED
        BY <3>1, <3>2, ForEach
    <2>3. <<list>> \in Seq(Gentle) /\ <<I!C!Judge>> \in Seq(Gentle)
      BY <2>1, JudgingSteps
    <2> HIDE DEF list, each
    <2>4. <<list>> \o each \o <<I!C!Judge>> \in Seq(Gentle)
      BY <2>2, <2>3, Joining
    <2>5. QED
      BY <1>1, <2>4, Methods DEF I!GetVolumeGroupList, list, each
  <1>9. I!GetVolumeGroupByUUID(r, xs) \in Requested(Gentle)
    <2>1. I!C!GetVolumeGroup(I!group).steps \in Seq(Gentle)
      BY VolumeGroupPrograms, FS_EmptySet DEF Programs
    <2>2. <<I!C!Judge>> \in Seq(Gentle)
      BY JudgingSteps
    <2>3. I!C!GetVolumeGroup(I!group).steps \o <<I!C!Judge>> \in Seq(Gentle)
      BY <2>1, <2>2, Joining
    <2>4. QED
      BY <1>1, <2>3, Methods DEF I!GetVolumeGroupByUUID
  <1>10. I!GetClusterVolumeGroupSnapshotList(r, xs) \in Requested(Gentle)
    BY <1>1, ListPrograms DEF I!GetClusterVolumeGroupSnapshotList
  <1>11. /\ I!DeleteInstance(r, xs) \in Requested(Gentle)
         /\ I!StartInstance(r, xs) \in Requested(Gentle)
         /\ I!StopInstance(r, xs) \in Requested(Gentle)
         /\ I!DeleteKeypair(r, xs) \in Requested(Gentle)
    BY <1>1, InstancePrograms
       DEF I!DeleteInstance, I!StartInstance, I!StopInstance, I!DeleteKeypair
  <1>12. I!CheckIsExistInstance(r, xs) \in Requested(Gentle)
    BY <1>1, LongReadingPrograms DEF I!CheckIsExistInstance
  <1>13. I!DeleteInstanceSpec(r, xs) \in Requested(Gentle)
    <2>1. I!C!DeleteInstanceSpec(I!flavor).steps \in Seq(Gentle)
      BY InstancePrograms DEF Programs
    <2>2. I!C!Try(I!C!T!ShowFlavorDetails, I!flavor) \in Gentle
      BY CallsThatRead, ReadingSteps, OwnObjects DEF Reactions
    <2>3. <<I!C!Try(I!C!T!ShowFlavorDetails, I!flavor)>> \in Seq(Gentle)
      BY <2>2
    <2>4. I!C!DeleteInstanceSpec(I!flavor).steps
            \o <<I!C!Try(I!C!T!ShowFlavorDetails, I!flavor)>> \in Seq(Gentle)
      BY <2>1, <2>3, Joining
    <2>5. QED
      BY <1>1, <2>4, Methods DEF I!DeleteInstanceSpec
  <1>14. QED
    BY <1>2, <1>3, <1>4, <1>5, <1>6, <1>7, <1>8, <1>9, <1>10, <1>11, <1>12, <1>13

-----------------------------------------------------------------------------
(* Every handler, and every method that a synchroniser calls. *)

LEMMA ReadingMethods ==
  ASSUME NEW r, NEW xs, Answers(xs),
         r.op \in Readings \ {"GetClusterVolumeGroupList", "GetClusterVolumeGroupByUUID",
                              "GetClusterVolumeGroupSnapshotList",
                              "CheckIsExistClusterInstance"}
  PROVE  I!Silent(Reading(r, xs)) \in Requested(Gentle)
  <1>1. Reading(r, xs) \in Programs(Gentle)
    BY ListPrograms, ReadingPrograms, LongReadingPrograms DEF Reading, Readings
  <1>2. QED
    BY <1>1, Functions

LEMMA CreatingRequests ==
  ASSUME NEW r, r.n \in Nat, r.op \in Creations, NEW xs, Answers(xs)
  PROVE  Program(r, xs) \in Requested(Steps)
  BY CreatingFunctions
     DEF Program, Creations, CreateClusterTenant, CreateClusterNetwork, CreateClusterSubnet,
         CreateClusterFloatingIP, CreateClusterRouter, CreateClusterSecurityGroup,
         CreateClusterSecurityGroupRule, ImportClusterVolume, CreateClusterVolumeGroup,
         UpdateClusterVolumeGroup, CreateClusterInstance, CreateClusterInstanceSpec,
         CreateClusterKeypair

LEMMA AlteringRequests ==
  ASSUME NEW r, r.n \in Nat, r.op \in Alterations, NEW xs, Answers(xs)
  PROVE  Program(r, xs) \in Requested(Gentle)
  <1>1. DeleteClusterVolumeGroupSnapshot(r, xs) \in Requested(Gentle)
    <2> DEFINE p == I!DeleteVolumeGroupSnapshot(r, xs)
    <2>1. p \in Requested(Gentle)
      BY OtherFunctions
    <2>2. <<I!C!Judge>> \in Seq(Gentle)
      BY JudgingSteps
    <2> HIDE DEF p
    <2>3. <<I!C!Judge>> \o p.steps \in Seq(Gentle)
      BY <2>1, <2>2, Joining DEF Requested
    <2>4. [p EXCEPT !.steps = <<I!C!Judge>> \o @] \in Requested(Gentle)
      BY <2>1, <2>3 DEF Requested
    <2>5. QED
      BY <2>4 DEF DeleteClusterVolumeGroupSnapshot, p
  <1>2. QED
    BY <1>1, OtherFunctions, NothingIsGentle
       DEF Program, Alterations, DeleteClusterTenant, DeleteClusterNetwork,
           DeleteClusterFloatingIP, DeleteClusterRouter, DeleteClusterSecurityGroup,
           UnmanageClusterVolume, DeleteClusterVolumeGroup, DeleteClusterInstance,
           StopClusterInstance, DeleteClusterInstanceSpec, DeleteClusterKeypair,
           CreateClusterVolumeGroupSnapshot, CopyClusterVolume, DeleteClusterVolumeCopy,
           DeleteClusterVolume

LEMMA ReadingRequests ==
  ASSUME NEW r, r.n \in Nat, r.op \in Readings, NEW xs, Answers(xs)
  PROVE  Program(r, xs) \in Requested(Gentle)
  <1>1. CASE r.op \in {"GetClusterVolumeGroupList", "GetClusterVolumeGroupByUUID",
                       "GetClusterVolumeGroupSnapshotList", "CheckIsExistClusterInstance"}
    BY <1>1, OtherFunctions
       DEF Program, GetClusterVolumeGroupList, GetClusterVolumeGroupByUUID,
           GetClusterVolumeGroupSnapshotList, CheckIsExistClusterInstance
  <1>2. CASE r.op \notin {"GetClusterVolumeGroupList", "GetClusterVolumeGroupByUUID",
                          "GetClusterVolumeGroupSnapshotList", "CheckIsExistClusterInstance"}
    <2>1. Program(r, xs) = I!Silent(Reading(r, xs))
      BY <1>2 DEF Program, Readings
    <2>2. QED
      BY <1>2, <2>1, ReadingMethods
  <1>3. QED
    BY <1>1, <1>2

-----------------------------------------------------------------------------
(* What the steps of a program do for what the request promises (Goals), and *)
(* what becomes of it when one of them fails.                                *)

\* The step s, once it is carried out, may undo what x should be.
Spoils(r, s, x) ==
    LET effect == s.call.effect
        g == Goal(r, x)
    IN  \/ effect = "make" /\ g # "ready" /\ (x = s.obj \/ x \in ComesWith(s.obj, {}))
        \/ effect = "change" /\ x \in s.adds /\ g # "ready"
        \/ effect = "change" /\ x \in s.drops /\ g # "absent"
        \/ effect = "change" /\ x = s.obj /\ s.call.check # T!NoCheck /\ g # "absent"
        \/ effect = "remove" /\ g # "absent" /\ (x = s.obj \/ x \in GoesWith(s.obj))

\* A default group may stay behind, a route may stay away.
Tidying(r, x) == x[1] = "default" /\ x \in r.ended
Routing(r, x) == x[1] = "route" /\ x \in r.asked

\* If step k fails the request fails, or nothing is lost but what may be.
Pardonable(r, p, k) ==
    LET s == p.steps[k]
        effect == s.call.effect
    IN  \/ s.failing = "return"
        \/ /\ s.failing = "warn" /\ s.lists = {} /\ s.call.check = T!NoCheck
           /\ effect \in {"read", "remove"}
           /\ \A x \in Goals(r) : Brings(r, s, x) => Tidying(r, x) /\ x = s.obj
        \/ /\ s.failing = "end" /\ effect = "read" /\ s.obj = I!C!Cloud
           /\ \A x \in Goals(r) : Awaits(r, p, k - 1, x) => Tidying(r, x)
        \/ s.failing = "absent" /\ effect = "read" /\ k = 1 /\ s.obj \in r.before
        \/ /\ s.failing = "busy" /\ s.lists = {} /\ s.call.check = T!NoCheck
           /\ effect = "make"
           /\ \A x \in Goals(r) : Brings(r, s, x) => Routing(r, x)
        \/ /\ s.failing = "else" /\ s.lists = {} /\ s.call.check # T!NoCheck
           /\ effect = "remove"
           /\ \A x \in Goals(r) :
                 /\ Awaits(r, p, k - 1, x) => Awaits(r, p, k, x)
                 /\ Awaits(r, p, k, x) => Brings(r, s, x) \/ Awaits(r, p, k + 1, x)

Orderly(r, p, k) ==
    LET s == p.steps[k]
    IN  /\ s.when = <<>>
        /\ s.lists # {} => s.call.effect \in {"read", "make"}
        /\ \A x \in Goals(r) :
              Spoils(r, s, x) => (x = s.obj /\ Brings(r, s, x)) \/ Names(s, x)
        /\ Pardonable(r, p, k)

Brought(r, t, x) == \E j \in DOMAIN t : Brings(r, t[j], x)

\* Steps of which a creation consists, and a deletion.
Builds ==
    {s \in Steps :
        /\ s.when = <<>> /\ s.lists = {} /\ s.adds = {} /\ s.drops = {}
        /\ s.call.effect # "remove" /\ s.call.check.done \subseteq {"ready"}
        /\ \/ s.failing = "return"
           \/ /\ s.failing = "busy" /\ s.call.effect = "make" /\ s.call.check = T!NoCheck
              /\ s.obj = <<"route", 1>>}

Erases ==
    {s \in Gentle :
        /\ s.when = <<>> /\ s.lists = {}
        /\ \/ s.failing = "return"
           \/ /\ s.failing = "warn" /\ s.call.check = T!NoCheck
              /\ s.call.effect = "read" \/ (s.call.effect = "remove" /\ s.obj[1] = "default")}

LEMMA NoCheckDone == T!NoCheck.done = {} /\ I!C!T!NoCheck = T!NoCheck
  BY ChecksTyped DEF T!NoCheck, T!Until

LEMMA BuildsAreOrderly ==
  ASSUME NEW r, r.ended = {}, r.op # "StopClusterInstance", NEW p, p.steps \in Seq(Builds),
         NEW k \in DOMAIN p.steps
  PROVE  Orderly(r, p, k)
  <1> DEFINE s == p.steps[k]
  <1>1. s \in Builds
    OBVIOUS
  <1> HIDE DEF s
  <1>2. \A x : Goal(r, x) = "ready"
    BY DEF Goal
  <1>3. ASSUME NEW x, Spoils(r, s, x)
        PROVE  x = s.obj /\ Brings(r, s, x)
    BY <1>1, <1>2, <1>3 DEF Spoils, Brings, Builds
  <1>4. CASE s.failing = "return"
    BY <1>1, <1>3, <1>4 DEF Orderly, Pardonable, Builds, s
  <1>5. CASE s.failing = "busy"
    <2>1. s.call.effect = "make" /\ s.call.check = T!NoCheck /\ s.obj = <<"route", 1>>
      BY <1>1, <1>5 DEF Builds
    <2>2. ASSUME NEW x \in Goals(r), Brings(r, s, x)
          PROVE  Routing(r, x)
      BY <2>1, <2>2 DEF Brings, Routing, Goals
    <2>3. QED
      BY <1>1, <1>3, <1>5, <2>1, <2>2 DEF Orderly, Pardonable, Builds, s
  <1>6. QED
    BY <1>1, <1>4, <1>5 DEF Builds

\* What makes nothing spoils nothing that is to be deleted.
LEMMA GentleSpoilsNothing ==
  ASSUME NEW r, r.asked = {}, NEW s \in Gentle, NEW x \in Goals(r)
  PROVE  ~Spoils(r, s, x)
  <1>1. Goal(r, x) = "absent"
    BY DEF Goal, Goals
  <1>2. QED
    BY <1>1 DEF Spoils, Gentle

LEMMA ErasesAreOrderly ==
  ASSUME NEW r, r.asked = {}, NEW p, NEW k, p.steps[k] \in Erases
  PROVE  Orderly(r, p, k)
  <1> DEFINE s == p.steps[k]
  <1>1. s \in Erases /\ s \in Gentle
    BY DEF Erases
  <1> HIDE DEF s
  <1>2. \A x \in Goals(r) : ~Spoils(r, s, x)
    BY <1>1, GentleSpoilsNothing
  <1>3. CASE s.failing = "return"
    BY <1>1, <1>2, <1>3 DEF Orderly, Pardonable, Erases, s
  <1>4. CASE s.failing = "warn"
    <2>1. /\ s.call.check = T!NoCheck
          /\ s.call.effect = "read" \/ (s.call.effect = "remove" /\ s.obj[1] = "default")
      BY <1>1, <1>4 DEF Erases
    <2>2. ASSUME NEW x \in Goals(r), Brings(r, s, x)
          PROVE  Tidying(r, x) /\ x = s.obj
      <3>1. s.call.effect = "remove" /\ s.obj[1] = "default"
        BY <2>1, <2>2 DEF Brings
      <3>2. GoesWith(s.obj) = {}
        BY <3>1 DEF GoesWith
      <3>3. x = s.obj
        BY <2>2, <3>1, <3>2 DEF Brings
      <3>4. QED
        BY <3>1, <3>3 DEF Tidying, Goals
    <2>3. QED
      BY <1>1, <1>2, <1>4, <2>1, <2>2 DEF Orderly, Pardonable, Erases, s
  <1>5. QED
    BY <1>1, <1>3, <1>4 DEF Erases

-----------------------------------------------------------------------------
(* What each way of making a step makes of it *)

LEMMA BuildingSteps ==
  /\ \A c \in Makes \cup Settings, x \in Ours : I!C!Do(c, x) \in Builds
  /\ \A c \in Reads, x \in Objects : I!C!Do(c, x) \in Builds /\ I!C!Ask(c) \in Builds
  /\ I!C!Judge \in Builds
  /\ I!C!Step(I!C!T!AddExtraRoutesToRouter, <<"route", 1>>, "busy") \in Builds
  <1>1. ASSUME NEW c \in Makes \cup Settings, NEW x \in Ours
        PROVE  I!C!Do(c, x) \in Builds
    <2>1. c \in Calls /\ c.effect \in {"make", "change"} /\ c.check.done \subseteq {"ready"}
      BY DEF Makes, Settings, Changes, Calls
    <2>2. I!C!Do(c, x) \in Steps
      BY MakingSteps, WritingSteps, GentleIsOrderly DEF Reactions, Settings, Writes
    <2>3. QED
      BY <2>1, <2>2 DEF Builds, I!C!Do, I!C!Step
  <1>2. ASSUME NEW c \in Reads, NEW x \in Objects
        PROVE  I!C!Do(c, x) \in Builds
    <2>1. I!C!Do(c, x) \in Steps
      BY ReadingSteps, GentleIsOrderly DEF Reactions
    <2>2. c.effect = "read" /\ c.check.done = {}
      BY NoCheckDone DEF Reads
    <2>3. QED
      BY <2>1, <2>2 DEF Builds, I!C!Do, I!C!Step
  <1>3. \A c \in Reads : I!C!Ask(c) \in Builds
    BY <1>2, OwnObjects DEF I!C!Ask
  <1>4. I!C!Judge \in Builds
    <2>1. I!C!Judge \in Steps
      BY JudgingSteps, GentleIsOrderly
    <2>2. I!C!Judge.call.check.done = {} /\ I!C!Judge.call.effect = "judge"
      BY NoCheckDone DEF I!C!Judge, I!C!Ask, I!C!Do, I!C!Step, I!C!T!Call
    <2>3. QED
      BY <2>1, <2>2 DEF Builds, I!C!Judge, I!C!Ask, I!C!Do, I!C!Step
  <1>5. I!C!Step(I!C!T!AddExtraRoutesToRouter, <<"route", 1>>, "busy") \in Builds
    <2>1. ASSUME NEW c \in Makes, c.check = T!NoCheck, NEW x \in Ours, x = <<"route", 1>>
          PROVE  I!C!Step(c, x, "busy") \in Builds
      <3>1. I!C!Step(c, x, "busy") \in Steps
        BY MakingSteps DEF Reactions
      <3>2. c.effect = "make" /\ c.check.done = {}
        BY <2>1, NoCheckDone DEF Makes
      <3>3. QED
        BY <2>1, <3>1, <3>2 DEF Builds, I!C!Step
    <2>2. I!C!T!AddExtraRoutesToRouter \in Makes
      BY CallsThatMake
    <2>3. I!C!T!AddExtraRoutesToRouter.check = T!NoCheck
      BY NoCheckDone DEF I!C!T!AddExtraRoutesToRouter, I!C!T!Make, I!C!T!Call
    <2>4. QED
      BY <2>1, <2>2, <2>3, OwnObjects
  <1>6. QED
    BY <1>1, <1>2, <1>3, <1>4, <1>5

LEMMA ErasingSteps ==
  /\ \A c \in Writes, x \in Ours : I!C!Do(c, x) \in Erases
  /\ \A c \in Reads, x \in Objects :
        I!C!Do(c, x) \in Erases /\ I!C!Try(c, x) \in Erases /\ I!C!Ask(c) \in Erases
  /\ \A x \in Ours : x[1] = "default" => I!C!Try(I!C!T!DeleteSecurityGroup, x) \in Erases
  /\ I!C!Judge \in Erases /\ I!C!Connect \in Erases
  <1>1. ASSUME NEW c \in Writes, NEW x \in Ours
        PROVE  I!C!Do(c, x) \in Erases
    <2>1. I!C!Do(c, x) \in Gentle
      BY WritingSteps DEF Reactions
    <2>2. QED
      BY <2>1 DEF Erases, I!C!Do, I!C!Step
  <1>2. ASSUME NEW c \in Reads, NEW x \in Objects
        PROVE  I!C!Do(c, x) \in Erases /\ I!C!Try(c, x) \in Erases
    <2>1. I!C!Do(c, x) \in Gentle /\ I!C!Try(c, x) \in Gentle
      BY ReadingSteps DEF Reactions
    <2>2. QED
      BY <2>1 DEF Erases, Reads, I!C!Do, I!C!Try, I!C!Step
  <1>3. \A c \in Reads : I!C!Ask(c) \in Erases
    BY <1>2, OwnObjects DEF I!C!Ask
  <1>4. ASSUME NEW x \in Ours, x[1] = "default"
        PROVE  I!C!Try(I!C!T!DeleteSecurityGroup, x) \in Erases
    <2>1. ASSUME NEW c \in Removes, c.check = T!NoCheck
          PROVE  I!C!Try(c, x) \in Erases
      <3>1. I!C!Try(c, x) \in Gentle
        BY WritingSteps DEF Reactions, Writes
      <3>2. c.effect = "remove"
        BY DEF Removes
      <3>3. QED
        BY <1>4, <2>1, <3>1, <3>2 DEF Erases, I!C!Try, I!C!Step
    <2>2. I!C!T!DeleteSecurityGroup \in Removes
      BY CallsThatRemove
    <2>3. I!C!T!DeleteSecurityGroup.check = T!NoCheck
      BY NoCheckDone DEF I!C!T!DeleteSecurityGroup, I!C!T!Remove, I!C!T!Call
    <2>4. QED
      BY <2>1, <2>2, <2>3
  <1>5. I!C!Judge \in Erases /\ I!C!Connect \in Erases
    BY JudgingSteps DEF Erases, I!C!Judge, I!C!Connect, I!C!Ask, I!C!Do, I!C!Step
  <1>6. QED
    BY <1>1, <1>2, <1>3, <1>4, <1>5

\* A step that makes or removes what it should brings it.
LEMMA StepsThatBring ==
  ASSUME NEW r, NEW x, NEW failing, NEW kinds
  PROVE  /\ \A c \in Makes : Goal(r, x) = "ready" =>
               /\ Brings(r, I!C!Do(c, x), x)
               /\ Brings(r, I!C!Step(c, x, failing), x)
               /\ Brings(r, I!C!List(c, x, kinds), x)
         /\ \A c \in Removes : x \in r.ended =>
               /\ Brings(r, I!C!Do(c, x), x)
               /\ Brings(r, I!C!Try(c, x), x)
               /\ Brings(r, I!C!Step(c, x, failing), x)
  <1>1. ASSUME NEW c \in Makes, Goal(r, x) = "ready"
        PROVE  /\ Brings(r, I!C!Do(c, x), x)
               /\ Brings(r, I!C!Step(c, x, failing), x)
               /\ Brings(r, I!C!List(c, x, kinds), x)
    BY <1>1 DEF Makes, Calls, Brings, I!C!Do, I!C!List, I!C!Step
  <1>2. ASSUME NEW c \in Removes, x \in r.ended
        PROVE  /\ Brings(r, I!C!Do(c, x), x)
               /\ Brings(r, I!C!Try(c, x), x)
               /\ Brings(r, I!C!Step(c, x, failing), x)
    BY <1>2 DEF Removes, Calls, Brings, Goal, I!C!Do, I!C!Try, I!C!Step
  <1>3. QED
    BY <1>1, <1>2

-----------------------------------------------------------------------------
(* What is brought by a part of a program is brought by the program. *)

LEMMA BroughtByPart ==
  ASSUME NEW S, NEW t \in Seq(S), NEW u \in Seq(S), NEW r, NEW x,
         Brought(r, t, x) \/ Brought(r, u, x)
  PROVE  Brought(r, t \o u, x)
  <1>1. CASE Brought(r, t, x)
    <2>1. PICK j \in DOMAIN t : Brings(r, t[j], x)
      BY <1>1 DEF Brought
    <2>2. j \in DOMAIN (t \o u) /\ (t \o u)[j] = t[j]
      OBVIOUS
    <2>3. QED
      BY <2>1, <2>2 DEF Brought
  <1>2. CASE Brought(r, u, x)
    <2>1. PICK j \in DOMAIN u : Brings(r, u[j], x)
      BY <1>2 DEF Brought
    <2>2. Len(t) + j \in DOMAIN (t \o u) /\ (t \o u)[Len(t) + j] = u[j]
      OBVIOUS
    <2>3. QED
      BY <2>1, <2>2 DEF Brought
  <1>3. QED
    BY <1>1, <1>2

LEMMA BroughtByStep ==
  ASSUME NEW r, NEW x, NEW s, NEW t, NEW u
  PROVE  /\ Brings(r, s, x) => Brought(r, <<s>>, x)
         /\ (Brings(r, s, x) \/ Brings(r, t, x)) => Brought(r, <<s, t>>, x)
         /\ (Brings(r, s, x) \/ Brings(r, t, x) \/ Brings(r, u, x)) => Brought(r, <<s, t, u>>, x)
  <1>1. Brings(r, s, x) => Brought(r, <<s>>, x)
    <2>1. DOMAIN <<s>> = {1} /\ <<s>>[1] = s
      OBVIOUS
    <2>2. QED
      BY <2>1 DEF Brought
  <1>2. (Brings(r, s, x) \/ Brings(r, t, x)) => Brought(r, <<s, t>>, x)
    <2>1. DOMAIN <<s, t>> = {1, 2} /\ <<s, t>>[1] = s /\ <<s, t>>[2] = t
      OBVIOUS
    <2>2. QED
      BY <2>1 DEF Brought
  <1>3. (Brings(r, s, x) \/ Brings(r, t, x) \/ Brings(r, u, x)) => Brought(r, <<s, t, u>>, x)
    <2>1. /\ DOMAIN <<s, t, u>> = {1, 2, 3}
          /\ <<s, t, u>>[1] = s /\ <<s, t, u>>[2] = t /\ <<s, t, u>>[3] = u
      OBVIOUS
    <2>2. QED
      BY <2>1 DEF Brought
  <1>4. QED
    BY <1>1, <1>2, <1>3

\* A finite set in some order has all its members.
LEMMA AllInSomeOrder ==
  ASSUME NEW S, IsFiniteSet(S), NEW x \in S
  PROVE  /\ I!C!SetToSeq(S) \in Seq(S)
         /\ \E i \in 1..Len(I!C!SetToSeq(S)) : I!C!SetToSeq(S)[i] = x
  <1>1. Cardinality(S) \in Nat /\ ExistsBijection(1..Cardinality(S), S)
    BY FS_CardinalityType
  <1>2. PICK f \in [1..Cardinality(S) -> S] :
                I!C!IsInjective(f) /\ \A y \in S : \E i \in 1..Cardinality(S) : f[i] = y
    BY <1>1
       DEF ExistsBijection, Bijection, Injection, Surjection, IsInjective, I!C!IsInjective
  <1>3. I!C!Cardinality(S) = Cardinality(S)
    BY DEF I!C!Cardinality, Cardinality
  <1> DEFINE g == I!C!SetToSeq(S)
  <1>4. g \in [1..Cardinality(S) -> S] /\ I!C!IsInjective(g)
    BY <1>2, <1>3 DEF I!C!SetToSeq
  <1> HIDE DEF g
  <1>5. g \in Seq(S) /\ Len(g) = Cardinality(S)
    BY <1>1, <1>4
  <1>6. g \in Surjection(1..Cardinality(S), S)
    <2>1. IsFiniteSet(1..Cardinality(S)) /\ Cardinality(1..Cardinality(S)) = Cardinality(S)
      BY <1>1, FS_Interval
    <2>2. g \in Injection(1..Cardinality(S), S)
      BY <1>4 DEF Injection, IsInjective, I!C!IsInjective
    <2>3. Cardinality(1..Cardinality(S)) = Cardinality(S) <=> g \in Surjection(1..Cardinality(S), S)
      BY <2>2, FS_Injection
    <2>4. QED
      BY <2>1, <2>3
  <1>7. \E i \in 1..Cardinality(S) : g[i] = x
    BY <1>6 DEF Surjection
  <1>8. QED
    BY <1>5, <1>7 DEF g

\* The same request for each object of a set, and the objects that are counted.
LEMMA EachIn ==
  ASSUME NEW c, NEW xs, IsFiniteSet(xs), NEW S, \A x \in xs : I!C!Do(c, x) \in S
  PROVE  I!C!Each(c, xs) \in Seq(S)
  <1> DEFINE s == I!C!SetToSeq(xs)
  <1>1. s \in Seq(xs)
    BY InSomeOrder
  <1>2. Len(s) \in Nat /\ \A i \in 1..Len(s) : s[i] \in xs
    BY <1>1
  <1>3. [i \in 1..Len(s) |-> I!C!Do(c, s[i])] \in Seq(S)
    BY <1>2, OneByOne
  <1>4. QED
    BY <1>3 DEF I!C!Each

LEMMA EachTryIn ==
  ASSUME NEW c, NEW xs, IsFiniteSet(xs), NEW S, \A x \in xs : I!C!Try(c, x) \in S
  PROVE  I!C!EachTry(c, xs) \in Seq(S)
  <1> DEFINE s == I!C!SetToSeq(xs)
  <1>1. s \in Seq(xs)
    BY InSomeOrder
  <1>2. Len(s) \in Nat /\ \A i \in 1..Len(s) : s[i] \in xs
    BY <1>1
  <1>3. [i \in 1..Len(s) |-> I!C!Try(c, s[i])] \in Seq(S)
    BY <1>2, OneByOne
  <1>4. QED
    BY <1>3 DEF I!C!EachTry

LEMMA NumberedFinite ==
  ASSUME NEW kind, NEW n \in Nat
  PROVE  IsFiniteSet(I!Numbered(kind, n))
  <1> DEFINE f == [i \in 1..n |-> <<kind, i>>]
  <1>1. f \in Surjection(1..n, I!Numbered(kind, n))
    BY DEF Surjection, I!Numbered
  <1>2. IsFiniteSet(1..n)
    BY FS_Interval
  <1>3. QED
    BY <1>1, <1>2, FS_Surjection

\* The same request for each object of a set brings what one of them brings.
LEMMA BroughtByEach ==
  ASSUME NEW c, NEW xs, IsFiniteSet(xs), NEW r, NEW x
  PROVE  /\ Brought(r, I!C!Each(c, xs), x) <=> \E y \in xs : Brings(r, I!C!Do(c, y), x)
         /\ Brought(r, I!C!EachTry(c, xs), x) <=> \E y \in xs : Brings(r, I!C!Try(c, y), x)
  <1> DEFINE s == I!C!SetToSeq(xs)
  <1>1. Len(s) \in Nat /\ \A i \in 1..Len(s) : s[i] \in xs
    <2>1. s \in Seq(xs)
      BY InSomeOrder
    <2>2. QED
      BY <2>1
  <1>2. \A y \in xs : \E i \in 1..Len(s) : s[i] = y
    BY AllInSomeOrder
  <1> HIDE DEF s
  <1>3. I!C!Each(c, xs) = [i \in 1..Len(s) |-> I!C!Do(c, s[i])]
    BY DEF I!C!Each, s
  <1>4. I!C!EachTry(c, xs) = [i \in 1..Len(s) |-> I!C!Try(c, s[i])]
    BY DEF I!C!EachTry, s
  <1>5. Brought(r, I!C!Each(c, xs), x) <=> \E y \in xs : Brings(r, I!C!Do(c, y), x)
    BY <1>1, <1>2, <1>3 DEF Brought
  <1>6. Brought(r, I!C!EachTry(c, xs), x) <=> \E y \in xs : Brings(r, I!C!Try(c, y), x)
    BY <1>1, <1>2, <1>4 DEF Brought
  <1>7. QED
    BY <1>5, <1>6

-----------------------------------------------------------------------------
(* Creations that consist of one step after another *)

\* Everything asked for is made, by steps that only make and change.
Built(r, p) ==
    /\ p.steps \in Seq(Builds) /\ p.final = <<>>
    /\ \A x \in Asked(r) : Brought(r, p.steps, x)

LEMMA OneIsBuilt ==
  ASSUME NEW r, NEW c \in Makes, NEW y \in Ours, Goal(r, y) = "ready", Asked(r) = {y}, NEW p,
         p.final = <<>>,
         \/ p.steps = <<I!C!Do(c, y)>>
         \/ \E s \in Builds : p.steps = <<I!C!Do(c, y), s>>
  PROVE  Built(r, p)
  <1>1. I!C!Do(c, y) \in Builds /\ Brings(r, I!C!Do(c, y), y)
    BY BuildingSteps, StepsThatBring
  <1>2. CASE p.steps = <<I!C!Do(c, y)>>
    <2>1. Brought(r, <<I!C!Do(c, y)>>, y)
      BY <1>1, BroughtByStep
    <2>2. <<I!C!Do(c, y)>> \in Seq(Builds)
      BY <1>1
    <2>3. QED
      BY <1>2, <2>1, <2>2 DEF Built
  <1>3. ASSUME NEW s \in Builds, p.steps = <<I!C!Do(c, y), s>>
        PROVE  Built(r, p)
    <2>1. Brought(r, <<I!C!Do(c, y), s>>, y)
      BY <1>1, BroughtByStep
    <2>2. <<I!C!Do(c, y), s>> \in Seq(Builds)
      BY <1>1, <1>3
    <2>3. QED
      BY <1>3, <2>1, <2>2 DEF Built
  <1>4. QED
    BY <1>2, <1>3

\* What a request that only creates asks for is to be ready.
LEMMA ReadyIsTheGoal ==
  ASSUME NEW r, r.op # "StopClusterInstance", r.ended = {}, NEW x
  PROVE  Goal(r, x) = "ready"
  BY DEF Goal

LEMMA ShortCreations ==
  ASSUME NEW r, r.ended = {}, NEW xs,
         r.op \in {"CreateClusterNetwork", "CreateClusterSubnet", "CreateClusterFloatingIP",
                   "CreateClusterSecurityGroupRule", "CreateVolumeSnapshot",
                   "CreateVolumeGroupSnapshot", "CreateClusterKeypair",
                   "CreateClusterInstanceSpec"}
  PROVE  Built(r, Program(r, xs))
  <1> DEFINE p == Program(r, xs)
  <1>1. \A x : Goal(r, x) = "ready"
    BY ReadyIsTheGoal
  <1>2. ASSUME NEW c \in Makes, NEW y \in Ours, Asked(r) = {y}, p.final = <<>>,
               \/ p.steps = <<I!C!Do(c, y)>>
               \/ \E s \in Builds : p.steps = <<I!C!Do(c, y), s>>
        PROVE  Built(r, p)
    BY <1>1, <1>2, OneIsBuilt
  <1>3. CASE r.op = "CreateClusterNetwork"
    <2>1. p.steps = <<I!C!Do(I!C!T!CreateNetwork, I!network)>> /\ p.final = <<>>
      BY <1>3 DEF Program, CreateClusterNetwork, I!CreateNetwork, I!Reversible, I!Answering,
                  I!C!CreateNetwork, I!C!Program
    <2>2. Asked(r) = {I!network}
      BY <1>3 DEF Asked
    <2>3. I!C!T!CreateNetwork \in Makes /\ I!network \in Ours
      BY CallsThatMake, OwnObjects
    <2> HIDE DEF p
    <2>4. QED
      BY <1>2, <2>1, <2>2, <2>3 DEF p
  <1>4. CASE r.op = "CreateClusterSubnet"
    <2>1. p.steps = <<I!C!Do(I!C!T!CreateSubnet, I!subnet)>> /\ p.final = <<>>
      BY <1>4 DEF Program, CreateClusterSubnet, I!CreateSubnet, I!Reversible, I!Answering,
                  I!C!CreateSubnet, I!C!Program
    <2>2. Asked(r) = {I!subnet}
      BY <1>4 DEF Asked
    <2>3. I!C!T!CreateSubnet \in Makes /\ I!subnet \in Ours
      BY CallsThatMake, OwnObjects
    <2> HIDE DEF p
    <2>4. QED
      BY <1>2, <2>1, <2>2, <2>3 DEF p
  <1>5. CASE r.op = "CreateClusterFloatingIP"
    <2>1. p.steps = <<I!C!Do(I!C!T!CreateFloatingIP, I!floating_ip), I!C!Judge>> /\ p.final = <<>>
      BY <1>5 DEF Program, CreateClusterFloatingIP, I!CreateFloatingIP, I!Reversible,
                  I!Answering, I!C!CreateFloatingIP, I!C!Undoing
    <2>2. Asked(r) = {I!floating_ip}
      BY <1>5 DEF Asked
    <2>3. I!C!T!CreateFloatingIP \in Makes /\ I!floating_ip \in Ours
      BY CallsThatMake, OwnObjects
    <2> HIDE DEF p
    <2>4. QED
      BY <1>2, <2>1, <2>2, <2>3, BuildingSteps DEF p
  <1>6. CASE r.op = "CreateClusterSecurityGroupRule"
    <2>1. p.steps = <<I!C!Do(I!C!T!CreateSecurityGroupRule, <<"rule", 3>>)>> /\ p.final = <<>>
      BY <1>6 DEF Program, CreateClusterSecurityGroupRule, I!CreateSecurityGroupRule,
                  I!Reversible, I!Answering, I!C!CreateSecurityGroupRule, I!C!Program
    <2>2. Asked(r) = {<<"rule", 3>>}
      BY <1>6 DEF Asked
    <2>3. I!C!T!CreateSecurityGroupRule \in Makes /\ <<"rule", 3>> \in Ours
      BY CallsThatMake, OwnObjects
    <2> HIDE DEF p
    <2>4. QED
      BY <1>2, <2>1, <2>2, <2>3 DEF p
  <1>7. CASE r.op = "CreateVolumeSnapshot"
    <2>1. p.steps = <<I!C!Do(I!C!T!CreateVolumeSnapshot, I!snapshot), I!C!Judge>>
          /\ p.final = <<>>
      BY <1>7 DEF Program, I!CreateVolumeSnapshot, I!Answering, I!C!CreateVolumeSnapshot,
                  I!C!Undoing
    <2>2. Asked(r) = {I!snapshot}
      BY <1>7 DEF Asked
    <2>3. I!C!T!CreateVolumeSnapshot \in Makes /\ I!snapshot \in Ours
      BY CallsThatMake, OwnObjects
    <2> HIDE DEF p
    <2>4. QED
      BY <1>2, <2>1, <2>2, <2>3, BuildingSteps DEF p
  <1>8. CASE r.op = "CreateVolumeGroupSnapshot"
    <2>1. p.steps = <<I!C!Do(I!C!T!CreateVolumeGroupSnapshot, I!group_snapshot)>>
          /\ p.final = <<>>
      BY <1>8 DEF Program, I!CreateVolumeGroupSnapshot, I!Answering,
                  I!C!CreateVolumeGroupSnapshot, I!C!Undoing
    <2>2. Asked(r) = {I!group_snapshot}
      BY <1>8 DEF Asked
    <2>3. I!C!T!CreateVolumeGroupSnapshot \in Makes /\ I!group_snapshot \in Ours
      BY CallsThatMake, OwnObjects
    <2> HIDE DEF p
    <2>4. QED
      BY <1>2, <2>1, <2>2, <2>3 DEF p
  <1>9. CASE r.op = "CreateClusterKeypair"
    <2>1. p.steps = <<I!C!Do(I!C!T!ImportOrCreateKeypair, I!keypair)>> /\ p.final = <<>>
      BY <1>9 DEF Program, CreateClusterKeypair, I!CreateKeypair, I!Answering,
                  I!C!CreateKeypair, I!C!Program
    <2>2. Asked(r) = {I!keypair}
      BY <1>9 DEF Asked
    <2>3. I!C!T!ImportOrCreateKeypair \in Makes /\ I!keypair \in Ours
      BY CallsThatMake, OwnObjects
    <2> HIDE DEF p
    <2>4. QED
      BY <1>2, <2>1, <2>2, <2>3 DEF p
  <1>10. CASE r.op = "CreateClusterInstanceSpec"
    <2> DEFINE s == I!C!Do(I!C!T!CreateExtraSpecsForFlavor, I!flavor)
    <2>1. p.steps = <<I!C!Do(I!C!T!CreateFlavor, I!flavor), s>> /\ p.final = <<>>
      BY <1>10 DEF Program, CreateClusterInstanceSpec, I!CreateInstanceSpec, I!Answering,
                   I!C!CreateInstanceSpec, I!C!Undoing
    <2>2. Asked(r) = {I!flavor}
      BY <1>10 DEF Asked
    <2>3. s \in Builds
      BY CallsThatChange, OwnObjects, BuildingSteps
    <2> HIDE DEF p, s
    <2>4. I!C!T!CreateFlavor \in Makes /\ I!flavor \in Ours
      BY CallsThatMake, OwnObjects
    <2>5. QED
      BY <1>2, <2>1, <2>2, <2>3, <2>4 DEF p
  <1>11. QED
    BY <1>3, <1>4, <1>5, <1>6, <1>7, <1>8, <1>9, <1>10

LEMMA TenantIsBuilt ==
  ASSUME NEW r, r.ended = {}, NEW xs, r.op = "CreateClusterTenant"
  PROVE  Built(r, Program(r, xs))
  <1> DEFINE y == I!project
             make == I!C!Do(I!C!T!CreateProject, y)
             made == <<make, I!C!Judge, I!C!Do(I!C!T!AssignRoleToUserOnProject, y)>>
             quotas == I!C!updateQuotas(y, r.opt)
  <1>1. y \in Ours
    BY OwnObjects
  <1>2. make \in Builds /\ I!C!Do(I!C!T!AssignRoleToUserOnProject, y) \in Builds
    BY <1>1, CallsThatMake, CallsThatChange, BuildingSteps
  <1>3. quotas \in Seq(Builds)
    <2>1. /\ I!C!Do(I!C!T!UpdateComputeQuotas, y) \in Builds
          /\ I!C!Do(I!C!T!UpdateNetworkQuotaForAProject, y) \in Builds
          /\ I!C!Do(I!C!T!UpdateStorageQuotasForAProject, y) \in Builds
      BY <1>1, CallsThatChange, BuildingSteps
    <2>2. QED
      BY <2>1, Optional, Joining DEF I!C!updateQuotas
  <1>4. Brings(r, make, y)
    BY ReadyIsTheGoal, CallsThatMake, StepsThatBring
  <1>5. Asked(r) = {y}
    BY DEF Asked
  <1>6. Program(r, xs).steps = made \o quotas /\ Program(r, xs).final = <<>>
    BY DEF Program, CreateClusterTenant, I!CreateTenant, I!Reversible, I!Answering,
           I!C!CreateTenant, I!C!Undoing
  <1> HIDE DEF y, make, quotas
  <1>7. made \in Seq(Builds) /\ Brought(r, made, y)
    <2>1. Brought(r, made, y)
      BY <1>4, BroughtByStep
    <2>2. made \in Seq(Builds)
      BY <1>2, BuildingSteps
    <2>3. QED
      BY <2>1, <2>2
  <1> HIDE DEF made
  <1>8. made \o quotas \in Seq(Builds) /\ Brought(r, made \o quotas, y)
    BY <1>3, <1>7, Joining, BroughtByPart
  <1>9. QED
    BY <1>5, <1>6, <1>8 DEF Built

LEMMA RouterIsBuilt ==
  ASSUME NEW r, r.ended = {}, r.n \in Nat, NEW xs, r.op = "CreateClusterRouter"
  PROVE  Built(r, Program(r, xs))
  <1> DEFINE y == I!router
             n == r.n
             route == <<"route", 1>>
             make == I!C!Do(I!C!T!CreateRouter, y)
             first == <<I!C!Judge, make>>
             port(i) == I!C!Do(I!C!T!CreatePort, <<"port", i>>)
             interface(i) == I!C!Do(I!C!T!AddInterfaceToRouter, <<"interface", i>>)
             joins == [i \in 1..(2 * n) |-> IF i % 2 = 1 THEN port((i + 1) \div 2)
                                             ELSE interface(i \div 2)]
             list == <<I!C!Ask(I!C!T!ListPorts)>>
             add == I!C!Step(I!C!T!AddExtraRoutesToRouter, route, "busy")
             adds == I!C!When("routes" \in r.opt, <<add>>)
  <1>1. Program(r, xs).steps = first \o joins \o list \o adds /\ Program(r, xs).final = <<>>
    BY DEF Program, CreateClusterRouter, I!CreateRouter, I!Reversible, I!Answering,
           I!C!CreateRouter, I!C!Undoing
  <1>2. \A x : Goal(r, x) = "ready"
    BY ReadyIsTheGoal
  <1>3. make \in Builds /\ Brings(r, make, y)
    BY <1>2, CallsThatMake, OwnObjects, BuildingSteps, StepsThatBring
  <1>4. ASSUME NEW i \in Nat
        PROVE  /\ port(i) \in Builds /\ Brings(r, port(i), <<"port", i>>)
               /\ interface(i) \in Builds /\ Brings(r, interface(i), <<"interface", i>>)
    <2>1. <<"port", i>> \in Ours /\ <<"interface", i>> \in Ours
      BY OwnObjects
    <2>2. I!C!T!CreatePort \in Makes /\ I!C!T!AddInterfaceToRouter \in Makes
      BY CallsThatMake
    <2>3. QED
      BY <1>2, <2>1, <2>2, BuildingSteps, StepsThatBring
  <1>5. list \in Seq(Builds)
    <2>1. I!C!Ask(I!C!T!ListPorts) \in Builds
      BY CallsThatRead, BuildingSteps, OwnObjects
    <2>2. QED
      BY <2>1
  <1>6. /\ adds \in Seq(Builds)
        /\ "routes" \in r.opt => Brought(r, adds, route)
    <2>1. add \in Builds /\ Brings(r, add, route)
      BY <1>2, BuildingSteps, CallsThatMake, StepsThatBring
    <2> HIDE DEF add
    <2>2. Brought(r, <<add>>, route)
      BY <2>1, BroughtByStep
    <2>3. QED
      BY <2>1, <2>2, Optional DEF I!C!When
  <1> HIDE DEF y, route, make, port, interface, list, adds
  <1>7. first \in Seq(Builds) /\ Brought(r, first, y)
    <2>1. Brought(r, first, y)
      BY <1>3, BroughtByStep
    <2>2. first \in Seq(Builds)
      BY <1>3, BuildingSteps
    <2>3. QED
      BY <2>1, <2>2
  <1>8. /\ joins \in Seq(Builds)
        /\ \A i \in 1..n : Brought(r, joins, <<"port", i>>) /\ Brought(r, joins, <<"interface", i>>)
    <2>1. 2 * n \in Nat /\ \A i \in 1..(2 * n) : (i + 1) \div 2 \in Nat /\ i \div 2 \in Nat
      OBVIOUS
    <2>2. joins \in [1..(2 * n) -> Builds]
      BY <1>4, <2>1
    <2>3. joins \in Seq(Builds)
      BY <2>1, <2>2, OneByOne
    <2>4. ASSUME NEW i \in 1..n
          PROVE  Brought(r, joins, <<"port", i>>) /\ Brought(r, joins, <<"interface", i>>)
      <3>1. /\ 2 * i - 1 \in 1..(2 * n) /\ (2 * i - 1) % 2 = 1 /\ ((2 * i - 1) + 1) \div 2 = i
            /\ 2 * i \in 1..(2 * n) /\ (2 * i) % 2 # 1 /\ (2 * i) \div 2 = i
        OBVIOUS
      <3>2. joins[2 * i - 1] = port(i) /\ joins[2 * i] = interface(i)
        BY <3>1
      <3>3. DOMAIN joins = 1..(2 * n)
        OBVIOUS
      <3> HIDE DEF joins
      <3>4. QED
        BY <1>4, <3>1, <3>2, <3>3, SMTT(60) DEF Brought
    <2>5. QED
      BY <2>3, <2>4
  <1> HIDE DEF first, joins
  <1>9. first \o joins \o list \o adds \in Seq(Builds)
    BY <1>5, <1>6, <1>7, <1>8, Joining
  <1>10. /\ Brought(r, first \o joins \o list \o adds, y)
         /\ \A i \in 1..n : /\ Brought(r, first \o joins \o list \o adds, <<"port", i>>)
                            /\ Brought(r, first \o joins \o list \o adds, <<"interface", i>>)
         /\ "routes" \in r.opt => Brought(r, first \o joins \o list \o adds, route)
    <2>1. first \o joins \in Seq(Builds) /\ (first \o joins) \o list \in Seq(Builds)
      BY <1>5, <1>7, <1>8, Joining
    <2>2. \A x : Brought(r, first, x) \/ Brought(r, joins, x) => Brought(r, first \o joins, x)
      BY <1>7, <1>8, BroughtByPart
    <2>3. \A x : Brought(r, first \o joins, x) => Brought(r, (first \o joins) \o list, x)
      BY <1>5, <2>1, BroughtByPart
    <2>4. \A x : Brought(r, (first \o joins) \o list, x) \/ Brought(r, adds, x)
                  => Brought(r, ((first \o joins) \o list) \o adds, x)
      BY <1>6, <2>1, BroughtByPart
    <2>5. QED
      BY <1>6, <1>7, <1>8, <2>2, <2>3, <2>4
  <1>11. Asked(r) = {y} \cup {<<"port", i>> : i \in 1..n} \cup {<<"interface", i>> : i \in 1..n}
                       \cup (IF "routes" \in r.opt THEN {route} ELSE {})
    BY DEF Asked, I!Numbered, y, route
  <1>12. QED
    BY <1>1, <1>9, <1>10, <1>11 DEF Built

LEMMA VolumeIsBuilt ==
  ASSUME NEW r, r.ended = {}, r.n \in Nat, NEW xs,
         r.op \in {"CreateVolume", "ImportClusterVolume"}
  PROVE  Built(r, Program(r, xs))
  <1> DEFINE y == I!volume
             n == r.n
             make == I!C!Do(I!C!T!CreateVolume, y)
             manage == I!C!Do(I!C!T!ManageExistingVolume, y)
             mode == I!C!updateVolumeMode(y, "readonly" \in r.opt, "bootable" \in r.opt)
  <1>1. \A x : Goal(r, x) = "ready"
    BY ReadyIsTheGoal
  <1>2. y \in Ours
    BY OwnObjects
  <1>3. /\ make \in Builds /\ Brings(r, make, y)
        /\ manage \in Builds /\ Brings(r, manage, y)
    BY <1>1, <1>2, CallsThatMake, BuildingSteps, StepsThatBring
  <1>4. mode \in Seq(Builds)
    <2>1. /\ I!C!Do(I!C!T!UpdatesVolumeReadOnlyAccessModeFlag, y) \in Builds
          /\ I!C!Do(I!C!T!UpdateVolumeBootableStatus, y) \in Builds
      BY <1>2, CallsThatChange, BuildingSteps
    <2>2. QED
      BY <2>1, Optional, Joining DEF I!C!updateVolumeMode
  <1>5. CASE r.op = "CreateVolume"
    <2>1. Program(r, xs).steps = <<make>> \o mode /\ Program(r, xs).final = <<>>
      BY <1>5 DEF Program, I!CreateVolume, I!Answering, I!C!CreateVolume, I!C!Undoing
    <2>2. Asked(r) = {y}
      BY <1>5 DEF Asked
    <2> HIDE DEF y, make, mode
    <2>3. <<make>> \in Seq(Builds) /\ Brought(r, <<make>>, y)
      <3>1. Brought(r, <<make>>, y)
        BY <1>3, BroughtByStep
      <3>2. <<make>> \in Seq(Builds)
        BY <1>3
      <3>3. QED
        BY <3>1, <3>2
    <2>4. <<make>> \o mode \in Seq(Builds) /\ Brought(r, <<make>> \o mode, y)
      BY <1>4, <2>3, Joining, BroughtByPart
    <2>5. QED
      BY <2>1, <2>2, <2>4 DEF Built
  <1>6. CASE r.op = "ImportClusterVolume" /\ "metadata" \in r.opt
    <2> DEFINE judge == <<I!C!Judge>>
               host == I!C!getServiceHostname
               shot(i) == I!C!Do(I!C!T!ManageExistingVolumeSnapshot, <<"snapshot", i>>)
               shots == [i \in 1..(2 * n) |-> IF i % 2 = 1 THEN shot((i + 1) \div 2)
                                               ELSE I!C!Judge]
               all == judge \o host \o <<manage>> \o mode \o shots
    <2>1. Program(r, xs).steps = all /\ Program(r, xs).final = <<>>
      BY <1>6 DEF Program, ImportClusterVolume, I!ImportVolume, I!Answering, I!C!ImportVolume,
                  I!C!importCEPH, I!C!Program
    <2>2. Asked(r) = {y} \cup {<<"snapshot", i>> : i \in 1..n}
      BY <1>6 DEF Asked, I!Numbered
    <2>3. judge \in Seq(Builds) /\ host \in Seq(Builds)
      <3>1. I!C!Ask(I!C!T!ListAllCinderServices) \in Builds
        BY CallsThatRead, BuildingSteps, OwnObjects
      <3>2. QED
        BY <3>1, BuildingSteps DEF I!C!getServiceHostname
    <2>4. ASSUME NEW i \in Nat
          PROVE  shot(i) \in Builds /\ Brings(r, shot(i), <<"snapshot", i>>)
      <3>1. <<"snapshot", i>> \in Ours /\ I!C!T!ManageExistingVolumeSnapshot \in Makes
        BY OwnObjects, CallsThatMake
      <3>2. QED
        BY <1>1, <3>1, BuildingSteps, StepsThatBring
    <2> HIDE DEF y, manage, mode, judge, host, shot
    <2>5. /\ shots \in Seq(Builds)
          /\ \A i \in 1..n : Brought(r, shots, <<"snapshot", i>>)
      <3>1. 2 * n \in Nat /\ \A i \in 1..(2 * n) : (i + 1) \div 2 \in Nat
        OBVIOUS
      <3>2. shots \in [1..(2 * n) -> Builds]
        BY <2>4, <3>1, BuildingSteps
      <3>3. shots \in Seq(Builds)
        BY <3>1, <3>2, OneByOne
      <3>4. ASSUME NEW i \in 1..n
            PROVE  Brought(r, shots, <<"snapshot", i>>)
        <4>1. 2 * i - 1 \in 1..(2 * n) /\ (2 * i - 1) % 2 = 1 /\ ((2 * i - 1) + 1) \div 2 = i
          OBVIOUS
        <4>2. shots[2 * i - 1] = shot(i) /\ DOMAIN shots = 1..(2 * n)
          BY <4>1
        <4> HIDE DEF shots
        <4>3. QED
          BY <2>4, <4>1, <4>2 DEF Brought
      <3>5. QED
        BY <3>3, <3>4
    <2>6. <<manage>> \in Seq(Builds) /\ Brought(r, <<manage>>, y)
      <3>1. Brought(r, <<manage>>, y)
        BY <1>3, BroughtByStep
      <3>2. <<manage>> \in Seq(Builds)
        BY <1>3
      <3>3. QED
        BY <3>1, <3>2
    <2> HIDE DEF shots
    <2>7. /\ judge \o host \in Seq(Builds)
          /\ (judge \o host) \o <<manage>> \in Seq(Builds)
          /\ ((judge \o host) \o <<manage>>) \o mode \in Seq(Builds)
      BY <1>4, <2>3, <2>6, Joining
    <2>8. all \in Seq(Builds)
      BY <2>5, <2>7, Joining
    <2>9. Brought(r, (judge \o host) \o <<manage>>, y)
      BY <2>3, <2>6, <2>7, BroughtByPart
    <2>10. Brought(r, ((judge \o host) \o <<manage>>) \o mode, y)
      BY <1>4, <2>7, <2>9, BroughtByPart
    <2>11. Brought(r, all, y) /\ \A i \in 1..n : Brought(r, all, <<"snapshot", i>>)
      BY <2>5, <2>7, <2>10, BroughtByPart
    <2>12. QED
      BY <2>1, <2>2, <2>8, <2>11 DEF Built
  <1>7. CASE r.op = "ImportClusterVolume" /\ "metadata" \notin r.opt
    <2>1. Program(r, xs).steps = <<>> /\ Program(r, xs).final = <<>>
      BY <1>7 DEF Program, ImportClusterVolume, I!ImportVolume, I!Nothing, I!Silent,
                  I!Answering, I!C!Program
    <2>2. Asked(r) = {}
      BY <1>7 DEF Asked
    <2>3. QED
      BY <2>1, <2>2 DEF Built
  <1>8. QED
    BY <1>5, <1>6, <1>7

LEMMA VolumeGroupIsBuilt ==
  ASSUME NEW r, r.ended = {}, NEW xs, r.op = "CreateClusterVolumeGroup"
  PROVE  Built(r, Program(r, xs))
  <1> DEFINE y == I!group
             z == <<"group_type", 1>>
             a == I!C!Do(I!C!T!CreateVolumeGroupType, z)
             b == I!C!Do(I!C!T!CreateVolumeGroup, y)
  <1>1. \A x : Goal(r, x) = "ready"
    BY ReadyIsTheGoal
  <1>2. a \in Builds /\ Brings(r, a, z) /\ b \in Builds /\ Brings(r, b, y)
    BY <1>1, OwnObjects, CallsThatMake, BuildingSteps, StepsThatBring
  <1>3. Program(r, xs).steps = <<a, b>> /\ Program(r, xs).final = <<>>
    BY DEF Program, CreateClusterVolumeGroup, I!CreateVolumeGroup, I!Reversible, I!Answering,
           I!C!CreateVolumeGroup, I!C!Undoing, I!group
  <1>4. Asked(r) = {y, z}
    BY DEF Asked
  <1> HIDE DEF a, b, y, z
  <1>5. Brought(r, <<a, b>>, y) /\ Brought(r, <<a, b>>, z)
    BY <1>2, BroughtByStep
  <1>6. <<a, b>> \in Seq(Builds)
    BY <1>2
  <1>7. QED
    BY <1>3, <1>4, <1>5, <1>6 DEF Built

LEMMA PortsAreBuilt ==
  ASSUME NEW r, \A x : Goal(r, x) = "ready", NEW n \in Nat, NEW floating
  PROVE  /\ I!C!createPorts(n, floating) \in Seq(Builds)
         /\ \A i \in 1..n : Brought(r, I!C!createPorts(n, floating), <<"port", i>>)
  <1> DEFINE port(i) == I!C!Do(I!C!T!CreatePort, <<"port", i>>)
             first == port(1)
             assign == I!C!Do(I!C!T!UpdateFloatingIP, <<"floating_ip", 1>>)
             fix == I!C!When(floating, <<assign>>)
             more == [i \in 1..(n - 1) |-> port(i + 1)]
  <1>1. CASE n = 0
    <2>1. I!C!createPorts(n, floating) = <<>>
      BY <1>1 DEF I!C!createPorts
    <2>2. <<>> \in Seq(Builds) /\ 1..n = {}
      BY <1>1
    <2>3. QED
      BY <2>1, <2>2
  <1>2. CASE n # 0
    <2>1. I!C!createPorts(n, floating) = (<<first>> \o fix) \o more
      BY <1>2 DEF I!C!createPorts
    <2>2. ASSUME NEW i \in Nat
          PROVE  port(i) \in Builds /\ Brings(r, port(i), <<"port", i>>)
      <3>1. <<"port", i>> \in Ours /\ I!C!T!CreatePort \in Makes
        BY OwnObjects, CallsThatMake
      <3>2. QED
        BY <3>1, BuildingSteps, StepsThatBring
    <2>3. first \in Builds /\ Brings(r, first, <<"port", 1>>)
      BY <2>2
    <2>4. fix \in Seq(Builds)
      <3>1. assign \in Builds
        <4>1. <<"floating_ip", 1>> \in Ours
          BY OwnObjects DEF I!floating_ip
        <4>2. QED
          BY <4>1, CallsThatChange, BuildingSteps
      <3>2. QED
        BY <3>1, Optional
    <2> HIDE DEF first, fix, port
    <2>5. <<first>> \in Seq(Builds)
      BY <2>3
    <2>6. Brought(r, <<first>>, <<"port", 1>>)
      BY <2>3, BroughtByStep
    <2>7. n - 1 \in Nat /\ \A i \in 1..(n - 1) : i + 1 \in Nat
      BY <1>2
    <2>8. more \in Seq(Builds)
      <3>1. more \in [1..(n - 1) -> Builds]
        BY <2>2, <2>7
      <3>2. QED
        BY <2>7, <3>1, OneByOne
    <2>9. ASSUME NEW i \in 1..n, i # 1
          PROVE  Brought(r, more, <<"port", i>>)
      <3>1. i - 1 \in 1..(n - 1) /\ (i - 1) + 1 = i /\ i \in Nat
        BY <2>9
      <3>2. more[i - 1] = port(i) /\ DOMAIN more = 1..(n - 1)
        BY <3>1
      <3> HIDE DEF more
      <3>3. QED
        BY <2>2, <3>1, <3>2 DEF Brought
    <2> HIDE DEF more
    <2>10. <<first>> \o fix \in Seq(Builds) /\ (<<first>> \o fix) \o more \in Seq(Builds)
      BY <2>4, <2>5, <2>8, Joining
    <2>11. Brought(r, <<first>> \o fix, <<"port", 1>>)
      BY <2>4, <2>5, <2>6, BroughtByPart
    <2>12. \A i \in 1..n : Brought(r, (<<first>> \o fix) \o more, <<"port", i>>)
      BY <2>8, <2>9, <2>10, <2>11, BroughtByPart
    <2>13. QED
      BY <2>1, <2>10, <2>12
  <1>3. QED
    BY <1>1, <1>2

LEMMA InstanceIsBuilt ==
  ASSUME NEW r, r.ended = {}, r.n \in Nat, NEW xs, r.op = "CreateClusterInstance"
  PROVE  Built(r, Program(r, xs))
  <1> DEFINE y == I!server
             pre == I!C!PreprocessCreatingInstance
             judge == <<I!C!Judge>>
             ports == I!C!createPorts(r.n, "floating" \in r.opt)
             make == I!C!Do(I!C!T!CreateServer, y)
             show == I!C!Do(I!C!T!ShowServerDetails, y)
             last == <<make, show, I!C!Judge>>
             all == (pre \o judge) \o (ports \o last)
  <1>1. Program(r, xs).steps = all /\ Program(r, xs).final = <<>>
    BY DEF Program, CreateClusterInstance, I!CreateInstance, I!Answering, I!C!CreateInstance,
           I!C!Undoing
  <1>2. \A x : Goal(r, x) = "ready"
    BY ReadyIsTheGoal
  <1>3. /\ make \in Builds /\ Brings(r, make, y)
        /\ show \in Builds
    BY <1>2, CallsThatMake, CallsThatRead, OwnObjects, BuildingSteps, StepsThatBring
  <1>4. /\ ports \in Seq(Builds)
        /\ \A i \in 1..r.n : Brought(r, ports, <<"port", i>>)
    BY <1>2, PortsAreBuilt
  <1>5. pre \in Seq(Builds) /\ judge \in Seq(Builds)
    BY BuildingSteps DEF I!C!PreprocessCreatingInstance
  <1>6. Asked(r) = {y} \cup {<<"port", i>> : i \in 1..r.n}
    BY DEF Asked, I!Numbered
  <1> HIDE DEF y, pre, judge, ports, make, show
  <1>7. last \in Seq(Builds)
    BY <1>3, BuildingSteps
  <1>8. Brought(r, last, y)
    BY <1>3, BroughtByStep
  <1> HIDE DEF last
  <1>9. pre \o judge \in Seq(Builds) /\ ports \o last \in Seq(Builds)
    BY <1>4, <1>5, <1>7, Joining
  <1>10. all \in Seq(Builds)
    BY <1>9, Joining
  <1>11. \A x : Brought(r, ports, x) \/ Brought(r, last, x) => Brought(r, ports \o last, x)
    BY <1>4, <1>7, BroughtByPart
  <1>12. \A x : Brought(r, ports \o last, x) => Brought(r, all, x)
    BY <1>9, BroughtByPart
  <1>13. QED
    BY <1>1, <1>4, <1>6, <1>8, <1>10, <1>11, <1>12 DEF Built

-----------------------------------------------------------------------------
(* What is said of every program *)

\* Removing the object of s removes what it brings, or what goes with it.
Cascades(r, s) ==
    /\ \A x \in Goals(r) :
          (s.call.effect = "remove" /\ Brings(r, s, x)) => x = s.obj \/ s.obj = Keeper(r, x)
    /\ r.op \in {"DeleteClusterRouter", "DeleteClusterSecurityGroup"} =>
          s.call.effect \in {"read", "remove"} /\ s.call.check = T!NoCheck

\* Step k shows objects: when these are known, the rest of the program sees to x,
\* or x needs nothing. ys are all the objects that were shown so far.
Follows(r, xs, k) ==
    LET p == Program(r, xs)
        s == p.steps[k]
    IN  /\ s.call.effect \in {"read", "make"}
        /\ k = 1 \/ r.asked = {}
        /\ r.op \notin {"StartInstance", "StopClusterInstance"}
        /\ \A ys \in SUBSET r.objects, x \in Goals(r) :
              (xs \subseteq ys /\ Awaits(r, p, k - 1, x) /\ x \notin r.asked \cap r.before) =>
                  \/ Awaits(r, Program(r, ys), k, x)
                  \/ Brings(r, s, x)
                  \/ x \in r.ended /\ Keeper(r, x)[1] \in s.lists /\ Keeper(r, x) \notin ys
                  \/ x \in r.asked /\ x[1] \in s.lists /\ s.call.effect = "read" /\ x \in ys

\* What is done at last only tidies up.
Tidies(s) ==
    /\ s.call.effect = "remove" /\ s.call.check = T!NoCheck
    /\ s.failing = "warn" /\ s.lists = {} /\ s.when = <<>> /\ s.obj[1] = "port"

Tended(r, xs) ==
    LET p == Program(r, xs)
    IN  /\ \A k \in DOMAIN p.steps :
              /\ (r.op = "UpdateClusterVolumeGroup" /\ k > 1 => r.ended \subseteq xs) =>
                    Orderly(r, p, k)
              /\ Cascades(r, p.steps[k])
              /\ p.steps[k].lists # {} => Follows(r, xs, k)
        /\ p.final # <<>> => r.op = "DeleteClusterInstance"
        /\ \A j \in DOMAIN p.final : Tidies(p.final[j])
        /\ \A x \in Goals(r) :
              \/ Awaits(r, p, 0, x)
              \/ x \in r.asked \cap r.before /\ r.op \notin {"StartInstance", "StopClusterInstance"}

LEMMA StraightIsTended ==
  ASSUME NEW r, NEW xs, NEW p, p = Program(r, xs), p.final = <<>>, p.steps \in Seq(Steps),
         \A k \in DOMAIN p.steps :
            p.steps[k].lists = {} /\ Orderly(r, p, k) /\ Cascades(r, p.steps[k]),
         \A x \in Goals(r) : Brought(r, p.steps, x)
  PROVE  Tended(r, xs)
  <1>1. \A j \in DOMAIN p.steps : j > 0
    OBVIOUS
  <1>2. \A x \in Goals(r) : Awaits(r, p, 0, x)
    BY <1>1 DEF Awaits, Brought
  <1>3. QED
    BY <1>2 DEF Tended

\* What a request that only creates needs, and one that only deletes.
LEMMA NothingIsEnded ==
  ASSUME NEW r \in Requests, r.op \in Creations,
         r.op \notin {"CreateClusterSecurityGroup", "UpdateClusterVolumeGroup"}
  PROVE  r.ended = {} /\ r.op # "StopClusterInstance" /\ r.asked \subseteq Asked(r)
  BY GoalsAssumption DEF Ended, Creations

LEMMA NothingIsAsked ==
  ASSUME NEW r \in Requests, r.op \in Alterations,
         r.op \notin {"StartInstance", "StopClusterInstance"}
  PROVE  r.asked = {} /\ Goals(r) = r.ended /\ r.ended \subseteq Ended(r)
  BY GoalsAssumption DEF Asked, Alterations, Goals

LEMMA BuiltIsTended ==
  ASSUME NEW r \in Requests, r.op \in Creations,
         r.op \notin {"CreateClusterSecurityGroup", "UpdateClusterVolumeGroup"},
         NEW xs, Built(r, Program(r, xs))
  PROVE  Tended(r, xs)
  <1> DEFINE p == Program(r, xs)
  <1>1. r.ended = {} /\ r.op # "StopClusterInstance" /\ r.asked \subseteq Asked(r)
    BY NothingIsEnded
  <1>2. p.steps \in Seq(Builds) /\ p.final = <<>> /\ \A x \in Asked(r) : Brought(r, p.steps, x)
    BY DEF Built
  <1> HIDE DEF p
  <1>3. \A k \in DOMAIN p.steps : Orderly(r, p, k)
    BY <1>1, <1>2, BuildsAreOrderly
  <1>4. ASSUME NEW s \in Builds
        PROVE  s \in Steps /\ s.lists = {} /\ Cascades(r, s)
    BY DEF Builds, Cascades, Creations
  <1>5. p.steps \in Seq(Steps) /\ \A k \in DOMAIN p.steps : p.steps[k] \in Builds
    <2>1. Builds \subseteq Steps
      BY DEF Builds
    <2>2. QED
      BY <1>2, <2>1
  <1>6. \A x \in Goals(r) : Brought(r, p.steps, x)
    BY <1>1, <1>2 DEF Goals
  <1>7. p = Program(r, xs)
    BY DEF p
  <1>8. QED
    BY <1>2, <1>3, <1>4, <1>5, <1>6, <1>7, StraightIsTended

LEMMA CreationsAreTended ==
  ASSUME NEW r \in Requests, r.op \in Creations,
         r.op \notin {"CreateClusterSecurityGroup", "UpdateClusterVolumeGroup"}, NEW xs
  PROVE  Tended(r, xs)
  <1>1. r.ended = {} /\ r.n \in Nat
    BY NothingIsEnded, RequestsAssumption
  <1>2. Built(r, Program(r, xs))
    BY <1>1, ShortCreations, TenantIsBuilt, RouterIsBuilt, VolumeIsBuilt, VolumeGroupIsBuilt,
       InstanceIsBuilt DEF Creations
  <1>3. QED
    BY <1>2, BuiltIsTended

\* A server is started or stopped by one request.
LEMMA TurningOnAndOff ==
  ASSUME NEW r \in Requests, r.op \in {"StartInstance", "StopClusterInstance"}, NEW xs
  PROVE  Tended(r, xs)
  <1> DEFINE p == Program(r, xs)
             c == IF r.op = "StartInstance" THEN I!C!T!StartServer ELSE I!C!T!StopServer
             s == I!C!Do(c, I!server)
  <1>1. r.ended = {} /\ r.asked \subseteq {I!server}
    BY GoalsAssumption DEF Asked, Ended
  <1>2. p.steps = <<s>> /\ p.final = <<>>
    BY DEF Program, StopClusterInstance, I!StartInstance, I!StopInstance, I!Silent, I!Answering,
           I!C!StartInstance, I!C!StopInstance, I!C!Program
  <1>3. c \in Changes /\ I!server \in Ours
    BY CallsThatChange, OwnObjects DEF Settings
  <1>4. c.effect = "change" /\ c.check # T!NoCheck
        /\ c.check.done = IF r.op = "StartInstance" THEN {"ready"} ELSE {"off"}
    <2>1. T!NoCheck.done = {}
      BY NoCheckDone
    <2>2. I!C!T!StartServer.effect = "change" /\ I!C!T!StartServer.check.done = {"ready"}
      BY DEF I!C!T!StartServer, I!C!T!Change, I!C!T!Call, I!C!T!checkInstanceStarted, I!C!T!Until
    <2>3. I!C!T!StopServer.effect = "change" /\ I!C!T!StopServer.check.done = {"off"}
      BY DEF I!C!T!StopServer, I!C!T!Change, I!C!T!Call, I!C!T!checkInstanceStopped, I!C!T!Until
    <2>4. QED
      BY <2>1, <2>2, <2>3
  <1>5. s \in Steps
    BY <1>3, WritingSteps, GentleIsOrderly DEF Writes, Reactions
  <1>6. s.call = c /\ s.obj = I!server /\ s.lists = {} /\ s.adds = {} /\ s.drops = {}
        /\ s.when = <<>> /\ s.failing = "return"
    BY DEF I!C!Do, I!C!Step
  <1> HIDE DEF c, s, p
  <1>7. \A x \in Goals(r) : x = I!server /\ Brings(r, s, x)
    BY <1>1, <1>4, <1>6 DEF Goals, Goal, Brings
  <1>8. \A x \in Goals(r) : Brought(r, p.steps, x)
    BY <1>2, <1>7, BroughtByStep
  <1>9. p.steps \in Seq(Steps) /\ DOMAIN p.steps = {1} /\ p.steps[1] = s
    BY <1>2, <1>5
  <1>10. Orderly(r, p, 1)
    BY <1>6, <1>7, <1>9 DEF Orderly, Pardonable
  <1>11. Cascades(r, s)
    BY <1>4, <1>6 DEF Cascades
  <1>12. p = Program(r, xs)
    BY DEF p
  <1>13. QED
    BY <1>2, <1>6, <1>8, <1>9, <1>10, <1>11, <1>12, StraightIsTended

-----------------------------------------------------------------------------
(* Deletions that consist of one step after another *)

\* Everything to be deleted is removed, by steps that only read and remove.
Erased(r, p) ==
    /\ p.steps \in Seq(Erases) /\ p.final = <<>>
    /\ \A x \in r.ended : Brought(r, p.steps, x)

LEMMA OneIsErased ==
  ASSUME NEW r, NEW c \in Removes, NEW y \in Ours, r.ended \subseteq {y}, NEW p, p.final = <<>>,
         \/ p.steps = <<I!C!Do(c, y)>>
         \/ \E s \in Erases : p.steps = <<I!C!Do(c, y), s>> \/ p.steps = <<s, I!C!Do(c, y)>>
  PROVE  Erased(r, p)
  <1> DEFINE remove == I!C!Do(c, y)
  <1>1. remove \in Erases /\ \A x \in r.ended : Brings(r, remove, x)
    BY ErasingSteps, StepsThatBring DEF Writes
  <1> HIDE DEF remove
  <1>2. CASE p.steps = <<remove>>
    <2>1. \A x \in r.ended : Brought(r, <<remove>>, x)
      BY <1>1, BroughtByStep
    <2>2. <<remove>> \in Seq(Erases)
      BY <1>1
    <2>3. QED
      BY <1>2, <2>1, <2>2 DEF Erased
  <1>3. ASSUME NEW s \in Erases, p.steps = <<remove, s>> \/ p.steps = <<s, remove>>
        PROVE  Erased(r, p)
    <2>1. \A x \in r.ended : Brought(r, <<remove, s>>, x) /\ Brought(r, <<s, remove>>, x)
      BY <1>1, BroughtByStep
    <2>2. <<remove, s>> \in Seq(Erases) /\ <<s, remove>> \in Seq(Erases)
      BY <1>1, <1>3
    <2>3. QED
      BY <1>3, <2>1, <2>2 DEF Erased
  <1>4. QED
    BY <1>2, <1>3 DEF remove

LEMMA TwoInOrder ==
  ASSUME NEW S, NEW u \in Seq(S), NEW v \in Seq(S), NEW w \in Seq(S),
         Len(u) = 1, Len(v) = 1, Len(w) = 2, w[1] = u[1], w[2] = v[1]
  PROVE  u \o v = w
  <1>1. u \o v \in Seq(S) /\ Len(u \o v) = 2
    BY SMTT(60)
  <1>2. (u \o v)[1] = u[1] /\ (u \o v)[2] = v[1]
    <2> DEFINE c == u \o v
    <2>1. \A i \in 1..(Len(u) + Len(v)) : c[i] = IF i <= Len(u) THEN u[i] ELSE v[i - Len(u)]
      BY ConcatProperties
    <2> HIDE DEF c
    <2>2. c[1] = u[1] /\ c[2] = v[1]
      BY <2>1
    <2>3. QED
      BY <2>2 DEF c
  <1>3. \A i \in 1..Len(u \o v) : (u \o v)[i] = w[i]
    BY <1>1, <1>2
  <1>4. QED
    BY <1>1, <1>3, SeqEqual

LEMMA OneThenAnother ==
  ASSUME NEW s, NEW t
  PROVE  <<s>> \o <<t>> = <<s, t>>
  <1> DEFINE u == <<s>>
             v == <<t>>
             w == <<s, t>>
  <1>1. /\ u \in Seq({s, t}) /\ Len(u) = 1 /\ u[1] = s
        /\ v \in Seq({s, t}) /\ Len(v) = 1 /\ v[1] = t
    OBVIOUS
  <1>2. w \in Seq({s, t}) /\ Len(w) = 2 /\ w[1] = s /\ w[2] = t
    OBVIOUS
  <1> HIDE DEF u, v, w
  <1>3. u \o v = w
    BY <1>1, <1>2, TwoInOrder
  <1>4. QED
    BY <1>3 DEF u, v, w

LEMMA ShortDeletions ==
  ASSUME NEW r \in Requests, NEW xs,
         r.op \in {"DeleteClusterNetwork", "DeleteSubnet", "DeleteClusterFloatingIP",
                   "DeleteVolume", "DeleteVolumeSnapshot", "DeleteClusterVolumeGroupSnapshot",
                   "DeleteClusterInstanceSpec", "DeleteClusterKeypair"}
  PROVE  Erased(r, Program(r, xs))
  <1> DEFINE p == Program(r, xs)
  <1>1. r.ended \subseteq Ended(r)
    BY GoalsAssumption
  <1>2. ASSUME NEW c \in Removes, NEW y \in Ours, Ended(r) = {y}, p.final = <<>>,
               \/ p.steps = <<I!C!Do(c, y)>>
               \/ \E s \in Erases : p.steps = <<I!C!Do(c, y), s>> \/ p.steps = <<s, I!C!Do(c, y)>>
        PROVE  Erased(r, p)
    BY <1>1, <1>2, OneIsErased
  <1>3. CASE r.op = "DeleteClusterNetwork"
    <2>1. p.steps = <<I!C!Do(I!C!T!DeleteNetwork, I!network)>> /\ p.final = <<>>
      BY <1>3 DEF Program, DeleteClusterNetwork, I!DeleteNetwork, I!Silent, I!Answering,
                  I!C!DeleteNetwork, I!C!Program
    <2>2. Ended(r) = {I!network}
      BY <1>3 DEF Ended
    <2>3. I!C!T!DeleteNetwork \in Removes /\ I!network \in Ours
      BY CallsThatRemove, OwnObjects
    <2> HIDE DEF p
    <2>4. QED
      BY <1>2, <2>1, <2>2, <2>3 DEF p
  <1>4. CASE r.op = "DeleteSubnet"
    <2>1. p.steps = <<I!C!Do(I!C!T!DeleteSubnet, I!subnet)>> /\ p.final = <<>>
      BY <1>4 DEF Program, I!DeleteSubnet, I!Silent, I!Answering, I!C!DeleteSubnet, I!C!Program
    <2>2. Ended(r) = {I!subnet}
      BY <1>4 DEF Ended
    <2>3. I!C!T!DeleteSubnet \in Removes /\ I!subnet \in Ours
      BY CallsThatRemove, OwnObjects
    <2> HIDE DEF p
    <2>4. QED
      BY <1>2, <2>1, <2>2, <2>3 DEF p
  <1>5. CASE r.op = "DeleteClusterFloatingIP"
    <2>1. p.steps = <<I!C!Do(I!C!T!DeleteFloatingIP, I!floating_ip)>> /\ p.final = <<>>
      BY <1>5 DEF Program, DeleteClusterFloatingIP, I!DeleteFloatingIP, I!Silent, I!Answering,
                  I!C!DeleteFloatingIP, I!C!Program
    <2>2. Ended(r) = {I!floating_ip}
      BY <1>5 DEF Ended
    <2>3. I!C!T!DeleteFloatingIP \in Removes /\ I!floating_ip \in Ours
      BY CallsThatRemove, OwnObjects
    <2> HIDE DEF p
    <2>4. QED
      BY <1>2, <2>1, <2>2, <2>3 DEF p
  <1>6. CASE r.op = "DeleteVolume"
    <2>1. p.steps = <<I!C!Do(I!C!T!DeleteVolume, I!volume)>> /\ p.final = <<>>
      BY <1>6 DEF Program, I!DeleteVolume, I!Silent, I!Answering, I!C!DeleteVolume, I!C!Program
    <2>2. Ended(r) = {I!volume}
      BY <1>6 DEF Ended
    <2>3. I!C!T!DeleteVolume \in Removes /\ I!volume \in Ours
      BY CallsThatRemove, OwnObjects
    <2> HIDE DEF p
    <2>4. QED
      BY <1>2, <2>1, <2>2, <2>3 DEF p
  <1>7. CASE r.op = "DeleteVolumeSnapshot"
    <2>1. p.steps = <<I!C!Do(I!C!T!DeleteVolumeSnapshot, I!snapshot)>> /\ p.final = <<>>
      BY <1>7 DEF Program, I!DeleteVolumeSnapshot, I!Silent, I!Answering,
                  I!C!DeleteVolumeSnapshot, I!C!Program
    <2>2. Ended(r) = {I!snapshot}
      BY <1>7 DEF Ended
    <2>3. I!C!T!DeleteVolumeSnapshot \in Removes /\ I!snapshot \in Ours
      BY CallsThatRemove, OwnObjects
    <2> HIDE DEF p
    <2>4. QED
      BY <1>2, <2>1, <2>2, <2>3 DEF p
  <1>8. CASE r.op = "DeleteClusterVolumeGroupSnapshot"
    <2> DEFINE remove == I!C!Do(I!C!T!DeleteVolumeGroupSnapshot, I!group_snapshot)
    <2>1. p.steps = <<I!C!Judge>> \o <<remove>> /\ p.final = <<>>
      BY <1>8 DEF Program, DeleteClusterVolumeGroupSnapshot, I!DeleteVolumeGroupSnapshot,
                  I!Silent, I!Answering, I!C!DeleteVolumeGroupSnapshot, I!C!Program
    <2> HIDE DEF p, remove
    <2>4. p.steps = <<I!C!Judge, remove>>
      BY <2>1, OneThenAnother
    <2>5. Ended(r) = {I!group_snapshot}
      BY <1>8 DEF Ended
    <2>6. I!C!T!DeleteVolumeGroupSnapshot \in Removes /\ I!group_snapshot \in Ours
      BY CallsThatRemove, OwnObjects
    <2>7. QED
      BY <1>2, <2>1, <2>4, <2>5, <2>6, ErasingSteps DEF p, remove
  <1>9. CASE r.op = "DeleteClusterInstanceSpec"
    <2> DEFINE remove == I!C!Do(I!C!T!DeleteFlavor, I!flavor)
               show == I!C!Try(I!C!T!ShowFlavorDetails, I!flavor)
    <2>1. p.steps = <<remove>> \o <<show>> /\ p.final = <<>>
      BY <1>9 DEF Program, DeleteClusterInstanceSpec, I!DeleteInstanceSpec, I!Silent,
                  I!Answering, I!C!DeleteInstanceSpec, I!C!Program
    <2>2. Ended(r) = {I!flavor}
      BY <1>9 DEF Ended
    <2>3. I!C!T!DeleteFlavor \in Removes /\ I!flavor \in Ours
      BY CallsThatRemove, OwnObjects
    <2>4. show \in Erases
      BY CallsThatRead, OwnObjects, ErasingSteps
    <2> HIDE DEF p, remove, show
    <2>5. p.steps = <<remove, show>>
      BY <2>1, OneThenAnother
    <2>6. QED
      BY <1>2, <2>1, <2>2, <2>3, <2>4, <2>5 DEF p, remove
  <1>10. CASE r.op = "DeleteClusterKeypair"
    <2>1. p.steps = <<I!C!Do(I!C!T!DeleteKeypair, I!keypair)>> /\ p.final = <<>>
      BY <1>10 DEF Program, DeleteClusterKeypair, I!DeleteKeypair, I!Silent, I!Answering,
                   I!C!DeleteKeypair, I!C!Program
    <2>2. Ended(r) = {I!keypair}
      BY <1>10 DEF Ended
    <2>3. I!C!T!DeleteKeypair \in Removes /\ I!keypair \in Ours
      BY CallsThatRemove, OwnObjects
    <2> HIDE DEF p
    <2>4. QED
      BY <1>2, <2>1, <2>2, <2>3 DEF p
  <1>11. QED
    BY <1>3, <1>4, <1>5, <1>6, <1>7, <1>8, <1>9, <1>10

\* Of most requests nothing goes with something else.
LEMMA DeletionsCascade ==
  ASSUME NEW r \in Requests, r.op \in Alterations,
         r.op \notin {"StartInstance", "StopClusterInstance", "DeleteClusterRouter",
                      "DeleteClusterSecurityGroup", "DeleteClusterInstance"},
         NEW s
  PROVE  Cascades(r, s)
  <1>1. Goals(r) \subseteq Ended(r)
    BY NothingIsAsked
  <1>2. \A x \in Goals(r) : x[1] \notin {"port", "rule"}
    <2>1. \A x \in I!Numbered("snapshot", r.n) : x[1] = "snapshot"
      BY DEF I!Numbered
    <2>2. ASSUME NEW x \in Ended(r)
          PROVE  x[1] \notin {"port", "rule"}
      BY <2>1, <2>2
         DEF Ended, Alterations, I!project, I!network, I!subnet, I!floating_ip, I!volume,
             I!snapshot, I!group, I!group_snapshot, I!flavor, I!keypair
    <2>3. QED
      BY <1>1, <2>2
  <1>3. \A x \in Goals(r) : x \notin GoesWith(s.obj)
    BY <1>2 DEF GoesWith, I!Numbered
  <1>4. QED
    BY <1>3 DEF Cascades, Brings

LEMMA ErasedIsTended ==
  ASSUME NEW r \in Requests, r.op \in Alterations,
         r.op \notin {"StartInstance", "StopClusterInstance"},
         NEW xs, Erased(r, Program(r, xs)),
         \A k \in DOMAIN Program(r, xs).steps : Cascades(r, Program(r, xs).steps[k])
  PROVE  Tended(r, xs)
  <1> DEFINE p == Program(r, xs)
  <1>1. p.steps \in Seq(Erases) /\ p.final = <<>> /\ \A x \in r.ended : Brought(r, p.steps, x)
    BY DEF Erased
  <1>2. \A k \in DOMAIN p.steps : Cascades(r, p.steps[k])
    OBVIOUS
  <1>3. p = Program(r, xs)
    OBVIOUS
  <1> HIDE DEF p
  <1>4. \A k \in DOMAIN p.steps : p.steps[k] \in Erases
    BY <1>1
  <1>5. r.asked = {} /\ Goals(r) = r.ended
    BY NothingIsAsked
  <1>6. \A k \in DOMAIN p.steps : Orderly(r, p, k)
    BY <1>4, <1>5, ErasesAreOrderly
  <1>7. p.steps \in Seq(Steps)
    <2>1. Erases \subseteq Steps
      BY DEF Erases, Gentle
    <2>2. QED
      BY <1>1, <2>1
  <1>8. \A k \in DOMAIN p.steps : p.steps[k].lists = {}
    BY <1>4 DEF Erases
  <1>9. QED
    BY <1>1, <1>2, <1>3, <1>5, <1>6, <1>7, <1>8, StraightIsTended

LEMMA ShortDeletionsAreTended ==
  ASSUME NEW r \in Requests, NEW xs,
         r.op \in {"DeleteClusterNetwork", "DeleteSubnet", "DeleteClusterFloatingIP",
                   "DeleteVolume", "DeleteVolumeSnapshot", "DeleteClusterVolumeGroupSnapshot",
                   "DeleteClusterInstanceSpec", "DeleteClusterKeypair"}
  PROVE  Tended(r, xs)
  <1>1. r.op \in Alterations
    BY DEF Alterations
  <1>2. \A s : Cascades(r, s)
    BY <1>1, DeletionsCascade
  <1>3. QED
    BY <1>1, <1>2, ShortDeletions, ErasedIsTended

\* A security group takes along the rules that were not removed before.
LEMMA SecurityGroupIsTended ==
  ASSUME NEW r \in Requests, NEW xs, r.op = "DeleteClusterSecurityGroup"
  PROVE  Tended(r, xs)
  <1> DEFINE p == Program(r, xs)
             g == I!security_group
             last == I!C!Do(I!C!T!DeleteSecurityGroup, g)
             rule == I!C!T!DeleteSecurityGroupRule
             rules == I!Numbered("rule", r.n)
             first == I!C!Each(rule, rules)
             S == {s \in Erases : Cascades(r, s)}
  <1>1. r.op \in Alterations /\ r.n \in Nat
    BY RequestsAssumption DEF Alterations
  <1>2. r.asked = {} /\ Goals(r) = r.ended /\ r.ended \subseteq Ended(r)
    BY <1>1, NothingIsAsked
  <1>3. Ended(r) = {g} \cup I!Numbered("rule", 3)
    BY DEF Ended
  <1>4. p.steps = first \o <<last>> /\ p.final = <<>>
    BY DEF Program, DeleteClusterSecurityGroup, I!DeleteSecurityGroup, I!Silent, I!Answering,
           I!C!DeleteSecurityGroup, I!C!Program
  <1>5. rule \in Removes /\ rule.check = T!NoCheck /\ rule.effect = "remove"
    BY CallsThatRemove, NoCheckDone
       DEF I!C!T!DeleteSecurityGroupRule, I!C!T!Remove, I!C!T!Call
  <1>6. I!C!T!DeleteSecurityGroup \in Removes
        /\ last.call.check = T!NoCheck /\ last.call.effect = "remove" /\ last.obj = g
    BY CallsThatRemove, NoCheckDone
       DEF I!C!T!DeleteSecurityGroup, I!C!T!Remove, I!C!T!Call, I!C!Do, I!C!Step
  <1>7. last \in Erases
    BY <1>6, OwnObjects, ErasingSteps DEF Writes
  <1>8. GoesWith(g) = I!Numbered("rule", 3)
    BY DEF GoesWith, I!security_group
  <1>9. \A x \in r.ended : Brings(r, last, x)
    <2>1. \A x \in r.ended : x = g \/ x \in GoesWith(g)
      BY <1>2, <1>3, <1>8
    <2>2. last.call.check.done = {}
      BY <1>6, NoCheckDone
    <2> HIDE DEF last
    <2>3. QED
      BY <1>6, <2>1, <2>2 DEF Brings, Goal
  <1>10. Cascades(r, last)
    <2>1. ASSUME NEW x \in Goals(r)
          PROVE  x = g \/ Keeper(r, x) = g
      <3>1. x = g \/ x[1] = "rule"
        BY <1>2, <1>3 DEF I!Numbered
      <3>2. QED
        BY <3>1 DEF Keeper
    <2> HIDE DEF last, g
    <2>2. QED
      BY <1>6, <2>1 DEF Cascades
  <1>11. ASSUME NEW y \in rules
         PROVE  I!C!Do(rule, y) \in S
    <2>1. y \in Ours /\ y[1] = "rule"
      BY <1>1, OwnRules DEF I!Numbered
    <2> DEFINE s == I!C!Do(rule, y)
    <2>2. s.call = rule /\ s.obj = y
      BY DEF I!C!Do, I!C!Step
    <2>3. s \in Erases
      BY <1>5, <2>1, ErasingSteps DEF Writes
    <2> HIDE DEF s, rule
    <2>4. GoesWith(y) = {}
      BY <2>1 DEF GoesWith
    <2>5. Cascades(r, s)
      BY <1>5, <2>2, <2>4 DEF Cascades, Brings
    <2>6. QED
      BY <2>3, <2>5 DEF s
  <1>12. IsFiniteSet(rules)
    BY <1>1, NumberedFinite
  <1> HIDE DEF p, last, rule, rules
  <1>13. first \in Seq(S)
    BY <1>11, <1>12, EachIn
  <1> HIDE DEF first
  <1>14. <<last>> \in Seq(S)
    BY <1>7, <1>10
  <1>15. p.steps \in Seq(S)
    BY <1>4, <1>13, <1>14, Joining
  <1>16. p.steps \in Seq(Erases) /\ \A k \in DOMAIN p.steps : Cascades(r, p.steps[k])
    <2>1. S \subseteq Erases /\ \A s \in S : Cascades(r, s)
      OBVIOUS
    <2> HIDE DEF S
    <2>2. QED
      BY <1>15, <2>1
  <1>17. \A x \in r.ended : Brought(r, p.steps, x)
    <2>1. \A x \in r.ended : Brought(r, <<last>>, x)
      BY <1>9, BroughtByStep
    <2>2. QED
      BY <1>4, <1>13, <1>14, <2>1, BroughtByPart
  <1>18. Erased(r, p)
    BY <1>4, <1>16, <1>17 DEF Erased
  <1>19. QED
    BY <1>1, <1>16, <1>18, ErasedIsTended DEF p

-----------------------------------------------------------------------------
(* Requests that do nothing, or nothing yet *)

LEMMA IdleRequestsAreTended ==
  ASSUME NEW r \in Requests, NEW xs,
         \/ r.op \in {"CopyVolume", "DeleteVolumeCopy", "CreateClusterVolumeGroupSnapshot",
                      "CopyClusterVolume", "DeleteClusterVolumeCopy", "DeleteClusterVolume"}
         \/ r.op = "UnmanageClusterVolume" /\ "metadata" \notin r.opt
  PROVE  Tended(r, xs)
  <1> DEFINE p == Program(r, xs)
  <1>1. r.op \in Alterations
    BY DEF Alterations
  <1>2. r.ended = {}
    BY GoalsAssumption DEF Ended
  <1>3. p.final = <<>> /\ (p.steps = <<>> \/ p.steps = <<I!C!Judge>> \o <<>>)
    BY DEF Program, I!CopyVolume, I!DeleteVolumeCopy, CreateClusterVolumeGroupSnapshot,
           CopyClusterVolume, DeleteClusterVolumeCopy, DeleteClusterVolume,
           UnmanageClusterVolume, I!UnmanageVolume, I!Nothing, I!Silent, I!Answering,
           I!C!CopyVolume, I!C!DeleteVolumeCopy, I!C!copyCEPH, I!C!deleteCopyCEPH, I!C!Program
  <1> HIDE DEF p
  <1>4. <<I!C!Judge>> \in Seq(Erases) /\ <<>> \in Seq(Erases)
    BY ErasingSteps
  <1>5. p.steps \in Seq(Erases)
    BY <1>3, <1>4, Joining
  <1>6. Erased(r, p)
    BY <1>2, <1>3, <1>5 DEF Erased
  <1>7. \A s : Cascades(r, s)
    BY <1>1, DeletionsCascade
  <1>8. QED
    BY <1>1, <1>6, <1>7, ErasedIsTended DEF p

-----------------------------------------------------------------------------
(* Programs that begin by asking: what follows depends on the answers *)

LEMMA TwoParts ==
  ASSUME NEW S, NEW h \in Seq(S), NEW t \in Seq(S)
  PROVE  /\ \A k \in DOMAIN h : k \in DOMAIN (h \o t) /\ (h \o t)[k] = h[k]
         /\ \A k \in DOMAIN t : Len(h) + k \in DOMAIN (h \o t) /\ (h \o t)[Len(h) + k] = t[k]
         /\ \A k \in DOMAIN (h \o t) :
               k \in DOMAIN h \/ \E j \in DOMAIN t : k = Len(h) + j
  <1> DEFINE c == h \o t
  <1>1. /\ Len(h) \in Nat /\ DOMAIN h = 1..Len(h)
        /\ Len(t) \in Nat /\ DOMAIN t = 1..Len(t)
    OBVIOUS
  <1>2. DOMAIN c = 1..(Len(h) + Len(t))
    OBVIOUS
  <1>3. \A i \in 1..(Len(h) + Len(t)) : c[i] = IF i <= Len(h) THEN h[i] ELSE t[i - Len(h)]
    BY ConcatProperties
  <1> HIDE DEF c
  <1>4. \A k \in DOMAIN h : k \in DOMAIN c /\ c[k] = h[k]
    BY <1>1, <1>2, <1>3
  <1>5. ASSUME NEW k \in DOMAIN t
        PROVE  Len(h) + k \in DOMAIN c /\ c[Len(h) + k] = t[k]
    <2>1. (Len(h) + k) - Len(h) = k /\ ~(Len(h) + k <= Len(h))
      BY <1>1
    <2>2. QED
      BY <1>1, <1>2, <1>3, <2>1
  <1>6. ASSUME NEW k \in DOMAIN c, k \notin DOMAIN h
        PROVE  \E j \in DOMAIN t : k = Len(h) + j
    <2>1. k - Len(h) \in DOMAIN t /\ k = Len(h) + (k - Len(h))
      BY <1>1, <1>2, <1>6
    <2>2. QED
      BY <2>1
  <1>7. QED
    BY <1>4, <1>5, <1>6 DEF c

\* After step k of the head, the rest of the head and the tail are to come.
LEMMA HeadAndTail ==
  ASSUME NEW h \in Seq(Steps), NEW t \in Seq(Erases), NEW p, p.steps = h \o t, NEW r, NEW x,
         NEW k \in 0..Len(h)
  PROVE  Awaits(r, p, k, x) <=>
            \/ \E j \in DOMAIN h : j > k /\ (Brings(r, h[j], x) \/ Names(h[j], x))
            \/ Brought(r, t, x) \/ Brought(r, p.final, x)
  <1>1. t \in Seq(Steps) /\ \A j \in DOMAIN t : t[j].lists = {}
    <2>1. Erases \subseteq Steps /\ \A s \in Erases : s.lists = {}
      BY DEF Erases, Gentle
    <2>2. QED
      BY <2>1
  <1>2. \A j \in DOMAIN t : ~Names(t[j], x)
    BY <1>1 DEF Names
  <1> DEFINE c == h \o t
  <1>3. /\ \A j \in DOMAIN h : j \in DOMAIN c /\ c[j] = h[j]
        /\ \A j \in DOMAIN t : Len(h) + j \in DOMAIN c /\ c[Len(h) + j] = t[j]
        /\ \A i \in DOMAIN c : i \in DOMAIN h \/ \E j \in DOMAIN t : i = Len(h) + j
    BY <1>1, TwoParts
  <1>4. \A j \in DOMAIN t : Len(h) + j > k
    OBVIOUS
  <1> HIDE DEF c
  <1>5. ASSUME Awaits(r, p, k, x)
        PROVE  \/ \E j \in DOMAIN h : j > k /\ (Brings(r, h[j], x) \/ Names(h[j], x))
               \/ Brought(r, t, x) \/ Brought(r, p.final, x)
    <2>1. CASE \E j \in DOMAIN p.final : Brings(r, p.final[j], x)
      BY <2>1 DEF Brought
    <2>2. CASE \E i \in DOMAIN c : i > k /\ (Brings(r, c[i], x) \/ Names(c[i], x))
      <3>1. PICK i \in DOMAIN c : i > k /\ (Brings(r, c[i], x) \/ Names(c[i], x))
        BY <2>2
      <3>2. CASE i \in DOMAIN h
        BY <1>3, <3>1, <3>2
      <3>3. ASSUME NEW j \in DOMAIN t, i = Len(h) + j
            PROVE  Brought(r, t, x)
        BY <1>2, <1>3, <3>1, <3>3 DEF Brought
      <3>4. QED
        BY <1>3, <3>2, <3>3
    <2>3. QED
      BY <1>5, <2>1, <2>2 DEF Awaits, c
  <1>6. ASSUME NEW j \in DOMAIN h, j > k, Brings(r, h[j], x) \/ Names(h[j], x)
        PROVE  Awaits(r, p, k, x)
    BY <1>3, <1>6 DEF Awaits, c
  <1>7. ASSUME Brought(r, t, x)
        PROVE  Awaits(r, p, k, x)
    <2>1. PICK j \in DOMAIN t : Brings(r, t[j], x)
      BY <1>7 DEF Brought
    <2>2. Len(h) + j \in DOMAIN p.steps /\ p.steps[Len(h) + j] = t[j] /\ Len(h) + j > k
      BY <1>3, <1>4 DEF c
    <2>3. QED
      BY <2>1, <2>2 DEF Awaits
  <1>8. Brought(r, p.final, x) => Awaits(r, p, k, x)
    BY DEF Brought, Awaits
  <1>9. QED
    BY <1>5, <1>6, <1>7, <1>8

\* What is brought after the questions have been asked.
Ends(r, t, p, x) == Brought(r, t, x) \/ Brought(r, p.final, x)

\* A deletion that begins by asking. ts is what follows, for all that may be shown:
\* the more is shown, the more is removed, and what was asked for and is not shown
\* needs no removal.
LEMMA HeadedIsTended ==
  ASSUME NEW r \in Requests, r.op \in Alterations,
         r.op \notin {"StartInstance", "StopClusterInstance"},
         NEW h \in Seq(Gentle), NEW ts,
         \A k \in DOMAIN h : h[k].when = <<>> /\ (h[k].lists # {} => h[k].call.effect = "read"),
         \A ys \in SUBSET r.objects :
            Program(r, ys).steps = h \o ts[ys] /\ ts[ys] \in Seq(Erases),
         NEW xs \in SUBSET r.objects,
         Program(r, xs).final # <<>> => r.op = "DeleteClusterInstance",
         \A j \in DOMAIN Program(r, xs).final : Tidies(Program(r, xs).final[j]),
         \A k \in DOMAIN h : Pardonable(r, Program(r, xs), k),
         \A k \in DOMAIN h : Cascades(r, h[k]),
         \A k \in DOMAIN ts[xs] : Cascades(r, ts[xs][k]),
         \A ys \in SUBSET r.objects, x \in Goals(r) :
            (xs \subseteq ys /\ Ends(r, ts[xs], Program(r, xs), x)) =>
                Ends(r, ts[ys], Program(r, ys), x),
         \A ys \in SUBSET r.objects, x \in Goals(r), k \in DOMAIN h :
            Names(h[k], x) => \/ Keeper(r, x)[1] \in h[k].lists /\ Keeper(r, x) \notin ys
                              \/ Ends(r, ts[ys], Program(r, ys), x),
         \A x \in Goals(r) : \/ Ends(r, ts[xs], Program(r, xs), x)
                             \/ \E k \in DOMAIN h : Brings(r, h[k], x) \/ Names(h[k], x)
  PROVE  Tended(r, xs)
  <1> DEFINE p == Program(r, xs)
             t == ts[xs]
  <1>1. r.asked = {} /\ Goals(r) = r.ended
    BY NothingIsAsked
  <1>2. h \in Seq(Steps) /\ p.steps = h \o t /\ t \in Seq(Erases) /\ t \in Seq(Steps)
    <2>1. Gentle \subseteq Steps /\ Erases \subseteq Steps
      BY DEF Gentle, Erases
    <2>2. Seq(Gentle) \subseteq Seq(Steps) /\ Seq(Erases) \subseteq Seq(Steps)
      BY <2>1
    <2>3. QED
      BY <2>2
  <1>3. /\ \A k \in DOMAIN h : k \in DOMAIN p.steps /\ p.steps[k] = h[k]
        /\ \A j \in DOMAIN t : Len(h) + j \in DOMAIN p.steps /\ p.steps[Len(h) + j] = t[j]
        /\ \A k \in DOMAIN p.steps : k \in DOMAIN h \/ \E j \in DOMAIN t : k = Len(h) + j
    BY <1>2, TwoParts
  <1>4. p = Program(r, xs)
    OBVIOUS
  <1>5. \A x \in Goals(r) : \/ Ends(r, t, p, x)
                            \/ \E k \in DOMAIN h : Brings(r, h[k], x) \/ Names(h[k], x)
    OBVIOUS
  <1>6. \A ys \in SUBSET r.objects, x \in Goals(r) :
            (xs \subseteq ys /\ Ends(r, t, p, x)) => Ends(r, ts[ys], Program(r, ys), x)
    OBVIOUS
  <1>7. /\ \A k \in DOMAIN h : Pardonable(r, p, k)
        /\ p.final # <<>> => r.op = "DeleteClusterInstance"
        /\ \A j \in DOMAIN p.final : Tidies(p.final[j])
        /\ \A k \in DOMAIN t : Cascades(r, t[k])
    OBVIOUS
  <1> HIDE DEF p, t
  <1>8. \A j \in DOMAIN t : t[j] \in Erases
    BY <1>2
  <1>9. \A k \in DOMAIN h : h[k] \in Gentle
    OBVIOUS
  <1>10. ASSUME NEW k \in DOMAIN h
         PROVE  Orderly(r, p, k)
    <2>1. \A x \in Goals(r) : ~Spoils(r, h[k], x)
      BY <1>1, <1>9, GentleSpoilsNothing
    <2>2. QED
      BY <1>3, <1>7, <2>1 DEF Orderly
  <1>11. ASSUME NEW k \in DOMAIN h, h[k].lists # {}
         PROVE  Follows(r, xs, k)
    <2>1. p.steps[k] = h[k] /\ h[k].call.effect = "read"
      BY <1>3, <1>11
    <2>2. ASSUME NEW ys \in SUBSET r.objects, NEW x \in Goals(r), xs \subseteq ys,
                 Awaits(r, p, k - 1, x)
          PROVE  \/ Awaits(r, Program(r, ys), k, x)
                 \/ x \in r.ended /\ Keeper(r, x)[1] \in h[k].lists /\ Keeper(r, x) \notin ys
      <3> DEFINE q == Program(r, ys)
                 u == ts[ys]
      <3>1. q.steps = h \o u /\ u \in Seq(Erases)
        OBVIOUS
      <3>2. Names(h[k], x) => \/ Keeper(r, x)[1] \in h[k].lists /\ Keeper(r, x) \notin ys
                              \/ Ends(r, u, q, x)
        OBVIOUS
      <3>3. Ends(r, t, p, x) => Ends(r, u, q, x)
        BY <1>6, <2>2
      <3> HIDE DEF q, u
      <3>4. k \in 0..Len(h) /\ k - 1 \in 0..Len(h)
        BY <1>2
      <3>5. \/ \E j \in DOMAIN h : j > k - 1 /\ (Brings(r, h[j], x) \/ Names(h[j], x))
            \/ Ends(r, t, p, x)
        BY <1>2, <2>2, <3>4, HeadAndTail DEF Ends
      <3>6. /\ Ends(r, u, q, x) => Awaits(r, q, k, x)
            /\ \A j \in DOMAIN h : j > k /\ (Brings(r, h[j], x) \/ Names(h[j], x))
                                     => Awaits(r, q, k, x)
        BY <1>2, <3>1, <3>4, HeadAndTail DEF Ends
      <3>7. ~Brings(r, h[k], x)
        BY <2>1 DEF Brings
      <3>8. \A j \in DOMAIN h : j > k - 1 => j > k \/ j = k
        BY <1>2
      <3>9. CASE Names(h[k], x)
        BY <1>1, <3>2, <3>6, <3>9 DEF q
      <3>10. CASE ~Names(h[k], x)
        BY <3>3, <3>5, <3>6, <3>7, <3>8, <3>10 DEF q
      <3>11. QED
        BY <3>9, <3>10
    <2>3. QED
      BY <1>1, <1>4, <2>1, <2>2 DEF Follows
  <1>12. ASSUME NEW k \in DOMAIN p.steps
         PROVE  /\ Orderly(r, p, k) /\ Cascades(r, p.steps[k])
                /\ p.steps[k].lists # {} => Follows(r, xs, k)
    <2>1. CASE k \in DOMAIN h
      BY <1>3, <1>10, <1>11, <2>1
    <2>2. ASSUME NEW j \in DOMAIN t, k = Len(h) + j
          PROVE  /\ Orderly(r, p, k) /\ Cascades(r, p.steps[k]) /\ p.steps[k].lists = {}
      <3>1. p.steps[k] = t[j] /\ p.steps[k] \in Erases
        BY <1>3, <1>8, <2>2
      <3>2. QED
        BY <1>1, <1>7, <3>1, ErasesAreOrderly DEF Erases
    <2>3. QED
      BY <1>3, <2>1, <2>2
  <1>13. ASSUME NEW x \in Goals(r)
         PROVE  Awaits(r, p, 0, x)
    <2>1. 0 \in 0..Len(h) /\ \A k \in DOMAIN h : k > 0
      BY <1>2
    <2>2. QED
      BY <1>2, <1>5, <2>1, HeadAndTail DEF Ends
  <1>14. QED
    BY <1>4, <1>7, <1>12, <1>13 DEF Tended

-----------------------------------------------------------------------------
(* The deletions that begin by asking *)

\* A volume that is given back takes its snapshots along.
LEMMA UnmanagingIsTended ==
  ASSUME NEW r \in Requests, NEW xs \in SUBSET r.objects,
         r.op = "UnmanageClusterVolume", "metadata" \in r.opt
  PROVE  Tended(r, xs)
  <1> DEFINE y == I!volume
             look == I!C!Step(I!C!T!ShowVolumeDetails, y, "absent")
             h == <<look, I!C!Judge>>
             each == [i \in 1..r.n |-> I!C!Do(I!C!T!UnmanageVolumeSnapshot, <<"snapshot", i>>)]
             last == I!C!Do(I!C!T!UnmanageVolume, y)
             t == each \o <<last>>
             ts == [ys \in SUBSET r.objects |-> t]
  <1>1. r.op \in Alterations /\ r.n \in Nat /\ y \in r.before
    BY RequestsAssumption, GoalsAssumption DEF Alterations, Subject
  <1>2. r.asked = {} /\ Goals(r) = r.ended /\ r.ended \subseteq Ended(r)
    BY <1>1, NothingIsAsked
  <1>3. Ended(r) = {y} \cup I!Numbered("snapshot", r.n)
    BY DEF Ended
  <1>4. \A ys : Program(r, ys).steps = h \o t /\ Program(r, ys).final = <<>>
    BY DEF Program, UnmanageClusterVolume, I!UnmanageVolume, I!Silent, I!Answering,
           I!C!UnmanageVolume, I!C!unmanageCEPH, I!C!Program
  <1>5. look \in Gentle /\ look.when = <<>> /\ look.lists = {} /\ look.failing = "absent"
        /\ look.call.effect = "read" /\ look.obj = y
    <2>1. I!C!T!ShowVolumeDetails \in Reads /\ y \in Objects
      BY CallsThatRead, OwnObjects
    <2>2. look \in Gentle
      BY <2>1, ReadingSteps DEF Reactions
    <2>3. QED
      BY <2>1, <2>2 DEF I!C!Step, Reads
  <1>6. I!C!Judge \in Gentle /\ I!C!Judge.when = <<>> /\ I!C!Judge.lists = {}
        /\ I!C!Judge.failing = "return"
    BY JudgingSteps DEF I!C!Judge, I!C!Ask, I!C!Do, I!C!Step
  <1>7. last \in Erases /\ \A x \in r.ended : x = y => Brings(r, last, x)
    BY CallsThatRemove, OwnObjects, ErasingSteps, StepsThatBring DEF Writes
  <1>8. \A i \in Nat :
           /\ I!C!Do(I!C!T!UnmanageVolumeSnapshot, <<"snapshot", i>>) \in Erases
           /\ <<"snapshot", i>> \in r.ended =>
                 Brings(r, I!C!Do(I!C!T!UnmanageVolumeSnapshot, <<"snapshot", i>>), <<"snapshot", i>>)
    BY CallsThatRemove, OwnObjects, ErasingSteps, StepsThatBring DEF Writes
  <1>9. each \in Seq(Erases) /\ \A i \in 1..r.n :
           <<"snapshot", i>> \in r.ended => Brought(r, each, <<"snapshot", i>>)
    <2>1. \A i \in 1..r.n : i \in Nat
      BY <1>1
    <2>2. each \in [1..r.n -> Erases]
      BY <1>8, <2>1
    <2>3. each \in Seq(Erases)
      BY <1>1, <2>2, OneByOne
    <2>4. \A i \in 1..r.n : i \in DOMAIN each
                 /\ each[i] = I!C!Do(I!C!T!UnmanageVolumeSnapshot, <<"snapshot", i>>)
      OBVIOUS
    <2> HIDE DEF each
    <2>5. QED
      BY <1>8, <2>1, <2>3, <2>4 DEF Brought
  <1> HIDE DEF y, look, each, last
  <1>10. t \in Seq(Erases)
    <2>1. <<last>> \in Seq(Erases)
      BY <1>7
    <2>2. QED
      BY <1>9, <2>1, Joining
  <1>11. \A x \in r.ended : Brought(r, t, x)
    <2>1. \A x \in r.ended : x = y => Brought(r, <<last>>, x)
      BY <1>7, BroughtByStep
    <2>2. \A x \in r.ended : x = y \/ \E i \in 1..r.n : x = <<"snapshot", i>>
      BY <1>2, <1>3 DEF I!Numbered
    <2>3. <<last>> \in Seq(Erases)
      BY <1>7
    <2>4. QED
      BY <1>9, <2>1, <2>2, <2>3, BroughtByPart
  <1>12. DOMAIN h = {1, 2} /\ h[1] = look /\ h[2] = I!C!Judge
    OBVIOUS
  <1>13. h \in Seq(Gentle)
    BY <1>5, <1>6
  <1>14. \A ys \in SUBSET r.objects :
            ts[ys] = t /\ Program(r, ys).steps = h \o ts[ys] /\ ts[ys] \in Seq(Erases)
    BY <1>4, <1>10
  <1>15. \A s : Cascades(r, s)
    BY <1>1, DeletionsCascade
  <1> HIDE DEF h, t, ts
  <1>16. \A k \in DOMAIN h : Pardonable(r, Program(r, xs), k)
    <2>1. Program(r, xs).steps[1] = look /\ Program(r, xs).steps[2] = I!C!Judge
      <3>1. h \in Seq(Gentle) /\ t \in Seq(Gentle)
        <4>1. Erases \subseteq Gentle
          BY DEF Erases
        <4>2. QED
          BY <1>10, <1>13, <4>1
      <3>2. QED
        BY <1>4, <1>12, <3>1, TwoParts
    <2>2. QED
      BY <1>1, <1>5, <1>6, <1>12, <2>1 DEF Pardonable
  <1>17. \A x \in Goals(r), ys \in SUBSET r.objects : Ends(r, ts[ys], Program(r, ys), x)
    BY <1>2, <1>11, <1>14 DEF Ends
  <1>18. \A x, k \in DOMAIN h : ~Names(h[k], x)
    BY <1>5, <1>6, <1>12 DEF Names
  <1>19. \A k \in DOMAIN h : h[k].when = <<>> /\ h[k].lists = {}
    BY <1>5, <1>6, <1>12
  <1>20. /\ Program(r, xs).final # <<>> => r.op = "DeleteClusterInstance"
         /\ \A j \in DOMAIN Program(r, xs).final : Tidies(Program(r, xs).final[j])
    BY <1>4
  <1>21. /\ \A k \in DOMAIN h : h[k].lists # {} => h[k].call.effect = "read"
         /\ \A k \in DOMAIN h : Cascades(r, h[k])
         /\ \A k \in DOMAIN ts[xs] : Cascades(r, ts[xs][k])
    BY <1>15, <1>19
  <1>22. QED
    BY <1>1, <1>13, <1>14, <1>16, <1>17, <1>18, <1>19, <1>20, <1>21, HeadedIsTended

\* The objects that were shown are objects.
LEMMA ShownAreObjects ==
  ASSUME NEW r \in Requests, NEW ys \in SUBSET r.objects
  PROVE  Answers(ys)
  <1>1. r.objects \subseteq Objects /\ IsFiniteSet(r.objects)
    BY RequestsAssumption
  <1>2. QED
    BY <1>1, FS_Subset DEF Answers

\* What is removed by itself.
LEMMA RemovesOne ==
  ASSUME NEW c \in Removes, NEW y, GoesWith(y) = {}, NEW r, NEW x,
         Brings(r, I!C!Do(c, y), x) \/ Brings(r, I!C!Try(c, y), x)
  PROVE  x = y /\ Goal(r, x) = "absent"
  BY DEF Removes, Brings, I!C!Do, I!C!Try, I!C!Step

\* Three steps before others.
LEMMA OneTwoThree ==
  ASSUME NEW S, NEW s \in S, NEW u \in S, NEW v \in S, NEW t \in Seq(S),
         NEW a, NEW b, NEW c, a = <<s>>, b = <<u, v>>, c = <<s, u, v>>
  PROVE  a \o (b \o t) = c \o t
  <1>1. a \in Seq(S) /\ b \in Seq(S) /\ c \in Seq(S)
    OBVIOUS
  <1>2. /\ Len(a) = 1 /\ Len(b) = 2 /\ Len(c) = 3
        /\ a[1] = c[1] /\ b[1] = c[2] /\ b[2] = c[3]
    OBVIOUS
  <1>3. a \o b = c
    <2> DEFINE d == a \o b
    <2>1. d \in Seq(S) /\ Len(d) = 3
      <3>1. d \in Seq(S) /\ Len(d) = Len(a) + Len(b)
        BY <1>1, ConcatProperties
      <3> HIDE DEF d
      <3>2. QED
        BY <1>2, <3>1
    <2>2. \A i \in 1..(Len(a) + Len(b)) : d[i] = IF i <= Len(a) THEN a[i] ELSE b[i - Len(a)]
      BY <1>1, ConcatProperties
    <2> HIDE DEF d
    <2>3. d[1] = c[1] /\ d[2] = c[2] /\ d[3] = c[3]
      BY <1>2, <2>2
    <2>4. \A i \in 1..Len(d) : d[i] = c[i]
      BY <2>1, <2>3
    <2>5. d = c
      BY <1>1, <1>2, <2>1, <2>4, SeqEqual
    <2>6. QED
      BY <2>5 DEF d
  <1>4. (a \o b) \o t = a \o (b \o t)
    BY <1>1, ConcatAssociative
  <1>5. QED
    BY <1>3, <1>4

\* The groups that a project leaves behind are removed if they are shown, and if
\* they are not shown they stay.
LEMMA TenantIsTended ==
  ASSUME NEW r \in Requests, NEW xs \in SUBSET r.objects, r.op = "DeleteClusterTenant"
  PROVE  Tended(r, xs)
  <1> DEFINE y == I!project
             del == I!C!Do(I!C!T!DeleteProject, y)
             list == [I!C!Step(I!C!T!ListSecurityGroups, I!C!Cloud, "end") EXCEPT !.lists = {"default"}]
             h == <<del, I!C!Connect, list>>
             drop == I!C!T!DeleteSecurityGroup
             own(ys) == I!C!Owned("default", y, ys)
             ts == [ys \in SUBSET r.objects |-> I!C!EachTry(drop, own(ys))]
  <1>1. r.op \in Alterations
    BY DEF Alterations
  <1>2. r.asked = {} /\ Goals(r) = r.ended /\ r.ended \subseteq Ended(r)
    BY <1>1, NothingIsAsked
  <1>3. Ended(r) = {y} \cup {x \in r.objects : x[1] = "default" /\ I!C!Owner(x) = 1}
    BY DEF Ended
  <1>4. \A ys \in SUBSET r.objects :
           Program(r, ys).steps = <<del>> \o (<<I!C!Connect, list>> \o ts[ys])
           /\ Program(r, ys).final = <<>>
    BY ZenonT(60) DEF Program, DeleteClusterTenant, I!DeleteTenant, I!Silent, I!Answering,
           I!C!DeleteTenant, I!C!DropGroups, I!C!Program
  <1>5. del \in Gentle /\ del.when = <<>> /\ del.lists = {} /\ del.failing = "return"
        /\ (y \in r.ended => Brings(r, del, y))
    <2>1. I!C!T!DeleteProject \in Removes /\ y \in Ours
      BY CallsThatRemove, OwnObjects
    <2>2. del \in Gentle
      BY <2>1, WritingSteps DEF Writes, Reactions
    <2>3. y \in r.ended => Brings(r, del, y)
      BY <2>1, StepsThatBring
    <2>4. QED
      BY <2>2, <2>3 DEF I!C!Do, I!C!Step
  <1>6. I!C!Connect \in Gentle /\ I!C!Connect.when = <<>> /\ I!C!Connect.lists = {}
        /\ I!C!Connect.failing = "return"
    BY JudgingSteps DEF I!C!Connect, I!C!Ask, I!C!Do, I!C!Step
  <1>7. list \in Gentle /\ list.when = <<>> /\ list.lists = {"default"} /\ list.failing = "end"
        /\ list.call.effect = "read" /\ list.obj = I!C!Cloud
    <2>1. I!C!T!ListSecurityGroups \in Reads /\ I!C!Cloud \in Objects
      BY CallsThatRead, OwnObjects
    <2>2. list \in Gentle
      BY <2>1, ReadingSteps DEF Reactions, Kinds
    <2>3. QED
      BY <2>1, <2>2 DEF I!C!Step, Reads
  <1>8. drop \in Removes
    BY CallsThatRemove
  <1>9. \A ys \in SUBSET r.objects : IsFiniteSet(own(ys)) /\ own(ys) \subseteq Ours
    BY ShownAreObjects, ShownObjects, OwnObjects DEF I!project
  <1>10. \A ys \in SUBSET r.objects :
            own(ys) = {x \in ys : x[1] = "default" /\ I!C!Owner(x) = 1}
    BY DEF I!C!Owned, I!project
  <1>11. y[1] # "default"
    BY DEF I!project
  <1> HIDE DEF y, del, list, drop, own
  <1>12. \A ys \in SUBSET r.objects : ts[ys] \in Seq(Erases)
    <2>1. ASSUME NEW ys \in SUBSET r.objects
          PROVE  I!C!EachTry(drop, own(ys)) \in Seq(Erases)
      <3>1. \A x \in own(ys) : I!C!Try(drop, x) \in Erases
        BY <1>9, <1>10, ErasingSteps DEF drop
      <3>2. QED
        BY <1>9, <3>1, EachTryIn
    <2>2. QED
      BY <2>1
  <1>13. \A ys \in SUBSET r.objects, x \in Goals(r) :
            Brought(r, ts[ys], x) <=> x \in own(ys)
    <2>1. ASSUME NEW ys \in SUBSET r.objects, NEW x \in Goals(r)
          PROVE  Brought(r, I!C!EachTry(drop, own(ys)), x) <=> x \in own(ys)
      <3>1. Brought(r, I!C!EachTry(drop, own(ys)), x)
              <=> \E z \in own(ys) : Brings(r, I!C!Try(drop, z), x)
        BY <1>9, BroughtByEach
      <3>2. \A z \in own(ys) : GoesWith(z) = {}
        BY <1>10 DEF GoesWith
      <3>3. \A z \in own(ys) : Brings(r, I!C!Try(drop, z), x) => x = z
        BY <1>8, <3>2, RemovesOne
      <3>4. Brings(r, I!C!Try(drop, x), x)
        BY <1>2, <1>8, StepsThatBring
      <3>5. QED
        BY <3>1, <3>3, <3>4
    <2>2. QED
      BY <2>1
  <1>14. DOMAIN h = {1, 2, 3} /\ h[1] = del /\ h[2] = I!C!Connect /\ h[3] = list /\ Len(h) = 3
    OBVIOUS
  <1>15. h \in Seq(Gentle)
    BY <1>5, <1>6, <1>7
  <1>16. Erases \subseteq Gentle /\ Gentle \subseteq Steps /\ Seq(Erases) \subseteq Seq(Gentle)
    <2>1. Erases \subseteq Gentle /\ Gentle \subseteq Steps
      BY DEF Erases, Gentle
    <2>2. QED
      BY <2>1
  <1>17. \A ys \in SUBSET r.objects : Program(r, ys).steps = h \o ts[ys]
    <2>1. ASSUME NEW t \in Seq(Gentle)
          PROVE  <<del>> \o (<<I!C!Connect, list>> \o t) = h \o t
      <3>1. del \in Gentle /\ I!C!Connect \in Gentle /\ list \in Gentle
        BY <1>5, <1>6, <1>7
      <3> DEFINE a == <<del>>
                 b == <<I!C!Connect, list>>
      <3>2. a = <<del>> /\ b = <<I!C!Connect, list>> /\ h = <<del, I!C!Connect, list>>
        OBVIOUS
      <3> HIDE DEF a, b, h
      <3>3. a \o (b \o t) = h \o t
        BY <3>1, <3>2, OneTwoThree, SMTT(60)
      <3>4. QED
        BY <3>3 DEF a, b
    <2>2. \A ys \in SUBSET r.objects : ts[ys] \in Seq(Gentle)
      BY <1>12, <1>16
    <2>3. QED
      BY <1>4, <2>1, <2>2
  <1> HIDE DEF h, ts
  <1>18. Program(r, xs).final = <<>>
    BY <1>4
  <1>19. \A ys \in SUBSET r.objects, x \in Goals(r) :
            Ends(r, ts[ys], Program(r, ys), x) <=> x \in own(ys)
    <2>1. \A ys \in SUBSET r.objects : Program(r, ys).final = <<>>
      BY <1>4
    <2>2. \A x : ~Brought(r, <<>>, x)
      BY DEF Brought
    <2>3. QED
      BY <1>13, <2>1, <2>2 DEF Ends
  <1>20. \A x : Names(list, x) <=> x[1] = "default"
    BY <1>7 DEF Names
  <1>21. \A x : ~Names(del, x) /\ ~Names(I!C!Connect, x)
    BY <1>5, <1>6 DEF Names
  <1>22. \A x \in Goals(r) : x[1] = "default" => Tidying(r, x) /\ Keeper(r, x) = x
    BY <1>2 DEF Tidying, Keeper
  <1>23. Pardonable(r, Program(r, xs), 3)
    <2> DEFINE p == Program(r, xs)
               t == ts[xs]
    <2>1. p.steps = h \o t /\ t \in Seq(Erases) /\ p.final = <<>>
      BY <1>12, <1>17, <1>18
    <2>2. \A x \in Goals(r) : Brought(r, t, x) <=> x \in own(xs)
      BY <1>13
    <2> HIDE DEF p, t
    <2>3. h \in Seq(Steps) /\ t \in Seq(Gentle) /\ 2 \in 0..Len(h)
      BY <1>14, <1>15, <1>16, <2>1
    <2>4. p.steps[3] = list
      BY <1>14, <1>15, <2>1, <2>3, TwoParts
    <2>5. ASSUME NEW x \in Goals(r), Awaits(r, p, 2, x)
          PROVE  x[1] = "default"
      <3>1. \/ \E j \in DOMAIN h : j > 2 /\ (Brings(r, h[j], x) \/ Names(h[j], x))
            \/ Brought(r, t, x) \/ Brought(r, p.final, x)
        BY <2>1, <2>3, <2>5, HeadAndTail
      <3>2. ~Brought(r, p.final, x)
        BY <2>1 DEF Brought
      <3>3. ~Brings(r, list, x)
        BY <1>7 DEF Brings
      <3>4. \A j \in DOMAIN h : j > 2 => h[j] = list
        BY <1>14
      <3>5. QED
        BY <1>10, <1>20, <2>2, <3>1, <3>2, <3>3, <3>4
    <2>6. \A x \in Goals(r) : Awaits(r, p, 3 - 1, x) => Tidying(r, x)
      BY <1>22, <2>5
    <2>7. QED
      BY <1>7, <2>4, <2>6 DEF Pardonable, p
  <1>24. \A k \in DOMAIN h : Pardonable(r, Program(r, xs), k)
    <2> DEFINE p == Program(r, xs)
               t == ts[xs]
    <2>1. p.steps = h \o t /\ t \in Seq(Gentle)
      BY <1>12, <1>16, <1>17
    <2> HIDE DEF p, t
    <2>2. p.steps[1] = del /\ p.steps[2] = I!C!Connect
      BY <1>14, <1>15, <2>1, TwoParts
    <2>3. QED
      BY <1>5, <1>6, <1>14, <1>23, <2>2 DEF Pardonable, p
  <1>25. /\ \A k \in DOMAIN h : h[k].when = <<>> /\ (h[k].lists # {} => h[k].call.effect = "read")
         /\ \A s : Cascades(r, s)
    BY <1>1, <1>5, <1>6, <1>7, <1>14, DeletionsCascade
  <1>26. \A ys \in SUBSET r.objects, x \in Goals(r) :
            (xs \subseteq ys /\ Ends(r, ts[xs], Program(r, xs), x)) =>
                Ends(r, ts[ys], Program(r, ys), x)
    BY <1>10, <1>19
  <1>27. ASSUME NEW x \in Goals(r), x # y
         PROVE  x[1] = "default" /\ I!C!Owner(x) = 1
    BY <1>2, <1>3, <1>27
  <1>28. \A ys \in SUBSET r.objects, x \in Goals(r), k \in DOMAIN h :
            Names(h[k], x) => \/ Keeper(r, x)[1] \in h[k].lists /\ Keeper(r, x) \notin ys
                              \/ Ends(r, ts[ys], Program(r, ys), x)
    <2>1. ASSUME NEW ys \in SUBSET r.objects, NEW x \in Goals(r), x[1] = "default"
          PROVE  \/ Keeper(r, x)[1] \in list.lists /\ Keeper(r, x) \notin ys
                 \/ Ends(r, ts[ys], Program(r, ys), x)
      BY <1>7, <1>10, <1>11, <1>19, <1>22, <1>27, <2>1
    <2>2. QED
      BY <1>14, <1>20, <1>21, <2>1
  <1>29. \A x \in Goals(r) : \/ Ends(r, ts[xs], Program(r, xs), x)
                             \/ \E k \in DOMAIN h : Brings(r, h[k], x) \/ Names(h[k], x)
    BY <1>2, <1>5, <1>14, <1>20, <1>27
  <1>30. /\ Program(r, xs).final # <<>> => r.op = "DeleteClusterInstance"
         /\ \A j \in DOMAIN Program(r, xs).final : Tidies(Program(r, xs).final[j])
         /\ \A k \in DOMAIN h : Cascades(r, h[k])
         /\ \A k \in DOMAIN ts[xs] : Cascades(r, ts[xs][k])
    BY <1>18, <1>25
  <1>31. \A ys \in SUBSET r.objects :
            Program(r, ys).steps = h \o ts[ys] /\ ts[ys] \in Seq(Erases)
    BY <1>12, <1>17
  <1>32. QED
    BY <1>1, <1>15, <1>24, <1>25, <1>26, <1>28, <1>29, <1>30, <1>31, HeadedIsTended

\* What two parts bring is brought by one of them.
LEMMA BroughtInParts ==
  ASSUME NEW S, NEW t \in Seq(S), NEW u \in Seq(S), NEW r, NEW x
  PROVE  Brought(r, t \o u, x) <=> Brought(r, t, x) \/ Brought(r, u, x)
  <1> DEFINE c == t \o u
  <1>1. /\ \A k \in DOMAIN t : k \in DOMAIN c /\ c[k] = t[k]
        /\ \A k \in DOMAIN u : Len(t) + k \in DOMAIN c /\ c[Len(t) + k] = u[k]
        /\ \A k \in DOMAIN c : k \in DOMAIN t \/ \E j \in DOMAIN u : k = Len(t) + j
    BY TwoParts
  <1> HIDE DEF c
  <1>2. ASSUME Brought(r, c, x)
        PROVE  Brought(r, t, x) \/ Brought(r, u, x)
    <2>1. PICK k \in DOMAIN c : Brings(r, c[k], x)
      BY <1>2 DEF Brought
    <2>2. CASE k \in DOMAIN t
      BY <1>1, <2>1, <2>2 DEF Brought
    <2>3. CASE k \notin DOMAIN t
      <3>1. PICK j \in DOMAIN u : k = Len(t) + j
        BY <1>1, <2>3
      <3>2. QED
        BY <1>1, <2>1, <3>1 DEF Brought
    <2>4. QED
      BY <2>2, <2>3
  <1>3. Brought(r, t, x) \/ Brought(r, u, x) => Brought(r, c, x)
    BY BroughtByPart DEF c
  <1>4. QED
    BY <1>2, <1>3 DEF c

LEMMA BroughtByOne ==
  ASSUME NEW r, NEW s, NEW x
  PROVE  Brought(r, <<s>>, x) <=> Brings(r, s, x)
  <1>1. DOMAIN <<s>> = {1} /\ <<s>>[1] = s
    OBVIOUS
  <1>2. QED
    BY <1>1 DEF Brought

\* Without a check, what is removed is gone.
LEMMA RemovedAtOnce ==
  /\ I!C!T!RemoveExtraRoutesFromRouter.check = T!NoCheck
  /\ I!C!T!RemoveInterfaceFromRouter.check = T!NoCheck
  /\ I!C!T!DeleteRouter.check = T!NoCheck
  /\ I!C!T!DeletePort.check = T!NoCheck
  /\ I!C!T!DeleteSecurityGroupRule.check = T!NoCheck
  BY NoCheckDone
     DEF I!C!T!RemoveExtraRoutesFromRouter, I!C!T!RemoveInterfaceFromRouter,
         I!C!T!DeleteRouter, I!C!T!DeletePort, I!C!T!DeleteSecurityGroupRule,
         I!C!T!Remove, I!C!T!Call

\* A port goes with its interface; what is not shown has no need to go.
LEMMA RouterIsTended ==
  ASSUME NEW r \in Requests, NEW xs \in SUBSET r.objects, r.op = "DeleteClusterRouter"
  PROVE  Tended(r, xs)
  <1> DEFINE y == I!router
             route == <<"route", 1>>
             ports == I!C!List(I!C!T!ListPorts, I!C!Cloud, {"interface"})
             look == I!C!List(I!C!T!ShowRouterDetails, y, {"route"})
             h == <<ports, look>>
             clear == I!C!Do(I!C!T!RemoveExtraRoutesFromRouter, route)
             drop == I!C!T!RemoveInterfaceFromRouter
             last == I!C!Do(I!C!T!DeleteRouter, y)
             own(ys) == I!C!Shown("interface", ys)
             a == [ys \in SUBSET r.objects |-> I!C!When(route \in ys, <<clear>>)]
             b == [ys \in SUBSET r.objects |-> I!C!Each(drop, own(ys))]
             ts == [ys \in SUBSET r.objects |-> (a[ys] \o b[ys]) \o <<last>>]
             S == {s \in Erases : Cascades(r, s)}
  <1>1. r.op \in Alterations
    BY DEF Alterations
  <1>2. r.asked = {} /\ Goals(r) = r.ended /\ r.ended \subseteq Ended(r) /\ r.objects \subseteq Objects
        /\ r.ended \subseteq r.objects
    BY <1>1, NothingIsAsked, RequestsAssumption
  <1>3. \A x \in Ended(r) : \/ x = y \/ x = route \/ x[1] = "interface"
                            \/ x[1] = "port"
    BY DEF Ended
  <1>4. \A ys \in SUBSET r.objects :
           Program(r, ys).steps = ((h \o a[ys]) \o b[ys]) \o <<last>>
           /\ Program(r, ys).final = <<>>
    BY ZenonT(60) DEF Program, DeleteClusterRouter, I!DeleteRouter, I!Silent, I!Answering,
           I!C!DeleteRouter, I!C!Program
  <1>5. I!C!T!ListPorts \in Reads /\ I!C!T!ShowRouterDetails \in Reads
    BY CallsThatRead
  <1>6. /\ ports \in Gentle /\ ports.when = <<>> /\ ports.lists = {"interface"}
        /\ ports.failing = "return" /\ ports.call.effect = "read" /\ ports.call.check = T!NoCheck
    <2>1. ports \in Gentle
      BY <1>5, ReadingSteps, OwnObjects DEF Reactions, Kinds
    <2>2. QED
      BY <1>5, <2>1 DEF I!C!List, I!C!Step, Reads
  <1>7. /\ look \in Gentle /\ look.when = <<>> /\ look.lists = {"route"}
        /\ look.failing = "return" /\ look.call.effect = "read" /\ look.call.check = T!NoCheck
    <2>1. look \in Gentle
      BY <1>5, ReadingSteps, OwnObjects DEF Reactions, Kinds
    <2>2. QED
      BY <1>5, <2>1 DEF I!C!List, I!C!Step, Reads
  <1>8. /\ drop \in Removes /\ I!C!T!RemoveExtraRoutesFromRouter \in Removes
        /\ I!C!T!DeleteRouter \in Removes /\ y \in Ours /\ route \in Ours
    BY CallsThatRemove, OwnObjects
  <1>9. ASSUME NEW c \in Removes, c.check = T!NoCheck, NEW x \in Ours,
               GoesWith(x) = {} \/ x[1] = "interface"
        PROVE  I!C!Do(c, x) \in S
    <2> DEFINE s == I!C!Do(c, x)
    <2>1. s \in Erases
      BY ErasingSteps DEF Writes
    <2>2. s.call = c /\ s.obj = x
      BY DEF I!C!Do, I!C!Step
    <2>3. c.effect = "remove"
      BY DEF Removes
    <2> HIDE DEF s
    <2>4. ASSUME NEW z \in GoesWith(x), x[1] = "interface"
          PROVE  x = Keeper(r, z)
      <3>1. z = <<"port", x[2]>>
        BY <2>4 DEF GoesWith
      <3>2. Keeper(r, z) = <<"interface", x[2]>>
        BY <3>1 DEF Keeper
      <3>3. x = <<"interface", x[2]>>
        BY <2>4 DEF Ours, Objects
      <3>4. QED
        BY <3>2, <3>3
    <2>5. Cascades(r, s)
      BY <1>9, <2>2, <2>3, <2>4 DEF Cascades, Brings
    <2>6. QED
      BY <2>1, <2>5 DEF s
  <1>10. clear \in S /\ (route \in r.ended => Brings(r, clear, route))
    <2>1. GoesWith(route) = {}
      BY DEF GoesWith
    <2>2. clear \in S
      BY <1>8, <1>9, <2>1, RemovedAtOnce
    <2>3. QED
      BY <1>8, <2>2, StepsThatBring
  <1>11. last \in S /\ (y \in r.ended => Brings(r, last, y))
    <2>1. GoesWith(y) = {}
      BY DEF GoesWith, I!router
    <2>2. last \in S
      BY <1>8, <1>9, <2>1, RemovedAtOnce
    <2>3. QED
      BY <1>8, <2>2, StepsThatBring
  <1>12. \A ys \in SUBSET r.objects : IsFiniteSet(own(ys)) /\ own(ys) \subseteq Ours
    BY ShownAreObjects, ShownObjects
  <1>13. \A ys : own(ys) = {x \in ys : x[1] = "interface"}
    BY DEF I!C!Shown
  <1>14. y[1] = "router" /\ route[1] = "route"
    BY DEF I!router
  <1>15. drop.check = T!NoCheck /\ drop.effect = "remove"
    BY <1>8, RemovedAtOnce DEF Removes
  <1>16. S \subseteq Erases /\ \A s \in S : Cascades(r, s)
    OBVIOUS
  <1> HIDE DEF y, route, ports, look, clear, drop, last, own, S
  <1>17. \A ys \in SUBSET r.objects : a[ys] \in Seq(S)
    BY <1>10, Optional
  <1>18. \A ys \in SUBSET r.objects : b[ys] \in Seq(S)
    <2>1. ASSUME NEW ys \in SUBSET r.objects
          PROVE  I!C!Each(drop, own(ys)) \in Seq(S)
      <3>1. \A x \in own(ys) : I!C!Do(drop, x) \in S
        BY <1>8, <1>9, <1>12, <1>13, <1>15
      <3>2. QED
        BY <1>12, <3>1, EachIn
    <2>2. QED
      BY <2>1
  <1>19. \A ys \in SUBSET r.objects : \A x : Brought(r, a[ys], x) <=> route \in ys /\ Brings(r, clear, x)
    <2>1. \A x : Brought(r, <<clear>>, x) <=> Brings(r, clear, x)
      BY BroughtByOne
    <2>2. \A x : ~Brought(r, <<>>, x)
      BY DEF Brought
    <2>3. \A ys \in SUBSET r.objects : a[ys] = IF route \in ys THEN <<clear>> ELSE <<>>
      BY DEF I!C!When
    <2> HIDE DEF a
    <2>4. QED
      BY <2>1, <2>2, <2>3
  <1>20. \A ys \in SUBSET r.objects : \A x :
            Brought(r, b[ys], x) <=> \E z \in own(ys) : Brings(r, I!C!Do(drop, z), x)
    BY <1>12, BroughtByEach
  <1>21. <<last>> \in Seq(S)
    BY <1>11
  <1>22. \A ys \in SUBSET r.objects : ts[ys] = (a[ys] \o b[ys]) \o <<last>>
    OBVIOUS
  <1>23. DOMAIN h = {1, 2} /\ h[1] = ports /\ h[2] = look
    OBVIOUS
  <1>24. h \in Seq(Gentle)
    BY <1>6, <1>7
  <1> HIDE DEF a, b, h, ts
  <1>25. \A ys \in SUBSET r.objects :
            ts[ys] \in Seq(S) /\ a[ys] \o b[ys] \in Seq(S)
    <2>1. \A u, v \in Seq(S) : (u \o v) \in Seq(S)
      BY Joining
    <2> DEFINE l == <<last>>
    <2>2. l \in Seq(S)
      BY <1>21
    <2> HIDE DEF l
    <2>3. ASSUME NEW ys \in SUBSET r.objects
          PROVE  a[ys] \o b[ys] \in Seq(S) /\ (a[ys] \o b[ys]) \o l \in Seq(S)
      BY <1>17, <1>18, <2>1, <2>2
    <2>4. QED
      BY <1>22, <2>3 DEF l
  <1>26. \A ys \in SUBSET r.objects : ts[ys] \in Seq(Erases)
    BY <1>16, <1>25
  <1>27. \A ys \in SUBSET r.objects : Program(r, ys).steps = h \o ts[ys]
    <2>1. S \subseteq Gentle
      BY <1>16 DEF Erases
    <2>2. Seq(S) \subseteq Seq(Gentle)
      BY <2>1
    <2>3. ASSUME NEW ys \in SUBSET r.objects
          PROVE  ((h \o a[ys]) \o b[ys]) \o <<last>> = h \o ((a[ys] \o b[ys]) \o <<last>>)
      <3> DEFINE l == <<last>>
                 u == a[ys]
                 v == b[ys]
      <3>1. u \in Seq(Gentle) /\ v \in Seq(Gentle) /\ l \in Seq(Gentle)
        BY <1>17, <1>18, <1>21, <2>2
      <3> HIDE DEF l, u, v
      <3> DEFINE m == u \o v
      <3>2. m \in Seq(Gentle) /\ (h \o u) \o v = h \o m
        BY <1>24, <3>1, Joining, ConcatAssociative, SMTT(60)
      <3> HIDE DEF m
      <3>3. m \in Seq(Gentle) /\ l \in Seq(Gentle)
        BY <3>1, <3>2
      <3>4. (h \o m) \o l = h \o (m \o l)
        BY <1>24, <3>3, ConcatAssociative, SMTT(30)
      <3>5. QED
        BY <3>2, <3>4 DEF l, m, u, v
    <2>4. QED
      BY <1>4, <1>22, <2>3
  <1>28. \A ys \in SUBSET r.objects : Program(r, ys).final = <<>>
    BY <1>4
  \* What the tail brings, for all that has been shown.
  <1>29. \A ys \in SUBSET r.objects : \A x :
            Ends(r, ts[ys], Program(r, ys), x) <=>
               \/ route \in ys /\ Brings(r, clear, x)
               \/ \E z \in own(ys) : Brings(r, I!C!Do(drop, z), x)
               \/ Brings(r, last, x)
    <2>1. \A x : Brought(r, <<last>>, x) <=> Brings(r, last, x)
      BY BroughtByOne
    <2>2. ASSUME NEW ys \in SUBSET r.objects, NEW x
          PROVE  Brought(r, ts[ys], x) <=>
                    Brought(r, a[ys], x) \/ Brought(r, b[ys], x) \/ Brought(r, <<last>>, x)
      <3> DEFINE l == <<last>>
      <3>1. l \in Seq(S) /\ ts[ys] = (a[ys] \o b[ys]) \o l
        BY <1>21, <1>22
      <3> HIDE DEF l
      <3>2. Brought(r, (a[ys] \o b[ys]) \o l, x) <=> Brought(r, a[ys] \o b[ys], x) \/ Brought(r, l, x)
        BY <1>25, <3>1, BroughtInParts
      <3>3. Brought(r, a[ys] \o b[ys], x) <=> Brought(r, a[ys], x) \/ Brought(r, b[ys], x)
        BY <1>17, <1>18, BroughtInParts
      <3>4. QED
        BY <3>1, <3>2, <3>3 DEF l
    <2>3. \A x : ~Brought(r, <<>>, x)
      BY DEF Brought
    <2>4. QED
      BY <1>19, <1>20, <1>28, <2>1, <2>2, <2>3 DEF Ends
  <1>30. \A ys \in SUBSET r.objects, x \in Goals(r) :
            (xs \subseteq ys /\ Ends(r, ts[xs], Program(r, xs), x)) =>
                Ends(r, ts[ys], Program(r, ys), x)
    <2>1. \A ys \in SUBSET r.objects : xs \subseteq ys => own(xs) \subseteq own(ys)
      BY <1>13
    <2>2. QED
      BY <1>29, <2>1
  <1>31. \A x : /\ Names(ports, x) <=> x[1] = "interface" \/ x[1] = "port"
                /\ Names(look, x) <=> x[1] = "route"
    BY <1>6, <1>7 DEF Names
  <1>32. ASSUME NEW ys \in SUBSET r.objects, NEW x \in Goals(r), x[1] \in {"interface", "port"}
         PROVE  \/ Keeper(r, x)[1] \in {"interface"} /\ Keeper(r, x) \notin ys
                \/ Ends(r, ts[ys], Program(r, ys), x)
    <2> DEFINE z == Keeper(r, x)
    <2>1. x \in Objects
      BY <1>2
    <2>2. z[1] = "interface" /\ (x = z \/ x \in GoesWith(z))
      <3>1. CASE x[1] = "interface"
        BY <3>1 DEF Keeper
      <3>2. CASE x[1] = "port"
        <4>1. z = <<"interface", x[2]>>
          BY <3>2 DEF Keeper
        <4>2. GoesWith(z) = {<<"port", x[2]>>}
          BY <4>1 DEF GoesWith
        <4>3. x = <<"port", x[2]>>
          BY <2>1, <3>2 DEF Objects
        <4>4. QED
          BY <4>1, <4>2, <4>3
      <3>3. QED
        BY <1>32, <3>1, <3>2
    <2>3. Brings(r, I!C!Do(drop, z), x)
      <3> DEFINE s == I!C!Do(drop, z)
      <3>1. s.call = drop /\ s.obj = z
        BY DEF I!C!Do, I!C!Step
      <3>2. Goal(r, x) = "absent"
        BY <1>2 DEF Goal
      <3> HIDE DEF s, z
      <3>3. QED
        BY <1>15, <2>2, <3>1, <3>2, NoCheckDone DEF Brings, s
    <2> HIDE DEF z
    <2>4. CASE z \in ys
      BY <1>13, <1>29, <2>2, <2>3, <2>4
    <2>5. QED
      BY <2>2, <2>4 DEF z
  <1>33. ASSUME NEW ys \in SUBSET r.objects, NEW x \in Goals(r), x[1] = "route"
         PROVE  \/ Keeper(r, x)[1] \in {"route"} /\ Keeper(r, x) \notin ys
                \/ Ends(r, ts[ys], Program(r, ys), x)
    <2>1. Keeper(r, x) = x
      BY <1>33 DEF Keeper
    <2>2. x = route
      BY <1>2, <1>3, <1>14, <1>33
    <2>3. QED
      BY <1>2, <1>10, <1>29, <1>33, <2>1, <2>2
  <1>34. \A ys \in SUBSET r.objects, x \in Goals(r), k \in DOMAIN h :
            Names(h[k], x) => \/ Keeper(r, x)[1] \in h[k].lists /\ Keeper(r, x) \notin ys
                              \/ Ends(r, ts[ys], Program(r, ys), x)
    <2>1. \A k \in DOMAIN h : h[k] = ports \/ h[k] = look
      BY <1>23
    <2>2. \A ys \in SUBSET r.objects, x \in Goals(r) :
             Names(ports, x) => \/ Keeper(r, x)[1] \in ports.lists /\ Keeper(r, x) \notin ys
                                \/ Ends(r, ts[ys], Program(r, ys), x)
      BY <1>6, <1>31, <1>32
    <2>3. \A ys \in SUBSET r.objects, x \in Goals(r) :
             Names(look, x) => \/ Keeper(r, x)[1] \in look.lists /\ Keeper(r, x) \notin ys
                               \/ Ends(r, ts[ys], Program(r, ys), x)
      BY <1>7, <1>31, <1>33
    <2>4. QED
      BY <2>1, <2>2, <2>3
  <1>35. \A x \in Goals(r) : \/ Ends(r, ts[xs], Program(r, xs), x)
                             \/ \E k \in DOMAIN h : Brings(r, h[k], x) \/ Names(h[k], x)
    BY <1>2, <1>3, <1>11, <1>14, <1>23, <1>29, <1>31
  <1>36. \A k \in DOMAIN h : Pardonable(r, Program(r, xs), k)
    <2> DEFINE p == Program(r, xs)
               t == ts[xs]
    <2>1. p.steps = h \o t /\ t \in Seq(Gentle)
      <3>1. Erases \subseteq Gentle
        BY DEF Erases
      <3>2. QED
        BY <1>26, <1>27, <3>1
    <2> HIDE DEF p, t
    <2>2. \A k \in DOMAIN h : p.steps[k] = h[k]
      BY <1>24, <2>1, TwoParts
    <2>3. \A k \in DOMAIN h : p.steps[k].failing = "return"
      BY <1>6, <1>7, <1>23, <2>2
    <2>4. QED
      BY <2>3 DEF Pardonable, p
  <1>37. /\ \A k \in DOMAIN h : h[k].when = <<>> /\ (h[k].lists # {} => h[k].call.effect = "read")
         /\ \A k \in DOMAIN h : Cascades(r, h[k])
    <2>1. Cascades(r, ports) /\ Cascades(r, look)
      BY <1>6, <1>7 DEF Cascades
    <2>2. QED
      BY <1>6, <1>7, <1>23, <2>1
  <1>38. /\ Program(r, xs).final # <<>> => r.op = "DeleteClusterInstance"
         /\ \A j \in DOMAIN Program(r, xs).final : Tidies(Program(r, xs).final[j])
    BY <1>28
  <1>39. \A k \in DOMAIN ts[xs] : Cascades(r, ts[xs][k])
    <2>1. ts[xs] \in Seq(S)
      BY <1>25
    <2>2. QED
      BY <1>16, <2>1
  <1>40. \A ys \in SUBSET r.objects :
            Program(r, ys).steps = h \o ts[ys] /\ ts[ys] \in Seq(Erases)
    BY <1>26, <1>27
  <1>41. QED
    BY <1>1, <1>24, <1>30, <1>34, <1>35, <1>36, <1>37, <1>38, <1>39, <1>40, HeadedIsTended

-----------------------------------------------------------------------------
(* The parts of the lists of a volume group: nothing of a list is left out. *)

LEMMA Quotients ==
  ASSUME NEW n \in Nat
  PROVE  /\ n \div Limit \in Nat
         /\ (n \div Limit) * Limit \in Nat /\ (n \div Limit) * Limit <= n
         /\ ((n \div Limit) + 1) * Limit \in Nat /\ n < ((n \div Limit) + 1) * Limit
  <1>1. n \div Limit \in Nat /\ (n \div Limit) * Limit \in Nat
        /\ ((n \div Limit) + 1) * Limit \in Nat
    BY LimitAssumption
  <1>2. (n \div Limit) * Limit <= n
    BY LimitAssumption
  <1>3. n < ((n \div Limit) + 1) * Limit
    BY LimitAssumption
  <1>4. QED
    BY <1>1, <1>2, <1>3

LEMMA Multiples ==
  ASSUME NEW m \in Nat, NEW n \in Nat, m <= n
  PROVE  m * Limit \in Nat /\ n * Limit \in Nat /\ m * Limit <= n * Limit
  <1>1. Limit \in Nat \ {0}
    BY LimitAssumption
  <1>2. n = m + (n - m) /\ n - m \in Nat
    OBVIOUS
  <1>3. n * Limit = m * Limit + (n - m) * Limit
    BY <1>1, <1>2
  <1>4. m * Limit \in Nat /\ (n - m) * Limit \in Nat
    BY <1>1, <1>2
  <1>5. QED
    BY <1>3, <1>4

\* A part consists of consecutive volumes of the list: the (index + 1)-th part of
\* those whose number is between these bounds.
LEMMA PartIsSlice ==
  ASSUME NEW v \in Seq(Nat), NEW index \in Nat
  PROVE  LET part == I!C!getPartVolumes(index, v)
         IN  /\ part \in Seq(Nat)
             /\ \A j \in DOMAIN part : \E i \in DOMAIN v : part[j] = v[i]
             /\ \A i \in DOMAIN v : (index * Limit < i /\ i <= (index + 1) * Limit) =>
                    \E j \in DOMAIN part : part[j] = v[i]
  <1> DEFINE part == I!C!getPartVolumes(index, v)
             n == Len(v)
             retry == n \div Limit
             m == index * Limit
             e == (index + 1) * Limit
  <1>1. n \in Nat /\ DOMAIN v = 1..n /\ \A i \in 1..n : v[i] \in Nat
    OBVIOUS
  <1>2. /\ retry \in Nat /\ retry * Limit <= n
        /\ (retry + 1) * Limit \in Nat /\ n < (retry + 1) * Limit
    BY <1>1, Quotients
  <1>3. m \in Nat /\ e \in Nat /\ m <= e
    BY Multiples
  <1>4. part = CASE index > retry -> <<>>
                 [] index = retry -> SubSeq(v, m + 1, n)
                 [] OTHER -> SubSeq(v, m + 1, e)
    BY DEF I!C!getPartVolumes
  <1>5. index > retry => n < m
    <2>1. index > retry => retry + 1 <= index
      BY <1>2
    <2>2. index > retry => (retry + 1) * Limit <= m
      BY <1>2, <2>1, Multiples
    <2>3. QED
      BY <1>1, <1>2, <1>3, <2>2
  <1>6. index = retry => n < e
    BY <1>2
  <1>7. index < retry => e <= n
    <2>1. index < retry => index + 1 <= retry
      BY <1>2
    <2>2. index < retry => e <= retry * Limit
      BY <1>2, <2>1, Multiples
    <2>3. index < retry => retry * Limit \in Nat
      BY <1>2, Multiples
    <2>4. QED
      BY <1>1, <1>2, <1>3, <2>2, <2>3
  <1> HIDE DEF part, n, retry, m, e
  \* Both kinds of part: up to the end, and up to the next one.
  <1>8. ASSUME NEW to \in Nat, to <= n, part = SubSeq(v, m + 1, to),
               \A i \in 1..n : i <= e => i <= to
        PROVE  /\ part \in Seq(Nat)
               /\ \A j \in DOMAIN part : \E i \in DOMAIN v : part[j] = v[i]
               /\ \A i \in DOMAIN v : (m < i /\ i <= e) => \E j \in DOMAIN part : part[j] = v[i]
    <2>1. \A i \in (m + 1)..to : i \in 1..n /\ v[i] \in Nat
      BY <1>1, <1>3, <1>8
    <2>2. /\ part \in Seq(Nat)
          /\ Len(part) = IF m + 1 <= to THEN to - (m + 1) + 1 ELSE 0
          /\ \A j \in 1..(to - (m + 1) + 1) : part[j] = v[(m + 1) + j - 1]
      <3>1. m + 1 \in Int /\ to \in Int
        BY <1>3
      <3>2. QED
        BY <1>8, <2>1, <3>1, SubSeqProperties
    <2>3. DOMAIN part = 1..Len(part)
      BY <2>2
    <2>4. ASSUME NEW j \in DOMAIN part
          PROVE  \E i \in DOMAIN v : part[j] = v[i]
      <3>1. j \in 1..(to - (m + 1) + 1)
        BY <1>3, <2>2, <2>3
      <3>2. part[j] = v[m + j] /\ m + j \in 1..n
        <4>1. (m + 1) + j - 1 = m + j /\ m + j \in 1..n
          BY <1>1, <1>3, <1>8, <3>1
        <4>2. QED
          BY <2>2, <3>1, <4>1
      <3>3. QED
        BY <1>1, <3>2
    <2>5. ASSUME NEW i \in DOMAIN v, m < i, i <= e
          PROVE  \E j \in DOMAIN part : part[j] = v[i]
      <3>1. i \in 1..n /\ i <= to
        BY <1>1, <1>8, <2>5
      <3>2. i \in Nat /\ m + 1 <= to /\ (m + 1) + (i - m) - 1 = i
        BY <1>1, <1>3, <1>8, <2>5, <3>1
      <3>3. i - m \in 1..(to - (m + 1) + 1)
        BY <1>3, <1>8, <2>5, <3>1, <3>2
      <3>4. i - m \in DOMAIN part
        BY <2>2, <2>3, <3>2, <3>3
      <3>5. part[i - m] = v[(m + 1) + (i - m) - 1]
        BY <2>2, <3>3
      <3>6. QED
        BY <3>2, <3>4, <3>5
    <2>6. QED
      BY <2>2, <2>4, <2>5
  <1>9. CASE index > retry
    <2>1. part = <<>>
      BY <1>4, <1>9
    <2>2. \A i \in DOMAIN v : ~(m < i)
      BY <1>1, <1>3, <1>5, <1>9
    <2>3. part \in Seq(Nat) /\ DOMAIN part = {}
      BY <2>1
    <2>4. QED
      BY <2>2, <2>3 DEF m, part
  <1>10. CASE index = retry
    <2>1. ~(index > retry)
      BY <1>2, <1>10
    <2>2. part = SubSeq(v, m + 1, n)
      BY <1>4, <1>10, <2>1
    <2>3. n <= n /\ \A i \in 1..n : i <= e => i <= n
      BY <1>1
    <2>4. QED
      BY <1>1, <1>8, <2>2, <2>3 DEF part, m, e
  <1>11. CASE index < retry
    <2>1. ~(index > retry) /\ index # retry
      BY <1>2, <1>11
    <2>2. part = SubSeq(v, m + 1, e)
      BY <1>4, <2>1
    <2>3. e <= n /\ \A i \in 1..n : i <= e => i <= e
      BY <1>7, <1>11
    <2>4. QED
      BY <1>3, <1>8, <2>2, <2>3 DEF part, m, e
  <1>12. QED
    BY <1>2, <1>9, <1>10, <1>11

\* Every volume of the list is in a part, and no part before it is empty.
LEMMA PartsAreFull ==
  ASSUME NEW v \in Seq(Nat), NEW i \in DOMAIN v
  PROVE  \E q \in Nat :
            /\ \E j \in DOMAIN I!C!getPartVolumes(q, v) : I!C!getPartVolumes(q, v)[j] = v[i]
            /\ \A p \in 0..q : DOMAIN I!C!getPartVolumes(p, v) # {}
  <1> DEFINE q == (i - 1) \div Limit
  <1>1. i \in 1..Len(v) /\ DOMAIN v = 1..Len(v) /\ Len(v) \in Nat /\ i - 1 \in Nat
    OBVIOUS
  <1>2. /\ q \in Nat /\ q * Limit \in Nat /\ q * Limit <= i - 1
        /\ (q + 1) * Limit \in Nat /\ i - 1 < (q + 1) * Limit
    BY <1>1, Quotients
  <1> HIDE DEF q
  <1>3. \E j \in DOMAIN I!C!getPartVolumes(q, v) : I!C!getPartVolumes(q, v)[j] = v[i]
    <2>1. q * Limit < i /\ i <= (q + 1) * Limit
      BY <1>1, <1>2
    <2>2. QED
      BY <1>2, <2>1, PartIsSlice
  <1>4. ASSUME NEW p \in 0..q
        PROVE  DOMAIN I!C!getPartVolumes(p, v) # {}
    <2>1. p \in Nat /\ p <= q /\ p * Limit \in Nat /\ p * Limit <= q * Limit
      <3>1. p \in Nat /\ q \in Nat /\ p <= q
        BY <1>2
      <3>2. QED
        BY <3>1, Multiples
    <2> DEFINE m == p * Limit
    <2>2. m \in Nat /\ m + 1 \in 1..Len(v)
      BY <1>1, <1>2, <2>1, SMTT(60)
    <2>3. (p + 1) * Limit = m + Limit /\ Limit \in Nat \ {0}
      BY <2>1, LimitAssumption
    <2> HIDE DEF m
    <2>4. m < m + 1 /\ m + 1 <= (p + 1) * Limit /\ m + 1 \in DOMAIN v
      BY <1>1, <2>2, <2>3
    <2>5. \A k \in DOMAIN v : (m < k /\ k <= (p + 1) * Limit) =>
             \E j \in DOMAIN I!C!getPartVolumes(p, v) : I!C!getPartVolumes(p, v)[j] = v[k]
      BY <2>1, PartIsSlice DEF m
    <2>6. \E j \in DOMAIN I!C!getPartVolumes(p, v) : I!C!getPartVolumes(p, v)[j] = v[m + 1]
      BY <2>4, <2>5
    <2>7. QED
      BY <2>6
  <1>5. QED
    BY <1>2, <1>3, <1>4

MembersOf(v) == {<<"member", v[i]>> : i \in DOMAIN v}

Covering(B, x, adds, drops) ==
    /\ \A k \in DOMAIN B :
          /\ B[k].call = I!C!T!UpdateVolumeGroup /\ B[k].obj = x /\ B[k].failing = "return"
          /\ B[k].lists = {} /\ B[k].when = <<>>
          /\ B[k].adds \subseteq MembersOf(adds) /\ B[k].drops \subseteq MembersOf(drops)
    /\ \A z \in MembersOf(adds) : \E k \in DOMAIN B : z \in B[k].adds
    /\ \A z \in MembersOf(drops) : \E k \in DOMAIN B : z \in B[k].drops

\* The requests name volumes of the lists only, and leave none of them out.
LEMMA BatchesCover ==
  ASSUME NEW x, NEW adds \in Seq(Nat), NEW drops \in Seq(Nat), NEW B, B = I!C!Batches(x, adds, drops)
  PROVE  Covering(B, x, adds, drops)
  <1> DEFINE A(i) == I!C!getPartVolumes(i - 1, adds)
             D(i) == I!C!getPartVolumes(i - 1, drops)
             part(i) == I!C!Members(x, A(i), D(i))
             empty(i) == part(i).adds = {} /\ part(i).drops = {}
             IsLast(n) == empty(n + 1) /\ \A i \in 1..n : ~empty(i)
             most == Len(adds) + Len(drops)
             last == CHOOSE n \in 0..most : IsLast(n)
  <1>1. B = [i \in 1..last |-> part(i)]
    BY DEF I!C!Batches
  <1>2. ASSUME NEW i
        PROVE  /\ part(i).call = I!C!T!UpdateVolumeGroup /\ part(i).obj = x
               /\ part(i).failing = "return" /\ part(i).lists = {} /\ part(i).when = <<>>
               /\ part(i).adds = MembersOf(A(i)) /\ part(i).drops = MembersOf(D(i))
    BY DEF I!C!Members, I!C!Do, I!C!Step, MembersOf
  <1>3. \A v : MembersOf(v) = {} <=> DOMAIN v = {}
    BY DEF MembersOf
  <1>4. ASSUME NEW i \in Nat \ {0}
        PROVE  /\ MembersOf(A(i)) \subseteq MembersOf(adds)
               /\ MembersOf(D(i)) \subseteq MembersOf(drops)
    <2>1. i - 1 \in Nat
      OBVIOUS
    <2>2. /\ \A j \in DOMAIN A(i) : \E k \in DOMAIN adds : A(i)[j] = adds[k]
          /\ \A j \in DOMAIN D(i) : \E k \in DOMAIN drops : D(i)[j] = drops[k]
      BY <2>1, PartIsSlice
    <2> HIDE DEF A, D
    <2>3. QED
      BY <2>2 DEF MembersOf
  <1>5. most \in Nat /\ Len(adds) \in Nat /\ Len(drops) \in Nat
        /\ Len(adds) <= most /\ Len(drops) <= most
    OBVIOUS
  <1>6. empty(most + 1)
    <2>1. (most + 1) - 1 = most
      BY <1>5
    <2>2. A(most + 1) = <<>> /\ D(most + 1) = <<>>
      <3> HIDE DEF most
      <3>1. \A v \in Seq(Nat) : Len(v) \in Nat /\ Len(v) <= most => I!C!getPartVolumes(most, v) = <<>>
        <4>1. ASSUME NEW v \in Seq(Nat), Len(v) \in Nat, Len(v) <= most
              PROVE  I!C!getPartVolumes(most, v) = <<>>
          <5>1. most > Len(v) \/ most = Len(v)
            BY <1>5, <4>1
          <5>2. QED
            BY <1>5, <5>1, PartsOfVolumes
        <4>2. QED
          BY <4>1
      <3>2. QED
        BY <1>5, <2>1, <3>1
    <2> HIDE DEF A, D, most, part
    <2>3. QED
      BY <1>2, <1>3, <2>2
  <1> HIDE DEF A, D, part, most
  <1>7. \E n \in 0..most : IsLast(n)
    <2> HIDE DEF empty
    <2> DEFINE S == {n \in Nat : empty(n + 1)}
    <2>1. most \in S
      BY <1>5, <1>6
    <2>2. PICK n \in S : \A m \in S : n <= m
      BY <2>1, Smallest
    <2>3. n \in 0..most
      BY <1>5, <2>1, <2>2
    <2>4. ASSUME NEW i \in 1..n
          PROVE  ~empty(i)
      <3>1. i - 1 \in Nat /\ ~(n <= i - 1) /\ (i - 1) + 1 = i
        BY <2>3
      <3>2. i - 1 \notin S
        BY <2>2, <3>1
      <3>3. QED
        BY <3>1, <3>2
    <2>5. QED
      BY <2>2, <2>3, <2>4
  <1>8. last \in 0..most /\ IsLast(last)
    BY <1>7
  <1> HIDE DEF last
  <1>9. last \in Nat /\ empty(last + 1) /\ DOMAIN B = 1..last
        /\ \A k \in DOMAIN B : B[k] = part(k) /\ k \in Nat \ {0}
    BY <1>1, <1>5, <1>8
  <1> HIDE DEF IsLast, empty
  \* A volume is in one of the requests, because none before the last is empty.
  <1>10. ASSUME NEW v \in Seq(Nat), NEW z \in MembersOf(v)
         PROVE  \E q \in Nat :
                   /\ z \in MembersOf(I!C!getPartVolumes(q, v))
                   /\ \A p \in 0..q : MembersOf(I!C!getPartVolumes(p, v)) # {}
    <2>1. PICK i \in DOMAIN v : z = <<"member", v[i]>>
      BY DEF MembersOf
    <2>2. PICK q \in Nat :
                   /\ \E j \in DOMAIN I!C!getPartVolumes(q, v) : I!C!getPartVolumes(q, v)[j] = v[i]
                   /\ \A p \in 0..q : DOMAIN I!C!getPartVolumes(p, v) # {}
      BY PartsAreFull
    <2>3. z \in MembersOf(I!C!getPartVolumes(q, v))
      BY <2>1, <2>2 DEF MembersOf
    <2>4. QED
      BY <1>3, <2>2, <2>3
  <1>11. ASSUME NEW z \in MembersOf(adds)
         PROVE  \E k \in DOMAIN B : z \in B[k].adds
    <2>1. PICK q \in Nat :
             /\ z \in MembersOf(I!C!getPartVolumes(q, adds))
             /\ \A p \in 0..q : MembersOf(I!C!getPartVolumes(p, adds)) # {}
      BY <1>10
    <2>2. q < last
      <3>1. SUFFICES ASSUME last <= q PROVE FALSE
        BY <1>9, <2>1
      <3>2. last \in 0..q /\ (last + 1) - 1 = last
        BY <1>9, <2>1, <3>1
      <3>3. A(last + 1) = I!C!getPartVolumes(last, adds)
        BY <3>2 DEF A
      <3>4. MembersOf(A(last + 1)) = {}
        BY <1>2, <1>9 DEF empty
      <3>5. QED
        BY <2>1, <3>2, <3>3, <3>4
    <2>3. q + 1 \in DOMAIN B /\ (q + 1) - 1 = q
      BY <1>9, <2>1, <2>2
    <2>4. B[q + 1].adds = MembersOf(I!C!getPartVolumes(q, adds))
      BY <1>2, <1>9, <2>3 DEF A
    <2>5. QED
      BY <2>1, <2>3, <2>4
  <1>12. ASSUME NEW z \in MembersOf(drops)
         PROVE  \E k \in DOMAIN B : z \in B[k].drops
    <2>1. PICK q \in Nat :
             /\ z \in MembersOf(I!C!getPartVolumes(q, drops))
             /\ \A p \in 0..q : MembersOf(I!C!getPartVolumes(p, drops)) # {}
      BY <1>10
    <2>2. q < last
      <3>1. SUFFICES ASSUME last <= q PROVE FALSE
        BY <1>9, <2>1
      <3>2. last \in 0..q /\ (last + 1) - 1 = last
        BY <1>9, <2>1, <3>1
      <3>3. D(last + 1) = I!C!getPartVolumes(last, drops)
        BY <3>2 DEF D
      <3>4. MembersOf(D(last + 1)) = {}
        BY <1>2, <1>9 DEF empty
      <3>5. QED
        BY <2>1, <3>2, <3>3, <3>4
    <2>3. q + 1 \in DOMAIN B /\ (q + 1) - 1 = q
      BY <1>9, <2>1, <2>2
    <2>4. B[q + 1].drops = MembersOf(I!C!getPartVolumes(q, drops))
      BY <1>2, <1>9, <2>3 DEF D
    <2>5. QED
      BY <2>1, <2>3, <2>4
  <1>13. ASSUME NEW k \in DOMAIN B
         PROVE  /\ B[k].call = I!C!T!UpdateVolumeGroup /\ B[k].obj = x /\ B[k].failing = "return"
                /\ B[k].lists = {} /\ B[k].when = <<>>
                /\ B[k].adds \subseteq MembersOf(adds) /\ B[k].drops \subseteq MembersOf(drops)
    BY <1>2, <1>4, <1>9
  <1>14. QED
    BY <1>11, <1>12, <1>13 DEF Covering

-----------------------------------------------------------------------------
(* Volume groups *)

\* The update of a group is done when the group is ready again.
LEMMA UpdatingAGroup ==
  /\ I!C!T!UpdateVolumeGroup.effect = "change"
  /\ I!C!T!UpdateVolumeGroup.check.done = {"ready"}
  /\ I!C!T!UpdateVolumeGroup.check # T!NoCheck
  <1>1. /\ I!C!T!UpdateVolumeGroup.effect = "change"
        /\ I!C!T!UpdateVolumeGroup.check.done = {"ready"}
    BY DEF I!C!T!UpdateVolumeGroup, I!C!T!Change, I!C!T!Call, I!C!T!checkVolumeGroupUpdate,
           I!C!T!Until
  <1>2. QED
    BY <1>1, NoCheckDone

LEMMA LeavingAGroup ==
  ASSUME NEW x \in Ours, NEW drops \in Seq(Nat), NEW none, none = <<>>
  PROVE  I!C!Batches(x, none, drops) \in Seq(Gentle)
  <1>1. none \in Seq(Nat)
    OBVIOUS
  <1>2. QED
    BY <1>1, BatchesOfVolumes

\* The numbers of what was shown, in some order.
LEMMA NumbersInOrder ==
  ASSUME NEW ns \in SUBSET Nat, IsFiniteSet(ns)
  PROVE  /\ I!C!SetToSeq(ns) \in Seq(Nat)
         /\ MembersOf(I!C!SetToSeq(ns)) = {<<"member", n>> : n \in ns}
  <1> DEFINE s == I!C!SetToSeq(ns)
  <1>1. s \in Seq(Nat) /\ s \in Seq(ns)
    BY InSomeOrder
  <1>2. \A n \in ns : \E i \in 1..Len(s) : s[i] = n
    BY AllInSomeOrder
  <1> HIDE DEF s
  <1>3. DOMAIN s = 1..Len(s) /\ \A i \in DOMAIN s : s[i] \in ns
    BY <1>1
  <1>4. MembersOf(s) = {<<"member", n>> : n \in ns}
    BY <1>2, <1>3 DEF MembersOf
  <1>5. QED
    BY <1>1, <1>4 DEF s

LEMMA ShownNumbers ==
  ASSUME NEW r \in Requests, NEW ys \in SUBSET r.objects
  PROVE  LET ns == {y[2] : y \in I!C!Shown("member", ys)}
         IN  /\ ns \in SUBSET Nat /\ IsFiniteSet(ns)
             /\ {<<"member", n>> : n \in ns} = {y \in ys : y[1] = "member"}
  <1> DEFINE S == I!C!Shown("member", ys)
             ns == {y[2] : y \in S}
  <1>1. S \subseteq Objects /\ IsFiniteSet(S)
    BY ShownAreObjects, ShownObjects
  <1>2. S = {y \in ys : y[1] = "member"}
    BY DEF I!C!Shown
  <1> HIDE DEF S
  <1>3. ns \in SUBSET Nat
    BY <1>1 DEF Objects
  <1>4. [y \in S |-> y[2]] \in Surjection(S, ns)
    BY DEF Surjection
  <1>5. IsFiniteSet(ns)
    BY <1>1, <1>4, FS_Surjection
  <1>6. \A y \in S : y = <<"member", y[2]>>
    BY <1>1, <1>2 DEF Objects
  <1>7. {<<"member", n>> : n \in ns} = S
    <2>1. {<<"member", n>> : n \in ns} = {<<"member", y[2]>> : y \in S}
      OBVIOUS
    <2>2. QED
      BY <1>6, <2>1
  <1>8. QED
    BY <1>2, <1>3, <1>5, <1>7 DEF S

\* A group is taken apart: its snapshots and its members that were shown go first.
LEMMA VolumeGroupIsTended ==
  ASSUME NEW r \in Requests, NEW xs \in SUBSET r.objects, r.op = "DeleteClusterVolumeGroup"
  PROVE  Tended(r, xs)
  <1> DEFINE y == I!group
             gt == <<"group_type", 1>>
             look == [I!C!Step(I!C!T!ShowVolumeGroupDetails, y, "absent") EXCEPT !.lists = {"member"}]
             list == I!C!List(I!C!T!ListVolumeGroupSnapshotsWithDetails, I!C!Cloud, {"group_snapshot"})
             h == <<look, list>>
             drop == I!C!T!DeleteVolumeGroupSnapshot
             own(ys) == I!C!Owned("group_snapshot", y, ys)
             numbers(ys) == {z[2] : z \in I!C!Shown("member", ys)}
             last == I!C!Do(I!C!T!DeleteVolumeGroup, y)
             type == I!C!Do(I!C!T!DeleteVolumeGroupType, gt)
             lasts == <<last, type>>
             a == [ys \in SUBSET r.objects |-> I!C!Each(drop, own(ys))]
             b == [ys \in SUBSET r.objects |-> I!C!Batches(y, <<>>, I!C!SetToSeq(numbers(ys)))]
             ts == [ys \in SUBSET r.objects |-> (a[ys] \o b[ys]) \o lasts]
  <1>1. r.op \in Alterations /\ y \in r.before
    BY GoalsAssumption DEF Alterations, Subject
  <1>2. r.asked = {} /\ Goals(r) = r.ended /\ r.ended \subseteq Ended(r) /\ r.objects \subseteq Objects
        /\ r.ended \subseteq r.objects
    BY <1>1, NothingIsAsked, RequestsAssumption
  <1>3. \A x \in Ended(r) : \/ x = y \/ x = gt \/ x[1] = "member"
                            \/ x[1] = "group_snapshot" /\ I!C!Owner(x) = 1
    BY DEF Ended
  <1>4. \A ys \in SUBSET r.objects :
           Program(r, ys).steps = ((h \o a[ys]) \o b[ys]) \o lasts
           /\ Program(r, ys).final = <<>>
    <2>1. <<"group_type", y[2]>> = gt
      BY DEF I!group
    <2>2. QED
      BY <2>1, ZenonT(60)
         DEF Program, DeleteClusterVolumeGroup, I!DeleteVolumeGroup, I!Silent, I!Answering,
             I!C!DeleteVolumeGroup, I!C!Program
  <1>5. I!C!T!ShowVolumeGroupDetails \in Reads
        /\ I!C!T!ListVolumeGroupSnapshotsWithDetails \in Reads
    BY CallsThatRead
  <1>6. /\ look \in Gentle /\ look.when = <<>> /\ look.lists = {"member"}
        /\ look.failing = "absent" /\ look.call.effect = "read" /\ look.obj = y
    <2>1. look \in Gentle
      BY <1>5, ReadingSteps, OwnObjects DEF Reactions, Kinds
    <2>2. QED
      BY <1>5, <2>1 DEF I!C!Step, Reads
  <1>7. /\ list \in Gentle /\ list.when = <<>> /\ list.lists = {"group_snapshot"}
        /\ list.failing = "return" /\ list.call.effect = "read"
    <2>1. list \in Gentle
      BY <1>5, ReadingSteps, OwnObjects DEF Reactions, Kinds
    <2>2. QED
      BY <1>5, <2>1 DEF I!C!List, I!C!Step, Reads
  <1>8. /\ drop \in Removes /\ I!C!T!DeleteVolumeGroup \in Removes
        /\ I!C!T!DeleteVolumeGroupType \in Removes /\ y \in Ours /\ gt \in Ours
    BY CallsThatRemove, OwnObjects
  <1>9. /\ last \in Erases /\ (y \in r.ended => Brings(r, last, y))
        /\ type \in Erases /\ (gt \in r.ended => Brings(r, type, gt))
    BY <1>8, ErasingSteps, StepsThatBring DEF Writes
  <1>10. \A ys \in SUBSET r.objects : IsFiniteSet(own(ys)) /\ own(ys) \subseteq Ours
    BY ShownAreObjects, ShownObjects, OwnObjects DEF I!group
  <1>11. \A ys : own(ys) = {x \in ys : x[1] = "group_snapshot" /\ I!C!Owner(x) = 1}
    BY DEF I!C!Owned, I!group
  <1>12. \A ys \in SUBSET r.objects :
            /\ numbers(ys) \in SUBSET Nat /\ IsFiniteSet(numbers(ys))
            /\ {<<"member", n>> : n \in numbers(ys)} = {z \in ys : z[1] = "member"}
    BY ShownNumbers
  <1>13. y[1] = "group" /\ gt[1] = "group_type"
    BY DEF I!group
  <1> HIDE DEF y, gt, look, list, drop, last, type, own, numbers
  <1>14. \A ys \in SUBSET r.objects : a[ys] \in Seq(Erases)
    <2>1. ASSUME NEW ys \in SUBSET r.objects
          PROVE  I!C!Each(drop, own(ys)) \in Seq(Erases)
      <3>1. \A x \in own(ys) : I!C!Do(drop, x) \in Erases
        BY <1>8, <1>10, ErasingSteps DEF Writes
      <3>2. QED
        BY <1>10, <3>1, EachIn
    <2>2. QED
      BY <2>1
  \* The snapshots that were shown, and belong to the group, are removed.
  <1>15. \A ys \in SUBSET r.objects, x \in Goals(r) : Brought(r, a[ys], x) <=> x \in own(ys)
    <2>1. ASSUME NEW ys \in SUBSET r.objects, NEW x \in Goals(r)
          PROVE  Brought(r, I!C!Each(drop, own(ys)), x) <=> x \in own(ys)
      <3>1. Brought(r, I!C!Each(drop, own(ys)), x)
              <=> \E z \in own(ys) : Brings(r, I!C!Do(drop, z), x)
        BY <1>10, BroughtByEach
      <3>2. \A z \in own(ys) : GoesWith(z) = {}
        BY <1>11 DEF GoesWith
      <3>3. \A z \in own(ys) : Brings(r, I!C!Do(drop, z), x) => x = z
        BY <1>8, <3>2, RemovesOne
      <3>4. Brings(r, I!C!Do(drop, x), x)
        BY <1>2, <1>8, StepsThatBring
      <3>5. QED
        BY <3>1, <3>3, <3>4
    <2>2. QED
      BY <2>1
  \* The members that were shown leave the group.
  <1>16. ASSUME NEW ys \in SUBSET r.objects
         PROVE  /\ b[ys] \in Seq(Erases)
                /\ \A x \in Goals(r) : Brought(r, b[ys], x) <=> x \in ys /\ x[1] = "member"
    <2> DEFINE drops == I!C!SetToSeq(numbers(ys))
               none == <<>>
               B == I!C!Batches(y, none, drops)
    <2>1. drops \in Seq(Nat) /\ MembersOf(drops) = {z \in ys : z[1] = "member"}
      BY <1>12, NumbersInOrder
    <2>2. none \in Seq(Nat) /\ MembersOf(none) = {}
      BY DEF MembersOf
    <2>11. none = <<>>
      OBVIOUS
    <2>5. B = b[ys]
      OBVIOUS
    <2> HIDE DEF drops, none
    <2>4. B \in Seq(Gentle)
      <3>1. y \in Ours
        BY <1>8
      <3>2. drops \in Seq(Nat)
        BY <2>1
      <3>3. QED
        BY <2>2, <2>11, <3>1, <3>2, LeavingAGroup
    <2>12. B = I!C!Batches(y, none, drops)
      OBVIOUS
    <2> HIDE DEF B
    <2>3. /\ \A k \in DOMAIN B :
               /\ B[k].call = I!C!T!UpdateVolumeGroup /\ B[k].obj = y /\ B[k].failing = "return"
               /\ B[k].lists = {} /\ B[k].when = <<>>
               /\ B[k].adds \subseteq MembersOf(none) /\ B[k].drops \subseteq MembersOf(drops)
          /\ \A z \in MembersOf(drops) : \E k \in DOMAIN B : z \in B[k].drops
      <3>1. none \in Seq(Nat) /\ drops \in Seq(Nat)
        BY <2>1, <2>2
      <3>2. Covering(B, y, none, drops)
        BY <3>1, <2>12, BatchesCover
      <3>3. QED
        BY <3>2 DEF Covering
    <2>6. \A k \in DOMAIN B : B[k] \in Erases
      BY <2>3, <2>4 DEF Erases
    <2>7. B \in Seq(Erases)
      <3>1. Len(B) \in Nat /\ B \in [1..Len(B) -> Erases]
        BY <2>4, <2>6
      <3>2. QED
        BY <3>1, OneByOne
    <2>8. ASSUME NEW x \in Goals(r), NEW k \in DOMAIN B
          PROVE  Brings(r, B[k], x) <=> x \in B[k].drops
      <3>1. Goal(r, x) = "absent"
        BY <1>2 DEF Goal
      <3>2. B[k].adds = {} /\ B[k].obj = y /\ B[k].call = I!C!T!UpdateVolumeGroup
        BY <2>2, <2>3
      <3>3. y \notin B[k].drops
        BY <1>13, <2>1, <2>3
      <3>4. QED
        BY <3>1, <3>2, <3>3, UpdatingAGroup DEF Brings
    <2>9. \A x \in Goals(r) : Brought(r, B, x) <=> x \in MembersOf(drops)
      BY <2>3, <2>8 DEF Brought
    <2>10. QED
      BY <2>1, <2>5, <2>7, <2>9
  <1>17. lasts \in Seq(Erases)
    BY <1>9
  <1>18. \A x : Brings(r, last, x) \/ Brings(r, type, x) => Brought(r, lasts, x)
    BY BroughtByStep
  <1>19. \A ys \in SUBSET r.objects : ts[ys] = (a[ys] \o b[ys]) \o lasts
    OBVIOUS
  <1>20. DOMAIN h = {1, 2} /\ h[1] = look /\ h[2] = list
    OBVIOUS
  <1>21. h \in Seq(Gentle)
    BY <1>6, <1>7
  <1> HIDE DEF a, b, h, ts, lasts
  <1>22. \A ys \in SUBSET r.objects : b[ys] \in Seq(Erases)
    BY <1>16
  <1>23. \A ys \in SUBSET r.objects :
            ts[ys] \in Seq(Erases) /\ a[ys] \o b[ys] \in Seq(Erases)
    <2>1. ASSUME NEW ys \in SUBSET r.objects
          PROVE  ts[ys] \in Seq(Erases) /\ a[ys] \o b[ys] \in Seq(Erases)
      <3> DEFINE u == a[ys]
                 v == b[ys]
                 m == u \o v
      <3>1. u \in Seq(Erases) /\ v \in Seq(Erases) /\ ts[ys] = m \o lasts
        BY <1>14, <1>19, <1>22
      <3> HIDE DEF u, v
      <3>2. m \in Seq(Erases)
        BY <3>1, Joining
      <3> HIDE DEF m
      <3>3. m \o lasts \in Seq(Erases)
        BY <1>17, <3>2, Joining
      <3>4. QED
        BY <3>1, <3>2, <3>3 DEF m, u, v
    <2>2. QED
      BY <2>1
  <1>24. Seq(Erases) \subseteq Seq(Gentle)
    <2>1. Erases \subseteq Gentle
      BY DEF Erases
    <2>2. QED
      BY <2>1
  <1>25. \A ys \in SUBSET r.objects : Program(r, ys).steps = h \o ts[ys]
    <2>1. ASSUME NEW ys \in SUBSET r.objects
          PROVE  ((h \o a[ys]) \o b[ys]) \o lasts = h \o ((a[ys] \o b[ys]) \o lasts)
      <3> DEFINE u == a[ys]
                 v == b[ys]
                 m == u \o v
      <3>1. u \in Seq(Gentle) /\ v \in Seq(Gentle) /\ lasts \in Seq(Gentle)
        BY <1>14, <1>17, <1>22, <1>24
      <3> HIDE DEF u, v
      <3>2. m \in Seq(Gentle) /\ (h \o u) \o v = h \o m
        BY <1>21, <3>1, Joining, ConcatAssociative, SMTT(60)
      <3>5. lasts \in Seq(Gentle)
        BY <3>1
      <3> HIDE DEF m
      <3>3. (h \o m) \o lasts = h \o (m \o lasts)
        BY <1>21, <3>5, <3>2, ConcatAssociative, SMTT(60)
      <3>4. QED
        BY <3>2, <3>3 DEF m, u, v
    <2>2. QED
      BY <1>4, <1>19, <2>1
  <1>26. \A ys \in SUBSET r.objects : Program(r, ys).final = <<>>
    BY <1>4
  <1>27. \A ys \in SUBSET r.objects, x \in Goals(r) :
            Ends(r, ts[ys], Program(r, ys), x) <=>
               \/ x \in own(ys) \/ (x \in ys /\ x[1] = "member") \/ Brought(r, lasts, x)
    <2>1. ASSUME NEW ys \in SUBSET r.objects, NEW x
          PROVE  Brought(r, ts[ys], x) <=>
                    Brought(r, a[ys], x) \/ Brought(r, b[ys], x) \/ Brought(r, lasts, x)
      <3> DEFINE m == a[ys] \o b[ys]
      <3>1. Brought(r, m, x) <=> Brought(r, a[ys], x) \/ Brought(r, b[ys], x)
        BY <1>14, <1>22, BroughtInParts
      <3>2. m \in Seq(Erases) /\ ts[ys] = m \o lasts
        BY <1>19, <1>23
      <3> HIDE DEF m
      <3>3. Brought(r, m \o lasts, x) <=> Brought(r, m, x) \/ Brought(r, lasts, x)
        BY <1>17, <3>2, BroughtInParts
      <3>4. QED
        BY <3>1, <3>2, <3>3
    <2>2. ASSUME NEW ys \in SUBSET r.objects, NEW x \in Goals(r)
          PROVE  Ends(r, ts[ys], Program(r, ys), x) <=>
                    \/ x \in own(ys) \/ (x \in ys /\ x[1] = "member") \/ Brought(r, lasts, x)
      <3>1. ~Brought(r, Program(r, ys).final, x)
        BY <1>26 DEF Brought
      <3>2. Brought(r, a[ys], x) <=> x \in own(ys)
        BY <1>15
      <3>3. Brought(r, b[ys], x) <=> x \in ys /\ x[1] = "member"
        BY <1>16
      <3>4. QED
        BY <2>1, <3>1, <3>2, <3>3 DEF Ends
    <2>3. QED
      BY <2>2
  <1>28. \A ys \in SUBSET r.objects, x \in Goals(r) :
            (xs \subseteq ys /\ Ends(r, ts[xs], Program(r, xs), x)) =>
                Ends(r, ts[ys], Program(r, ys), x)
    <2>1. \A ys \in SUBSET r.objects : xs \subseteq ys => own(xs) \subseteq own(ys)
      BY <1>11
    <2>2. QED
      BY <1>27, <2>1
  <1>29. \A x : /\ Names(look, x) <=> x[1] = "member"
                /\ Names(list, x) <=> x[1] = "group_snapshot"
    BY <1>6, <1>7 DEF Names
  <1>30. \A x \in Goals(r) : Keeper(r, x) = x
    BY DEF Keeper
  <1>31. \A x \in Goals(r) : x[1] = "group_snapshot" => I!C!Owner(x) = 1
    BY <1>2, <1>3, <1>13
  <1>32. \A ys \in SUBSET r.objects, x \in Goals(r), k \in DOMAIN h :
            Names(h[k], x) => \/ Keeper(r, x)[1] \in h[k].lists /\ Keeper(r, x) \notin ys
                              \/ Ends(r, ts[ys], Program(r, ys), x)
    <2>1. \A k \in DOMAIN h : h[k] = look \/ h[k] = list
      BY <1>20
    <2>2. ASSUME NEW ys \in SUBSET r.objects, NEW x \in Goals(r)
          PROVE  /\ Names(look, x) => \/ Keeper(r, x)[1] \in look.lists /\ Keeper(r, x) \notin ys
                                     \/ Ends(r, ts[ys], Program(r, ys), x)
                 /\ Names(list, x) => \/ Keeper(r, x)[1] \in list.lists /\ Keeper(r, x) \notin ys
                                     \/ Ends(r, ts[ys], Program(r, ys), x)
      <3>1. Ends(r, ts[ys], Program(r, ys), x) <=>
               \/ x \in own(ys) \/ (x \in ys /\ x[1] = "member") \/ Brought(r, lasts, x)
        BY <1>27
      <3>2. Keeper(r, x) = x
        BY <1>30
      <3>3. x \in ys /\ x[1] = "group_snapshot" => x \in own(ys)
        BY <1>11, <1>31
      <3>4. QED
        BY <1>6, <1>7, <1>29, <3>1, <3>2, <3>3
    <2>4. QED
      BY <2>1, <2>2
  <1>33. \A x \in Goals(r) : \/ Ends(r, ts[xs], Program(r, xs), x)
                             \/ \E k \in DOMAIN h : Brings(r, h[k], x) \/ Names(h[k], x)
    BY <1>2, <1>3, <1>9, <1>18, <1>20, <1>27, <1>29
  <1>34. \A k \in DOMAIN h : Pardonable(r, Program(r, xs), k)
    <2> DEFINE p == Program(r, xs)
               t == ts[xs]
    <2>1. p.steps = h \o t /\ t \in Seq(Gentle)
      BY <1>23, <1>24, <1>25
    <2> HIDE DEF p, t
    <2>2. p.steps[1] = look /\ p.steps[2] = list
      BY <1>20, <1>21, <2>1, TwoParts
    <2>3. QED
      BY <1>1, <1>6, <1>7, <1>20, <2>2 DEF Pardonable, p
  <1>35. /\ \A k \in DOMAIN h : h[k].when = <<>> /\ (h[k].lists # {} => h[k].call.effect = "read")
         /\ \A s : Cascades(r, s)
    BY <1>1, <1>6, <1>7, <1>20, DeletionsCascade
  <1>36. /\ Program(r, xs).final # <<>> => r.op = "DeleteClusterInstance"
         /\ \A j \in DOMAIN Program(r, xs).final : Tidies(Program(r, xs).final[j])
         /\ \A k \in DOMAIN h : Cascades(r, h[k])
         /\ \A k \in DOMAIN ts[xs] : Cascades(r, ts[xs][k])
    BY <1>26, <1>35
  <1>37. \A ys \in SUBSET r.objects :
            Program(r, ys).steps = h \o ts[ys] /\ ts[ys] \in Seq(Erases)
    BY <1>23, <1>25
  <1>38. QED
    BY <1>1, <1>21, <1>28, <1>32, <1>33, <1>34, <1>35, <1>36, <1>37, HeadedIsTended

-----------------------------------------------------------------------------
(* Instances *)

\* Both ways of deleting an instance wait until it is gone.
LEMMA ServersAreAwaited ==
  /\ I!C!T!DeleteServer.check # T!NoCheck
  /\ I!C!T!ForceDeleteServer.check # T!NoCheck
  <1>1. /\ I!C!T!DeleteServer.check.done # {}
        /\ I!C!T!ForceDeleteServer.check.done # {}
    BY DEF I!C!T!DeleteServer, I!C!T!ForceDeleteServer, I!C!T!Remove, I!C!T!Call,
           I!C!T!checkInstanceDeletion, I!C!T!checkInstanceForceDeletion, I!C!T!Until
  <1>2. QED
    BY <1>1, NoCheckDone

\* A deletion that is refused is tried again with force, and the ports that were
\* shown are removed in the end.
LEMMA InstanceIsTended ==
  ASSUME NEW r \in Requests, NEW xs \in SUBSET r.objects, r.op = "DeleteClusterInstance"
  PROVE  Tended(r, xs)
  <1> DEFINE y == I!server
             look == I!C!List(I!C!T!ListPortInterfaces, y, {"port"})
             del == I!C!Step(I!C!T!DeleteServer, y, "else")
             force == I!C!Do(I!C!T!ForceDeleteServer, y)
             h == <<look, del, force>>
             drop == I!C!T!DeletePort
             ports(ys) == I!C!Shown("port", ys)
             ts == [ys \in SUBSET r.objects |-> <<>>]
             f == [ys \in SUBSET r.objects |-> I!C!EachTry(drop, ports(ys))]
  <1>1. r.op \in Alterations
    BY DEF Alterations
  <1>2. r.asked = {} /\ Goals(r) = r.ended /\ r.ended \subseteq Ended(r)
    BY <1>1, NothingIsAsked
  <1>3. \A x \in Ended(r) : x = y \/ x[1] = "port"
    BY DEF Ended
  <1>4. \A ys \in SUBSET r.objects : Program(r, ys).steps = h /\ Program(r, ys).final = f[ys]
    BY DEF Program, DeleteClusterInstance, I!DeleteInstance, I!Silent, I!Answering,
           I!C!DeleteInstance
  <1>5. I!C!T!ListPortInterfaces \in Reads
    BY CallsThatRead
  <1>6. /\ look \in Gentle /\ look.when = <<>> /\ look.lists = {"port"}
        /\ look.failing = "return" /\ look.call.effect = "read"
    <2>1. look \in Gentle
      BY <1>5, ReadingSteps, OwnObjects DEF Reactions, Kinds
    <2>2. QED
      BY <1>5, <2>1 DEF I!C!List, I!C!Step, Reads
  <1>7. /\ drop \in Removes /\ I!C!T!DeleteServer \in Removes
        /\ I!C!T!ForceDeleteServer \in Removes /\ y \in Ours
    BY CallsThatRemove, OwnObjects
  <1>8. /\ del \in Gentle /\ del.when = <<>> /\ del.lists = {} /\ del.obj = y
        /\ del.failing = "else" /\ del.call.effect = "remove" /\ del.call.check # T!NoCheck
    <2>1. del \in Gentle
      BY <1>7, WritingSteps DEF Writes, Reactions
    <2>2. QED
      BY <1>7, <2>1, ServersAreAwaited DEF I!C!Step, Removes
  <1>9. /\ force \in Gentle /\ force.when = <<>> /\ force.lists = {} /\ force.obj = y
        /\ force.failing = "return" /\ force.call.effect = "remove"
    <2>1. force \in Gentle
      BY <1>7, WritingSteps DEF Writes, Reactions
    <2>2. QED
      BY <1>7, <2>1 DEF I!C!Do, I!C!Step, Removes
  <1>10. GoesWith(y) = {} /\ y[1] = "server"
    BY DEF GoesWith, I!server
  <1>11. \A x : /\ Brings(r, del, x) => x = y /\ x \in r.ended
                /\ Brings(r, force, x) => x = y /\ x \in r.ended
    BY <1>8, <1>9, <1>10 DEF Brings, Goal
  <1>12. y \in r.ended => Brings(r, del, y) /\ Brings(r, force, y)
    BY <1>7, StepsThatBring
  <1>13. \A ys \in SUBSET r.objects :
            IsFiniteSet(ports(ys)) /\ \A x \in ports(ys) : x \in ys /\ x[1] = "port"
    BY ShownAreObjects, ShownObjects DEF I!C!Shown
  <1>14. \A ys \in SUBSET r.objects : \A x \in ys : x[1] = "port" => x \in ports(ys)
    BY DEF I!C!Shown
  <1>15. drop.check = T!NoCheck /\ drop.effect = "remove"
    BY <1>7, RemovedAtOnce DEF Removes
  <1> HIDE DEF y, look, del, force, drop, ports
  <1>16. \A ys \in SUBSET r.objects, x \in Goals(r) : Brought(r, f[ys], x) <=> x \in ports(ys)
    <2>1. ASSUME NEW ys \in SUBSET r.objects, NEW x \in Goals(r)
          PROVE  Brought(r, I!C!EachTry(drop, ports(ys)), x) <=> x \in ports(ys)
      <3>1. Brought(r, I!C!EachTry(drop, ports(ys)), x)
              <=> \E z \in ports(ys) : Brings(r, I!C!Try(drop, z), x)
        BY <1>13, BroughtByEach
      <3>2. \A z \in ports(ys) : GoesWith(z) = {}
        BY <1>13 DEF GoesWith
      <3>3. \A z \in ports(ys) : Brings(r, I!C!Try(drop, z), x) => x = z
        BY <1>7, <3>2, RemovesOne
      <3>4. Brings(r, I!C!Try(drop, x), x)
        BY <1>2, <1>7, StepsThatBring
      <3>5. QED
        BY <3>1, <3>3, <3>4
    <2>2. QED
      BY <2>1
  \* The ports are tidied up.
  <1>17. \A j \in DOMAIN f[xs] : Tidies(f[xs][j])
    <2> DEFINE S == {s \in Steps : Tidies(s)}
               e == I!C!EachTry(drop, ports(xs))
    <2>1. ASSUME NEW x \in ports(xs)
          PROVE  I!C!Try(drop, x) \in S
      <3>1. x[1] = "port" /\ x \in Ours
        <4>1. Answers(xs)
          BY ShownAreObjects
        <4>2. ports(xs) \subseteq Ours
          BY <4>1, ShownObjects DEF ports
        <4>3. x[1] = "port"
          BY <1>13
        <4>4. QED
          BY <4>2, <4>3
      <3>2. I!C!Try(drop, x) \in Steps
        <4>1. drop \in Writes
          BY <1>7 DEF Writes
        <4>2. "return" \in Reactions
          BY DEF Reactions
        <4>3. I!C!Try(drop, x) \in Gentle
          BY <3>1, <4>1, <4>2, WritingSteps
        <4>4. QED
          BY <4>3 DEF Gentle
      <3>3. Tidies(I!C!Try(drop, x))
        BY <1>15, <3>1 DEF Tidies, I!C!Try, I!C!Step
      <3>4. QED
        BY <3>2, <3>3
    <2>2. e = f[xs]
      OBVIOUS
    <2> HIDE DEF S
    <2>3. e \in Seq(S)
      BY <1>13, <2>1, EachTryIn
    <2> HIDE DEF e
    <2>4. \A j \in DOMAIN e : e[j] \in S
      BY <2>3
    <2>5. QED
      BY <2>2, <2>4 DEF S
  <1>18. DOMAIN h = {1, 2, 3} /\ h[1] = look /\ h[2] = del /\ h[3] = force
    OBVIOUS
  <1>19. h \in Seq(Gentle)
    BY <1>6, <1>8, <1>9
  <1>20. \A ys \in SUBSET r.objects : ts[ys] = <<>>
    OBVIOUS
  <1> HIDE DEF h, ts, f
  <1>21. \A ys \in SUBSET r.objects : Program(r, ys).steps = h \o ts[ys] /\ ts[ys] \in Seq(Erases)
    <2>1. h \o <<>> = h /\ <<>> \in Seq(Erases)
      BY <1>19
    <2>2. QED
      BY <1>4, <1>20, <2>1
  <1>22. \A ys \in SUBSET r.objects, x \in Goals(r) :
            Ends(r, ts[ys], Program(r, ys), x) <=> x \in ports(ys)
    <2>1. \A x : ~Brought(r, <<>>, x)
      BY DEF Brought
    <2>2. QED
      BY <1>4, <1>16, <1>20, <2>1 DEF Ends
  <1>23. \A ys \in SUBSET r.objects, x \in Goals(r) :
            (xs \subseteq ys /\ Ends(r, ts[xs], Program(r, xs), x)) =>
                Ends(r, ts[ys], Program(r, ys), x)
    BY <1>13, <1>14, <1>22
  <1>24. \A x : /\ Names(look, x) <=> x[1] = "port"
                /\ ~Names(del, x) /\ ~Names(force, x)
    BY <1>6, <1>8, <1>9 DEF Names
  <1>25. \A x \in Goals(r) : Keeper(r, x) = x
    BY DEF Keeper
  <1>26. \A ys \in SUBSET r.objects, x \in Goals(r), k \in DOMAIN h :
            Names(h[k], x) => \/ Keeper(r, x)[1] \in h[k].lists /\ Keeper(r, x) \notin ys
                              \/ Ends(r, ts[ys], Program(r, ys), x)
    <2>1. ASSUME NEW ys \in SUBSET r.objects, NEW x \in Goals(r)
          PROVE  Names(look, x) => \/ Keeper(r, x)[1] \in look.lists /\ Keeper(r, x) \notin ys
                                   \/ Ends(r, ts[ys], Program(r, ys), x)
      BY <1>6, <1>14, <1>22, <1>24, <1>25
    <2>2. QED
      BY <1>18, <1>24, <2>1
  <1>27. \A x \in Goals(r) : \/ Ends(r, ts[xs], Program(r, xs), x)
                             \/ \E k \in DOMAIN h : Brings(r, h[k], x) \/ Names(h[k], x)
    BY <1>2, <1>3, <1>12, <1>18, <1>24
  <1>28. \A k \in DOMAIN h : Pardonable(r, Program(r, xs), k)
    <2> DEFINE p == Program(r, xs)
    <2>1. p.steps = h
      BY <1>4
    <2> HIDE DEF p
    <2>2. DOMAIN p.steps = {1, 2, 3} /\ p.steps[1] = look /\ p.steps[2] = del /\ p.steps[3] = force
      BY <1>18, <2>1
    <2>3. ASSUME NEW x \in Goals(r)
          PROVE  /\ Awaits(r, p, 1, x) => Awaits(r, p, 2, x)
                 /\ Awaits(r, p, 2, x) => Brings(r, del, x) \/ Awaits(r, p, 3, x)
      <3>1. Brings(r, del, x) <=> Brings(r, force, x)
        BY <1>11, <1>12
      <3>2. Awaits(r, p, 1, x) => Awaits(r, p, 2, x)
        BY <1>24, <2>2, <3>1 DEF Awaits
      <3>3. Awaits(r, p, 2, x) => Brings(r, del, x) \/ Awaits(r, p, 3, x)
        BY <1>24, <2>2, <3>1 DEF Awaits
      <3>4. QED
        BY <3>2, <3>3
    <2>4. Pardonable(r, p, 2)
      BY <1>8, <2>2, <2>3 DEF Pardonable
    <2>5. Pardonable(r, p, 1) /\ Pardonable(r, p, 3)
      BY <1>6, <1>9, <2>2 DEF Pardonable
    <2>6. QED
      BY <1>18, <2>4, <2>5 DEF p
  <1>29. /\ \A k \in DOMAIN h : h[k].when = <<>> /\ (h[k].lists # {} => h[k].call.effect = "read")
         /\ \A k \in DOMAIN h : Cascades(r, h[k])
    <2>1. Cascades(r, look) /\ Cascades(r, del) /\ Cascades(r, force)
      BY <1>6, <1>8, <1>9, <1>11 DEF Cascades
    <2>2. QED
      BY <1>6, <1>8, <1>9, <1>18, <2>1
  <1>30. /\ Program(r, xs).final # <<>> => r.op = "DeleteClusterInstance"
         /\ \A j \in DOMAIN Program(r, xs).final : Tidies(Program(r, xs).final[j])
         /\ \A k \in DOMAIN ts[xs] : Cascades(r, ts[xs][k])
    BY <1>4, <1>17, <1>20
  <1>31. QED
    BY <1>1, <1>19, <1>21, <1>23, <1>26, <1>27, <1>28, <1>29, <1>30, HeadedIsTended

-----------------------------------------------------------------------------
(* A new security group loses the rules that the cloud put in it *)

LEMMA NewGroupIsTended ==
  ASSUME NEW r \in Requests, NEW xs \in SUBSET r.objects, r.op = "CreateClusterSecurityGroup"
  PROVE  Tended(r, xs)
  <1> DEFINE y == I!security_group
             make == I!C!List(I!C!T!CreateSecurityGroup, y, {"rule"})
             drop == I!C!T!DeleteSecurityGroupRule
             rules(ys) == I!C!Shown("rule", ys)
             h == <<make>>
             ts == [ys \in SUBSET r.objects |-> I!C!Each(drop, rules(ys))]
             Drops == {s \in Steps : /\ s.when = <<>> /\ s.lists = {} /\ s.failing = "return"
                                     /\ s.call.effect = "remove" /\ s.obj[1] = "rule"}
  <1>1. r.op \notin {"StartInstance", "StopClusterInstance", "DeleteClusterRouter",
                     "DeleteClusterSecurityGroup", "UpdateClusterVolumeGroup"}
    OBVIOUS
  <1>2. /\ \A x \in r.asked : x = y /\ x \notin r.ended
        /\ \A x \in r.ended : x[1] = "rule"
    <2>1. Asked(r) = {y} /\ Ended(r) = I!Numbered("rule", 2)
      BY DEF Asked, Ended
    <2>2. \A x \in I!Numbered("rule", 2) : x[1] = "rule"
      BY DEF I!Numbered
    <2>3. r.asked \subseteq {y} /\ r.ended \subseteq I!Numbered("rule", 2)
          /\ r.asked \cap r.ended = {}
      BY <2>1, GoalsAssumption
    <2>4. QED
      BY <2>2, <2>3
  <1>3. \A ys \in SUBSET r.objects : Program(r, ys).steps = h \o ts[ys] /\ Program(r, ys).final = <<>>
    BY SMTT(60) DEF Program, CreateClusterSecurityGroup, I!CreateSecurityGroup, I!Reversible, I!Answering,
           I!C!CreateSecurityGroup, I!C!Undoing
  <1>4. /\ drop \in Removes /\ I!C!T!CreateSecurityGroup \in Makes /\ y \in Ours
    BY CallsThatRemove, CallsThatMake, OwnObjects
  <1>5. I!C!T!CreateSecurityGroup.check = T!NoCheck
    BY NoCheckDone DEF I!C!T!CreateSecurityGroup, I!C!T!Make, I!C!T!Call
  <1>6. /\ make \in Steps /\ make.when = <<>> /\ make.lists = {"rule"} /\ make.obj = y
        /\ make.failing = "return" /\ make.call.effect = "make"
    <2>1. make \in Steps
      BY <1>4, <1>5, MakingSteps DEF Reactions, Kinds
    <2>2. QED
      BY <1>4, <2>1 DEF I!C!List, I!C!Step, Makes
  <1>7. y \notin r.ended => Brings(r, make, y)
    <2>1. y \notin r.ended => Goal(r, y) = "ready"
      BY DEF Goal
    <2>2. QED
      BY <1>4, <2>1, StepsThatBring
  <1>8. \A ys \in SUBSET r.objects :
            IsFiniteSet(rules(ys)) /\ \A x \in rules(ys) : x \in ys /\ x[1] = "rule"
    BY ShownAreObjects, ShownObjects DEF I!C!Shown
  <1>9. \A ys \in SUBSET r.objects : \A x \in ys : x[1] = "rule" => x \in rules(ys)
    BY DEF I!C!Shown
  <1>10. \A z : z[1] = "rule" => GoesWith(z) = {}
    BY DEF GoesWith
  <1>11. ComesWith(y, {}) = I!Numbered("rule", 2) /\ y[1] = "security_group"
    BY DEF ComesWith, I!security_group
  <1>12. \A ys \in SUBSET r.objects : rules(ys) \subseteq Ours
    <2>1. ASSUME NEW ys \in SUBSET r.objects
          PROVE  rules(ys) \subseteq Ours
      <3>1. Answers(ys)
        BY ShownAreObjects
      <3>2. QED
        BY <3>1, ShownObjects
    <2>2. QED
      BY <2>1
  <1> HIDE DEF y, make, drop, rules
  <1>13. ASSUME NEW x \in Ours, x[1] = "rule"
         PROVE  I!C!Do(drop, x) \in Drops
    <2>1. drop \in Writes
      BY <1>4 DEF Writes
    <2>2. "return" \in Reactions
      BY DEF Reactions
    <2>3. I!C!Do(drop, x) \in Gentle
      BY <2>1, <2>2, WritingSteps
    <2>4. I!C!Do(drop, x) \in Steps
      BY <2>3 DEF Gentle
    <2>5. QED
      BY <1>4, <1>13, <2>4 DEF I!C!Do, I!C!Step, Removes
  <1>14. \A s \in Drops : /\ s \in Steps /\ s.when = <<>> /\ s.lists = {} /\ s.failing = "return"
                          /\ s.call.effect = "remove" /\ s.obj[1] = "rule"
    OBVIOUS
  <1> HIDE DEF Drops
  <1>15. \A ys \in SUBSET r.objects : ts[ys] \in Seq(Drops)
    <2>1. ASSUME NEW ys \in SUBSET r.objects
          PROVE  I!C!Each(drop, rules(ys)) \in Seq(Drops)
      <3>1. \A x \in rules(ys) : I!C!Do(drop, x) \in Drops
        <4>1. \A x \in rules(ys) : x[1] = "rule"
          BY <1>8
        <4>2. rules(ys) \subseteq Ours
          BY <1>12
        <4>3. QED
          BY <1>13, <4>1, <4>2
      <3>2. IsFiniteSet(rules(ys))
        BY <1>8
      <3>3. QED
        BY <3>1, <3>2, EachIn
    <2>2. QED
      BY <2>1
  <1>16. \A ys \in SUBSET r.objects, x \in r.ended : x \in ys => Brought(r, ts[ys], x)
    <2>1. ASSUME NEW ys \in SUBSET r.objects, NEW x \in r.ended, x \in ys
          PROVE  Brought(r, I!C!Each(drop, rules(ys)), x)
      <3>1. x \in rules(ys)
        BY <1>2, <1>9, <2>1
      <3>2. Brings(r, I!C!Do(drop, x), x)
        BY <1>4, StepsThatBring
      <3>3. IsFiniteSet(rules(ys))
        BY <1>8
      <3>4. QED
        BY <3>1, <3>2, <3>3, BroughtByEach
    <2>2. QED
      BY <2>1
  <1>17. h \in Seq(Steps) /\ Len(h) = 1 /\ DOMAIN h = {1} /\ h[1] = make
    BY <1>6
  <1> HIDE DEF h, ts
  <1>18. \A ys \in SUBSET r.objects : ts[ys] \in Seq(Steps)
    <2>1. Drops \subseteq Steps
      BY <1>14
    <2>2. Seq(Drops) \subseteq Seq(Steps)
      BY <2>1
    <2>3. QED
      BY <1>15, <2>2
  <1>19. ASSUME NEW ys \in SUBSET r.objects
         PROVE  LET p == Program(r, ys)
                IN  /\ 1 \in DOMAIN p.steps /\ p.steps[1] = make
                    /\ \A j \in DOMAIN ts[ys] :
                          1 + j > 1 /\ 1 + j \in DOMAIN p.steps /\ p.steps[1 + j] = ts[ys][j]
                    /\ \A k \in DOMAIN p.steps : k = 1 \/ p.steps[k] \in Drops
    <2> DEFINE p == Program(r, ys)
               t == ts[ys]
    <2>1. p.steps = h \o t /\ t \in Seq(Steps) /\ t \in Seq(Drops)
      BY <1>3, <1>15, <1>18
    <2> HIDE DEF p, t
    <2> DEFINE c == h \o t
    <2>2. /\ \A k \in DOMAIN h : k \in DOMAIN c /\ c[k] = h[k]
          /\ \A k \in DOMAIN t : Len(h) + k \in DOMAIN c /\ c[Len(h) + k] = t[k]
          /\ \A k \in DOMAIN c : k \in DOMAIN h \/ \E j \in DOMAIN t : k = Len(h) + j
      BY <1>17, <2>1, TwoParts
    <2>3. c = p.steps
      BY <2>1
    <2> HIDE DEF c
    <2>4. \A j \in DOMAIN t : 1 + j > 1 /\ t[j] \in Drops
      BY <2>1
    <2>5. /\ 1 \in DOMAIN p.steps /\ p.steps[1] = make
          /\ \A j \in DOMAIN t : 1 + j > 1 /\ 1 + j \in DOMAIN p.steps /\ p.steps[1 + j] = t[j]
          /\ \A k \in DOMAIN p.steps : k = 1 \/ p.steps[k] \in Drops
      BY <1>17, <2>2, <2>3, <2>4
    <2>6. QED
      BY <2>5 DEF p, t
  <1>20. \A ys \in SUBSET r.objects, x \in r.ended : x \in ys => Awaits(r, Program(r, ys), 1, x)
    <2>1. ASSUME NEW ys \in SUBSET r.objects, NEW x \in r.ended, x \in ys
          PROVE  Awaits(r, Program(r, ys), 1, x)
      <3>1. PICK j \in DOMAIN ts[ys] : Brings(r, ts[ys][j], x)
        BY <1>16, <2>1 DEF Brought
      <3> DEFINE p == Program(r, ys)
      <3>2. 1 + j > 1 /\ 1 + j \in DOMAIN p.steps /\ p.steps[1 + j] = ts[ys][j]
        BY <1>19
      <3> HIDE DEF p
      <3>3. Awaits(r, p, 1, x)
        BY <3>1, <3>2 DEF Awaits
      <3>4. QED
        BY <3>3 DEF p
    <2>2. QED
      BY <2>1
  <1>21. \A x \in r.ended : Names(make, x)
    BY <1>2, <1>6 DEF Names
  <1>22. \A x \in r.asked : x = y /\ Brings(r, make, x)
    BY <1>2, <1>7
  <1> DEFINE p == Program(r, xs)
  <1>23. /\ 1 \in DOMAIN p.steps /\ p.steps[1] = make /\ p.final = <<>>
         /\ \A k \in DOMAIN p.steps : k = 1 \/ p.steps[k] \in Drops
    BY <1>3, <1>19
  <1>24. p = Program(r, xs)
    OBVIOUS
  <1> HIDE DEF p
  <1>25. Orderly(r, p, 1)
    <2>1. ASSUME NEW x \in Goals(r), Spoils(r, make, x)
          PROVE  Names(make, x)
      <3>1. Goal(r, x) # "ready"
        BY <1>6, <2>1 DEF Spoils
      <3>2. x \in r.ended
        BY <1>1, <3>1 DEF Goal
      <3>3. QED
        BY <1>21, <3>2
    <2>2. QED
      BY <1>6, <1>23, <2>1 DEF Orderly, Pardonable
  <1>26. ASSUME NEW s \in Drops
         PROVE  Cascades(r, s) /\ \A x \in Goals(r) : ~Spoils(r, s, x)
    <2>1. s.call.effect = "remove" /\ s.obj[1] = "rule" /\ GoesWith(s.obj) = {}
      BY <1>10, <1>14
    <2>2. ASSUME NEW x \in Goals(r), Spoils(r, s, x)
          PROVE  FALSE
      <3>1. x = s.obj /\ Goal(r, x) # "absent"
        BY <2>1, <2>2 DEF Spoils
      <3>2. x \in r.asked
        BY <3>1 DEF Goal, Goals
      <3>3. QED
        BY <1>2, <1>11, <2>1, <3>1, <3>2
    <2>3. \A x \in Goals(r) : Brings(r, s, x) => x = s.obj
      BY <2>1 DEF Brings
    <2>4. Cascades(r, s)
      BY <1>1, <2>3 DEF Cascades
    <2>5. QED
      BY <2>2, <2>4
  <1>27. Cascades(r, make)
    BY <1>1, <1>6 DEF Cascades
  <1>28. Follows(r, xs, 1)
    <2>1. ASSUME NEW ys \in SUBSET r.objects, NEW x \in Goals(r)
          PROVE  \/ Awaits(r, Program(r, ys), 1, x)
                 \/ Brings(r, make, x)
                 \/ x \in r.ended /\ Keeper(r, x)[1] \in make.lists /\ Keeper(r, x) \notin ys
      <3>1. CASE x \in r.asked
        BY <1>22, <3>1
      <3>2. CASE x \in r.ended
        <4>1. Keeper(r, x) = x
          BY <1>1 DEF Keeper
        <4>2. x[1] \in make.lists
          BY <1>2, <1>6, <3>2
        <4>3. QED
          BY <1>20, <3>2, <4>1, <4>2
      <3>3. QED
        BY <3>1, <3>2 DEF Goals
    <2>2. QED
      BY <1>1, <1>6, <1>23, <1>24, <2>1 DEF Follows
  <1>29. ASSUME NEW k \in DOMAIN p.steps
         PROVE  /\ Orderly(r, p, k)
                /\ Cascades(r, p.steps[k])
                /\ p.steps[k].lists # {} => Follows(r, xs, k)
    <2>1. CASE k = 1
      BY <1>23, <1>25, <1>27, <1>28, <2>1
    <2>2. CASE p.steps[k] \in Drops
      <3>1. Orderly(r, p, k)
        BY <1>14, <1>26, <2>2 DEF Orderly, Pardonable
      <3>2. QED
        BY <1>14, <1>26, <2>2, <3>1
    <2>3. QED
      BY <1>23, <2>1, <2>2
  <1>30. ASSUME NEW x \in Goals(r)
         PROVE  Awaits(r, p, 0, x)
    <2>1. Brings(r, make, x) \/ Names(make, x)
      BY <1>21, <1>22 DEF Goals
    <2>2. QED
      BY <1>23, <2>1 DEF Awaits
  <1>31. QED
    BY <1>23, <1>24, <1>29, <1>30 DEF Tended

-----------------------------------------------------------------------------
(* The update of a volume group *)

Look == [I!C!Step(I!C!T!ShowVolumeGroupDetails, I!group, "absent") EXCEPT !.lists = {"member"}]

\* The volumes that are to join and have not joined, and those that are to leave
\* and have not left.
Joins(r, ys) == {n \in I!ToJoin(r) : ~I!C!isContainUUID(n, ys)}
Leaves(r, ys) == {n \in I!ToLeave(r) : I!C!isContainUUID(n, ys)}
Updates(r, ys) ==
    I!C!Batches(I!group, I!C!SetToSeq(Joins(r, ys)), I!C!SetToSeq(Leaves(r, ys)))

LEMMA LookingIsGentle ==
  /\ Look \in Gentle /\ Look.when = <<>> /\ Look.lists = {"member"} /\ Look.failing = "absent"
  /\ Look.call.effect = "read" /\ Look.call.check = T!NoCheck /\ Look.obj = I!group
  <1>1. I!C!T!ShowVolumeGroupDetails \in Reads
    BY CallsThatRead
  <1>2. I!group \in Objects /\ {"member"} \in SUBSET Kinds /\ "absent" \in Reactions
    BY OwnObjects DEF Reactions, Kinds
  <1>3. Look \in Gentle
    BY <1>1, <1>2, ReadingSteps DEF Look
  <1>4. QED
    BY <1>1, <1>3 DEF I!C!Step, Reads, Look

LEMMA UpdateProgram ==
  ASSUME NEW r \in Requests, NEW ys, r.op = "UpdateClusterVolumeGroup"
  PROVE  Program(r, ys).steps = <<Look>> \o Updates(r, ys) /\ Program(r, ys).final = <<>>
  BY DEF Program, UpdateClusterVolumeGroup, I!UpdateVolumeGroup, I!Silent, I!Answering,
         I!C!UpdateVolumeGroup, I!C!Program, Look, Updates, Joins, Leaves

\* Each request of the update names only such volumes, and each is named.
LEMMA UpdatesCover ==
  ASSUME NEW r \in Requests, NEW ys
  PROVE  LET B == Updates(r, ys)
         IN  /\ B \in Seq(Steps)
             /\ \A k \in DOMAIN B :
                   /\ B[k].call = I!C!T!UpdateVolumeGroup /\ B[k].obj = I!group
                   /\ B[k].failing = "return" /\ B[k].lists = {} /\ B[k].when = <<>>
                   /\ \A z \in B[k].adds : \E n \in I!ToJoin(r) : z = <<"member", n>> /\ z \notin ys
                   /\ \A z \in B[k].drops : \E n \in I!ToLeave(r) : z = <<"member", n>> /\ z \in ys
             /\ \A n \in I!ToJoin(r) : <<"member", n>> \notin ys =>
                   \E k \in DOMAIN B : <<"member", n>> \in B[k].adds
             /\ \A n \in I!ToLeave(r) : <<"member", n>> \in ys =>
                   \E k \in DOMAIN B : <<"member", n>> \in B[k].drops
  <1> DEFINE y == I!group
             adds == I!C!SetToSeq(Joins(r, ys))
             drops == I!C!SetToSeq(Leaves(r, ys))
             B == I!C!Batches(y, adds, drops)
  <1>1. r.n \in Nat
    BY RequestsAssumption
  <1>2. /\ I!ToJoin(r) \in SUBSET Nat /\ IsFiniteSet(I!ToJoin(r))
        /\ I!ToLeave(r) \in SUBSET Nat /\ IsFiniteSet(I!ToLeave(r))
    <2>1. I!ToJoin(r) = 3..(r.n + 2) /\ I!ToLeave(r) = 1..r.n
      BY DEF I!ToJoin, I!ToLeave
    <2>2. 3..(r.n + 2) \in SUBSET Nat /\ 1..r.n \in SUBSET Nat
      BY <1>1
    <2>3. IsFiniteSet(3..(r.n + 2)) /\ IsFiniteSet(1..r.n)
      <3>1. r.n + 2 \in Int /\ r.n \in Int /\ 1 \in Int /\ 3 \in Int
        BY <1>1
      <3>2. QED
        BY <3>1, FS_Interval
    <2>4. QED
      BY <2>1, <2>2, <2>3
  <1>3. /\ Joins(r, ys) \in SUBSET I!ToJoin(r) /\ Leaves(r, ys) \in SUBSET I!ToLeave(r)
    BY DEF Joins, Leaves
  <1>4. /\ Joins(r, ys) \in SUBSET Nat /\ IsFiniteSet(Joins(r, ys))
        /\ Leaves(r, ys) \in SUBSET Nat /\ IsFiniteSet(Leaves(r, ys))
    BY <1>2, <1>3, FS_Subset
  <1>5. adds \in Seq(Nat) /\ MembersOf(adds) = {<<"member", n>> : n \in Joins(r, ys)}
    BY <1>4, NumbersInOrder
  <1>6. drops \in Seq(Nat) /\ MembersOf(drops) = {<<"member", n>> : n \in Leaves(r, ys)}
    BY <1>4, NumbersInOrder
  <1>7. y \in Ours
    BY OwnObjects
  <1> HIDE DEF y, adds, drops
  <1>8. B \in Seq(Steps)
    BY <1>5, <1>6, <1>7, BatchesOfVolumes
  <1>9. B = I!C!Batches(y, adds, drops)
    OBVIOUS
  <1>10. B = Updates(r, ys)
    BY DEF Updates, y, adds, drops
  <1> HIDE DEF B
  <1>11. Covering(B, y, adds, drops)
    <2>1. adds \in Seq(Nat) /\ drops \in Seq(Nat)
      BY <1>5, <1>6
    <2>2. QED
      BY <1>9, <2>1, BatchesCover
  <1>12. /\ \A z \in MembersOf(adds) : \E n \in I!ToJoin(r) : z = <<"member", n>> /\ z \notin ys
         /\ \A n \in I!ToJoin(r) : <<"member", n>> \notin ys => <<"member", n>> \in MembersOf(adds)
    BY <1>5 DEF Joins, I!C!isContainUUID
  <1>13. /\ \A z \in MembersOf(drops) : \E n \in I!ToLeave(r) : z = <<"member", n>> /\ z \in ys
         /\ \A n \in I!ToLeave(r) : <<"member", n>> \in ys => <<"member", n>> \in MembersOf(drops)
    BY <1>6 DEF Leaves, I!C!isContainUUID
  <1>14. ASSUME NEW k \in DOMAIN B
         PROVE  /\ B[k].call = I!C!T!UpdateVolumeGroup /\ B[k].obj = I!group
                /\ B[k].failing = "return" /\ B[k].lists = {} /\ B[k].when = <<>>
                /\ \A z \in B[k].adds : \E n \in I!ToJoin(r) : z = <<"member", n>> /\ z \notin ys
                /\ \A z \in B[k].drops : \E n \in I!ToLeave(r) : z = <<"member", n>> /\ z \in ys
    <2>1. /\ B[k].call = I!C!T!UpdateVolumeGroup /\ B[k].obj = I!group
          /\ B[k].failing = "return" /\ B[k].lists = {} /\ B[k].when = <<>>
          /\ B[k].adds \subseteq MembersOf(adds) /\ B[k].drops \subseteq MembersOf(drops)
      BY <1>11 DEF Covering, y
    <2>2. QED
      BY <1>12, <1>13, <2>1
  <1>15. /\ \A n \in I!ToJoin(r) : <<"member", n>> \notin ys =>
                \E k \in DOMAIN B : <<"member", n>> \in B[k].adds
         /\ \A n \in I!ToLeave(r) : <<"member", n>> \in ys =>
                \E k \in DOMAIN B : <<"member", n>> \in B[k].drops
    BY <1>11, <1>12, <1>13 DEF Covering
  <1>16. QED
    BY <1>8, <1>10, <1>14, <1>15

\* The steps of the update, one by one.
LEMMA UpdateSteps ==
  ASSUME NEW r \in Requests, NEW ys, r.op = "UpdateClusterVolumeGroup",
         NEW p, p = Program(r, ys)
  PROVE  /\ 1 \in DOMAIN p.steps /\ p.steps[1] = Look /\ p.final = <<>>
         /\ \A k \in DOMAIN p.steps : k # 1 =>
               /\ p.steps[k].call = I!C!T!UpdateVolumeGroup /\ p.steps[k].obj = I!group
               /\ p.steps[k].failing = "return" /\ p.steps[k].lists = {}
               /\ p.steps[k].when = <<>>
               /\ \A z \in p.steps[k].adds :
                     \E n \in I!ToJoin(r) : z = <<"member", n>> /\ z \notin ys
               /\ \A z \in p.steps[k].drops :
                     \E n \in I!ToLeave(r) : z = <<"member", n>> /\ z \in ys
         /\ \A n \in I!ToJoin(r) : <<"member", n>> \notin ys =>
               \E k \in DOMAIN p.steps : k > 1 /\ <<"member", n>> \in p.steps[k].adds
         /\ \A n \in I!ToLeave(r) : <<"member", n>> \in ys =>
               \E k \in DOMAIN p.steps : k > 1 /\ <<"member", n>> \in p.steps[k].drops
  <1> DEFINE h == <<Look>>
             B == Updates(r, ys)
             c == h \o B
  <1>1. h \in Seq(Steps) /\ Len(h) = 1 /\ DOMAIN h = {1} /\ h[1] = Look
    BY LookingIsGentle DEF Gentle
  <1>2. p.steps = c /\ p.final = <<>>
    BY UpdateProgram
  <1>3. /\ B \in Seq(Steps)
        /\ \A k \in DOMAIN B :
              /\ B[k].call = I!C!T!UpdateVolumeGroup /\ B[k].obj = I!group
              /\ B[k].failing = "return" /\ B[k].lists = {} /\ B[k].when = <<>>
              /\ \A z \in B[k].adds : \E n \in I!ToJoin(r) : z = <<"member", n>> /\ z \notin ys
              /\ \A z \in B[k].drops : \E n \in I!ToLeave(r) : z = <<"member", n>> /\ z \in ys
        /\ \A n \in I!ToJoin(r) : <<"member", n>> \notin ys =>
              \E k \in DOMAIN B : <<"member", n>> \in B[k].adds
        /\ \A n \in I!ToLeave(r) : <<"member", n>> \in ys =>
              \E k \in DOMAIN B : <<"member", n>> \in B[k].drops
    BY UpdatesCover
  <1> HIDE DEF h, B
  <1>4. /\ \A k \in DOMAIN h : k \in DOMAIN c /\ c[k] = h[k]
        /\ \A k \in DOMAIN B : Len(h) + k \in DOMAIN c /\ c[Len(h) + k] = B[k]
        /\ \A k \in DOMAIN c : k \in DOMAIN h \/ \E j \in DOMAIN B : k = Len(h) + j
    <2>1. h \in Seq(Steps) /\ B \in Seq(Steps)
      BY <1>1, <1>3
    <2>2. QED
      BY <2>1, TwoParts
  <1> HIDE DEF c
  <1>5. \A j \in DOMAIN B : 1 + j > 1 /\ 1 + j \in DOMAIN c /\ c[1 + j] = B[j]
    BY <1>1, <1>3, <1>4
  <1>6. 1 \in DOMAIN c /\ c[1] = Look
    BY <1>1, <1>4
  <1>7. \A k \in DOMAIN c : k # 1 => \E j \in DOMAIN B : c[k] = B[j]
    BY <1>1, <1>4
  <1>8. /\ \A n \in I!ToJoin(r) : <<"member", n>> \notin ys =>
               \E k \in DOMAIN c : k > 1 /\ <<"member", n>> \in c[k].adds
        /\ \A n \in I!ToLeave(r) : <<"member", n>> \in ys =>
               \E k \in DOMAIN c : k > 1 /\ <<"member", n>> \in c[k].drops
    BY <1>3, <1>5
  <1>9. ASSUME NEW k \in DOMAIN c, k # 1
        PROVE  /\ c[k].call = I!C!T!UpdateVolumeGroup /\ c[k].obj = I!group
               /\ c[k].failing = "return" /\ c[k].lists = {} /\ c[k].when = <<>>
               /\ \A z \in c[k].adds : \E n \in I!ToJoin(r) : z = <<"member", n>> /\ z \notin ys
               /\ \A z \in c[k].drops : \E n \in I!ToLeave(r) : z = <<"member", n>> /\ z \in ys
    BY <1>3, <1>7, <1>9
  <1>10. QED
    BY <1>2, <1>6, <1>8, <1>9

LEMMA StepNumbers ==
  ASSUME NEW r \in Requests, NEW ys, r.op = "UpdateClusterVolumeGroup"
  PROVE  DOMAIN Program(r, ys).steps \subseteq Nat \ {0}
  <1> DEFINE h == <<Look>>
             B == Updates(r, ys)
             c == h \o B
  <1>1. h \in Seq(Steps)
    BY LookingIsGentle DEF Gentle
  <1>2. B \in Seq(Steps)
    BY UpdatesCover
  <1>3. Program(r, ys).steps = c
    BY UpdateProgram
  <1> HIDE DEF h, B
  <1>4. c \in Seq(Steps)
    BY <1>1, <1>2, Joining
  <1> HIDE DEF c
  <1>5. QED
    BY <1>3, <1>4

\* An update of a group begins with the question for its members.
LEMMA UpdateBegins ==
  ASSUME NEW r \in Requests, NEW xs \in SUBSET r.objects, r.op = "UpdateClusterVolumeGroup"
  PROVE  LET s == Program(r, xs).steps[1]
         IN  /\ s.call.effect = "read" /\ s.call.check = T!NoCheck
             /\ s.failing = "absent" /\ s.lists = {"member"}
  <1> DEFINE p == Program(r, xs)
  <1>1. p.steps[1] = Look
    BY UpdateSteps
  <1>2. QED
    BY <1>1, LookingIsGentle

\* The members that were not shown join, and those that were shown leave.
LEMMA UpdateIsTended ==
  ASSUME NEW r \in Requests, NEW xs \in SUBSET r.objects, r.op = "UpdateClusterVolumeGroup"
  PROVE  Tended(r, xs)
  <1> DEFINE y == I!group
             call == I!C!T!UpdateVolumeGroup
  <1>1. r.op \notin {"StartInstance", "StopClusterInstance", "DeleteClusterRouter",
                     "DeleteClusterSecurityGroup"}
    OBVIOUS
  <1>2. /\ y \in r.before /\ y[1] = "group"
        /\ \A x \in r.asked : /\ x \notin r.ended
                              /\ \/ x = y
                                 \/ \E n \in I!ToJoin(r) \ I!ToLeave(r) : x = <<"member", n>>
        /\ \A x \in r.ended : \E n \in I!ToLeave(r) : x = <<"member", n>>
    <2>1. Asked(r) = {y} \cup {<<"member", i>> : i \in I!ToJoin(r) \ I!ToLeave(r)}
      BY DEF Asked
    <2>2. Ended(r) = {x \in r.before : x[1] = "member" /\ x[2] \in I!ToLeave(r)}
      BY DEF Ended
    <2>3. Subject(r) = {y}
      BY DEF Subject
    <2>4. r.before \subseteq Objects
      BY RequestsAssumption
    <2>5. \A x \in Ended(r) : \E n \in I!ToLeave(r) : x = <<"member", n>>
      <3>1. \A x \in Objects : x = <<x[1], x[2]>>
        BY DEF Objects
      <3>2. QED
        BY <2>2, <2>4, <3>1
    <2>6. /\ r.asked \subseteq Asked(r) /\ r.ended \subseteq Ended(r)
          /\ r.asked \cap r.ended = {} /\ Subject(r) \subseteq r.before
      BY GoalsAssumption
    <2>7. y[1] = "group"
      BY DEF I!group
    <2>8. \A x \in r.asked : \/ x = y
                             \/ \E n \in I!ToJoin(r) \ I!ToLeave(r) : x = <<"member", n>>
      BY <2>1, <2>6
    <2>9. QED
      BY <2>3, <2>5, <2>6, <2>7, <2>8
  <1>3. /\ call.effect = "change" /\ call.check.done = {"ready"} /\ call.check # T!NoCheck
    BY UpdatingAGroup
  <1>4. /\ Look.when = <<>> /\ Look.lists = {"member"} /\ Look.failing = "absent"
        /\ Look.call.effect = "read" /\ Look.obj = y
    BY LookingIsGentle
  <1> HIDE DEF y, call
  <1>5. /\ \A x \in r.ended : Goal(r, x) = "absent" /\ x # y /\ Names(Look, x)
        /\ \A x \in r.asked : Goal(r, x) = "ready" /\ (x # y => Names(Look, x))
    <2>1. \A x \in r.ended : x[1] = "member"
      BY <1>2
    <2>2. \A x \in r.asked : x # y => x[1] = "member"
      BY <1>2
    <2>3. \A x : x[1] = "member" => Names(Look, x)
      BY <1>4 DEF Names
    <2>4. \A x \in r.ended : Goal(r, x) = "absent"
      BY DEF Goal
    <2>5. \A x \in r.asked : Goal(r, x) = "ready"
      BY <1>1, <1>2 DEF Goal
    <2>6. QED
      BY <1>2, <2>1, <2>2, <2>3, <2>4, <2>5
  <1>6. Goals(r) = r.asked \cup r.ended
    BY DEF Goals
  \* What is to come after the answer, if ys is all that was shown.
  <1>7. ASSUME NEW ys \in SUBSET r.objects, NEW x \in Goals(r), x \notin r.asked \cap r.before
        PROVE  \/ Awaits(r, Program(r, ys), 1, x)
               \/ x \in r.ended /\ x \notin ys
               \/ x \in r.asked /\ x \in ys
    <2> DEFINE p == Program(r, ys)
    <2>1. p = Program(r, ys)
      OBVIOUS
    <2> HIDE DEF p
    <2>2. /\ \A k \in DOMAIN p.steps : k # 1 =>
               /\ p.steps[k].call = call /\ p.steps[k].obj = y
               /\ \A z \in p.steps[k].adds :
                     \E n \in I!ToJoin(r) : z = <<"member", n>> /\ z \notin ys
          /\ \A n \in I!ToJoin(r) : <<"member", n>> \notin ys =>
               \E k \in DOMAIN p.steps : k > 1 /\ <<"member", n>> \in p.steps[k].adds
          /\ \A n \in I!ToLeave(r) : <<"member", n>> \in ys =>
               \E k \in DOMAIN p.steps : k > 1 /\ <<"member", n>> \in p.steps[k].drops
      BY <2>1, UpdateSteps DEF call, y
    <2>3. CASE x \in r.asked /\ x \notin ys
      <3>1. x # y
        BY <1>2, <1>7, <2>3
      <3>2. PICK n \in I!ToJoin(r) : x = <<"member", n>>
        BY <1>2, <2>3, <3>1
      <3>3. PICK k \in DOMAIN p.steps : k > 1 /\ x \in p.steps[k].adds
        BY <2>2, <2>3, <3>2
      <3>4. k # 1
        BY <3>3
      <3>5. p.steps[k].call = call /\ p.steps[k].obj = y
        BY <2>2, <3>4
      <3>6. Brings(r, p.steps[k], x)
        BY <1>3, <1>5, <2>3, <3>1, <3>3, <3>5 DEF Brings
      <3>7. QED
        BY <2>1, <3>3, <3>6 DEF Awaits
    <2>4. CASE x \in r.ended /\ x \in ys
      <3>1. PICK n \in I!ToLeave(r) : x = <<"member", n>>
        BY <1>2, <2>4
      <3>2. PICK k \in DOMAIN p.steps : k > 1 /\ x \in p.steps[k].drops
        BY <2>2, <2>4, <3>1
      <3>3. k # 1
        BY <3>2
      <3>4. p.steps[k].call = call /\ p.steps[k].obj = y /\ x \notin p.steps[k].adds
        BY <2>2, <2>4, <3>3
      <3>5. Brings(r, p.steps[k], x)
        BY <1>3, <1>5, <2>4, <3>2, <3>4 DEF Brings
      <3>6. QED
        BY <2>1, <3>2, <3>5 DEF Awaits
    <2>5. QED
      BY <1>6, <2>3, <2>4
  <1> DEFINE p == Program(r, xs)
  <1>8. p = Program(r, xs)
    OBVIOUS
  <1> HIDE DEF p
  <1>9. 1 \in DOMAIN p.steps /\ p.steps[1] = Look /\ p.final = <<>>
    BY <1>8, UpdateSteps
  <1>10. \A k \in DOMAIN p.steps : k # 1 =>
            /\ p.steps[k].call = call /\ p.steps[k].obj = y
            /\ p.steps[k].failing = "return" /\ p.steps[k].lists = {} /\ p.steps[k].when = <<>>
            /\ \A z \in p.steps[k].adds : \E n \in I!ToJoin(r) : z = <<"member", n>> /\ z \notin xs
            /\ \A z \in p.steps[k].drops : \E n \in I!ToLeave(r) : z = <<"member", n>> /\ z \in xs
    BY <1>8, UpdateSteps DEF call, y
  <1>11. Orderly(r, p, 1) /\ Cascades(r, Look)
    <2>1. \A x : ~Spoils(r, Look, x)
      BY <1>4 DEF Spoils
    <2>2. Pardonable(r, p, 1)
      BY <1>2, <1>4, <1>9 DEF Pardonable
    <2>3. Cascades(r, Look)
      BY <1>1, <1>4 DEF Cascades
    <2>4. QED
      BY <1>4, <1>9, <2>1, <2>2, <2>3 DEF Orderly
  <1>12. ASSUME NEW k \in DOMAIN p.steps, k # 1, r.ended \subseteq xs
         PROVE  Orderly(r, p, k)
    <2> DEFINE s == p.steps[k]
    <2>1. /\ s.call = call /\ s.obj = y
          /\ s.failing = "return" /\ s.lists = {} /\ s.when = <<>>
          /\ \A z \in s.adds : \E n \in I!ToJoin(r) : z = <<"member", n>> /\ z \notin xs
          /\ \A z \in s.drops : \E n \in I!ToLeave(r) : z = <<"member", n>> /\ z \in xs
      BY <1>10, <1>12
    <2>2. s = p.steps[k]
      OBVIOUS
    <2> HIDE DEF s
    <2>3. ASSUME NEW x \in Goals(r), Spoils(r, s, x)
          PROVE  x = s.obj /\ Brings(r, s, x)
      <3>1. x \notin s.adds \/ Goal(r, x) = "ready"
        <4>1. \A z \in s.adds : z \notin xs
          BY <2>1
        <4>2. QED
          BY <1>5, <1>6, <1>12, <4>1
      <3>2. x \notin s.drops \/ Goal(r, x) = "absent"
        <4>1. ASSUME x \in r.asked, x \in s.drops
              PROVE  FALSE
          <5>1. PICK n \in I!ToLeave(r) : x = <<"member", n>>
            BY <2>1, <4>1
          <5>2. x # y
            <6>1. x[1] = "member"
              BY <5>1
            <6>2. QED
              BY <1>2, <6>1
          <5>3. PICK m \in I!ToJoin(r) \ I!ToLeave(r) : x = <<"member", m>>
            BY <1>2, <4>1, <5>2
          <5>4. m = n
            BY <5>1, <5>3
          <5>5. QED
            BY <5>3, <5>4
        <4>2. QED
          BY <1>5, <1>6, <4>1
      <3>3. x = y /\ Goal(r, x) # "absent"
        BY <1>3, <2>1, <2>3, <3>1, <3>2 DEF Spoils
      <3>4. Goal(r, x) = "ready"
        BY <1>5, <1>6, <3>3
      <3>5. QED
        BY <1>3, <2>1, <3>3, <3>4 DEF Brings
    <2>4. QED
      BY <2>1, <2>2, <2>3 DEF Orderly, Pardonable
  <1>13. ASSUME NEW k \in DOMAIN p.steps, k # 1
         PROVE  Cascades(r, p.steps[k]) /\ p.steps[k].lists = {}
    <2>1. p.steps[k].call.effect = "change" /\ p.steps[k].lists = {}
      BY <1>3, <1>10, <1>13
    <2>2. QED
      BY <1>1, <2>1 DEF Cascades
  <1>14. Follows(r, xs, 1)
    <2>1. ASSUME NEW ys \in SUBSET r.objects, NEW x \in Goals(r), x \notin r.asked \cap r.before
          PROVE  \/ Awaits(r, Program(r, ys), 1, x)
                 \/ x \in r.ended /\ Keeper(r, x)[1] \in Look.lists /\ Keeper(r, x) \notin ys
                 \/ x \in r.asked /\ x[1] \in Look.lists /\ x \in ys
      <3>1. Keeper(r, x) = x
        BY <1>1 DEF Keeper
      <3>2. x[1] \in Look.lists
        <4>1. x # y
          BY <1>2, <1>5, <1>6, <2>1
        <4>2. \/ \E n \in I!ToJoin(r) \ I!ToLeave(r) : x = <<"member", n>>
              \/ \E n \in I!ToLeave(r) : x = <<"member", n>>
          BY <1>2, <1>6, <4>1
        <4>3. x[1] = "member"
          BY <4>2
        <4>4. QED
          BY <1>4, <4>3
      <3>3. QED
        BY <1>7, <2>1, <3>1, <3>2
    <2>2. QED
      BY <1>1, <1>4, <1>8, <1>9, <2>1 DEF Follows
  <1>15. ASSUME NEW k \in DOMAIN p.steps
         PROVE  /\ (r.op = "UpdateClusterVolumeGroup" /\ k > 1 => r.ended \subseteq xs) =>
                      Orderly(r, p, k)
                /\ Cascades(r, p.steps[k])
                /\ p.steps[k].lists # {} => Follows(r, xs, k)
    <2>1. CASE k = 1
      BY <1>9, <1>11, <1>14, <2>1
    <2>2. CASE k # 1
      <3>1. DOMAIN p.steps \subseteq Nat \ {0}
        BY <1>8, StepNumbers
      <3>2. k > 1
        BY <2>2, <3>1
      <3>3. QED
        BY <1>12, <1>13, <2>2, <3>2
    <2>3. QED
      BY <2>1, <2>2
  <1>16. ASSUME NEW x \in Goals(r)
         PROVE  \/ Awaits(r, p, 0, x)
                \/ x \in r.asked \cap r.before
    <2>1. CASE x = y
      BY <1>2, <1>5, <1>6, <2>1
    <2>2. CASE x # y
      <3>1. Names(Look, x)
        BY <1>5, <1>6, <2>2
      <3>2. QED
        BY <1>9, <3>1 DEF Awaits
    <2>3. QED
      BY <2>1, <2>2
  <1>17. QED
    BY <1>1, <1>8, <1>9, <1>15, <1>16 DEF Tended

-----------------------------------------------------------------------------
(* All requests *)

\* Whatever was shown so far, what a request promises is there, or something that
\* is still to come sees to it.
LEMMA RequestsAreTended ==
  ASSUME NEW r \in Requests, r.op \in Creations \cup Alterations, NEW xs \in SUBSET r.objects
  PROVE  Tended(r, xs)
  <1>1. CASE r.op \in Creations
    <2>1. CASE r.op = "CreateClusterSecurityGroup"
      BY <2>1, NewGroupIsTended
    <2>2. CASE r.op = "UpdateClusterVolumeGroup"
      BY <2>2, UpdateIsTended
    <2>3. CASE r.op \notin {"CreateClusterSecurityGroup", "UpdateClusterVolumeGroup"}
      BY <1>1, <2>3, CreationsAreTended
    <2>4. QED
      BY <2>1, <2>2, <2>3
  <1>2. CASE r.op \in {"StartInstance", "StopClusterInstance"}
    BY <1>2, TurningOnAndOff
  <1>3. CASE r.op \in {"DeleteClusterNetwork", "DeleteSubnet", "DeleteClusterFloatingIP",
                       "DeleteVolume", "DeleteVolumeSnapshot", "DeleteClusterVolumeGroupSnapshot",
                       "DeleteClusterInstanceSpec", "DeleteClusterKeypair"}
    BY <1>3, ShortDeletionsAreTended
  <1>4. CASE r.op \in {"CopyVolume", "DeleteVolumeCopy", "CreateClusterVolumeGroupSnapshot",
                       "CopyClusterVolume", "DeleteClusterVolumeCopy", "DeleteClusterVolume"}
    BY <1>4, IdleRequestsAreTended
  <1>5. CASE r.op = "UnmanageClusterVolume"
    BY <1>5, IdleRequestsAreTended, UnmanagingIsTended
  <1>6. CASE r.op = "DeleteClusterTenant"
    BY <1>6, TenantIsTended
  <1>7. CASE r.op = "DeleteClusterRouter"
    BY <1>7, RouterIsTended
  <1>8. CASE r.op = "DeleteClusterSecurityGroup"
    BY <1>8, SecurityGroupIsTended
  <1>9. CASE r.op = "DeleteClusterVolumeGroup"
    BY <1>9, VolumeGroupIsTended
  <1>10. CASE r.op = "DeleteClusterInstance"
    BY <1>10, InstanceIsTended
  <1>11. QED
    BY <1>1, <1>2, <1>3, <1>4, <1>5, <1>6, <1>7, <1>8, <1>9, <1>10 DEF Alterations
=============================================================================
