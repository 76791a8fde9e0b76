--------------------------- MODULE ResourceRequests ---------------------------
(***************************************************************************)
(* A request to create, change, delete or read something in a cloud: the   *)
(* handler, the internal function behind it, and the client whose program  *)
(* of requests (CloudRequests, CloudClient, CloudCalls) is carried out here*)
(* one request at a time, against a cloud that works asynchronously, may   *)
(* refuse, may lose an answer, and may be changed by others meanwhile.     *)
(***************************************************************************)
EXTENDS Naturals, Sequences, FiniteSets

CONSTANTS
    Limit,          \* volumes in one update of a volume group; 6 in the code
    Requests,       \* requests: see MCResourceRequests
    Catalogs,       \* sets of services that the catalog of a token may lack
    MaxFaults       \* faults of one behaviour

ASSUME LimitAssumption == Limit \in Nat \ {0}
ASSUME MaxFaultsAssumption == MaxFaults \in Nat

I == INSTANCE CloudRequests
T == INSTANCE CloudCalls

-----------------------------------------------------------------------------
(* The handlers. Each passes the request on and turns an error into the     *)
(* answer's. Those that the source has commented out have no definition.    *)

CreateClusterTenant(r, seen) == I!CreateTenant(r, seen)
DeleteClusterTenant(r, seen) == I!DeleteTenant(r, seen)
CreateClusterNetwork(r, seen) == I!CreateNetwork(r, seen)
DeleteClusterNetwork(r, seen) == I!DeleteNetwork(r, seen)
CreateClusterSubnet(r, seen) == I!CreateSubnet(r, seen)
CreateClusterFloatingIP(r, seen) == I!CreateFloatingIP(r, seen)
DeleteClusterFloatingIP(r, seen) == I!DeleteFloatingIP(r, seen)
CreateClusterRouter(r, seen) == I!CreateRouter(r, seen)
DeleteClusterRouter(r, seen) == I!DeleteRouter(r, seen)
CreateClusterSecurityGroup(r, seen) == I!CreateSecurityGroup(r, seen)
CreateClusterSecurityGroupRule(r, seen) == I!CreateSecurityGroupRule(r, seen)
DeleteClusterSecurityGroup(r, seen) == I!DeleteSecurityGroup(r, seen)
ImportClusterVolume(r, seen) == I!ImportVolume(r, seen)
UnmanageClusterVolume(r, seen) == I!UnmanageVolume(r, seen)
GetClusterVolumeGroupList(r, seen) == I!GetVolumeGroupList(r, seen)
GetClusterVolumeGroupByUUID(r, seen) == I!GetVolumeGroupByUUID(r, seen)
CreateClusterVolumeGroup(r, seen) == I!CreateVolumeGroup(r, seen)
DeleteClusterVolumeGroup(r, seen) == I!DeleteVolumeGroup(r, seen)
UpdateClusterVolumeGroup(r, seen) == I!UpdateVolumeGroup(r, seen)
GetClusterVolumeGroupSnapshotList(r, seen) == I!GetClusterVolumeGroupSnapshotList(r, seen)
\* The first step is the lock of the group.
DeleteClusterVolumeGroupSnapshot(r, seen) ==
    [I!DeleteVolumeGroupSnapshot(r, seen) EXCEPT !.steps = <<I!C!Judge>> \o @]
CreateClusterInstance(r, seen) == I!CreateInstance(r, seen)
DeleteClusterInstance(r, seen) == I!DeleteInstance(r, seen)
StopClusterInstance(r, seen) == I!StopInstance(r, seen)
CheckIsExistClusterInstance(r, seen) == I!CheckIsExistInstance(r, seen)
CreateClusterInstanceSpec(r, seen) == I!CreateInstanceSpec(r, seen)
DeleteClusterInstanceSpec(r, seen) == I!DeleteInstanceSpec(r, seen)
CreateClusterKeypair(r, seen) == I!CreateKeypair(r, seen)
DeleteClusterKeypair(r, seen) == I!DeleteKeypair(r, seen)

\* Success at once, whatever the request says.
CreateClusterVolumeGroupSnapshot(r, seen) == I!Nothing
CopyClusterVolume(r, seen) == I!Nothing
DeleteClusterVolumeCopy(r, seen) == I!Nothing
DeleteClusterVolume(r, seen) == I!Nothing

\* The methods by which a synchroniser reads the cloud.
Reading(r, seen) ==
    CASE r.op = "GetAvailabilityZoneList" -> I!C!GetAvailabilityZoneList
      [] r.op = "GetHypervisorList" -> I!C!GetHypervisorList
      [] r.op = "GetInstanceList" -> I!C!GetInstanceList
      [] r.op = "GetKeyPairList" -> I!C!GetKeyPairList
      [] r.op = "GetTenantList" -> I!C!GetTenantList
      [] r.op = "GetNetworkList" -> I!C!GetNetworkList
      [] r.op = "GetRouterList" -> I!C!GetRouterList
      [] r.op = "GetSecurityGroupList" -> I!C!GetSecurityGroupList
      [] r.op = "GetStorageList" -> I!C!GetStorageList
      [] r.op = "GetVolumeList" -> I!C!GetVolumeList
      [] r.op = "GetVolumeSnapshotList" -> I!C!GetVolumeSnapshotList
      [] r.op = "GetTenant" -> I!C!GetTenant(I!project)
      [] r.op = "GetHypervisor" -> I!C!GetHypervisor(<<"hypervisor", 1>>)
      [] r.op = "GetInstanceSpec" -> I!C!GetInstanceSpec(I!flavor)
      [] r.op = "GetInstanceExtraSpec" -> I!C!GetInstanceExtraSpec(I!flavor)
      [] r.op = "GetKeyPair" -> I!C!GetKeyPair(I!keypair)
      [] r.op = "GetNetwork" -> I!C!GetNetwork(I!network)
      [] r.op = "GetSubnet" -> I!C!GetSubnet(I!subnet)
      [] r.op = "GetFloatingIP" -> I!C!GetFloatingIP(I!floating_ip)
      [] r.op = "GetRouter" -> I!C!GetRouter(I!router)
      [] r.op = "GetSecurityGroup" -> I!C!GetSecurityGroup(I!security_group)
      [] r.op = "GetSecurityGroupRule" -> I!C!GetSecurityGroupRule(<<"rule", 3>>)
      [] r.op = "GetStorage" -> I!C!GetStorage(<<"storage", 1>>)
      [] r.op = "GetVolume" -> I!C!GetVolume(I!volume, seen)
      [] r.op = "GetVolumeSnapshot" -> I!C!GetVolumeSnapshot(I!snapshot)

\* The handler that a request names, or the internal function or the method of
\* the client where no handler calls it (a synchroniser calls the Get methods).
Program(r, seen) ==
    CASE r.op = "CreateClusterTenant" -> CreateClusterTenant(r, seen)
      [] r.op = "DeleteClusterTenant" -> DeleteClusterTenant(r, seen)
      [] r.op = "CreateClusterNetwork" -> CreateClusterNetwork(r, seen)
      [] r.op = "DeleteClusterNetwork" -> DeleteClusterNetwork(r, seen)
      [] r.op = "CreateClusterSubnet" -> CreateClusterSubnet(r, seen)
      [] r.op = "DeleteSubnet" -> I!DeleteSubnet(r, seen)
      [] r.op = "CreateClusterFloatingIP" -> CreateClusterFloatingIP(r, seen)
      [] r.op = "DeleteClusterFloatingIP" -> DeleteClusterFloatingIP(r, seen)
      [] r.op = "CreateClusterRouter" -> CreateClusterRouter(r, seen)
      [] r.op = "DeleteClusterRouter" -> DeleteClusterRouter(r, seen)
      [] r.op = "CreateClusterSecurityGroup" -> CreateClusterSecurityGroup(r, seen)
      [] r.op = "CreateClusterSecurityGroupRule" -> CreateClusterSecurityGroupRule(r, seen)
      [] r.op = "DeleteClusterSecurityGroup" -> DeleteClusterSecurityGroup(r, seen)
      [] r.op = "CreateVolume" -> I!CreateVolume(r, seen)
      [] r.op = "DeleteVolume" -> I!DeleteVolume(r, seen)
      [] r.op = "CreateVolumeSnapshot" -> I!CreateVolumeSnapshot(r, seen)
      [] r.op = "DeleteVolumeSnapshot" -> I!DeleteVolumeSnapshot(r, seen)
      [] r.op = "ImportClusterVolume" -> ImportClusterVolume(r, seen)
      [] r.op = "UnmanageClusterVolume" -> UnmanageClusterVolume(r, seen)
      [] r.op = "CopyVolume" -> I!CopyVolume(r, seen)
      [] r.op = "DeleteVolumeCopy" -> I!DeleteVolumeCopy(r, seen)
      [] r.op = "CreateClusterVolumeGroup" -> CreateClusterVolumeGroup(r, seen)
      [] r.op = "DeleteClusterVolumeGroup" -> DeleteClusterVolumeGroup(r, seen)
      [] r.op = "UpdateClusterVolumeGroup" -> UpdateClusterVolumeGroup(r, seen)
      [] r.op = "GetClusterVolumeGroupList" -> GetClusterVolumeGroupList(r, seen)
      [] r.op = "GetClusterVolumeGroupByUUID" -> GetClusterVolumeGroupByUUID(r, seen)
      [] r.op = "CreateVolumeGroupSnapshot" -> I!CreateVolumeGroupSnapshot(r, seen)
      [] r.op = "DeleteClusterVolumeGroupSnapshot" -> DeleteClusterVolumeGroupSnapshot(r, seen)
      [] r.op = "GetClusterVolumeGroupSnapshotList" -> GetClusterVolumeGroupSnapshotList(r, seen)
      [] r.op = "CreateClusterInstance" -> CreateClusterInstance(r, seen)
      [] r.op = "DeleteClusterInstance" -> DeleteClusterInstance(r, seen)
      [] r.op = "StartInstance" -> I!StartInstance(r, seen)
      [] r.op = "StopClusterInstance" -> StopClusterInstance(r, seen)
      [] r.op = "CheckIsExistClusterInstance" -> CheckIsExistClusterInstance(r, seen)
      [] r.op = "CreateClusterInstanceSpec" -> CreateClusterInstanceSpec(r, seen)
      [] r.op = "DeleteClusterInstanceSpec" -> DeleteClusterInstanceSpec(r, seen)
      [] r.op = "CreateClusterKeypair" -> CreateClusterKeypair(r, seen)
      [] r.op = "DeleteClusterKeypair" -> DeleteClusterKeypair(r, seen)
      [] r.op = "CreateClusterVolumeGroupSnapshot" -> CreateClusterVolumeGroupSnapshot(r, seen)
      [] r.op = "CopyClusterVolume" -> CopyClusterVolume(r, seen)
      [] r.op = "DeleteClusterVolumeCopy" -> DeleteClusterVolumeCopy(r, seen)
      [] r.op = "DeleteClusterVolume" -> DeleteClusterVolume(r, seen)
      [] OTHER -> I!Silent(Reading(r, seen))

-----------------------------------------------------------------------------
(* The cloud, as far as the code under src/ relies on it. *)

\* What must be there, and ready, before x can be made.
Needs(x) ==
    CASE x[1] \in {"subnet", "floating_ip"} -> {I!network}
      [] x[1] = "interface" -> {I!router, <<"port", x[2]>>}
      [] x[1] = "route" -> {I!router, <<"interface", 1>>}
      [] x[1] = "rule" -> {I!security_group}
      [] x[1] = "snapshot" -> {I!volume}
      [] x[1] = "group" -> {<<"group_type", x[2]>>}
      [] x[1] = "group_snapshot" -> {<<"group", I!C!Owner(x)>>}
      [] x[1] = "member" -> {I!group}
      [] x[1] = "server" -> I!Numbered("port", 2)
      [] OTHER -> {}

\* What cannot be removed while x is there. A server lets its ports go, and a
\* security group takes its rules along.
Pins(x) == IF x[1] \in {"server", "rule"} THEN {} ELSE Needs(x)

\* What is made along with x (the default group only if there are networks).
ComesWith(x, lacking) ==
    CASE x[1] = "project" /\ "network" \notin lacking -> {<<"default", 1>>}
      [] x[1] = "security_group" -> I!Numbered("rule", 2)
      [] OTHER -> {}

\* What is removed along with x.
GoesWith(x) ==
    CASE x[1] = "interface" -> {<<"port", x[2]>>}
      [] x[1] = "security_group" -> I!Numbered("rule", 3)
      [] OTHER -> {}

Transitions == {"building", "changing", "leaving"}

-----------------------------------------------------------------------------
(* What the requests are that a handler may be given. *)

\* The kinds of objects that the client handles, and what an object is.
Kinds ==
    {"cloud", "project", "network", "subnet", "floating_ip", "router", "port", "interface",
     "route", "security_group", "rule", "default", "volume", "snapshot", "group", "group_type",
     "group_snapshot", "member", "server", "flavor", "keypair", "hypervisor", "storage",
     "attachment"}
Objects == Kinds \X Nat

\* Of another tenant or another group. The ports, interfaces, rules, snapshots
\* and members that a request counts, or that the cloud shows only for its own
\* object, are its own whatever their number.
Foreign(x) ==
    /\ I!C!Owner(x) # 1
    /\ x[1] \notin {"cloud", "port", "interface", "rule", "snapshot", "member"}

\* What makes something in the cloud.
Creations ==
    {"CreateClusterTenant", "CreateClusterNetwork", "CreateClusterSubnet",
     "CreateClusterFloatingIP", "CreateClusterRouter", "CreateClusterSecurityGroup",
     "CreateClusterSecurityGroupRule", "CreateVolume", "CreateVolumeSnapshot",
     "ImportClusterVolume", "CreateClusterVolumeGroup", "UpdateClusterVolumeGroup",
     "CreateVolumeGroupSnapshot", "CreateClusterInstance", "CreateClusterInstanceSpec",
     "CreateClusterKeypair"}

\* What deletes or changes something, or does nothing.
Alterations ==
    {"DeleteClusterTenant", "DeleteClusterNetwork", "DeleteSubnet", "DeleteClusterFloatingIP",
     "DeleteClusterRouter", "DeleteClusterSecurityGroup", "DeleteVolume",
     "DeleteVolumeSnapshot", "UnmanageClusterVolume", "DeleteClusterVolumeGroup",
     "DeleteClusterVolumeGroupSnapshot", "DeleteClusterInstance",
     "DeleteClusterInstanceSpec", "DeleteClusterKeypair", "StartInstance",
     "StopClusterInstance", "CopyVolume", "DeleteVolumeCopy",
     "CreateClusterVolumeGroupSnapshot", "CopyClusterVolume", "DeleteClusterVolumeCopy",
     "DeleteClusterVolume"}

\* What reads.
Readings ==
    {"GetAvailabilityZoneList", "GetHypervisorList", "GetInstanceList", "GetKeyPairList",
     "GetTenantList", "GetNetworkList", "GetRouterList", "GetSecurityGroupList",
     "GetStorageList", "GetVolumeList", "GetVolumeSnapshotList", "GetTenant",
     "GetHypervisor", "GetInstanceSpec", "GetInstanceExtraSpec", "GetKeyPair",
     "GetNetwork", "GetSubnet", "GetFloatingIP", "GetRouter", "GetSecurityGroup",
     "GetSecurityGroupRule", "GetStorage", "GetVolume", "GetVolumeSnapshot",
     "GetClusterVolumeGroupList", "GetClusterVolumeGroupByUUID",
     "GetClusterVolumeGroupSnapshotList", "CheckIsExistClusterInstance"}

\* A request is one of these, what belongs to others is there all the time, and
\* only a creation leaves something new behind.
ASSUME RequestsAssumption ==
    \A r \in Requests :
        /\ r.op \in Creations \cup Alterations \cup Readings
        /\ r.n \in Nat
        /\ r.objects \subseteq Objects /\ IsFiniteSet(r.objects)
        /\ r.before \cup r.asked \cup r.ended \subseteq r.objects
        /\ r.others \subseteq r.before /\ \A x \in r.others : Foreign(x)
        /\ r.op \in Creations => r.asked # {}
        /\ r.asked = {} => r.objects = r.before \cup r.ended

\* The objects of a request are all that its requests to the cloud can name,
\* whatever the answers show.
Within(steps, xs) == \A i \in DOMAIN steps : steps[i].obj \in xs \cup {I!C!Cloud}

ASSUME ObjectsAssumption ==
    \A r \in Requests : \A xs \in SUBSET r.objects :
        LET p == Program(r, xs)
        IN  /\ Within(p.steps, r.objects) /\ Within(p.undo, r.objects)
            /\ Within(p.final, r.objects) /\ Within(p.back, r.objects)

-----------------------------------------------------------------------------
(* What each request promises: what is there, and what is not, once the    *)
(* caller is told of success.                                              *)

\* At most what must be there once a request has succeeded, and what must be gone:
\* the parts of an object are those that the request counts.
Asked(r) ==
    CASE r.op = "CreateClusterTenant" -> {I!project}
      [] r.op = "CreateClusterNetwork" -> {I!network}
      [] r.op = "CreateClusterSubnet" -> {I!subnet}
      [] r.op = "CreateClusterFloatingIP" -> {I!floating_ip}
      [] r.op = "CreateClusterRouter" ->
            {I!router} \cup I!Numbered("port", r.n) \cup I!Numbered("interface", r.n)
              \cup (IF "routes" \in r.opt THEN {<<"route", 1>>} ELSE {})
      [] r.op = "CreateClusterSecurityGroup" -> {I!security_group}
      [] r.op = "CreateClusterSecurityGroupRule" -> {<<"rule", 3>>}
      [] r.op = "CreateVolume" -> {I!volume}
      [] r.op = "CreateVolumeSnapshot" -> {I!snapshot}
      [] r.op = "ImportClusterVolume" /\ "metadata" \in r.opt ->
            {I!volume} \cup I!Numbered("snapshot", r.n)
      [] r.op = "CreateClusterVolumeGroup" -> {I!group, <<"group_type", 1>>}
      [] r.op = "UpdateClusterVolumeGroup" ->
            {I!group} \cup {<<"member", i>> : i \in I!ToJoin(r) \ I!ToLeave(r)}
      [] r.op = "CreateVolumeGroupSnapshot" -> {I!group_snapshot}
      [] r.op = "CreateClusterInstance" -> {I!server} \cup I!Numbered("port", r.n)
      [] r.op = "CreateClusterInstanceSpec" -> {I!flavor}
      [] r.op = "CreateClusterKeypair" -> {I!keypair}
      [] r.op \in {"StartInstance", "StopClusterInstance"} -> {I!server}
      [] OTHER -> {}

Ended(r) ==
    LET own(kind) == {x \in r.objects : x[1] = kind /\ I!C!Owner(x) = 1}
        all(kind) == {x \in r.objects : x[1] = kind}
    IN  CASE r.op = "DeleteClusterTenant" -> {I!project} \cup own("default")
          [] r.op = "DeleteClusterNetwork" -> {I!network}
          [] r.op = "DeleteSubnet" -> {I!subnet}
          [] r.op = "DeleteClusterFloatingIP" -> {I!floating_ip}
          [] r.op = "DeleteClusterRouter" ->
                {I!router, <<"route", 1>>} \cup all("interface")
                  \cup {x \in all("port") : <<"interface", x[2]>> \in r.before}
          [] r.op = "CreateClusterSecurityGroup" -> I!Numbered("rule", 2)
          [] r.op = "DeleteClusterSecurityGroup" -> {I!security_group} \cup I!Numbered("rule", 3)
          [] r.op = "DeleteVolume" -> {I!volume}
          [] r.op = "DeleteVolumeSnapshot" -> {I!snapshot}
          [] r.op = "UnmanageClusterVolume" /\ "metadata" \in r.opt ->
                {I!volume} \cup I!Numbered("snapshot", r.n)
          [] r.op = "DeleteClusterVolumeGroup" ->
                {I!group, <<"group_type", 1>>} \cup all("member") \cup own("group_snapshot")
          [] r.op = "UpdateClusterVolumeGroup" ->
                {x \in r.before : x[1] = "member" /\ x[2] \in I!ToLeave(r)}
          [] r.op = "DeleteClusterVolumeGroupSnapshot" -> {I!group_snapshot}
          [] r.op = "DeleteClusterInstance" -> {I!server} \cup all("port")
          [] r.op = "DeleteClusterInstanceSpec" -> {I!flavor}
          [] r.op = "DeleteClusterKeypair" -> {I!keypair}
          [] OTHER -> {}

\* What a request is about must be there: the group or the volume that it changes
\* or takes apart, the group of the rules that are to go. An instance is not a
\* router: its ports carry no interface.
Subject(r) ==
    CASE r.op \in {"UpdateClusterVolumeGroup", "DeleteClusterVolumeGroup"} -> {I!group}
      [] r.op = "UnmanageClusterVolume" -> {I!volume}
      [] r.op = "DeleteClusterSecurityGroup" -> {I!security_group}
      [] OTHER -> {}

ASSUME GoalsAssumption ==
    \A r \in Requests :
        /\ r.asked \subseteq Asked(r) /\ r.ended \subseteq Ended(r)
        /\ r.asked \cap r.ended = {}
        /\ Subject(r) \subseteq r.before
        /\ r.op = "DeleteClusterInstance" => \A x \in r.objects : x[1] # "interface"

-----------------------------------------------------------------------------
VARIABLES
    req,        \* the request
    lacking,    \* the services that the catalog lacks
    phase,      \* check, connect, steps, undo, final, convert, back, end
    pc,         \* the next step of the phase
    waiting,    \* the step was accepted and its check is under way
    cloud,      \* the state of each object
    seen,       \* the objects that an answer has named
    known,      \* the objects whose ID the client has because it made them
    result,     \* of the request: none, ok, or the error
    faults,     \* faults left
    blame       \* what went wrong that the code cannot make good

vars == <<req, lacking, phase, pc, waiting, cloud, seen, known, result, faults, blame>>

Here(x) == x \in DOMAIN cloud /\ cloud[x] # "absent"
Absent(xs) == [x \in DOMAIN cloud |-> IF x \in xs THEN "absent" ELSE cloud[x]]

program == Program(req, seen)

\* The step that is due: <<>> if the phase has none left.
Due ==
    LET steps == CASE phase = "steps" -> program.steps
                   [] phase = "undo" -> program.undo
                   [] phase = "final" -> program.final
                   [] phase = "back" -> program.back
                   [] OTHER -> <<>>
    IN  IF pc \in DOMAIN steps THEN steps[pc] ELSE <<>>

Init ==
    /\ req \in Requests
    /\ lacking \in Catalogs
    /\ phase = "check"
    /\ pc = 1
    /\ waiting = FALSE
    /\ cloud = [x \in req.objects |->
                  IF x \notin req.before THEN "absent"
                  ELSE IF req.op = "StartInstance" /\ x = I!server THEN "off" ELSE "ready"]
    /\ seen = {}
    /\ known = {}
    /\ result = "none"
    /\ faults = MaxFaults
    /\ blame = {}

-----------------------------------------------------------------------------
(* How a phase goes on. The result is decided in "steps" or in "convert";  *)
(* an error of undo, final and back is only logged.                        *)

Enter(p) == phase' = p /\ pc' = 1 /\ waiting' = FALSE

Advance(n) == pc' = pc + n /\ waiting' = FALSE /\ UNCHANGED <<phase, result>>

Leave ==
    /\ Enter(CASE phase \in {"steps", "undo"} -> "final"
               [] phase = "final" /\ result = "none" -> "convert"
               [] OTHER -> "end")
    /\ UNCHANGED result

(* Faulty variant: a deferred function assigns its error to the result. *)
FailOverwrites(e) ==
    /\ Enter(CASE phase = "steps" -> "undo" [] phase = "undo" -> "final" [] OTHER -> "end")
    /\ result' = e

Fail(e) == IF phase = "steps" THEN Enter("undo") /\ result' = e ELSE Leave

Succeed(s) == IF s.failing = "else" THEN Advance(2) ELSE Advance(1)

React(s, e) ==
    IF e = "ok" THEN Succeed(s)
    ELSE CASE s.failing \in {"warn", "else"} -> Advance(1)
           [] s.failing = "end" -> Leave
           [] s.failing = "absent" /\ e = "NotFound" -> Leave
           [] s.failing = "busy" /\ e = "RemoteServerError" -> Advance(1)
           [] OTHER -> Fail(e)

Fault(b) == faults > 0 /\ faults' = faults - 1 /\ blame' = blame \cup b
\* A fault that hits the cleaning up is one the code does not make good.
Mending == IF phase = "steps" THEN {} ELSE {"undo"}

-----------------------------------------------------------------------------
(* Before and after the steps *)

Validate ==
    /\ phase = "check"
    /\ \/ Enter("connect") /\ UNCHANGED result
       \/ Enter("end") /\ result' = "BadRequest"
    /\ UNCHANGED <<req, lacking, cloud, seen, known, faults, blame>>

Connected ==
    /\ phase = "connect"
    /\ Enter("steps")
    /\ UNCHANGED <<req, lacking, cloud, seen, known, result, faults, blame>>

NotConnected ==
    /\ phase = "connect"
    /\ Fault({})
    /\ Enter("end")
    /\ result' = "UnAuthenticated"
    /\ UNCHANGED <<req, lacking, cloud, seen, known>>

Finish(s) ==
    /\ phase \in {"steps", "undo", "final", "back"}
    /\ s = <<>>
    /\ Leave
    /\ UNCHANGED <<req, lacking, cloud, seen, known, faults, blame>>

Convert ==
    /\ phase = "convert"
    /\ Enter("end")
    /\ result' = "ok"
    /\ UNCHANGED <<req, lacking, cloud, seen, known, faults, blame>>

ConvertFails ==
    /\ phase = "convert"
    /\ program.convert
    /\ Fault(IF program.back = <<>> THEN {"convert"} ELSE {})
    /\ Enter("back")
    /\ result' = "Unknown"
    /\ UNCHANGED <<req, lacking, cloud, seen, known>>

-----------------------------------------------------------------------------
(* One request to the cloud *)

\* What the cloud makes of it: 200 if it is carried out.
Status(call, x) ==
    IF call.effect = "make" THEN
        IF \E y \in Needs(x) \cap req.objects : ~Here(y) THEN 404
        ELSE IF \E y \in Needs(x) \cap req.objects : cloud[y] # "ready" THEN 400
        ELSE IF Here(x) THEN 409 ELSE 200
    ELSE IF x = I!C!Cloud THEN 200
    ELSE IF ~Here(x) THEN 404
    ELSE CASE call.effect = "change" /\ cloud[x] \in Transitions -> 400
           [] call.effect = "remove" /\ \E y \in req.objects : Here(y) /\ x \in Pins(y) -> 409
           [] OTHER -> 200

Effect(s) ==
    LET call == s.call
        x == s.obj
        later == call.check # T!NoCheck
    IN  CASE call.effect = "make" ->
               [y \in DOMAIN cloud |->
                  IF y = x THEN (IF later THEN "building" ELSE "ready")
                  ELSE IF y \in ComesWith(x, lacking) THEN "ready" ELSE cloud[y]]
          [] call.effect = "change" ->
               [y \in DOMAIN cloud |->
                  IF y = x /\ later THEN "changing"
                  ELSE IF y \in s.adds THEN "ready"
                  ELSE IF y \in s.drops THEN "absent" ELSE cloud[y]]
          [] call.effect = "remove" ->
               IF later THEN [cloud EXCEPT ![x] = "leaving"] ELSE Absent({x} \cup GoesWith(x))
          [] OTHER -> cloud

Skipped(s) == s.when # <<>> /\ s.when \notin known
Ready(s) == s # <<>> /\ ~waiting /\ ~Skipped(s)
Inside(call) == call.effect \in {"judge", "connect"}

\* The address of the service is not in the catalog: nothing is sent.
NotFoundEndpoint(s) ==
    /\ Ready(s)
    /\ ~Inside(s.call)
    /\ s.call.service \in lacking
    /\ React(s, "NotFoundEndpoint")
    /\ UNCHANGED <<req, lacking, cloud, seen, known, faults, blame>>

Sendable(s) == Ready(s) /\ ~Inside(s.call) /\ s.call.service \notin lacking

\* Carried out and answered.
Accepted(s) ==
    /\ Sendable(s)
    /\ Status(s.call, s.obj) = 200
    /\ cloud' = Effect(s)
    /\ seen' = seen \cup {y \in req.objects : cloud'[y] # "absent" /\ y[1] \in s.lists}
    /\ known' = known \cup (IF s.call.effect = "make" THEN {s.obj} ELSE {})
    /\ IF s.call.check = T!NoCheck THEN Succeed(s)
       ELSE waiting' = TRUE /\ UNCHANGED <<pc, phase, result>>
    /\ UNCHANGED <<req, lacking, faults, blame>>

\* Refused because of the state of the cloud.
Refused(s) ==
    /\ Sendable(s)
    /\ Status(s.call, s.obj) # 200
    /\ React(s, s.call.errors[Status(s.call, s.obj)])
    /\ UNCHANGED <<req, lacking, cloud, seen, known, faults, blame>>

\* Refused for another reason, or never arrived.
Denied(s) ==
    /\ Sendable(s)
    /\ Fault(Mending)
    /\ \E e \in {s.call.errors[c] : c \in T!Statuses \ {404}} : React(s, e)
    /\ UNCHANGED <<req, lacking, cloud, seen, known>>

\* Carried out, but the answer is lost or cannot be decoded.
AnswerLost(s) ==
    /\ Sendable(s)
    /\ Status(s.call, s.obj) = 200
    /\ s.call.effect # "read"
    /\ Fault({"answer"})
    /\ cloud' = Effect(s)
    /\ React(s, "Unknown")
    /\ UNCHANGED <<req, lacking, seen, known>>

\* Something that the client itself decides, and its connection.
Judged(s) ==
    /\ Ready(s)
    /\ Inside(s.call)
    /\ Succeed(s)
    /\ UNCHANGED <<req, lacking, cloud, seen, known, faults, blame>>

Misjudged(s) ==
    /\ Ready(s)
    /\ Inside(s.call)
    /\ Fault(Mending)
    /\ React(s, "Unknown")
    /\ UNCHANGED <<req, lacking, cloud, seen, known>>

\* An undo step whose object was not made.
Skip(s) ==
    /\ s # <<>>
    /\ Skipped(s)
    /\ Advance(1)
    /\ UNCHANGED <<req, lacking, cloud, seen, known, faults, blame>>

-----------------------------------------------------------------------------
(* The check that follows *)

Polled(s) ==
    /\ waiting
    /\ \/ cloud[s.obj] \in s.call.check.done /\ Succeed(s)
       \/ /\ cloud[s.obj] \in s.call.check.fail
          /\ React(s, IF Here(s.obj) THEN "RemoteServerError" ELSE "NotFound")
    /\ UNCHANGED <<req, lacking, cloud, seen, known, faults, blame>>

(* Faulty variant: the loop has no time limit. *)
NoTimeLimit(s) == FALSE /\ UNCHANGED vars

\* The time limit passes while the state is neither good nor bad.
TimeLimit(s) ==
    /\ waiting
    /\ cloud[s.obj] \notin s.call.check.done \cup s.call.check.fail
    /\ React(s, "Unknown")
    /\ blame' = blame \cup {"time"} \cup Mending
    /\ UNCHANGED <<req, lacking, cloud, seen, known, faults>>

\* The question is refused or lost.
PollFails(s) ==
    /\ waiting
    /\ Fault(Mending)
    /\ React(s, "Unknown")
    /\ UNCHANGED <<req, lacking, cloud, seen, known>>

-----------------------------------------------------------------------------
(* The cloud by itself, and others who use it *)

Settled(x) ==
    CASE cloud[x] = "building" -> "ready"
      [] cloud[x] = "changing" -> IF req.op = "StopClusterInstance" THEN "off" ELSE "ready"
      [] cloud[x] = "leaving" -> "absent"

Settle ==
    /\ \E x \in req.objects :
          /\ cloud[x] \in Transitions
          /\ cloud' = [cloud EXCEPT ![x] = Settled(x)]
    /\ UNCHANGED <<req, lacking, phase, pc, waiting, seen, known, result, faults, blame>>

\* A server may be kept for a while after its deletion.
SettleBadly ==
    /\ \E x \in req.objects :
          /\ cloud[x] \in Transitions
          /\ \E s \in {"failed"} \cup (IF x = I!server /\ cloud[x] = "leaving"
                                        THEN {"parked"} ELSE {}) :
                cloud' = [cloud EXCEPT ![x] = s]
    /\ Fault(Mending)
    /\ UNCHANGED <<req, lacking, phase, pc, waiting, seen, known, result>>

\* Another user removes something.
Meddle ==
    /\ phase \notin {"check", "end"}
    /\ \E x \in req.objects \ req.others :
          /\ cloud[x] \in {"ready", "off"}
          /\ \A y \in req.objects : Here(y) => x \notin Pins(y)
          /\ cloud' = Absent({x} \cup GoesWith(x))
    /\ Fault({"meddle"})
    /\ UNCHANGED <<req, lacking, phase, pc, waiting, seen, known, result>>

Work ==
    \/ Validate \/ Connected \/ Convert
    \/ \E s \in {Due} :
          \/ Finish(s) \/ NotFoundEndpoint(s) \/ Accepted(s) \/ Refused(s) \/ Judged(s)
          \/ Skip(s) \/ Polled(s) \/ TimeLimit(s)

Faults ==
    \/ NotConnected \/ ConvertFails \/ SettleBadly \/ Meddle
    \/ \E s \in {Due} : Denied(s) \/ AnswerLost(s) \/ Misjudged(s) \/ PollFails(s)

Next == Work \/ Settle \/ Faults

\* A handler runs to its end: each wait has a time limit. Nothing is assumed of
\* the cloud.
Fairness == WF_vars(Work)

Spec == Init /\ [][Next]_vars /\ Fairness

-----------------------------------------------------------------------------
Phases == {"check", "connect", "steps", "undo", "final", "convert", "back", "end"}
Results == {"none", "ok", "BadRequest", "NotFoundEndpoint", "UnAuthenticated",
            "UnAuthorized", "NotFound", "Conflict", "RemoteServerError", "Unknown"}
Blames == {"answer", "undo", "convert", "meddle", "time"}

TypeOK ==
    /\ req \in Requests
    /\ lacking \in Catalogs
    /\ phase \in Phases
    /\ pc \in Nat \ {0}
    /\ waiting \in BOOLEAN
    /\ cloud \in [req.objects -> T!States]
    /\ seen \subseteq req.objects
    /\ known \subseteq req.objects
    /\ result \in Results
    /\ faults \in 0..MaxFaults
    /\ blame \subseteq Blames

failed == phase = "end" /\ result # "ok"

\* What may stay behind: a port that CreateRouter made for an interface it could
\* not add, and the type of a group that someone else deleted meanwhile.
Loose(x) ==
    \/ x[1] = "port" /\ req.op = "CreateClusterRouter" /\ <<"interface", x[2]>> \notin known
    \/ x[1] = "group_type" /\ "meddle" \in blame

\* A creation that fails leaves nothing behind in the cloud, wherever it fails:
\* the deferred functions of each method, and those of the internal functions,
\* take back everything that was made before, in an order that the cloud
\* accepts. Not if an answer was lost, nor if the cleaning up was itself hit by
\* a fault. The import of a volume (no rollback at all) and what Loose names are
\* the exceptions.
NothingLeft ==
    (failed /\ req.ended = {} /\ req.op # "ImportClusterVolume"
            /\ blame \cap {"answer", "undo", "convert"} = {})
        => \A x \in req.objects \ req.before : cloud[x] = "absent" \/ Loose(x)

\* What is reported as done is done, although the cloud only promised to do it:
\* everything asked for is there and ready, everything to be deleted is gone, a
\* volume group has exactly the members it should have. The routes of a router
\* and the tidying of ports and default groups may fail unnoticed.
SuccessMeansDone ==
    (phase = "end" /\ result = "ok" /\ "meddle" \notin blame) =>
        /\ \A x \in req.asked :
              \/ cloud[x] = IF req.op = "StopClusterInstance" THEN "off" ELSE "ready"
              \/ x[1] = "route" /\ faults < MaxFaults
        /\ \A x \in req.ended :
              \/ cloud[x] = "absent"
              \/ x[1] \in {"port", "default"} /\ (faults < MaxFaults \/ lacking # {})

\* Without a fault every request succeeds: each step finds what it needs made and
\* ready, and nothing is removed while something else still needs it.
Unhindered ==
    (phase = "end" /\ faults = MaxFaults /\ lacking = {} /\ blame = {})
        => result \in {"ok", "BadRequest"}

\* The methods that ask for a second object which the first answer named.
Indirect == {"GetVolume", "CheckIsExistClusterInstance", "GetClusterVolumeGroupList"}

\* NotFound is said of the object that was asked for, and it is not there: the
\* synchroniser deletes the row on this word. Of the other readings, and of what
\* a creation needs, it may be said of something else.
NotFoundMeansGone ==
    (phase = "end" /\ result = "NotFound" /\ req.op \notin Indirect /\ req.asked = {})
        => \E x \in req.ended \cup req.before : cloud[x] = "absent"

\* "Could not found cluster instance in openstack" (CheckIsExistInstance) is said
\* only if the instance is not there.
AbsentInstanceIsAbsent ==
    (phase = "end" /\ result = "NotFound" /\ req.op = "CheckIsExistClusterInstance")
        => cloud[I!server] = "absent"

\* When the import of a snapshot fails, the volume and the snapshots imported
\* before it are put back as they were (comment of importCEPH).
ImportIsRolledBack ==
    (failed /\ req.op = "ImportClusterVolume" /\ blame = {} /\ I!snapshot \in known)
        => \A x \in req.objects \ req.before : cloud[x] = "absent"

\* The caller hears of the error that made the request fail: what goes wrong in
\* the deferred functions that clean up afterwards never replaces it, and never
\* makes a success of it (openstack.go, the deferred functions of each method).
ErrorStands == [][result # "none" => result' = result]_vars

\* The invariant behind it: until the last step is done, and while the answer is
\* being converted, nothing is decided.
Undecided == phase \in {"check", "connect", "steps", "convert"} => result = "none"

\* No step of a request touches what belongs to another tenant or another group.
SparesOthers == [][\A x \in req.others : cloud'[x] = cloud[x]]_vars

\* The invariant behind SparesOthers, NotFoundMeansGone and TypeOK: the check that
\* is waited for is that of a step (the answer to a step with a check shows no
\* objects, so the program is still the same), what belongs to others is never
\* in a transition, in which the cloud could change it by itself, and what was
\* said to be absent stays away.
Inductive ==
    /\ TypeOK
    /\ waiting => Due # <<>>
    /\ \A x \in req.others : cloud[x] = "ready"
    /\ (result = "NotFound" /\ req.asked = {}) => \E x \in req.objects : cloud[x] = "absent"

\* Every request is answered, even if the cloud never finishes what it began.
Answered == <>(phase = "end")

-----------------------------------------------------------------------------
(* Behind SuccessMeansDone: from the first request to the cloud to the last, *)
(* whatever was asked for is there or something still to come brings it.     *)

Goals(r) == r.asked \cup r.ended

Goal(r, x) ==
    IF x \in r.ended THEN "absent" ELSE IF r.op = "StopClusterInstance" THEN "off" ELSE "ready"

\* If the step s is done, and not only begun, x is as it should be.
Brings(r, s, x) ==
    LET effect == s.call.effect
        check == s.call.check
        g == Goal(r, x)
    IN  \/ effect = "make" /\ x = s.obj /\ g = "ready" /\ check.done \subseteq {"ready"}
        \/ effect = "change" /\ x = s.obj /\ check # T!NoCheck /\ check.done \subseteq {g}
        \/ effect = "change" /\ x # s.obj /\ x \in s.adds /\ g = "ready"
        \/ effect = "change" /\ x # s.obj /\ x \in s.drops \ s.adds /\ g = "absent"
        \/ /\ effect = "remove" /\ g = "absent" /\ check.done \subseteq {"absent"}
           /\ x = s.obj \/ (check = T!NoCheck /\ x \in GoesWith(s.obj))

\* The answer to s says whether there is anything to do about x. The ports of a
\* router go with its interfaces.
Names(s, x) == x[1] \in s.lists \/ (x[1] = "port" /\ "interface" \in s.lists)

\* After step k, something is still to come that brings x, or that names it.
Awaits(r, p, k, x) ==
    \/ \E j \in DOMAIN p.steps : j > k /\ (Brings(r, p.steps[j], x) \/ Names(p.steps[j], x))
    \/ \E j \in DOMAIN p.final : Brings(r, p.final[j], x)

\* What x goes with when it is removed, if it is not removed by itself.
Keeper(r, x) ==
    CASE r.op = "DeleteClusterRouter" /\ x[1] = "port" -> <<"interface", x[2]>>
      [] r.op = "DeleteClusterSecurityGroup" /\ x[1] = "rule" -> I!security_group
      [] OTHER -> x

Reached(x) == cloud[x] = Goal(req, x)

\* What may fail unnoticed.
Excused(x) ==
    \/ x \in req.asked /\ x[1] = "route" /\ faults < MaxFaults
    \/ x \in req.ended /\ x[1] \in {"port", "default"} /\ (faults < MaxFaults \/ lacking # {})

\* The step that is waited for brings x, or a later one will.
Expected(x) ==
    \/ waiting /\ x = Due.obj /\ Brings(req, Due, x)
    \/ Awaits(req, program, IF waiting THEN pc ELSE pc - 1, x)

Kept(x) ==
    CASE phase = "steps" -> Reached(x) \/ Expected(x)
      [] phase = "final" /\ result = "none" ->
            Reached(x) \/ \E j \in DOMAIN program.final :
                              j >= pc /\ Brings(req, program.final[j], x)
      [] phase = "convert" \/ (phase = "end" /\ result = "ok") -> Reached(x)
      [] OTHER -> TRUE

Beginning == phase \in {"check", "connect"} \/ (phase = "steps" /\ pc = 1 /\ ~waiting)

\* Nothing has changed yet.
Fresh ==
    Beginning =>
        /\ seen = {}
        /\ cloud = [x \in req.objects |->
                  IF x \notin req.before THEN "absent"
                  ELSE IF req.op = "StartInstance" /\ x = I!server THEN "off" ELSE "ready"]

\* A router's port does not outlive its interface, nor a rule its group.
Paired ==
    phase \in {"check", "connect", "steps"} =>
        /\ req.op \in {"DeleteClusterRouter", "DeleteClusterSecurityGroup"} =>
              \A x \in req.objects : cloud[x] \in {"absent", "ready"}
        /\ \A x \in req.ended : Here(x) => Here(Keeper(req, x))

\* The members that are to leave a group are those that the cloud has shown.
Shown ==
    (req.op = "UpdateClusterVolumeGroup" /\ phase = "steps" /\ ~Beginning) =>
        req.ended \subseteq seen

\* Only a step with a check is waited for.
Waits == waiting => Due # <<>> /\ Due.call.check # T!NoCheck

\* What is cleaned up after an error is not a success.
Decided ==
    /\ Undecided
    /\ phase \in {"undo", "back"} => result \notin {"none", "ok"}
    /\ phase = "final" => result # "ok"

\* However it comes out, a request is on its way to what it promises.
OnCourse ==
    /\ Waits
    /\ Decided
    /\ Fresh
    /\ Paired
    /\ Shown
    /\ \A x \in Goals(req) : Excused(x) \/ Kept(x)

\* The invariant behind SuccessMeansDone: unless another user of the cloud interferes,
\* from the first call to the end of the method every goal is reached, or the step
\* that is being polled brings it, or a later one does or will find it in an answer.
\* No failure that the method passes over, and no list it goes by, loses a goal.
Promised == "meddle" \notin blame => OnCourse
=============================================================================
