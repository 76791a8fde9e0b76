---------------------------- MODULE ResourceReads ----------------------------
(***************************************************************************)
(* A request that reads the tables of a cluster: the handler and the       *)
(* functions of internal/ (ReadQueries), one query at a time, while the    *)
(* synchronisers and other requests insert and remove rows in transactions *)
(* of their own, and while the database may fail.                          *)
(***************************************************************************)
EXTENDS Naturals, Sequences, FiniteSets, FiniteSetsExt, SequencesExt

CONSTANTS
    Refs,           \* the rows that a row names (foreign keys)
    Remote,         \* the group that a rule names as remote group
    External,       \* the networks with the external flag
    Reads,          \* requests: see MCResourceReads
    MaxEvents       \* changes of the tables and faults of one behaviour

ASSUME MaxEventsAssumption == MaxEvents \in Nat

Q == INSTANCE ReadQueries

Rows == DOMAIN Refs

-----------------------------------------------------------------------------
(* The handlers: they check the request (Reject), read, and answer. An     *)
(* empty list is answered with errors.ErrNoContent.                        *)

GetClusterList(r) == Q!cluster_GetList(r)
GetCluster(r) == Q!cluster_Get(r)
GetClusterHypervisorList(r) == Q!hypervisor_GetList(r)
GetClusterHypervisor(r) == Q!hypervisor_Get(r)
UpdateClusterHypervisor(r) == Q!hypervisor_Update(r)
GetClusterAvailabilityZoneList(r) == Q!availability_zone_GetList(r)
GetClusterAvailabilityZone(r) == Q!availability_zone_Get(r)
GetClusterTenantList(r) == Q!tenant_GetList(r)
GetClusterTenant(r) == Q!tenant_Get(r)
CheckIsExistClusterTenant(r) == Q!CheckIsExistTenant(r)
GetClusterNetworkList(r) == Q!network_GetList(r)
GetClusterNetwork(r) == Q!network_Get(r, r.row)
GetClusterNetworkByUUID(r) == Q!network_GetByUUID(r, r.row)
GetClusterSubnet(r) == Q!GetSubnet(r)
GetClusterFloatingIP(r) == Q!GetFloatingIP(r)
CheckIsExistClusterFloatingIP(r) == Q!CheckIsExistFloatingIP(r)
GetClusterRouterList(r) == Q!router_GetList(r, r.filter)
GetClusterRouter(r) == Q!router_Get(r)
CheckIsExistClusterRoutingInterface(r) == Q!CheckIsExistRoutingInterface(r)
GetClusterStorageList(r) == Q!storage_GetList(r)
GetClusterStorage(r) == Q!storage_Get(r)
GetClusterVolumeList(r) == Q!volume_GetList(r)
GetClusterVolume(r) == Q!volume_Get(r)
GetClusterInstanceList(r) == Q!instance_GetList(r)
GetClusterInstance(r) == Q!instance_Get(r)
GetClusterInstanceByUUID(r) == Q!instance_GetByUUID(r)
GetClusterInstanceNumber(r) == Q!GetInstanceNumber(r)
GetClusterInstanceSpecByUUID(r) == Q!spec_GetByUUID(r)
CheckIsExistClusterInstanceSpec(r) == Q!CheckIsExistInstanceSpec(r)
GetClusterKeyPair(r) == Q!keypair_Get(r)
CheckIsExistClusterKeypair(r) == Q!CheckIsExistKeypair(r)
GetClusterInstanceUserScript(r) == Q!GetInstanceUserScript(r)
UpdateClusterInstanceUserScript(r) == Q!UpdateInstanceUserScript(r)
GetClusterSecurityGroupList(r) == Q!security_group_GetList(r)
GetClusterSecurityGroup(r) == Q!security_group_Get(r)
CheckIsExistClusterSecurityGroup(r) == Q!CheckIsExistSecurityGroup(r)

\* The handler that a request names, or the function of internal/ where only
\* other functions call it.
Program(r) ==
    CASE r.op = "GetClusterList" -> GetClusterList(r)
      [] r.op = "GetCluster" -> GetCluster(r)
      [] r.op = "GetClusterHypervisorList" -> GetClusterHypervisorList(r)
      [] r.op = "GetClusterHypervisor" -> GetClusterHypervisor(r)
      [] r.op = "UpdateClusterHypervisor" -> UpdateClusterHypervisor(r)
      [] r.op = "GetClusterAvailabilityZoneList" -> GetClusterAvailabilityZoneList(r)
      [] r.op = "GetClusterAvailabilityZone" -> GetClusterAvailabilityZone(r)
      [] r.op = "GetClusterTenantList" -> GetClusterTenantList(r)
      [] r.op = "GetClusterTenant" -> GetClusterTenant(r)
      [] r.op = "CheckIsExistClusterTenant" -> CheckIsExistClusterTenant(r)
      [] r.op = "GetClusterNetworkList" -> GetClusterNetworkList(r)
      [] r.op = "GetClusterNetwork" -> GetClusterNetwork(r)
      [] r.op = "GetClusterNetworkByUUID" -> GetClusterNetworkByUUID(r)
      [] r.op = "GetClusterSubnet" -> GetClusterSubnet(r)
      [] r.op = "GetClusterFloatingIP" -> GetClusterFloatingIP(r)
      [] r.op = "CheckIsExistClusterFloatingIP" -> CheckIsExistClusterFloatingIP(r)
      [] r.op = "GetClusterRouterList" -> GetClusterRouterList(r)
      [] r.op = "GetClusterRouter" -> GetClusterRouter(r)
      [] r.op = "CheckIsExistClusterRoutingInterface" -> CheckIsExistClusterRoutingInterface(r)
      [] r.op = "GetClusterStorageList" -> GetClusterStorageList(r)
      [] r.op = "GetClusterStorage" -> GetClusterStorage(r)
      [] r.op = "GetClusterVolumeList" -> GetClusterVolumeList(r)
      [] r.op = "GetClusterVolume" -> GetClusterVolume(r)
      [] r.op = "GetClusterInstanceList" -> GetClusterInstanceList(r)
      [] r.op = "GetClusterInstance" -> GetClusterInstance(r)
      [] r.op = "GetClusterInstanceByUUID" -> GetClusterInstanceByUUID(r)
      [] r.op = "GetClusterInstanceNumber" -> GetClusterInstanceNumber(r)
      [] r.op = "GetClusterInstanceSpecByUUID" -> GetClusterInstanceSpecByUUID(r)
      [] r.op = "CheckIsExistClusterInstanceSpec" -> CheckIsExistClusterInstanceSpec(r)
      [] r.op = "GetClusterKeyPair" -> GetClusterKeyPair(r)
      [] r.op = "CheckIsExistClusterKeypair" -> CheckIsExistClusterKeypair(r)
      [] r.op = "GetClusterInstanceUserScript" -> GetClusterInstanceUserScript(r)
      [] r.op = "UpdateClusterInstanceUserScript" -> UpdateClusterInstanceUserScript(r)
      [] r.op = "GetClusterSecurityGroupList" -> GetClusterSecurityGroupList(r)
      [] r.op = "GetClusterSecurityGroup" -> GetClusterSecurityGroup(r)
      [] r.op = "CheckIsExistClusterSecurityGroup" -> CheckIsExistClusterSecurityGroup(r)
      [] r.op = "tenant_GetByUUID" -> Q!tenant_GetByUUID(r)
      [] r.op = "router_GetByUUID" -> Q!router_GetByUUID(r)
      [] r.op = "volume_GetByUUID" -> Q!volume_GetByUUID(r)
      [] r.op = "spec_Get" -> Q!spec_Get(r)
      [] r.op = "spec_GetList" -> Q!spec_GetList(r)
      [] r.op = "security_group_GetByUUID" -> Q!security_group_GetByUUID(r)

-----------------------------------------------------------------------------
(* What the tables and the requests are. A user is an owner of the cluster *)
(* (of its user group), another of the same tenant, one of another tenant  *)
(* (stranger), or an administrator of the same or another (visitor) tenant.*)

Users == {"owner", "other", "stranger", "admin", "visitor"}

Operations ==
    {"GetClusterList", "GetCluster", "GetClusterHypervisorList",
     "GetClusterHypervisor", "UpdateClusterHypervisor",
     "GetClusterAvailabilityZoneList", "GetClusterAvailabilityZone",
     "GetClusterTenantList", "GetClusterTenant", "CheckIsExistClusterTenant",
     "GetClusterNetworkList", "GetClusterNetwork", "GetClusterNetworkByUUID",
     "GetClusterSubnet", "GetClusterFloatingIP", "CheckIsExistClusterFloatingIP",
     "GetClusterRouterList", "GetClusterRouter",
     "CheckIsExistClusterRoutingInterface", "GetClusterStorageList",
     "GetClusterStorage", "GetClusterVolumeList", "GetClusterVolume",
     "GetClusterInstanceList", "GetClusterInstance", "GetClusterInstanceByUUID",
     "GetClusterInstanceNumber", "GetClusterInstanceSpecByUUID",
     "CheckIsExistClusterInstanceSpec", "GetClusterKeyPair",
     "CheckIsExistClusterKeypair", "GetClusterInstanceUserScript",
     "UpdateClusterInstanceUserScript", "GetClusterSecurityGroupList",
     "GetClusterSecurityGroup", "CheckIsExistClusterSecurityGroup",
     "tenant_GetByUUID", "router_GetByUUID", "volume_GetByUUID", "spec_Get",
     "spec_GetList", "security_group_GetByUUID"}

\* What a list is of, and where its filter looks rows up.
ListOf ==
    [GetClusterList |-> "cluster", GetClusterAvailabilityZoneList |-> "zone",
     GetClusterHypervisorList |-> "hypervisor", GetClusterTenantList |-> "tenant",
     GetClusterNetworkList |-> "network", GetClusterRouterList |-> "router",
     GetClusterSecurityGroupList |-> "security_group", GetClusterStorageList |-> "storage",
     GetClusterVolumeList |-> "volume", spec_GetList |-> "spec",
     GetClusterInstanceList |-> "instance"]
FilterOf ==
    [GetClusterRouterList |-> "interface", GetClusterSecurityGroupList |-> "membership",
     GetClusterVolumeList |-> "attachment", GetClusterInstanceList |-> "attachment"]

Reaches(x, y) == y \in Refs[x] \/ \E z \in Refs[x] : y \in Refs[z]

\* The items that a list is asked for; each is found by the rows of the table that
\* reach what it is filtered by.
ItemsOf(r) == {x \in DOMAIN r.parts : x[1] = r.table}
Sifting(r, table, by) ==
    \A x \in ItemsOf(r) : \E y \in r.parts[x] : y[1] = table /\ Reaches(y, by) /\ x \in Refs[y]

\* A row of a cluster or a permission names its user group (model.go:16, 52).
ASSUME RowsAssumption ==
    /\ IsFiniteSet(Rows) /\ Rows \subseteq Q!Tables \X Nat
    /\ External \subseteq {x \in Rows : x[1] = "network"}
    /\ \A x \in Rows :
          /\ Refs[x] \subseteq Rows
          /\ x[1] \in {"cluster", "permission"} => Q!HasRef(x, "group")
          /\ Remote[x] \in Rows \cup {<<>>}

ASSUME ReadsAssumption ==
    \A r \in Reads :
        /\ r.op \in Operations
        /\ r.user \in Users
        /\ r.rows \subseteq Rows /\ r.late \subseteq r.rows /\ r.volatile \subseteq r.rows
        /\ r.cluster \in r.rows /\ r.cluster[1] = "cluster"
        /\ r.row = <<>> => r.op = "GetClusterInstanceNumber"
        /\ r.row # <<>> => r.row[1] \in Q!Tables
        /\ r.op = "UpdateClusterInstanceUserScript" => r.row \in r.rows
        /\ r.offset \in Nat
        /\ r.limit # <<>> => r.limit = <<r.limit[1]>> /\ r.limit[1] \in Nat

\* The items of a list are rows of the cluster that match its filters.
ASSUME ListsAssumption ==
    \A r \in Reads : r.list =>
        /\ r.op \in DOMAIN ListOf /\ r.table = ListOf[r.op]
        /\ \A x \in ItemsOf(r) : x \in r.match /\ (r.table = "cluster" \/ Reaches(x, r.cluster))
        /\ r.filter # <<>> =>
              r.op \in DOMAIN FilterOf /\ Sifting(r, FilterOf[r.op], r.filter)
        /\ r.filter \in External => ItemsOf(r) = {}

-----------------------------------------------------------------------------
VARIABLES
    req,        \* the request
    db,         \* the rows that are there
    todo,       \* the queries that are left
    sieve,      \* the rows that a filter has let through
    answer,     \* the rows that the answer shows
    page,       \* the pagination: <<page, pages, items>>, or <<>>
    result,     \* <<>>: none yet; <<"ok">>; or the error
    events,     \* changes and faults left
    always,     \* the rows that were there all the time
    ever,       \* the rows that were there at some time
    trouble     \* "fault": the database failed; "dropped": an error was dropped

vars == <<req, db, todo, sieve, answer, page, result, events, always, ever, trouble>>

Init ==
    /\ req \in Reads
    /\ db = req.rows \ req.late
    /\ todo = Program(req)
    /\ sieve = {}
    /\ answer = {}
    /\ page = <<>>
    /\ result = <<>>
    /\ events = MaxEvents
    /\ always = db
    /\ ever = db
    /\ trouble = {}

-----------------------------------------------------------------------------
(* One query. *)

IsAdmin == req.user \in {"admin", "visitor"}
SameTenant == req.user \in {"owner", "other", "admin"}
IsGroupUser == req.user = "owner"

OfCluster(x) == x[1] = "cluster" \/ Reaches(x, req.cluster)
NamedBy(xs, t) == {y \in UNION {Refs[x] : x \in xs} : y[1] = t}

\* What a row is read along with: its own rows and theirs (a volume's storage).
Joined(xs, tables) ==
    LET near == UNION {Refs[x] : x \in xs}
    IN  {y \in near \cup UNION {Refs[x] : x \in near} : y[1] \in tables /\ y \in db}

\* The rows of the table that the filters let through.
Matching(q) ==
    {x \in db \cap req.match : x[1] = q.table /\ OfCluster(x)
                               /\ (q.by = Q!Sifted => x \in sieve)}

(* Faulty variant: the offset is counted from one. *)
paginationFilterFromOne(xs) ==
    LET left == IF Cardinality(xs) > req.offset + 1 THEN Cardinality(xs) - req.offset - 1 ELSE 0
        size == IF req.limit = <<>> \/ left < req.limit[1] THEN left ELSE req.limit[1]
    IN  kSubset(size, xs)

\* LIMIT and OFFSET without ORDER BY: any rows.
paginationFilter(xs) ==
    LET left == IF Cardinality(xs) > req.offset THEN Cardinality(xs) - req.offset ELSE 0
        size == IF req.limit = <<>> \/ left < req.limit[1] THEN left ELSE req.limit[1]
    IN  kSubset(size, xs)

(* Faulty variant: a last page that is not full is not counted. *)
PaginationRoundedDown(total) ==
    IF req.limit \in {<<>>, <<0>>} THEN <<1, 1, total>>
    ELSE <<req.offset \div req.limit[1] + 1, total \div req.limit[1], total>>

Pagination(total) ==
    IF req.limit \in {<<>>, <<0>>} THEN <<1, 1, total>>
    ELSE <<req.offset \div req.limit[1] + 1,
           (total + req.limit[1] - 1) \div req.limit[1], total>>

\* The sets of rows that a query can find.
Found(q) ==
    CASE q.ask \in {"one", "maybe"} -> {{q.by} \cap db}
      [] q.ask = "many" -> {{x \in db : x[1] = q.table /\ q.by \in Refs[x]}}
      [] q.ask = "in" -> {NamedBy({x \in answer : x[1] = q.by[1]}, q.table) \cap db}
      [] q.ask = "list" -> paginationFilter(Matching(q))
      [] q.ask = "exists" -> {{x \in {q.by} \cap db : q.joins \subseteq Refs[x]}}
      [] q.ask = "each" -> {IF q.by = <<>> THEN {x \in answer : x[1] = q.table}
                            ELSE NamedBy({x \in answer : x[1] = q.table}, q.by[1])}
      [] OTHER -> {{}}

(* Faulty variant: an administrator must be of the owner's group, too. *)
ErrorOfAdmins(q) ==
    IF q.ask = "owner" /\ q.by \notin db THEN <<"NotFound", q.by>>
    ELSE CASE q.ask \in {"owner", "allowed"} /\ ~IsGroupUser -> <<"Unauthorized", q.by>>
           [] q.ask = "one" /\ q.by \notin db -> <<q.missing, q.by>>
           [] OTHER -> <<>>

(* Faulty variant: an inner join, a row is found only with all that it names. *)
ErrorOfInnerJoin(q) ==
    IF q.ask = "owner" /\ (q.by \notin db \/ ~(IsAdmin \/ SameTenant)) THEN <<"NotFound", q.by>>
    ELSE CASE q.ask \in {"owner", "allowed"} /\ ~IsAdmin /\ ~IsGroupUser -> <<"Unauthorized", q.by>>
           [] q.ask = "one" /\ ~({q.by} \cup Refs[q.by] \subseteq db) -> <<q.missing, q.by>>
           [] OTHER -> <<>>

\* The error of a query, <<>> if it has none.
ErrorOf(q) ==
    IF q.ask = "owner" /\ (q.by \notin db \/ ~(IsAdmin \/ SameTenant)) THEN <<"NotFound", q.by>>
    ELSE CASE q.ask \in {"owner", "allowed"} /\ ~IsAdmin /\ ~IsGroupUser -> <<"Unauthorized", q.by>>
           [] q.ask = "one" /\ (q.by \notin db
                                \/ (q.table \in {"cluster", "group"} /\ ~SameTenant)) ->
                 <<q.missing, q.by>>
           [] q.ask = "save" /\ ~(Refs[q.by] \subseteq db) -> <<"UnusableDatabase", q.by>>
           [] OTHER -> <<>>

Loop(q, xs) ==
    LET follow(x) == [i \in DOMAIN Q!Follow(q, x, req) |->
                        IF q.block = <<>> THEN Q!Follow(q, x, req)[i]
                        ELSE [Q!Follow(q, x, req)[i] EXCEPT !.block = q.block]]
    IN  FlattenSeq([i \in 1..Cardinality(xs) |-> follow(SetToSeq(xs)[i])])

\* The handler's last word.
Verdict(shown) ==
    IF req.list /\ ~\E x \in shown : x[1] = req.table THEN <<"NoContent">> ELSE <<"ok">>

\* What is left after the rest of a function literal is skipped.
Skip(block) ==
    LET prefix == {n \in 0..Len(todo) : \A i \in 1..n : todo[i].block = block}
    IN  SubSeq(todo, Max(prefix) + 1, Len(todo))

End(rest, shown) == IF rest = <<>> THEN Verdict(shown) ELSE <<>>

Shown(q, xs) ==
    CASE q.ask = "each" -> {}
      [] q.ask = "exists" -> xs
      [] OTHER -> xs \cup Joined(xs, q.joins)

\* The IDs that a filter's own query has found for the list or count after it.
Sieve(q) ==
    CASE q.ask = "filter" ->
            UNION {Refs[x] : x \in {y \in db : y[1] = q.table /\ Reaches(y, q.by)}}
      [] q.ask = "refilter" -> sieve \cap db
      [] OTHER -> sieve

\* The rows that the same loop is about, in no known order: those that come
\* after the one it stops at are left out of the answer, too.
Mates(x) == IF x = <<>> THEN {} ELSE {y \in answer : y[1] = x[1] /\ Refs[y] \cap Refs[x] # {}}

\* An error ends the request, unless its function literal drops it.
Fail(q, error, why) ==
    IF q.block = <<>>
    THEN /\ result' = error
         /\ todo' = <<>>
         /\ answer' = answer
         /\ trouble' = trouble \cup why
    ELSE /\ todo' = Skip(q.block)
         /\ \E later \in SUBSET Mates(q.draft) :
              answer' = {x \in answer : ({x} \cup Refs[x]) \cap ({q.draft} \cup later) = {}}
         /\ result' = End(todo', answer')
         /\ trouble' = trouble \cup why \cup {"dropped"}

\* The parameters are checked before the first query, those of the update of a
\* hypervisor after it.
Reject ==
    /\ result = <<>>
    /\ ~req.valid \/ (todo # <<>> /\ Head(todo).ask = "check")
    /\ result' = <<"Parameter">>
    /\ todo' = <<>>
    /\ UNCHANGED <<req, db, sieve, answer, page, events, always, ever, trouble>>

Step ==
    /\ todo # <<>> /\ req.valid
    /\ LET q == Head(todo)
       IN  /\ ErrorOf(q) = <<>>
           /\ \E xs \in Found(q) :
                /\ todo' = Loop(q, xs) \o Tail(todo)
                /\ answer' = answer \cup Shown(q, xs)
                /\ result' = End(todo', answer')
           /\ sieve' = Sieve(q)
           /\ page' = IF q.ask = "page" /\ Len(todo) = 1
                      THEN Pagination(Cardinality(Matching(q))) ELSE page
           /\ db' = IF q.ask = "save" THEN db \cup {q.by} ELSE db
           /\ ever' = ever \cup db'
    /\ UNCHANGED <<req, events, always, trouble>>

StepFails ==
    /\ todo # <<>> /\ req.valid
    /\ ErrorOf(Head(todo)) # <<>>
    /\ Fail(Head(todo), ErrorOf(Head(todo)), {})
    /\ UNCHANGED <<req, db, sieve, page, events, always, ever>>

\* errors.UnusableDatabase, or a synchroniser that cannot be made.
Unusable ==
    /\ todo # <<>> /\ req.valid /\ events > 0
    /\ Head(todo).ask \notin {"each", "allowed", "check"}
    /\ Fail(Head(todo), <<"UnusableDatabase", req.cluster>>, {"fault"})
    /\ events' = events - 1
    /\ UNCHANGED <<req, db, sieve, page, always, ever>>

-----------------------------------------------------------------------------
(* The others. A synchroniser, or the deletion of a cluster, removes a row *)
(* and all that name it in one transaction; the rows of a group that a     *)
(* rule of another group names are kept by the database.                   *)

\* A key pair, a floating IP and a user group are only detached.
Strong(x) == {y \in Refs[x] : y[1] \notin {"keypair", "floating_ip", "group"}}
Naming(xs) == xs \cup {y \in db : Strong(y) \cap xs # {}}
\* No chain of references is longer than five.
GoesWith(x) ==
    LET gone[n \in 0..5] == IF n = 0 THEN {x} ELSE Naming(gone[n - 1])
    IN  gone[5]

Added(x) ==
    /\ events > 0 /\ result = <<>>
    /\ x \in req.volatile \ db
    /\ Strong(x) \cup ({Remote[x]} \ {<<>>}) \subseteq db
    /\ db' = db \cup {x}
    /\ ever' = ever \cup {x}
    /\ events' = events - 1
    /\ UNCHANGED <<req, todo, sieve, answer, page, result, always, trouble>>

Removed(x) ==
    /\ events > 0 /\ result = <<>>
    /\ x \in req.volatile \cap db
    /\ \E gone \in {GoesWith(x)} :
         /\ \A y \in db \ gone : Remote[y] \notin gone
         /\ db' = db \ gone
         /\ always' = always \ gone
    /\ events' = events - 1
    /\ UNCHANGED <<req, todo, sieve, answer, page, result, ever, trouble>>

Next ==
    \/ Reject
    \/ Step
    \/ StepFails
    \/ Unusable
    \/ \E x \in Rows : Added(x) \/ Removed(x)

\* A handler is a goroutine that runs until it answers.
Spec == Init /\ [][Next]_vars /\ WF_vars(Reject \/ Step \/ StepFails)

-----------------------------------------------------------------------------
Quiet == always = ever

TypeOK ==
    /\ req \in Reads
    /\ db \subseteq req.rows
    /\ \A i \in DOMAIN todo : todo[i].table \in Q!Tables /\ todo[i].missing \in {"NotFound", "Unknown"}
    /\ sieve \subseteq Rows
    /\ answer \subseteq Rows
    /\ page = <<>> \/ page \in Nat \X Nat \X Nat
    /\ result = <<>> \/ result[1] \in {"ok", "NoContent", "Parameter", "NotFound", "Unknown",
                                       "Unauthorized", "UnusableDatabase"}
    /\ events \in 0..MaxEvents
    /\ trouble \subseteq {"fault", "dropped"}

\* Although the queries of a request see the tables at different times, an
\* answer never shows a row that was not there at any of them, and a row that
\* was there all the time is never reported as missing, unless the user is of
\* another tenant than the cluster (router.go:338, instance.go:149: what a row
\* is joined with is read with it, what it names may be gone).
Honest ==
    /\ always \subseteq db
    /\ db \subseteq ever
    /\ answer \subseteq ever
    /\ result # <<>> /\ result[1] \in {"NotFound", "Unknown"} =>
         result[2] \notin always \/ ~SameTenant

\* Although it is read by many queries and the tables change between them, an
\* answer without a dropped error shows every part of what was asked for that
\* was there (and connected with it) all the time, and nothing that does not
\* belong to it or was not there at any time. (tenant.go:105, instance.go:149,
\* router.go:338: a reading is a sequence of Execute calls.)
Faithful ==
    result = <<"ok">> /\ "dropped" \notin trouble =>
        /\ answer \subseteq DOMAIN req.parts \cap ever
        /\ req.limit = <<>> /\ req.offset = 0 =>
             {x \in DOMAIN req.parts : {x} \cup req.parts[x] \subseteq always} \subseteq answer

\* If nothing changes meanwhile, the items of a list and its pagination agree:
\* the total is the number of items there are, the pages are as many as it
\* takes to show them all, and the answer has as many items as its page holds.
\* A limit of 0 is answered with no item, and with a pagination that counts
\* one page of all (getRoutersPagination, router.go:443).
PagesAddUp ==
    LET total == Cardinality({x \in db \cap DOMAIN req.parts : x[1] = req.table})
        shown == Cardinality({x \in answer : x[1] = req.table})
        size == IF req.limit = <<>> THEN total ELSE req.limit[1]
        first == {k \in 0..(total + req.offset) : size > 0 /\ k % size = 0}
    IN  (req.list /\ result \in {<<"ok">>, <<"NoContent">>} /\ Quiet /\ trouble = {}) =>
            /\ page[3] = total
            /\ shown = Cardinality({k \in 0..(total - 1) : req.offset <= k /\ k < req.offset + size})
            /\ (req.limit # <<>> /\ size > 0) =>
                 /\ page[2] = Cardinality({k \in first : k < total})
                 /\ page[1] = Cardinality({k \in first : k <= req.offset})

\* A request fails only for a reason: a row is not found, or found missing by
\* gorm, only if it was not there at some time (or its cluster is another
\* tenant's); only another user of the tenant is refused; and the database
\* refuses a row only if what the row names was not there at some time.
\* (cluster_util.go:44-73; cluster.go, Get, asks again after five queries.)
ErrorsHaveCause ==
    /\ result # <<>> /\ result[1] \in {"NotFound", "Unknown"} =>
         \/ result[2] \notin always
         \/ result[2][1] \in {"cluster", "group"} /\ ~SameTenant
    /\ result # <<>> /\ result[1] = "Unauthorized" => req.user = "other"
    /\ result # <<>> /\ result[1] = "UnusableDatabase" =>
         trouble # {} \/ ~(Refs[result[2]] \subseteq always)

\* The items of a list that were there, and connected with what it was
\* filtered by, all the time.
Lasting == {x \in ItemsOf(req) : {x} \cup req.parts[x] \subseteq always}

\* Although the list and its filter are queries of their own, a list is
\* answered with no content only if it was asked for no item, or if no more
\* items than it skips were there all the time (handler.go, GetCluster...List).
EmptyMeansNone ==
    result = <<"NoContent">> /\ "dropped" \notin trouble =>
        req.limit = <<0>> \/ Cardinality(Lasting) <= req.offset

\* What a query of the request r is: an owner is looked up for a cluster, one row in
\* its own table, and only the user script of the request is saved.
Orderly(r, q) ==
    /\ q.table \in Q!Tables
    /\ q.missing \in {"NotFound", "Unknown"}
    /\ q.ask = "owner" => q.by[1] = "cluster"
    /\ q.ask = "one" => q.by[1] = q.table
    /\ q.ask = "save" => q.by \in r.rows
    /\ q.then \in {"cluster", "permission"} =>
         q.table = q.then /\ (q.ask = "list" \/ (q.ask = "each" /\ q.by = <<>>))

\* Before a user is asked for the group, the tenant has been asked for.
Guarded ==
    \A i \in DOMAIN todo : todo[i].ask = "allowed" =>
        \/ SameTenant
        \/ todo[1].ask = "one" /\ todo[1].table = "cluster" /\ todo[1].block = <<>>

\* What the errors and the types rest on.
Inductive ==
    /\ TypeOK /\ Honest /\ ErrorsHaveCause /\ Guarded
    /\ todo \in Seq({todo[i] : i \in DOMAIN todo})
    /\ \A i \in DOMAIN todo : Orderly(req, todo[i])

\* A list makes no other list's queries, and its filter finds its items.
Fitting(r, q) == q.then # "routers" /\ (q.ask = "filter" => Sifting(r, q.table, q.by))

\* The list is still to come, after its filter if it has one; or it has been read,
\* and if it found nothing there was no more to find.
Seeks(r, q) == q.ask = "list" /\ q.table = r.table
Awaited ==
    \E i \in DOMAIN todo :
        /\ Seeks(req, todo[i])
        /\ todo[i].by = Q!Sifted =>
             Lasting \subseteq sieve \/ \E j \in 1..(i - 1) : todo[j].ask = "filter"
ShowsItem == \E x \in answer : x[1] = req.table
NoMore == req.limit = <<0>> \/ Cardinality(Lasting) <= req.offset
ListIsRead ==
    /\ req.list => \A i \in DOMAIN todo : Fitting(req, todo[i])
    /\ result # <<>> => todo = <<>>
    /\ result = <<"NoContent">> => req.list /\ ~ShowsItem
    /\ req.list /\ "dropped" \notin trouble /\ result \in {<<>>, <<"NoContent">>} =>
         Awaited \/ ShowsItem \/ NoMore

\* Every request is answered: no loop over what was read goes on for ever.
Answered == <>(result # <<>>)

-----------------------------------------------------------------------------
(* What the code's comments say and the code does not do: TLC refutes each *)
(* of these with the requests named for it in MCResourceReads.             *)

\* "CheckIsExistSecurityGroup 보안그룹 이름을 통한 클러스터 보안그룹 존재유무 확인"
\* (security_group.go:596): the group of that name is found if it is there.
NameIsFound ==
    result = <<"ok">> /\ req.row \in always => req.row \in answer

\* "NotFoundClusterKeyPair 클러스터 KeyPair 를 찾을 수 없음" (errors.go:190): a key
\* pair that is not there is reported as such.
MissingIsReported ==
    result = <<"ok">> => req.row \in ever

\* "admin 의 경우 모든 클러스터를 조회할 수 있다." (cluster_util.go:67): an
\* administrator can read every cluster.
AdminReadsAll ==
    result # <<>> /\ result[1] = "NotFound" => result[2] \notin always
=============================================================================
