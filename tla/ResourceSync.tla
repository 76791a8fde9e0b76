---------------------------- MODULE ResourceSync ----------------------------
(***************************************************************************)
(* The synchronisation of the resources of a cluster: the lists of         *)
(* sync.Cluster, the synchroniser of every single resource, the parents    *)
(* it fetches on demand, and the cascades that delete rows, while the      *)
(* cloud changes between one request to it and the next.                   *)
(*                                                                         *)
(*   scope          the resources that there are                           *)
(*   cloud          those of them that the cloud has                       *)
(*   db             the rows of the database                               *)
(*   stack          functions that are being executed, the innermost first *)
(*   phase, round   of the job; it makes up to MaxRound passes             *)
(*   turn           position of the pass in ListOrder                      *)
(*   done           lists synchronised (syncFunc)                          *)
(*   events         changes of the cloud and failed requests so far        *)
(*   touched        resources that changed since the job began             *)
(*   faulty         a request failed                                       *)
(*                                                                         *)
(* The lock of the cluster is held throughout (SyncJob), so nobody else    *)
(* writes the rows, but for the user scripts of instances, which are rows  *)
(* from the start or never. The cloud is read only by the requests, so it  *)
(* is enough to let it change right before one. An association is named by *)
(* the two things it connects, so it never moves.                          *)
(***************************************************************************)
EXTENDS ClusterDelete, FiniteSets, Functions

CONSTANTS
    Form,       \* contents that each resource may have in the cloud
    Start,      \* and the one it has at first
    Scopes,     \* sets of resources, of which a behaviour has one
    MaxEvent,   \* bound on changes and failed requests
    MaxRound    \* passes of a job; 3 in the code

ASSUME ResourceSyncAssumption ==
    /\ Form \in [Res -> SUBSET Content]
    /\ \A r \in Res : Start[r] \in Form[r] /\ \A c \in Form[r] : c.here
    /\ Scopes \subseteq SUBSET Res
    /\ MaxEvent \in Nat /\ MaxRound \in Nat \ {0}

\* The cloud describes a resource by what the row has columns for, and the rows
\* of an earlier job are complete.
ASSUME ContentsAssumption ==
    /\ \A r \in Res : \A c \in Form[r] : Reported(r, c)
    /\ \A r \in Res : Fits(r, Start[r])
    /\ \A S \in Scopes : \A r \in S : Start[r].refs \subseteq S

VARIABLES scope, cloud, db, stack, phase, round, turn, done, events, touched, faulty

jobVars == <<phase, round, turn, done>>
eventVars == <<events, touched, faulty>>
vars == <<scope, cloud, db, stack, phase, round, turn, done, events, touched, faulty>>

Nothing == [r \in Res |-> Absent]

\* The order of a pass. The list of instance specs comes last, is made of the
\* rows, and belongs to no entry of syncFunc.
ListOrder ==
    <<"tenant", "zone", "hypervisor", "security_group", "network", "router", "storage",
      "volume", "snapshot", "keypair", "instance", "spec">>
Lists == Range(ListOrder) \ {"spec"}

\* A function that is being executed. It works for the resource id (the parent,
\* of a list that belongs to one).
Frame ==
    [op : {"list", "sync", "delete"}, kind : Kind, id : Res \cup {NoRes},
     pc : {"request", "details", "clear", "drop", "each", "early", "row", "late", "save",
           "lists", "gone", "spec", "out"},
     ans : Content,                  \* what the cloud says of id
     seen : [Res -> Content],        \* what it says of the resources of a list
     had : Content,                  \* the row that was read
     todo : SUBSET Res,              \* resources still to be dealt with
     want : Res \cup {NoRes},        \* parent that is being fetched; floating IP found
     next : Nat \ {0},               \* position in the details, or the lists, of id
     err : BOOLEAN]

NewFrame(op, k, r, pc) ==
    [op |-> op, kind |-> k, id |-> r, pc |-> pc, ans |-> Absent, seen |-> Nothing,
     had |-> Absent, todo |-> {}, want |-> NoRes, next |-> 1, err |-> FALSE]

-----------------------------------------------------------------------------
(* The cloud. A project, a zone, a hypervisor, a flavor or a key pair may  *)
(* go while others still name it; what else is in use cannot be deleted.   *)

Loose == {"tenant", "zone", "hypervisor", "spec", "keypair", "floating_ip", "storage"}

GoesWith(r) ==
    {q \in Res : q = r \/ (cloud[q].here /\ Home[q] = r)
                       \/ (KindOf[q] = "rule" /\ r \in cloud[q].refs)}

Vanish(r) ==
    LET gone == GoesWith(r)
    IN  /\ cloud[r].here
        /\ \/ KindOf[r] \in Loose
           \/ \A q \in Res \ gone : cloud[q].refs \cap gone = {}
        /\ cloud' = [q \in Res |->
               IF q \in gone THEN Absent
               ELSE IF KindOf[q] = "instance_network"
                    THEN [cloud[q] EXCEPT !.refs = @ \ {r}] ELSE cloud[q]]
        /\ touched' = IF phase = "run" THEN touched \cup gone ELSE touched

Take(r, c) ==
    /\ cloud[r] # c
    /\ \A p \in c.refs : cloud[p].here
    /\ cloud' = [cloud EXCEPT ![r] = c]
    /\ touched' = IF phase = "run" THEN touched \cup {r} ELSE touched

Waiting == stack # <<>> /\ Head(stack).pc \in {"request", "details"}

Change ==
    /\ phase = "idle" \/ Waiting
    /\ events < MaxEvent
    /\ events' = events + 1
    /\ \E r \in scope \ Of("script") : Vanish(r) \/ \E c \in Form[r] : Take(r, c)
    /\ UNCHANGED <<scope, db, stack, jobVars, faulty>>

\* A request that fails for another reason than a missing resource.
Fault ==
    /\ events < MaxEvent
    /\ events' = events + 1
    /\ faulty' = TRUE
    /\ UNCHANGED touched

-----------------------------------------------------------------------------
(* Calls and returns.                                                      *)

Top == Head(stack)
At(op, pc) == stack # <<>> /\ Top.op = op /\ Top.pc = pc
Go(f) == stack' = <<f>> \o Tail(stack)
Call(f, g) == stack' = <<g, f>> \o Tail(stack)
Out(f, e) == [f EXCEPT !.pc = "out", !.err = e]
Exit(e) == Go(Out(Top, e))

Rank(order, r) == CHOOSE i \in DOMAIN order : order[i] = KindOf[r]
Foremost(S, order) == {p \in S : \A q \in S : Rank(order, p) <= Rank(order, q)}

Belongs(r, h, refs) == h \in refs /\ (KindOf[r] = "rule" => Home[r] = h)

\* The rows a list starts from. The condition on an ID of zero is left out of
\* the query, so the list of a parent that could not be saved has every row.
Rows(k, h) ==
    {r \in Of(k) : db[r].here /\ (h = NoRes \/ ~db[h].here \/ Belongs(r, h, db[r].refs))}

\* What the cloud says of the resources of a kind that belong to h.
SeenOf(k, h) ==
    [r \in Res |-> IF KindOf[r] = k /\ Belongs(r, h, cloud[r].refs) THEN cloud[r] ELSE Absent]

ParentsOf(r, c, when) ==
    LET named == {p \in c.refs : KindOf[p] \in Range(StepsOf[KindOf[r]][when])}
    IN  IF KindOf[r] # "rule" THEN named
        ELSE IF when = "early" THEN named \cap {Home[r]} ELSE named \ {Home[r]}

ListFrame(k) ==
    IF k = "spec" THEN [NewFrame("list", k, NoRes, "each") EXCEPT !.todo = Rows(k, NoRes)]
                  ELSE NewFrame("list", k, NoRes, "request")

ChildListFrame(f, k) ==
    LET seen == [r \in Res |-> IF KindOf[r] = k THEN f.seen[r] ELSE Absent]
    IN  [NewFrame("list", k, f.id, IF k = "instance_sg" THEN "clear" ELSE "drop")
           EXCEPT !.seen = seen, !.todo = {r \in Rows(k, f.id) : ~seen[r].here}]

\* Zones and associations come with the list; all others are asked for.
SyncFrame(r, c) ==
    CASE KindOf[r] = "zone" -> [NewFrame("sync", "zone", r, "row") EXCEPT !.ans = c]
      [] KindOf[r] \in Association ->
            [NewFrame("sync", KindOf[r], r, "early")
               EXCEPT !.ans = c, !.todo = ParentsOf(r, c, "early")]
      [] OTHER -> NewFrame("sync", KindOf[r], r, "request")

\* The dependents are read once, before the first of them is deleted.
DeleteFrame(r) ==
    [NewFrame("delete", KindOf[r], r, "drop") EXCEPT
       !.had = db[r],
       !.todo = {q \in Res : /\ db[q].here
                             /\ KindOf[q] \in Range(DependentsOf[KindOf[r]])
                             /\ Belongs(q, r, db[q].refs)}]

\* The caller, once getX has returned. A floating IP without a tenant is an
\* error, but only after its network has been looked up too.
AfterLookup(f, e) ==
    LET p == f.want
        g == [f EXCEPT !.want = NoRes]
        found == ~e /\ db[p].here
        nil == ~e /\ MissingParent[KindOf[p]] = "nil"
    IN  IF found \/ MissingParent[KindOf[p]] = "ignore" THEN g
        ELSE IF nil /\ f.kind = "floating_ip" THEN [g EXCEPT !.err = TRUE]
        ELSE Out(g, ~nil)

\* The caller, once the function it called has returned (with an error, if e).
After(f, e) ==
    CASE f.pc = "drop" -> IF e THEN Out(f, TRUE) ELSE f
      [] f.pc = "each" ->
            IF e /\ f.kind \in Association THEN Out(f, TRUE)
            ELSE [f EXCEPT !.err = IF f.kind = "security_group" THEN e ELSE @ \/ e]
      [] f.pc \in {"early", "late"} -> AfterLookup(f, e)
      [] f.pc = "gone" -> Out(f, e)
      [] f.pc = "spec" -> Out(f, FALSE)
      [] f.pc = "lists" -> [f EXCEPT !.err = e]

Return ==
    /\ stack # <<>> /\ Top.pc = "out"
    /\ IF Len(stack) = 1
       THEN /\ stack' = <<>>
            /\ done' = IF Top.err \/ Top.kind = "spec" THEN done ELSE done \cup {Top.kind}
       ELSE /\ stack' = <<After(stack[2], Top.err)>> \o Tail(Tail(stack))
            /\ UNCHANGED done
    /\ UNCHANGED <<scope, cloud, db, phase, round, turn, eventVars>>

-----------------------------------------------------------------------------
(* SyncClusterXList and syncDeletedXList.                                  *)

GetList ==
    /\ At("list", "request")
    /\ \/ Fault /\ Exit(TRUE)
       \/ /\ LET seen == [r \in Res |-> IF KindOf[r] = Top.kind THEN cloud[r] ELSE Absent]
             IN  Go([Top EXCEPT !.pc = "drop", !.seen = seen,
                                !.todo = {r \in Rows(Top.kind, NoRes) : ~seen[r].here}])
          /\ UNCHANGED eventVars
    /\ UNCHANGED <<scope, cloud, db, jobVars>>

\* The groups of an instance are all deleted first, and written again.
ClearGroups ==
    /\ At("list", "clear")
    /\ db' = [r \in Res |-> IF r \in Rows(Top.kind, Top.id) THEN Absent ELSE db[r]]
    /\ Go([Top EXCEPT !.pc = "each", !.todo = {r \in Res : Top.seen[r].here}])
    /\ UNCHANGED <<scope, cloud, jobVars, eventVars>>

DropUnlisted ==
    /\ At("list", "drop")
    /\ \/ /\ Top.todo = {}
          /\ Go([Top EXCEPT !.pc = "each", !.todo = {r \in Res : Top.seen[r].here}])
       \/ \E r \in Top.todo : Call([Top EXCEPT !.todo = @ \ {r}], DeleteFrame(r))
    /\ UNCHANGED <<scope, cloud, db, jobVars, eventVars>>

SyncListed ==
    /\ At("list", "each")
    /\ \/ Top.todo = {} /\ Exit(Top.err /\ Top.kind # "spec")
       \/ \E r \in Top.todo :
             Call([Top EXCEPT !.todo = @ \ {r}], SyncFrame(r, Top.seen[r]))
    /\ UNCHANGED <<scope, cloud, db, jobVars, eventVars>>

-----------------------------------------------------------------------------
(* SyncClusterX.                                                           *)

\* The client has returned c, or that there is no such resource (Absent): the
\* caller goes on to the parents. An instance without a zone is left as it is.
Read(f, c) ==
    IF f.kind = "instance" /\ c.here /\ Named(c, "zone") = {} THEN Out(f, FALSE)
    ELSE [f EXCEPT !.pc = "early", !.ans = c, !.todo = ParentsOf(f.id, c, "early"),
                   !.want = NoRes, !.next = 1]

\* The request for the resource itself. The subnets of a network and the rules of
\* a security group come with the answer, the others with requests of their own.
\* A hypervisor that is not found is an error.
FirstAnswer ==
    LET c == cloud[Top.id]
        first == [Top EXCEPT !.ans = c,
                             !.seen = IF Top.kind = "network" THEN SeenOf("subnet", Top.id)
                                      ELSE IF Top.kind = "security_group"
                                           THEN SeenOf("rule", Top.id) ELSE Nothing]
        attached == {q \in Of("instance_volume") : Top.id \in cloud[q].refs}
    IN  CASE ~c.here /\ Top.kind = "hypervisor" -> Exit(TRUE)
          [] ~c.here /\ Top.kind # "hypervisor" -> Go(Read(Top, Absent))
          [] c.here /\ DetailsOf[Top.kind] = <<>> -> Go(Read(first, c))
          [] c.here /\ DetailsOf[Top.kind] # <<>> ->
                Go([first EXCEPT !.pc = "details", !.todo = attached])

(* Faulty variant: whatever the request fails with passes for an absent resource. *)
GetOneIgnoresError ==
    /\ At("sync", "request")
    /\ \/ Fault /\ Go(Read(Top, Absent))
       \/ FirstAnswer /\ UNCHANGED eventVars
    /\ UNCHANGED <<scope, cloud, db, jobVars>>

GetOne ==
    /\ At("sync", "request")
    /\ \/ Fault /\ Exit(TRUE)
       \/ FirstAnswer /\ UNCHANGED eventVars
    /\ UNCHANGED <<scope, cloud, db, jobVars>>

-----------------------------------------------------------------------------
(* The requests that follow it. The cloud may change before each of them.  *)

Asking(request) ==
    Top.next \in DOMAIN DetailsOf[Top.kind] /\ DetailsOf[Top.kind][Top.next] = request
Proceed(f) ==
    Go(IF f.next = Len(DetailsOf[f.kind]) THEN Read(f, f.ans) ELSE [f EXCEPT !.next = @ + 1])
Missing == Go(Read(Top, Absent))

\* The hypervisor is the one that lists the server.
ListHypervisors ==
    /\ Asking("ListHypervisors")
    /\ LET host == {p \in Named(cloud[Top.id], "hypervisor") : cloud[p].here}
       IN  IF host = {} THEN Missing
           ELSE Proceed([Top EXCEPT !.ans.refs = (@ \ Of("hypervisor")) \cup host])

ListSecurityGroupsByServer ==
    /\ Asking("ListSecurityGroupsByServer")
    /\ IF ~cloud[Top.id].here THEN Missing
       ELSE Proceed([Top EXCEPT !.seen = SeenOf("instance_sg", Top.id)])

\* The flavor has the name that the server was answered with.
ListFlavors ==
    /\ Asking("ListFlavors")
    /\ IF \E p \in Named(Top.ans, "spec") : cloud[p].here THEN Proceed(Top) ELSE Missing

\* One request for each volume that the server was answered with.
ShowDetailVolumeAttachment ==
    /\ Asking("ShowDetailVolumeAttachment")
    /\ \/ Top.todo = {} /\ Proceed(Top)
       \/ \E q \in Top.todo :
             IF ~cloud[q].here THEN Missing
             ELSE Go([Top EXCEPT !.todo = @ \ {q}, !.seen[q] = cloud[q]])

ListPortInterfaces ==
    /\ Asking("ListPortInterfaces")
    /\ IF ~cloud[Top.id].here THEN Missing
       ELSE LET ports == SeenOf("instance_network", Top.id)
            IN  Proceed([Top EXCEPT !.todo = {q \in Res : ports[q].here},
                                    !.seen = [q \in Res |-> IF ports[q].here THEN ports[q]
                                                            ELSE Top.seen[q]]])

\* The ports in turn, with two requests each. A port that has no floating IP is
\* given the last one that was found.
Ports == Top.todo \cap Of("instance_network")
Port == CHOOSE q \in Ports : TRUE

ListFloatingIPsByPortInterface ==
    /\ Asking("ListFloatingIPsByPortInterface")
    /\ \/ Ports = {} /\ Go(Read(Top, Top.ans))
       \/ /\ Ports # {}
          /\ \E ip \in IF Named(cloud[Port], "floating_ip") = {} THEN {Top.want}
                        ELSE Named(cloud[Port], "floating_ip") :
                LET port == [Top.seen[Port] EXCEPT !.refs =
                               (@ \ Of("floating_ip")) \cup ({ip} \cap Of("floating_ip"))]
                IN  Proceed([Top EXCEPT !.want = ip, !.seen[Port] = port])

ShowSubnetDetails ==
    /\ Asking("ShowSubnetDetails")
    /\ IF \E p \in Named(Top.seen[Port], "subnet") : ~cloud[p].here THEN Missing
       ELSE Go([Top EXCEPT !.todo = @ \ {Port}, !.next = @ - 1])

\* A volume type that is not found is an error.
ListAllVolumeTypes ==
    /\ Asking("ListAllVolumeTypes")
    /\ IF \E p \in Named(Top.ans, "storage") : cloud[p].here THEN Proceed(Top) ELSE Exit(TRUE)

\* The first of the attachments that the volume was answered with.
ShowAttachmentDetails ==
    /\ Asking("ShowAttachmentDetails")
    /\ \/ Top.todo = {} /\ Proceed(Top)
       \/ \E q \in Top.todo : IF cloud[q].here THEN Proceed(Top) ELSE Missing

ListFloatingIPs ==
    /\ Asking("ListFloatingIPs")
    /\ LET ips == SeenOf("floating_ip", Top.id)
       IN  Proceed([Top EXCEPT !.seen = [q \in Res |-> IF ips[q].here THEN ips[q]
                                                       ELSE Top.seen[q]]])

ListPorts ==
    /\ Asking("ListPorts")
    /\ Proceed([Top EXCEPT !.seen = SeenOf("interface", Top.id)])

GetDetails ==
    /\ At("sync", "details")
    /\ \/ Fault /\ Exit(TRUE)
       \/ /\ \/ ListHypervisors \/ ListSecurityGroupsByServer \/ ListFlavors
             \/ ShowDetailVolumeAttachment \/ ListPortInterfaces
             \/ ListFloatingIPsByPortInterface \/ ShowSubnetDetails
             \/ ListAllVolumeTypes \/ ShowAttachmentDetails
             \/ ListFloatingIPs \/ ListPorts
          /\ UNCHANGED eventVars
    /\ UNCHANGED <<scope, cloud, db, jobVars>>

-----------------------------------------------------------------------------
(* The rows.                                                               *)

\* getX for each parent in turn: a row that is missing is synchronised first.
GetParents ==
    /\ \E when \in {"early", "late"} :
          /\ At("sync", when)
          /\ LET missing == {p \in Top.todo : ~db[p].here}
                 order == StepsOf[Top.kind][when]
             IN  \/ missing = {} /\ Top.err /\ Exit(TRUE)
                 \/ /\ missing = {} /\ ~Top.err
                    /\ Go([Top EXCEPT !.pc = IF when = "early" THEN "row" ELSE "save",
                                      !.todo = {}])
                 \/ \E p \in Foremost(missing, order) :
                       Call([Top EXCEPT !.want = p,
                               !.todo = {q \in @ : Rank(order, q) > Rank(order, p)}],
                            IF KindOf[p] = "zone" THEN ListFrame("zone")
                                                  ELSE SyncFrame(p, Absent))
    /\ UNCHANGED <<scope, cloud, db, jobVars, eventVars>>

\* The row is read and compared with the answer. SyncClusterVolumeSnapshot loses
\* the result of the read, and deletes the row with the ID zero: every row.
ReadRow ==
    /\ At("sync", "row")
    /\ LET row == db[Top.id]
       IN  CASE ~Top.ans.here /\ row.here ->
                    Call([Top EXCEPT !.pc = "gone"], DeleteFrame(Top.id)) /\ UNCHANGED db
             [] ~Top.ans.here /\ ~row.here /\ Top.kind = "snapshot" ->
                    /\ db' = [r \in Res |-> IF KindOf[r] = "snapshot" THEN Absent ELSE db[r]]
                    /\ Exit(FALSE)
             [] ~Top.ans.here /\ ~row.here /\ Top.kind # "snapshot" ->
                    Exit(FALSE) /\ UNCHANGED db
             [] Top.ans.here /\ row.here /\ Unchanged(Top.kind, row, Top.ans) ->
                    Go([Top EXCEPT !.pc = "lists", !.had = row]) /\ UNCHANGED db
             [] OTHER ->
                    /\ IF Top.kind = "hypervisor" /\ Named(Top.ans, "zone") = {}
                       THEN Exit(FALSE)
                       ELSE Go([Top EXCEPT !.pc = "late", !.had = row,
                                           !.todo = ParentsOf(Top.id, Top.ans, "late")])
                    /\ UNCHANGED db
    /\ UNCHANGED <<scope, cloud, jobVars, eventVars>>

\* An update of a connected network leaves its subnet alone, and an instance is
\* saved without a key pair that has no row.
Written(f) ==
    [f.ans EXCEPT !.refs =
        CASE f.kind = "instance_network" /\ f.had.here ->
                (f.had.refs \ Of("floating_ip")) \cup Named(f.ans, "floating_ip")
          [] f.kind = "instance" -> {p \in @ : KindOf[p] = "keypair" => db[p].here}
          [] OTHER -> @]

(* Faulty variant: a row that has lists of its own is not committed before them. *)
SaveRowUncommitted ==
    /\ At("sync", "save")
    /\ LET row == Written(Top)
       IN  db' = IF StepsOf[Top.kind].lists = <<>> /\ \A p \in row.refs : db[p].here
                 THEN [db EXCEPT ![Top.id] = row] ELSE db
    /\ Go([Top EXCEPT !.pc = "lists"])
    /\ UNCHANGED <<scope, cloud, jobVars, eventVars>>

\* The error of a refused write is lost with the transaction.
SaveRow ==
    /\ At("sync", "save")
    /\ LET row == Written(Top)
       IN  db' = IF \A p \in row.refs : db[p].here THEN [db EXCEPT ![Top.id] = row] ELSE db
    /\ Go([Top EXCEPT !.pc = "lists"])
    /\ UNCHANGED <<scope, cloud, jobVars, eventVars>>

\* The error of the last list is the one that counts.
SyncChildLists ==
    /\ At("sync", "lists")
    /\ LET lists == StepsOf[Top.kind].lists
       IN  IF Top.next > Len(lists) THEN Exit(Top.err)
           ELSE LET f == [Top EXCEPT !.next = @ + 1]
                IN  Call(f, ChildListFrame(f, lists[Top.next]))
    /\ UNCHANGED <<scope, cloud, db, jobVars, eventVars>>

-----------------------------------------------------------------------------
(* deleteX.                                                                *)

\* Floating IPs and key pairs are taken out of the rows that name them.
DropDependent ==
    /\ At("delete", "drop")
    /\ \E r \in Foremost(Top.todo, DependentsOf[Top.kind]) :
          LET f == [Top EXCEPT !.todo = @ \ {r}]
          IN  IF Top.kind \in {"floating_ip", "keypair"}
              THEN db' = [db EXCEPT ![r].refs = @ \ {Top.id}] /\ Go(f)
              ELSE Call(f, DeleteFrame(r)) /\ UNCHANGED db
    /\ UNCHANGED <<scope, cloud, jobVars, eventVars>>

\* A foreign key names r. Each of them is ON DELETE RESTRICT.
NamedByOthers(r) == \E q \in Res \ {r} : db[q].here /\ r \in db[q].refs

\* The foreign keys refuse to delete a row that is named. Only the delete of a
\* security group is not inside a transaction that loses the error.
DeleteRow ==
    /\ At("delete", "drop")
    /\ Top.todo = {}
    /\ LET refused == NamedByOthers(Top.id)
           spec == {p \in Named(Top.had, "spec") : Top.kind = "instance"}
       IN  /\ db' = IF refused THEN db ELSE [db EXCEPT ![Top.id] = Absent]
           /\ IF spec = {} THEN Exit(refused /\ Top.kind = "security_group")
              ELSE \E p \in spec : Call([Top EXCEPT !.pc = "spec"], SyncFrame(p, Absent))
    /\ UNCHANGED <<scope, cloud, jobVars, eventVars>>

-----------------------------------------------------------------------------
(* sync.Cluster.                                                           *)

Left == {i \in DOMAIN ListOrder : i > turn /\ ListOrder[i] \notin done}

BeginJob ==
    /\ phase = "idle"
    /\ phase' = "run"
    /\ UNCHANGED <<scope, cloud, db, stack, round, turn, done, eventVars>>

NextList ==
    /\ phase = "run" /\ stack = <<>> /\ Left # {}
    /\ turn' = CHOOSE i \in Left : \A j \in Left : i <= j
    /\ stack' = <<ListFrame(ListOrder[turn'])>>
    /\ UNCHANGED <<scope, cloud, db, phase, round, done, eventVars>>

(* Faulty variant: one pass too many. *)
EndRoundLate ==
    /\ phase = "run" /\ stack = <<>> /\ Left = {}
    /\ IF Lists \subseteq done \/ round > MaxRound
       THEN phase' = "end" /\ UNCHANGED <<round, turn>>
       ELSE round' = round + 1 /\ turn' = 0 /\ UNCHANGED phase
    /\ UNCHANGED <<scope, cloud, db, stack, done, eventVars>>

EndRound ==
    /\ phase = "run" /\ stack = <<>> /\ Left = {}
    /\ IF Lists \subseteq done \/ round = MaxRound
       THEN phase' = "end" /\ UNCHANGED <<round, turn>>
       ELSE round' = round + 1 /\ turn' = 0 /\ UNCHANGED phase
    /\ UNCHANGED <<scope, cloud, db, stack, done, eventVars>>

Finished == phase = "end" /\ UNCHANGED vars

\* No rows, or those of an earlier job and the scripts that users have given to
\* its instances since then.
Init ==
    /\ scope \in Scopes
    /\ cloud = [r \in Res |-> IF r \in scope \ Of("script") THEN Start[r] ELSE Absent]
    /\ db \in {Nothing, [r \in Res |-> IF r \in scope THEN Start[r] ELSE Absent]}
    /\ stack = <<>> /\ phase = "idle" /\ round = 1 /\ turn = 0 /\ done = {}
    /\ events = 0 /\ touched = {} /\ faulty = FALSE

Step ==
    \/ BeginJob \/ NextList \/ EndRound \/ Return
    \/ GetList \/ ClearGroups \/ DropUnlisted \/ SyncListed
    \/ GetOne \/ GetDetails \/ GetParents \/ ReadRow \/ SaveRow \/ SyncChildLists
    \/ DropDependent \/ DeleteRow

Next == Step \/ Change \/ Finished

Spec == Init /\ [][Next]_vars

-----------------------------------------------------------------------------
(* Properties.                                                             *)

\* Every variable, and every function that is being executed, has its type; a
\* job makes no more than MaxRound passes (sync.Cluster).
TypeOK ==
    /\ scope \in Scopes
    /\ cloud \in [Res -> Content] /\ db \in [Res -> Content]
    /\ stack \in Seq(Frame)
    /\ phase \in {"idle", "run", "end"} /\ round \in 1 .. MaxRound
    /\ turn \in 0 .. Len(ListOrder) /\ done \subseteq Lists
    /\ events \in 0 .. MaxEvent /\ touched \subseteq Res /\ faulty \in BOOLEAN

\* The foreign keys hold, and no row lacks a column that may not be null.
Sound(rows) ==
    \A r \in Res : rows[r].here => Fits(r, rows[r]) /\ \A p \in rows[r].refs : rows[p].here

\* What a function has read from the cloud or the database is of its resource,
\* and complete by the time it is going to be saved.
FrameOK(f) ==
    /\ \A r \in Res : f.seen[r].here => Reported(r, f.seen[r])
    /\ f.op = "list" /\ f.pc = "clear" => f.kind = "instance_sg"
    /\ f.op = "delete" => f.id \in Res /\ f.kind = KindOf[f.id]
    /\ f.op # "list" /\ f.kind = "spec" => f.todo = {}
    /\ f.op = "sync" =>
         /\ f.id \in Res /\ f.kind = KindOf[f.id]
         /\ f.ans.here => Reported(f.id, f.ans)
         /\ f.ans.here /\ f.kind = "instance" /\ f.pc \notin {"details", "out"} => Fits(f.id, f.ans)
         /\ f.pc \in {"late", "save"} => f.ans.here /\ Fits(f.id, f.ans)
         /\ f.had.here => Fits(f.id, f.had)

Calling == {"drop", "each", "early", "late", "gone", "spec", "lists"}
Deleting(f) == f.op = "delete" \/ (f.op = "sync" /\ f.kind = "spec")

\* The outermost function is one of the lists of the job; a function that is not
\* the innermost is at a call; and a function that deletes calls none but those
\* that delete, and the synchroniser of a spec.
StackOK ==
    /\ \A i \in DOMAIN stack : FrameOK(stack[i])
    /\ stack # <<>> => stack[Len(stack)].op = "list" /\ stack[Len(stack)].kind \in Range(ListOrder)
    /\ \A i \in DOMAIN stack : i > 1 => stack[i].pc \in Calling
    /\ \A i \in DOMAIN stack : stack[i].op = "delete" => \A j \in 1 .. i : Deleting(stack[j])

\* While deleteX removes the rows that name X, those that are left are still to
\* be dealt with, or are being dealt with by the function it has called.
Cascades ==
    \A i \in DOMAIN stack :
        stack[i].op = "delete" /\ stack[i].pc = "drop" /\ stack[i].kind \notin {"spec", "security_group"}
        => \A q \in Res \ {stack[i].id} :
              db[q].here /\ stack[i].id \in db[q].refs
              => \/ q \in stack[i].todo
                 \/ i > 1 /\ stack[i - 1].op = "delete" /\ stack[i - 1].id = q
                    /\ (stack[i - 1].pc = "drop" \/ (stack[i - 1].pc = "out" /\ stack[i - 1].err))

\* The invariant from which what holds of the rows and of the cascades follows.
Inductive ==
    /\ TypeOK
    /\ \A r \in Res : cloud[r].here => Reported(r, cloud[r])
    /\ Sound(db)
    /\ StackOK
    /\ Cascades

\* A row that is about to be saved names rows that exist, and is inserted only
\* if it is still missing: the parents and the row were looked up before
\* functions that write other rows, and nobody hears of a refused write.
SavesAreKept ==
    At("sync", "save") =>
        /\ \A p \in Written(Top).refs : db[p].here
        /\ ~Top.had.here => ~db[Top.id].here

\* No foreign key refuses the delete at the end of deleteX, because every row
\* that names X was deleted or detached first. Specs are kept while used, and
\* only the delete of a security group reports a refusal.
DeletesGoThrough ==
    At("delete", "drop") /\ Top.todo = {} /\ Top.kind \notin {"spec", "security_group"}
        => ~NamedByOthers(Top.id)

\* Resources whose rows fetch each other on demand do not do so for ever.
NoRunaway ==
    \A r \in Res : Cardinality({i \in DOMAIN stack : stack[i].op = "sync" /\ stack[i].id = r}) <= 2

\* Whatever a job has just written (the process may end right after it), the
\* rows can be deleted with their cluster exactly if no instance has a user
\* script: no foreign key of another row refuses a statement of deleteRelation,
\* and no row is left that would keep the cluster's own (cluster.go, Delete; a
\* refusal goes unnoticed).
ClusterCanGo ==
    [][db' = db
       \/ \E rows \in {Restrict(db', {r \in Res : db'[r].here})} :
             GoesThrough(rows, deleteRelation(rows)) <=> There(rows, "script") = {}]_vars

Upwards(S) == S \cup UNION {db[q].refs : q \in S}
Above(r) == Upwards(Upwards(Upwards(Upwards({r}))))

\* The ports and attachments of an instance, and the attachments of a volume, are
\* asked for one by one when it is read.
ReadWith(S) == {q \in Of("instance_network") \cup Of("instance_volume") :
                   \E c \in Form[q] : \E p \in c.refs \cap S : KindOf[p] \in {"instance", "volume"}}

\* A row is deleted only if the cloud has lost the resource or something it
\* depends on, or changed one of them, or a port or an attachment that is read
\* with one of them, since the job began. (The groups of an instance are always
\* deleted and written again.)
LiveRowsStay ==
    [][\A r \in Res :
          db[r].here /\ ~db'[r].here /\ KindOf[r] # "instance_sg"
          => \/ \E q \in Above(r) : q \in touched \/ (KindOf[q] # "script" /\ ~cloud[q].here)
             \/ ReadWith(Above(r)) \cap touched # {}]_vars

\* What the client says of r while the cloud stands still: an instance whose
\* hypervisor or flavor is not found is missing.
Answer(r) ==
    IF KindOf[r] = "instance"
       /\ \E p \in cloud[r].refs : KindOf[p] \in {"hypervisor", "spec"} /\ ~cloud[p].here
    THEN Absent ELSE cloud[r]

\* What of the cloud can be in the database: a resource that names a missing
\* one cannot, except that an instance can do without its key pair.
Supported(S) ==
    {r \in S : Answer(r).here /\ \A p \in cloud[r].refs : p \in S \/ KindOf[p] = "keypair"}
Mirrored == Supported(Supported(Supported(Supported(Res))))
MirrorOf(r) == [cloud[r] EXCEPT !.refs = {p \in @ : cloud[p].here}]

\* When the cloud stands still and every request is answered, a job that has
\* synchronised every list leaves the database equal to the cloud: no row of
\* what the cloud has lost, and everything else as the cloud has it. (A spec
\* gets a row only when an instance uses it.)
QuietJobMirrors ==
    phase = "end" /\ Lists \subseteq done /\ touched = {} /\ ~faulty =>
        /\ \A r \in Mirrored :
              \/ db[r] = MirrorOf(r)
              \/ KindOf[r] = "spec" /\ ~db[r].here /\ ~\E q \in Mirrored : r \in cloud[q].refs
        /\ \A r \in Res \ Of("script") : db[r].here => Answer(r).here
=============================================================================
