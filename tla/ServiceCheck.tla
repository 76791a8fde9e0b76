---------------------------- MODULE ServiceCheck ----------------------------
(***************************************************************************)
(* One health check of a cluster (leader/check.go, CheckCluster): three    *)
(* goroutines ask the cloud for its storage, compute and network services, *)
(* record what they got in the database and judge it, each with at most    *)
(* one retry, while the exclusions of services may change.                 *)
(*                                                                         *)
(*   excluded   services excluded by SyncException (l.excluded[id])        *)
(*   kpc, i     control point and try of the goroutine of each kind        *)
(*   last       what its last request returned: "remote" for an error of   *)
(*              the remote server, "error" for another one, otherwise the  *)
(*              services that are unavailable, in the order of the answer  *)
(*   state      the state of the kind; "" when no service is unavailable   *)
(*   result     the state of the cluster, "" until it is published         *)
(***************************************************************************)
EXTENDS Naturals, Sequences

CONSTANTS
    Service,     \* names of services
    ServiceOf,   \* the services each kind may have
    Excludable,  \* sets of exclusions a client may set, pairs of kind and service
    Faults       \* "db": the states of the services may not be recorded

Kind == {"storage", "compute", "network"}
KindPC == {"new", "fetch", "unknown", "update", "judge", "done"}
State == {"", "active", "warning", "inactive"}
AnswerRecord == [failed : {"no", "remote", "error"}, down : Seq(Service)]

(* Lists of at most two distinct services of a kind. *)
Lists(k) ==
    {<<>>} \cup {<<s>> : s \in ServiceOf[k]}
           \cup {<<p[1], p[2]>> : p \in {q \in ServiceOf[k] \X ServiceOf[k] : q[1] # q[2]}}
Answer(k) == {[failed |-> f, down |-> <<>>] : f \in {"remote", "error"}}
             \cup {[failed |-> "no", down |-> d] : d \in Lists(k)}

ASSUME ServiceCheckAssumption ==
    /\ ServiceOf \in [Kind -> SUBSET Service]
    /\ Excludable \subseteq SUBSET (Kind \X Service)
    /\ Faults \subseteq {"db"}

VARIABLES excluded, kpc, i, last, state, result

vars == <<excluded, kpc, i, last, state, result>>

Unasked == [failed |-> "no", down |-> <<>>]

Init ==
    /\ excluded \in Excludable \cup {{}}
    /\ kpc = [k \in Kind |-> "new"]
    /\ i = [k \in Kind |-> 0]
    /\ last = [k \in Kind |-> Unasked]
    /\ state = [k \in Kind |-> "active"]
    /\ result = ""

Goto(k, l) == kpc' = [kpc EXCEPT ![k] = l]
Retry(k) == i' = [i EXCEPT ![k] = 1] /\ Goto(k, "fetch")

(* Without a synchronizer (no row, or no connection to the cloud) the      *)
(* cluster is inactive at once; otherwise the goroutines start.            *)
NewSynchronizer ==
    /\ result = "" /\ \A k \in Kind : kpc[k] = "new"
    /\ \/ result' = "inactive" /\ UNCHANGED kpc
       \/ kpc' = [k \in Kind |-> "fetch"] /\ UNCHANGED result
    /\ UNCHANGED <<excluded, i, last, state>>

(* The request to the cloud. An error gives the state warning, or inactive *)
(* when the remote server failed; a network that cannot be asked is not    *)
(* asked again.                                                            *)
Fetch(k) ==
    /\ kpc[k] = "fetch"
    /\ \E a \in Answer(k) :
          /\ last' = [last EXCEPT ![k] = a]
          /\ \/ /\ a.failed = "no"
                /\ Goto(k, IF k = "network" THEN "judge" ELSE "update")
                /\ UNCHANGED state
             \/ /\ a.failed # "no"
                /\ state' = [state EXCEPT ![k] =
                                IF a.failed = "remote" THEN "inactive" ELSE "warning"]
                /\ Goto(k, IF k = "network" THEN "done" ELSE "unknown")
    /\ UNCHANGED <<excluded, i, result>>

(* SetUnknownCluster...Status; only a database error causes a retry. The   *)
(* storage and compute goroutines share the variable err, so the error may *)
(* be the other one's.                                                     *)
SetUnknown(k) ==
    /\ kpc[k] = "unknown"
    /\ \/ Goto(k, "done") /\ UNCHANGED i
       \/ "db" \in Faults /\ i[k] = 0 /\ Retry(k)
    /\ UNCHANGED <<excluded, last, state, result>>

(* UpdateCluster...Status; a second failure is ignored. *)
UpdateStatus(k) ==
    /\ kpc[k] = "update"
    /\ \/ Goto(k, "judge") /\ UNCHANGED i
       \/ "db" \in Faults /\ i[k] = 0 /\ Retry(k)
    /\ UNCHANGED <<excluded, last, state, result>>

Excluded(k, s) == <<k, s>> \in excluded

(* checkStorageWarning, checkComputeWarning, checkNetworkWarning: each     *)
(* unavailable service sets the state anew, so the last one decides.       *)
CheckWarning(k) ==
    LET down == last[k].down IN
    IF down = <<>> THEN ""
    ELSE IF Excluded(k, down[Len(down)]) THEN "active" ELSE "warning"

(* Faulty variant of Judge: a warning is not looked into a second time. *)
JudgeNoRetry(k) ==
    /\ kpc[k] = "judge"
    /\ state' = [state EXCEPT ![k] = CheckWarning(k)]
    /\ Goto(k, "done")
    /\ UNCHANGED <<excluded, i, last, result>>

(* Faulty variant of Judge: every warning is retried. *)
JudgeForever(k) ==
    /\ kpc[k] = "judge"
    /\ state' = [state EXCEPT ![k] = CheckWarning(k)]
    /\ \/ CheckWarning(k) = "warning" /\ Retry(k)
       \/ CheckWarning(k) # "warning" /\ Goto(k, "done") /\ UNCHANGED i
    /\ UNCHANGED <<excluded, last, result>>

(* The judgement, under the leader's mutex; a first warning is retried. *)
Judge(k) ==
    /\ kpc[k] = "judge"
    /\ state' = [state EXCEPT ![k] = CheckWarning(k)]
    /\ \/ CheckWarning(k) = "warning" /\ i[k] = 0 /\ Retry(k)
       \/ (CheckWarning(k) # "warning" \/ i[k] = 1) /\ Goto(k, "done") /\ UNCHANGED i
    /\ UNCHANGED <<excluded, last, result>>

(* clusterExceptionMonitor replaces the exclusions of the cluster. *)
clusterExceptionMonitor ==
    /\ \E x \in Excludable : excluded' = x
    /\ UNCHANGED <<kpc, i, last, state, result>>

(* Faulty variant of validateStatusAndErr: a warning hides an inactive     *)
(* service.                                                                *)
validateStatusWarningFirst ==
    IF \E k \in Kind : state[k] = "warning" THEN "warning"
    ELSE IF \E k \in Kind : state[k] = "inactive" THEN "inactive" ELSE "active"

(* Faulty variant of validateStatusAndErr: the network is left out. *)
validateStatusNoNetwork ==
    IF \E k \in Kind : state[k] = "inactive" THEN "inactive"
    ELSE IF \E k \in Kind \ {"network"} : state[k] = "warning" THEN "warning" ELSE "active"

(* The worst state of the three wins. *)
validateStatusAndErr ==
    IF \E k \in Kind : state[k] = "inactive" THEN "inactive"
    ELSE IF \E k \in Kind : state[k] = "warning" THEN "warning" ELSE "active"

(* After all three the state of the cluster is published and returned. *)
CheckCluster ==
    /\ result = "" /\ \A k \in Kind : kpc[k] = "done"
    /\ result' = validateStatusAndErr
    /\ UNCHANGED <<excluded, kpc, i, last, state>>

KindStep(k) == Fetch(k) \/ SetUnknown(k) \/ UpdateStatus(k) \/ Judge(k)

Next ==
    \/ \E k \in Kind : KindStep(k)
    \/ NewSynchronizer \/ CheckCluster \/ clusterExceptionMonitor

Spec == Init /\ [][Next]_vars

(* The goroutines and the one that waits for them run. *)
Fairness == (\A k \in Kind : WF_vars(KindStep(k))) /\ WF_vars(NewSynchronizer \/ CheckCluster)

FairSpec == Spec /\ Fairness

---------------------------------------------------------------------------
Failed(k) == last[k].failed # "no"
Published == result # ""

(* Every variable has its type. *)
TypeOK ==
    /\ excluded \in SUBSET (Kind \X Service)
    /\ kpc \in [Kind -> KindPC]
    /\ i \in [Kind -> {0, 1}]
    /\ last \in [Kind -> AnswerRecord]
    /\ state \in [Kind -> State]
    /\ result \in State

(* The cluster is reported inactive just when it could not be reached or   *)
(* the remote server failed for some kind at the last try, whatever the    *)
(* other kinds and earlier tries found (check.go, validateStatusAndErr).   *)
InactiveIffRemote ==
    Published => (result = "inactive" <=>
        \E k \in Kind : kpc[k] = "new" \/ last[k].failed = "remote")

(* A cluster is reported active only when every kind answered at its last  *)
(* try (check.go, CheckCluster).                                           *)
ActiveAnswered == result = "active" => \A k \in Kind : ~Failed(k)

(* A warning for an unavailable service is never given on one look: the    *)
(* cloud was asked twice (check.go, CheckCluster).                         *)
WarningConfirmed ==
    \A k \in Kind : kpc[k] = "done" /\ ~Failed(k) /\ state[k] = "warning" => i[k] = 1

(* The inductive invariant: what the state of a kind says about its last   *)
(* answer at each control point.                                           *)
KindInv(k) ==
    /\ kpc[k] = "done" => (state[k] = "inactive" <=> last[k].failed = "remote")
    /\ kpc[k] = "done" => (last[k].failed = "error" => state[k] = "warning")
    /\ kpc[k] \in {"update", "judge"} => ~Failed(k)
    /\ kpc[k] = "unknown" =>
          /\ Failed(k)
          /\ state[k] = IF last[k].failed = "remote" THEN "inactive" ELSE "warning"
    /\ kpc[k] = "done" /\ ~Failed(k) /\ state[k] = "warning" => i[k] = 1
Inductive ==
    /\ TypeOK
    /\ \A k \in Kind : KindInv(k)
    /\ \A k \in Kind : kpc[k] = "new" => \A l \in Kind : kpc[l] = "new"
    /\ Published =>
          \/ result = "inactive" /\ \A k \in Kind : kpc[k] = "new"
          \/ result = validateStatusAndErr /\ \A k \in Kind : kpc[k] = "done"

(* The check ends. *)
CheckEnds == <>Published

(* A kind is found inactive or in warning only after the cloud was asked   *)
(* twice (check.go, the comment of CheckCluster).                          *)
BadStateRetried ==
    \A k \in Kind : kpc[k] = "done" /\ state[k] \in {"inactive", "warning"} => i[k] = 1

(* The judgement of a kind is a warning when any service that is not       *)
(* excluded is unavailable (check.go, the comment of validateStatusAndErr).*)
EveryServiceCounts ==
    [][\A k \in Kind :
          /\ kpc[k] = "judge" /\ kpc'[k] = "done"
          /\ \E n \in 1 .. Len(last[k].down) : ~Excluded(k, last[k].down[n])
          => state'[k] = "warning"]_vars
=============================================================================
