------------------------------ MODULE SyncJob ------------------------------
(***************************************************************************)
(* The synchronisation of one cluster (sync.Cluster): the status it keeps  *)
(* in etcd, the test IsAbleToSync that admits a new request, the retry     *)
(* loop over the resource lists, and the progress that the API handler     *)
(* shows. The cluster has just been registered, so one goroutine, the one  *)
(* of AddCluster, is already waiting for the lock.                         *)
(*                                                                         *)
(*   now            the time in minutes                                    *)
(*   status         clusters/<id>/sync/status; "none" without the key, and *)
(*                  at = Zero when StartedAt is the zero time              *)
(*   lock           holder of cluster.db.locks/<id>; Dead until the lease  *)
(*                  of a crashed process runs out                          *)
(*   jpc            control point of every goroutine                       *)
(*   i, pos         pass of the job that runs, and its position in it; 0   *)
(*                  between passes, NList + 1 at the instance spec list    *)
(*   done           lists it has synchronised (syncFunc)                   *)
(*   comp           what it publishes about each list (syncStatusFunc);    *)
(*                  list NList + 1 is the instance spec list               *)
(*   queue          progress messages not received yet                     *)
(*   progress       what the handler remembers (syncStatus), and answers   *)
(*                  to a poll                                              *)
(***************************************************************************)
EXTENDS Naturals, Sequences, FiniteSets

CONSTANTS
    Job,         \* goroutines that synchronise the cluster
    NList,       \* number of lists of a pass; 11 in the code
    Faults,      \* "store", "broker", "crash": etcd refuses a call, a publish
                 \* is lost, the process ends
    MaxTime,     \* bound on the clock
    MaxQueue,    \* bound on undelivered messages
    Free, Dead, Zero

Lists == 1 .. NList
MaxPass == 3
Code == {"none", "init", "running", "done", "failed"}
StatusRecord == [code : Code, at : (0 .. MaxTime) \cup {Zero}]
ListState == {"waiting", "running", "completed", "failed"}
JobPC == {"idle", "wait", "new", "run", "list"}
Running == {"run", "list"}
Critical == Running \cup {"new"}

ASSUME SyncJobAssumption ==
    /\ NList \in Nat \ {0}
    /\ MaxTime \in Nat /\ MaxQueue \in Nat \ {0}
    /\ Free \notin Job /\ Dead \notin Job /\ Free # Dead
    /\ Zero \notin Nat
    /\ Faults \subseteq {"store", "broker", "crash"}

VARIABLES now, status, lock, jpc, i, pos, done, comp, queue, progress

jobVars == <<i, pos, done, comp>>
uiVars == <<queue, progress>>
vars == <<now, status, lock, jpc, i, pos, done, comp, queue, progress>>

Status(code, at) == [code |-> code, at |-> at]
Waiting == [l \in 1 .. NList + 1 |-> "waiting"]

Init ==
    /\ now = 0
    /\ status = Status("none", Zero)
    /\ lock = Free
    /\ \E j \in Job : jpc = [k \in Job |-> IF k = j THEN "wait" ELSE "idle"]
    /\ i = 0 /\ pos = 0 /\ done = {}
    /\ comp = Waiting
    /\ queue = <<>>
    /\ progress = 0

Tick ==
    /\ now < MaxTime
    /\ now' = now + 1
    /\ UNCHANGED <<status, lock, jpc, jobVars, uiVars>>

Goto(j, l) == jpc' = [jpc EXCEPT ![j] = l]

(* The progress computed by publishToStatus from the number of lists that  *)
(* are completed or failed.                                                *)
Progress(n) == IF n <= 2 THEN n * 5 ELSE (n - 1) * 10
Finished(cs) == Cardinality({l \in 1 .. NList + 1 : cs[l] \in {"completed", "failed"}})

publishToStatus(cs) ==
    \/ Len(queue) < MaxQueue /\ queue' = Append(queue, Progress(Finished(cs)))
    \/ "broker" \in Faults /\ queue' = queue

(* A missing status admits a request; so does every status but one whose   *)
(* start was recorded at least a minute ago (init) or five (running).      *)
IsAbleToSync ==
    /\ status.code = "init" /\ status.at # Zero => now - status.at < 1
    /\ status.code \in {"init", "running"} /\ status.at # Zero => now - status.at < 5

(* SyncCluster starts a goroutine when IsAbleToSync says so. *)
SyncCluster(j) ==
    /\ jpc[j] = "idle" /\ IsAbleToSync
    /\ Goto(j, "wait")
    /\ UNCHANGED <<now, status, lock, jobVars, uiVars>>

(* Faulty variant of SyncInit: the lock is not waited for. *)
SyncInitNoLock(j) ==
    /\ jpc[j] = "wait"
    /\ lock' = j
    /\ status' = Status("init", now)
    /\ Goto(j, "new")
    /\ UNCHANGED <<now, jobVars, uiVars>>

(* The goroutine takes the lock and stores the status init with its time. *)
SyncInit(j) ==
    /\ jpc[j] = "wait"
    /\ \/ /\ lock = Free
          /\ lock' = j
          /\ status' = Status("init", now)
          /\ Goto(j, "new")
       \/ "store" \in Faults /\ Goto(j, "idle") /\ UNCHANGED <<lock, status>>
    /\ UNCHANGED <<now, jobVars, uiVars>>

(* The deferred function of sync.Cluster stores the status failed when the *)
(* job ends with an error, and may fail to.                                *)
EndWithError(j) ==
    /\ "store" \in Faults
    /\ status' \in {status, Status("failed", Zero)}
    /\ lock' = Free
    /\ Goto(j, "idle")

(* NewSynchronizer fails before the deferred function is installed, so the *)
(* status stays init. Otherwise the status running is stored, without a    *)
(* time, and the lists are reset.                                          *)
NewSynchronizer(j) ==
    /\ jpc[j] = "new"
    /\ \/ lock' = Free /\ Goto(j, "idle") /\ UNCHANGED <<status, jobVars>>
       \/ EndWithError(j) /\ UNCHANGED jobVars
       \/ /\ status' = Status("running", Zero)
          /\ i' = 0 /\ pos' = 0 /\ done' = {} /\ comp' = Waiting
          /\ Goto(j, "run")
          /\ UNCHANGED lock
    /\ UNCHANGED <<now, uiVars>>

(* The condition of the loop, tested between passes only: at most three    *)
(* passes, as long as some list is not done.                               *)
checkFailedSyncFunc == i < MaxPass /\ done # Lists

PassStart(j) ==
    /\ jpc[j] = "run" /\ pos = 0 /\ checkFailedSyncFunc
    /\ pos' = 1
    /\ UNCHANGED <<now, status, lock, jpc, i, done, comp, uiVars>>

(* A list that is done is passed over; another one is announced. *)
ListStart(j) ==
    /\ jpc[j] = "run" /\ pos \in Lists
    /\ \/ /\ pos \in done
          /\ pos' = pos + 1
          /\ UNCHANGED <<comp, queue, jpc>>
       \/ /\ pos \notin done
          /\ comp' = [comp EXCEPT ![pos] = "running"]
          /\ publishToStatus(comp')
          /\ Goto(j, "list")
          /\ UNCHANGED pos
    /\ UNCHANGED <<now, status, lock, i, done, progress>>

(* The list is synchronised or fails, and the outcome is published. *)
ListFinish(j) ==
    /\ jpc[j] = "list"
    /\ \/ done' = done \cup {pos} /\ comp' = [comp EXCEPT ![pos] = "completed"]
       \/ comp' = [comp EXCEPT ![pos] = "failed"] /\ UNCHANGED done
    /\ publishToStatus(comp')
    /\ pos' = pos + 1
    /\ Goto(j, "run")
    /\ UNCHANGED <<now, status, lock, i, progress>>

(* Faulty variant of SpecList: the passes are not counted. *)
SpecListForever(j) ==
    /\ jpc[j] = "run" /\ pos = NList + 1
    /\ comp' = [comp EXCEPT ![NList + 1] = "completed"]
    /\ pos' = 0
    /\ UNCHANGED <<now, status, lock, jpc, i, done, uiVars>>

(* The instance spec list ends every pass that was started, also the one   *)
(* in which the last list was done; it is never marked done itself and     *)
(* nothing is published about it.                                          *)
SpecList(j) ==
    /\ jpc[j] = "run" /\ pos = NList + 1
    /\ \E r \in {"completed", "failed"} : comp' = [comp EXCEPT ![NList + 1] = r]
    /\ i' = i + 1 /\ pos' = 0
    /\ UNCHANGED <<now, status, lock, jpc, done, uiVars>>

(* Faulty variant of SyncEnd: the job returns without a final status. *)
SyncEndSilent(j) ==
    /\ jpc[j] = "run" /\ pos = 0 /\ ~checkFailedSyncFunc
    /\ lock' = Free /\ Goto(j, "idle")
    /\ UNCHANGED <<now, status, jobVars, uiVars>>

(* Faulty variant of SyncEnd: lists given up after the last pass are not   *)
(* looked at.                                                              *)
SyncEndAlwaysDone(j) ==
    /\ jpc[j] = "run" /\ pos = 0 /\ ~checkFailedSyncFunc
    /\ status' = Status("done", Zero)
    /\ lock' = Free /\ Goto(j, "idle")
    /\ UNCHANGED <<now, jobVars, uiVars>>

(* The final status: failed when some list is not done, else done. *)
SyncEnd(j) ==
    /\ jpc[j] = "run" /\ pos = 0 /\ ~checkFailedSyncFunc
    /\ \/ /\ status' = Status(IF done = Lists THEN "done" ELSE "failed", Zero)
          /\ lock' = Free /\ Goto(j, "idle")
       \/ EndWithError(j)
    /\ UNCHANGED <<now, jobVars, uiVars>>

(* syncClusterStatusMonitor remembers the progress of the message. *)
syncClusterStatusMonitor ==
    /\ queue # <<>>
    /\ progress' = Head(queue)
    /\ queue' = Tail(queue)
    /\ UNCHANGED <<now, status, lock, jpc, jobVars>>

(* GetClusterSyncStatus resets the progress of a cluster whose job is in   *)
(* its first phase. Without a status it dereferences a nil pointer, which  *)
(* ends the request.                                                       *)
GetClusterSyncStatus ==
    /\ status.code = "init"
    /\ progress' = 0
    /\ UNCHANGED <<now, status, lock, jpc, jobVars, queue>>

(* The process ends, as it does when it loses the leadership: goroutines,  *)
(* memory and its temporary queue are gone, the status stays.              *)
Crash ==
    /\ "crash" \in Faults
    /\ jpc' = [j \in Job |-> "idle"]
    /\ lock' = IF lock = Free THEN Free ELSE Dead
    /\ queue' = <<>> /\ progress' = 0
    /\ UNCHANGED <<now, status, jobVars>>

(* The lease of the crashed process runs out. *)
LeaseExpires ==
    /\ lock = Dead
    /\ lock' = Free
    /\ UNCHANGED <<now, status, jpc, jobVars, uiVars>>

JobStep(j) ==
    \/ SyncInit(j) \/ NewSynchronizer(j) \/ PassStart(j)
    \/ ListStart(j) \/ ListFinish(j) \/ SpecList(j) \/ SyncEnd(j)

Next ==
    \/ \E j \in Job : SyncCluster(j) \/ JobStep(j)
    \/ Tick \/ syncClusterStatusMonitor \/ GetClusterSyncStatus
    \/ Crash \/ LeaseExpires

Spec == Init /\ [][Next]_vars

(* Goroutines run, etcd serves the waiters of a lock in turn, leases run   *)
(* out, time passes and messages are delivered. Nobody has to send a       *)
(* request.                                                                *)
Fairness ==
    /\ \A j \in Job : WF_vars(JobStep(j)) /\ SF_vars(SyncInit(j))
    /\ WF_vars(Tick) /\ WF_vars(LeaseExpires) /\ WF_vars(syncClusterStatusMonitor)

FairSpec == Spec /\ Fairness

---------------------------------------------------------------------------
(* Every variable has its type. *)
TypeOK ==
    /\ now \in 0 .. MaxTime
    /\ status \in StatusRecord
    /\ lock \in Job \cup {Free, Dead}
    /\ jpc \in [Job -> JobPC]
    /\ i \in 0 .. MaxPass
    /\ pos \in 0 .. NList + 1
    /\ done \subseteq Lists
    /\ comp \in [1 .. NList + 1 -> ListState]
    /\ queue \in Seq(Nat)
    /\ progress \in Nat

(* At most one goroutine is between SyncInit and the end of the job, also  *)
(* after a crash and the expiry of its lease (sync/cluster.go, Cluster).   *)
OneJobRuns == \A j, k \in Job : jpc[j] \in Critical /\ jpc[k] \in Critical => j = k

(* The status done is stored only after every list was synchronised by the *)
(* same job, over up to three passes, and after the instance spec list,    *)
(* which may have failed, was run behind them (sync/cluster.go, Cluster).  *)
SpecListed == comp[NList + 1] \in {"completed", "failed"}
DoneIsComplete == status.code = "done" => done = Lists /\ SpecListed

(* A client never sees another status than running while a job works on    *)
(* the lists, whatever other goroutines wait, fail or were ended before    *)
(* (sync/cluster.go, Cluster stores it under the lock).                    *)
WorkIsVisible == \A j \in Job : jpc[j] \in Running => status.code = "running"

(* Unless the process ends or etcd fails, the status running belongs to a  *)
(* job at work: every way out of sync.Cluster stores another status.       *)
RunningHasJob ==
    status.code = "running" => \E j \in Job : lock = j /\ jpc[j] \in Running

(* The inductive invariant: the holder of the lock is the one goroutine in *)
(* a critical section, it is past NewSynchronizer just when the status     *)
(* says so, a pass that was started is one of the three, every pass before *)
(* it ended with the spec list, and no list that is done is announced.     *)
LockHeld == \A j \in Job : jpc[j] \in Critical => lock = j
JobStatus ==
    \A j \in Job :
        /\ jpc[j] = "new" => status.code = "init"
        /\ jpc[j] \in Running => status.code = "running"
        /\ jpc[j] \in Running /\ pos # 0 => i < MaxPass
        /\ jpc[j] \in Running /\ pos = 0 => done = {} \/ SpecListed
        /\ jpc[j] = "list" => pos \in Lists /\ pos \notin done
Inductive ==
    /\ TypeOK
    /\ DoneIsComplete
    /\ LockHeld
    /\ JobStatus
    /\ Faults \cap {"store", "crash"} = {} => RunningHasJob

(* Every goroutine that was started ends, whoever crashes before it. *)
JobsEnd == \A j \in Job : jpc[j] # "idle" ~> jpc[j] = "idle"

(* A status left behind by a job that is over does not shut the cluster    *)
(* out: IsAbleToSync holds again and again (cluster_util.go, the comment   *)
(* on the one-minute timeout).                                             *)
SyncUnblocks == []<>IsAbleToSync

(* A request is refused while a job is synchronising the cluster           *)
(* (cluster_util.go, the comment on the five-minute timeout).              *)
RefusedWhileRunning ==
    (\E j \in Job : jpc[j] \in Running) /\ status.code = "running" => ~IsAbleToSync

(* A client that polls a job which has finished no list yet does not see   *)
(* the progress of the job before it (handler.go, GetClusterSyncStatus).   *)
FreshProgress ==
    status.code = "running" /\ Finished(comp) = 0 => progress = 0
=============================================================================
