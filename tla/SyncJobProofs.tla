--------------------------- MODULE SyncJobProofs ---------------------------
(***************************************************************************)
(* Proofs about SyncJob for any number of goroutines and lists.            *)
(***************************************************************************)
EXTENDS SyncJob, FiniteSetTheorems, TLAPS

(* What publishToStatus sends is a natural number, so it keeps the type of *)
(* the queue.                                                              *)
LEMMA ProgressType ==
  ASSUME NEW cs
  PROVE  Progress(Finished(cs)) \in Nat
  <1> DEFINE S == {l \in 1 .. NList + 1 : cs[l] \in {"completed", "failed"}}
  <1>1. IsFiniteSet(1 .. NList + 1)
    BY FS_Interval, SyncJobAssumption
  <1>2. IsFiniteSet(S)
    BY <1>1, FS_Subset
  <1>3. Cardinality(S) \in Nat
    BY <1>2, FS_CardinalityType
  <1>4. QED
    BY <1>3 DEF Progress, Finished

LEMMA PublishType ==
  ASSUME queue \in Seq(Nat), NEW cs, publishToStatus(cs)
  PROVE  queue' \in Seq(Nat)
  BY ProgressType DEF publishToStatus

LEMMA StatusType ==
  ASSUME NEW code \in Code, NEW at \in (0 .. MaxTime) \cup {Zero}
  PROVE  Status(code, at) \in StatusRecord
  BY DEF Status, StatusRecord

LEMMA GotoType ==
  ASSUME jpc \in [Job -> JobPC], NEW j \in Job, NEW l \in JobPC, Goto(j, l)
  PROVE  jpc' \in [Job -> JobPC]
  BY DEF Goto

LEMMA InitInductive == Init => Inductive
  BY SyncJobAssumption DEF Init, Inductive, TypeOK, DoneIsComplete, LockHeld,
     JobStatus, RunningHasJob, StatusRecord, ListState, JobPC, Status, Waiting, Lists, MaxPass, Code, Running, Critical

(* The steps of a goroutine keep the invariant. *)
LEMMA JobInductive ==
  ASSUME Inductive, NEW j \in Job, SyncCluster(j) \/ JobStep(j)
  PROVE  Inductive'
  <1> USE SyncJobAssumption
      DEF Inductive, DoneIsComplete, SpecListed, LockHeld, JobStatus,
          RunningHasJob, Lists, MaxPass, Running, Critical, Goto, jobVars, uiVars
  <1>1. CASE SyncCluster(j)
    BY <1>1 DEF SyncCluster, TypeOK, JobPC
  <1>2. CASE SyncInit(j)
    <2>1. TypeOK'
      <3>1. status' \in StatusRecord
        BY <1>2, StatusType DEF SyncInit, TypeOK, Code
      <3>2. jpc' \in [Job -> JobPC]
        BY <1>2, GotoType DEF SyncInit, TypeOK, JobPC
      <3>3. QED
        BY <1>2, <3>1, <3>2 DEF SyncInit, TypeOK
    <2>2. CASE lock = Free /\ lock' = j /\ status' = Status("init", now) /\ Goto(j, "new")
      <3>1. \A k \in Job : jpc[k] \notin Critical
        BY <2>2
      <3>2. status'.code = "init"
        BY <2>2 DEF Status
      <3>3. QED
        BY <1>2, <2>1, <2>2, <3>1, <3>2 DEF SyncInit, TypeOK
    <2>3. CASE Goto(j, "idle") /\ UNCHANGED <<lock, status>>
      BY <1>2, <2>1, <2>3 DEF SyncInit, TypeOK
    <2>4. QED
      BY <1>2, <2>2, <2>3 DEF SyncInit
  <1>3. ASSUME jpc[j] \in Critical
        PROVE  lock = j /\ \A k \in Job \ {j} : jpc[k] \notin Critical
    BY <1>3
  <1>4. CASE NewSynchronizer(j)
    <2>1. TypeOK'
      <3>1. status' \in StatusRecord
        <4>1. Status("running", Zero) \in StatusRecord /\ Status("failed", Zero) \in StatusRecord
          BY StatusType DEF Code
        <4>2. status' \in {status, Status("running", Zero), Status("failed", Zero)}
          BY <1>4 DEF NewSynchronizer, EndWithError
        <4>3. QED
          BY <4>1, <4>2 DEF TypeOK
      <3>2. jpc' \in [Job -> JobPC]
        BY <1>4, GotoType DEF NewSynchronizer, EndWithError, TypeOK, JobPC
      <3>3. i' \in 0 .. MaxPass /\ pos' \in 0 .. NList + 1 /\ done' \subseteq Lists
        <4>1. \/ UNCHANGED <<i, pos, done>>
              \/ i' = 0 /\ pos' = 0 /\ done' = {}
          BY <1>4 DEF NewSynchronizer
        <4>2. 0 \in 0 .. MaxPass /\ 0 \in 0 .. NList + 1
          OBVIOUS
        <4>3. CASE UNCHANGED <<i, pos, done>>
          BY <4>3 DEF TypeOK
        <4>4. CASE i' = 0 /\ pos' = 0 /\ done' = {}
          BY <4>2, <4>4
        <4>5. QED
          BY <4>1, <4>3, <4>4
      <3>4. comp' \in [1 .. NList + 1 -> ListState]
        BY <1>4 DEF NewSynchronizer, TypeOK, Waiting, ListState
      <3>5. QED
        BY <1>4, <3>1, <3>2, <3>3, <3>4 DEF NewSynchronizer, EndWithError, TypeOK
    <2>2. status.code = "init"
      BY <1>4 DEF NewSynchronizer
    <2>3. CASE lock' = Free /\ Goto(j, "idle") /\ UNCHANGED <<status, jobVars>>
      BY <1>3, <1>4, <2>1, <2>2, <2>3 DEF NewSynchronizer, TypeOK
    <2>4. CASE EndWithError(j) /\ UNCHANGED jobVars
      BY <1>3, <1>4, <2>1, <2>2, <2>4 DEF NewSynchronizer, EndWithError, TypeOK, Status
    <2>5. CASE /\ status' = Status("running", Zero) /\ Goto(j, "run") /\ UNCHANGED lock
               /\ pos' = 0 /\ done' = {}
      BY <1>3, <1>4, <2>1, <2>5 DEF NewSynchronizer, TypeOK, Status
    <2>6. QED
      BY <1>4, <2>3, <2>4, <2>5 DEF NewSynchronizer
  <1>5. CASE ListStart(j)
    <2>1. queue' \in Seq(Nat)
      BY <1>5, PublishType DEF ListStart, TypeOK
    <2>2. TypeOK'
      <3>1. jpc' \in [Job -> JobPC]
        BY <1>5, GotoType DEF ListStart, TypeOK, JobPC
      <3>2. pos' \in 0 .. NList + 1
        BY <1>5 DEF ListStart, TypeOK
      <3>3. comp' \in [1 .. NList + 1 -> ListState]
        BY <1>5 DEF ListStart, TypeOK, ListState
      <3>4. QED
        BY <1>5, <2>1, <3>1, <3>2, <3>3 DEF ListStart, TypeOK
    <2>3. QED
      BY <1>3, <1>5, <2>2 DEF ListStart, TypeOK
  <1>6. CASE ListFinish(j)
    <2>1. queue' \in Seq(Nat)
      BY <1>6, PublishType DEF ListFinish, TypeOK
    <2>2. TypeOK'
      <3>1. jpc' \in [Job -> JobPC]
        BY <1>6, GotoType DEF ListFinish, TypeOK, JobPC
      <3>2. pos' \in 0 .. NList + 1 /\ done' \subseteq Lists
        <4>1. pos \in Lists /\ pos' = pos + 1 /\ done' \subseteq done \cup {pos}
          BY <1>6 DEF ListFinish
        <4>2. QED
          BY <4>1 DEF TypeOK
      <3>3. comp' \in [1 .. NList + 1 -> ListState]
        BY <1>6 DEF ListFinish, TypeOK, ListState
      <3>4. QED
        BY <1>6, <2>1, <3>1, <3>2, <3>3 DEF ListFinish, TypeOK
    <2>3. QED
      BY <1>3, <1>6, <2>2 DEF ListFinish, TypeOK
  <1>10. CASE PassStart(j)
    BY <1>3, <1>10 DEF PassStart, checkFailedSyncFunc, TypeOK
  <1>7. CASE SpecList(j)
    <2>1. i' = i + 1 /\ i < MaxPass /\ pos' = 0
      BY <1>3, <1>7 DEF SpecList, TypeOK
    <2>2. comp' \in [1 .. NList + 1 -> ListState] /\ SpecListed'
      BY <1>7 DEF SpecList, TypeOK, ListState
    <2>3. TypeOK'
      BY <1>7, <2>1, <2>2 DEF SpecList, TypeOK
    <2>4. QED
      BY <1>3, <1>7, <2>1, <2>2, <2>3 DEF SpecList, TypeOK
  <1>8. CASE SyncEnd(j)
    <2>1. TypeOK'
      <3>1. status' \in StatusRecord
        <4>1. Status("done", Zero) \in StatusRecord /\ Status("failed", Zero) \in StatusRecord
          BY StatusType DEF Code
        <4>2. status' \in {status, Status("done", Zero), Status("failed", Zero)}
          BY <1>8 DEF SyncEnd, EndWithError
        <4>3. QED
          BY <4>1, <4>2 DEF TypeOK
      <3>2. jpc' \in [Job -> JobPC]
        BY <1>8, GotoType DEF SyncEnd, EndWithError, TypeOK, JobPC
      <3>3. QED
        BY <1>8, <3>1, <3>2 DEF SyncEnd, EndWithError, TypeOK
    <2>2. status.code = "running"
      BY <1>8 DEF SyncEnd
    <2>3. status'.code \in {"done", "failed", "running"}
      BY <1>8, <2>2 DEF SyncEnd, EndWithError, Status
    <2>4. status'.code = "done" => done = Lists /\ SpecListed
      <3>1. done = {} \/ SpecListed
        BY <1>8 DEF SyncEnd
      <3>2. 1 \in Lists
        OBVIOUS
      <3>3. status'.code = "done" => done = Lists
        BY <1>8, <2>2 DEF SyncEnd, EndWithError, Status
      <3>4. QED
        BY <3>1, <3>2, <3>3
    <2>5. "store" \in Faults \/ status'.code # "running"
      BY <1>8 DEF SyncEnd, EndWithError, Status
    <2>6. lock' = Free /\ jpc' = [jpc EXCEPT ![j] = "idle"] /\ UNCHANGED jobVars
      BY <1>8 DEF SyncEnd, EndWithError
    <2>7. QED
      BY <1>3, <1>8, <2>1, <2>4, <2>5, <2>6 DEF SyncEnd, TypeOK
  <1>9. QED
    BY <1>1, <1>2, <1>4, <1>5, <1>6, <1>7, <1>8, <1>10 DEF JobStep

(* So do the steps of the clock, the handler and etcd, and a crash. *)
LEMMA OtherInductive ==
  ASSUME Inductive,
         \/ Tick \/ syncClusterStatusMonitor \/ GetClusterSyncStatus
         \/ Crash \/ LeaseExpires \/ UNCHANGED vars
  PROVE  Inductive'
  <1> USE SyncJobAssumption
      DEF Inductive, TypeOK, DoneIsComplete, SpecListed, LockHeld, JobStatus,
          RunningHasJob, Lists, Code, JobPC, StatusRecord, Running, Critical, jobVars, uiVars
  <1>1. CASE Tick
    BY <1>1 DEF Tick
  <1>2. CASE syncClusterStatusMonitor
    BY <1>2 DEF syncClusterStatusMonitor
  <1>3. CASE GetClusterSyncStatus
    BY <1>3 DEF GetClusterSyncStatus
  <1>4. CASE Crash
    BY <1>4 DEF Crash
  <1>5. CASE LeaseExpires
    BY <1>5 DEF LeaseExpires
  <1>6. CASE UNCHANGED vars
    BY <1>6 DEF vars
  <1>7. QED
    BY <1>1, <1>2, <1>3, <1>4, <1>5, <1>6

(* The inductive invariant of sync.Cluster (sync/cluster.go): whoever      *)
(* crashes, and whatever the store loses, the lock, the status and the     *)
(* lists agree.                                                            *)
THEOREM AlwaysInductive == Spec => []Inductive
  <1>1. Inductive /\ [Next]_vars => Inductive'
    BY JobInductive, OtherInductive DEF Next
  <1>2. QED
    BY <1>1, InitInductive, PTL DEF Spec

(* Every variable of the synchronisation keeps its type. *)
THEOREM TypeCorrect == Spec => []TypeOK
  <1>1. Inductive => TypeOK
    BY DEF Inductive
  <1>2. QED
    BY <1>1, AlwaysInductive, PTL

(* At most one goroutine synchronises the cluster, through crashes and the *)
(* expiry of leases.                                                       *)
THEOREM SingleJob == Spec => []OneJobRuns
  <1>1. Inductive => OneJobRuns
    BY DEF Inductive, LockHeld, OneJobRuns
  <1>2. QED
    BY <1>1, AlwaysInductive, PTL

(* The status done always means that one job synchronised every list and   *)
(* ran the instance spec list after them.                                  *)
THEOREM DoneMeansAllLists == Spec => []DoneIsComplete
  <1>1. Inductive => DoneIsComplete
    BY DEF Inductive
  <1>2. QED
    BY <1>1, AlwaysInductive, PTL

(* A client never sees another status than running while a job works. *)
THEOREM WorkingIsVisible == Spec => []WorkIsVisible
  <1>1. Inductive => WorkIsVisible
    BY DEF Inductive, JobStatus, WorkIsVisible
  <1>2. QED
    BY <1>1, AlwaysInductive, PTL

(* Without crashes and failures of etcd, the status running always belongs *)
(* to a job at work.                                                       *)
THEOREM RunningIsHonest ==
  ASSUME Faults \cap {"store", "crash"} = {}
  PROVE  Spec => []RunningHasJob
  <1>1. Inductive => RunningHasJob
    BY DEF Inductive
  <1>2. QED
    BY <1>1, AlwaysInductive, PTL
=============================================================================
