---------------------- MODULE ClusterLifecycleProofs ----------------------
(***************************************************************************)
(* Proofs about ClusterLifecycle for any set of clusters and goroutines.   *)
(* The lock argument is in Inductive: whoever synchronises or deletes a    *)
(* cluster holds its lock, so the row under a synchronisation cannot go    *)
(* away; every write of a cached row finds the row in the database, except *)
(* the one of SyncException, which the last theorems exclude.              *)
(***************************************************************************)
EXTENDS ClusterLifecycle, TLAPS

LEMMA PutKeysType ==
  ASSUME keys \in [Cluster -> SUBSET Key], NEW c \in Cluster,
         NEW ks \in SUBSET Key, PutKeys(c, ks)
  PROVE  keys' \in [Cluster -> SUBSET Key]
  <1>1. PICK done \in SUBSET ks : keys' = [keys EXCEPT ![c] = @ \cup done]
    BY DEF PutKeys
  <1>2. keys[c] \cup done \in SUBSET Key
    OBVIOUS
  <1>3. QED
    BY <1>1, <1>2

LEMMA DeleteKeysType ==
  ASSUME keys \in [Cluster -> SUBSET Key], NEW c \in Cluster,
         NEW ks \in SUBSET Key, DeleteKeys(c, ks)
  PROVE  keys' \in [Cluster -> SUBSET Key]
  <1>1. PICK done \in SUBSET ks : keys' = [keys EXCEPT ![c] = @ \ done]
    BY DEF DeleteKeys
  <1>2. keys[c] \ done \in SUBSET Key
    OBVIOUS
  <1>3. QED
    BY <1>1, <1>2

LEMMA InitInductive == Init => Inductive
  BY LifecycleAssumption DEF Init, Inductive, TypeOK, SyncHasRow, Worker, Row,
     Key, ThreadPC, WorkerPC, Syncing, Deleting, InException, Exists

(* Every step that opens a request keeps the invariant. *)
LEMMA RequestInductive ==
  ASSUME Inductive, NEW t \in Thread, NEW c \in Cluster, Request(t, c)
  PROVE  Inductive'
  <1> USE LifecycleAssumption
      DEF Inductive, TypeOK, SyncHasRow, Worker, Key, ThreadPC, Syncing,
          Deleting, InException, Exists, apiVars, leaderVars, workerVars, Goto
  <1>1. CASE Add(t, c)
    <2> DEFINE fresh == 0
    <2>1. fresh \in Row /\ fresh # NoRow
      BY DEF Row
    <2>2. keys' \in [Cluster -> SUBSET Key]
      BY <1>1, PutKeysType DEF Add
    <2> HIDE DEF fresh
    <2>3. db' = [db EXCEPT ![c] = fresh]
      BY <1>1 DEF Add, fresh
    <2>4. db' \in [Cluster -> Row \cup {NoRow}]
      BY <2>1, <2>3
    <2>5. /\ used' = used \cup {c}
          /\ tgt' = [tgt EXCEPT ![t] = c]
          /\ pc' = [pc EXCEPT ![t] = "addNotice"]
          /\ pc[t] = "idle"
          /\ UNCHANGED <<lock, seen, msgs, clusters, isRunningC, cfg,
                         wpc, wtgt, wrow, board>>
      BY <1>1 DEF Add
    <2>6. TypeOK'
      BY <2>2, <2>4, <2>5
    <2>7. QED
      BY <2>1, <2>3, <2>5, <2>6
  <1>2. CASE UpdateCluster(t, c)
    BY <1>2 DEF UpdateCluster, Row
  <1>3. CASE UpdateCredential(t, c)
    BY <1>3 DEF UpdateCredential, Row
  <1>4. CASE SyncCluster(t, c)
    BY <1>4 DEF SyncCluster
  <1>5. CASE DeleteLock(t, c)
    BY <1>5 DEF DeleteLock
  <1>6. CASE ExceptionRead(t, c)
    BY <1>6 DEF ExceptionRead
  <1>7. QED
    BY <1>1, <1>2, <1>3, <1>4, <1>5, <1>6 DEF Request

(* Every step of a request goroutine keeps the invariant. *)
LEMMA ThreadInductive ==
  ASSUME Inductive, NEW t \in Thread, ThreadStep(t)
  PROVE  Inductive'
  <1> USE LifecycleAssumption
      DEF Inductive, TypeOK, SyncHasRow, Worker, Key, ThreadPC, Syncing,
          Deleting, InException, Exists, apiVars, leaderVars, workerVars, Goto,
          Unlock
  <1>1. CASE AddCluster(t)
    <2>1. keys' \in [Cluster -> SUBSET Key]
      BY <1>1, PutKeysType DEF AddCluster
    <2>2. msgs' \subseteq Message
      BY <1>1 DEF AddCluster, Publish, Message, Topic, Msg
    <2>3. QED
      BY <1>1, <2>1, <2>2 DEF AddCluster
  <1>2. CASE SyncInit(t)
    BY <1>2 DEF SyncInit
  <1>3. CASE NewSynchronizer(t)
    BY <1>3 DEF NewSynchronizer
  <1>4. CASE SyncEnd(t)
    BY <1>4 DEF SyncEnd
  <1>5. CASE DeleteRow(t)
    BY <1>5 DEF DeleteRow
  <1>6. CASE DeleteClusters(t)
    BY <1>6 DEF DeleteClusters
  <1>7. CASE DeleteCluster(t)
    <2>1. keys' \in [Cluster -> SUBSET Key]
      BY <1>7, DeleteKeysType DEF DeleteCluster
    <2>2. msgs' \subseteq Message
      BY <1>7 DEF DeleteCluster, Publish, Message, Topic, Msg
    <2>3. QED
      BY <1>7, <2>1, <2>2 DEF DeleteCluster
  <1>8. CASE ExceptionStore(t)
    <2> DEFINE c == tgt[t]
    <2>1. keys' \in {keys, [keys EXCEPT ![c] = @ \cup {"exception"}],
                     [keys EXCEPT ![c] = @ \ {"exception"}]}
      BY <1>8 DEF ExceptionStore
    <2>2. keys[c] \cup {"exception"} \in SUBSET Key /\ keys[c] \ {"exception"} \in SUBSET Key
      OBVIOUS
    <2>3. keys' \in [Cluster -> SUBSET Key]
      BY <2>1, <2>2
    <2>4. QED
      BY <1>8, <2>3 DEF ExceptionStore
  <1>9. CASE ExceptionCheck(t)
    <2>1. msgs' \subseteq Message
      BY <1>9 DEF ExceptionCheck, Publish, Message, Topic, Msg
    <2>2. QED
      BY <1>9, <2>1 DEF ExceptionCheck
  <1>10. CASE ExceptionSave(t)
    BY <1>10 DEF ExceptionSave
  <1>11. QED
    BY <1>1, <1>2, <1>3, <1>4, <1>5, <1>6, <1>7, <1>8, <1>9, <1>10 DEF ThreadStep

(* So does every delivery of a message ... *)
LEMMA DeliverInductive ==
  ASSUME Inductive, NEW c \in Cluster, Deliver(c)
  PROVE  Inductive'
  <1> USE LifecycleAssumption
      DEF Inductive, TypeOK, SyncHasRow, Worker, WorkerPC, Exists, apiVars,
          leaderVars, workerVars
  <1>1. CASE CreatedRead(c)
    BY <1>1 DEF CreatedRead
  <1>2. CASE DeletedNotice(c)
    BY <1>2 DEF DeletedNotice
  <1>3. CASE StatusMessage(c)
    BY <1>3 DEF StatusMessage
  <1>4. CASE ServiceDeleteMessage(c)
    BY <1>4 DEF ServiceDeleteMessage
  <1>5. QED
    BY <1>1, <1>2, <1>3, <1>4 DEF Deliver

(* ... and every step of the leader. *)
LEMMA LeaderInductive ==
  ASSUME Inductive,
         \/ CreatedRegister
         \/ \E w \in Checker, c \in Cluster : HealthCheckClusterList(w, c)
         \/ \E w \in Worker : WorkerStep(w)
  PROVE  Inductive'
  <1> USE LifecycleAssumption
      DEF Inductive, TypeOK, SyncHasRow, Worker, WorkerPC, Exists, apiVars,
          leaderVars, workerVars
  <1>1. CASE CreatedRegister
    BY <1>1 DEF CreatedRegister
  <1>2. ASSUME NEW w \in Checker, NEW c \in Cluster, HealthCheckClusterList(w, c)
        PROVE  Inductive'
    BY <1>2 DEF HealthCheckClusterList
  <1>3. ASSUME NEW w \in Worker, WorkerStep(w)
        PROVE  Inductive'
    <2>1. CASE CheckClusterStart(w)
      BY <2>1 DEF CheckClusterStart
    <2>2. CASE CheckCluster(w)
      <3>1. msgs' \subseteq Message
        BY <2>2 DEF CheckCluster, Publish, Message, Topic, Msg
      <3>2. QED
        BY <2>2, <3>1 DEF CheckCluster
    <2>3. CASE updateClusterState(w)
      BY <2>3 DEF updateClusterState
    <2>4. CASE CheckClusterEnd(w)
      BY <2>4 DEF CheckClusterEnd
    <2>5. QED
      BY <1>3, <2>1, <2>2, <2>3, <2>4 DEF WorkerStep
  <1>4. QED
    BY <1>1, <1>2, <1>3

LEMMA StutterInductive == Inductive /\ UNCHANGED vars => Inductive'
  BY DEF Inductive, TypeOK, SyncHasRow, Exists, vars

LEMMA NextInductive == Inductive /\ [Next]_vars => Inductive'
  BY RequestInductive, ThreadInductive, DeliverInductive, LeaderInductive,
     StutterInductive DEF Next

(* The invariant holds in every reachable state. *)
THEOREM AlwaysInductive == Spec => []Inductive
  BY InitInductive, NextInductive, PTL DEF Spec

(* Every variable of the service keeps its type, and a health check under  *)
(* way has a cached row to save.                                           *)
THEOREM TypeCorrect == Spec => []TypeOK
  <1>1. Inductive => TypeOK
    BY DEF Inductive
  <1>2. QED
    BY <1>1, AlwaysInductive, PTL

(* A synchronisation past NewSynchronizer always has its row: DeleteCluster *)
(* cannot remove it, for any number of concurrent requests and any faults  *)
(* of etcd, the broker and the database.                                   *)
THEOREM SyncKeepsRow == Spec => []SyncHasRow
  <1>1. Inductive => SyncHasRow
    BY DEF Inductive
  <1>2. QED
    BY <1>1, AlwaysInductive, PTL

(* No goroutine synchronises a cluster while another one deletes it. *)
THEOREM SyncExcludesDelete == Spec => []NoSyncDuringDelete
  <1>1. Inductive => NoSyncDuringDelete
    BY DEF Inductive, NoSyncDuringDelete, Syncing, Deleting
  <1>2. QED
    BY <1>1, AlwaysInductive, PTL

---------------------------------------------------------------------------
(* Unless some goroutine is about to save the row in SyncException, no     *)
(* step brings a deleted row back.                                         *)
LEMMA StepKeepsDeleted ==
  ASSUME Inductive, [Next]_vars,
         NEW c \in Cluster, c \in used, db[c] = NoRow,
         \A t \in Thread : pc[t] = "exSave" => tgt[t] # c
  PROVE  db'[c] = NoRow
  <1> USE DEF Inductive, TypeOK, Exists, apiVars, leaderVars, workerVars
  <1>1. ASSUME NEW t \in Thread, NEW d \in Cluster, Request(t, d)
        PROVE  db'[c] = NoRow
    BY <1>1 DEF Request, Add, UpdateCluster, UpdateCredential, SyncCluster,
       DeleteLock, ExceptionRead
  <1>2. ASSUME NEW t \in Thread, ThreadStep(t)
        PROVE  db'[c] = NoRow
    <2>1. pc[t] = "exSave" => tgt[t] # c
      OBVIOUS
    <2>2. QED
      BY <1>2, <2>1 DEF ThreadStep, AddCluster, SyncInit, NewSynchronizer,
         SyncEnd, DeleteRow, DeleteClusters, DeleteCluster, ExceptionStore,
         ExceptionCheck, ExceptionSave
  <1>3. ASSUME NEW d \in Cluster, Deliver(d)
        PROVE  db'[c] = NoRow
    BY <1>3 DEF Deliver, CreatedRead, DeletedNotice, StatusMessage,
       ServiceDeleteMessage
  <1>4. CASE CreatedRegister
    BY <1>4 DEF CreatedRegister
  <1>5. ASSUME NEW w \in Checker, NEW d \in Cluster, HealthCheckClusterList(w, d)
        PROVE  db'[c] = NoRow
    BY <1>5 DEF HealthCheckClusterList
  <1>6. ASSUME NEW w \in Worker, WorkerStep(w)
        PROVE  db'[c] = NoRow
    BY <1>6 DEF WorkerStep, CheckClusterStart, CheckCluster,
       updateClusterState, CheckClusterEnd
  <1>7. CASE UNCHANGED vars
    BY <1>7 DEF vars
  <1>8. QED
    BY <1>1, <1>2, <1>3, <1>4, <1>5, <1>6, <1>7 DEF Next

(* The leader's late save of a cached row never undoes a deletion; only    *)
(* the last step of SyncException can.                                     *)
THEOREM RevivedByException == Spec => OnlyExceptionRevives
  <1>1. Inductive /\ [Next]_vars =>
          [\A c \in Cluster : c \in used /\ db[c] = NoRow /\ db'[c] # NoRow =>
             \E t \in Thread : pc[t] = "exSave" /\ tgt[t] = c]_vars
    BY StepKeepsDeleted
  <1>2. QED
    BY <1>1, AlwaysInductive, PTL DEF Spec, OnlyExceptionRevives

(* A deletion is final when no client uses SyncException: in particular    *)
(* the leader's late save of a cached row cannot undo it.                  *)
THEOREM DeletionFinal ==
  ASSUME "Exception" \notin Ops
  PROVE  Spec => DeletedStaysDeleted
  <1>1. Inductive /\ [Next]_vars =>
          [\A c \in Cluster : c \in used /\ db[c] = NoRow => db'[c] = NoRow]_vars
    <2>1. Inductive => \A t \in Thread : pc[t] # "exSave"
      BY DEF Inductive, InException
    <2>2. QED
      BY <2>1, StepKeepsDeleted
  <1>2. QED
    BY <1>1, AlwaysInductive, PTL DEF Spec, DeletedStaysDeleted

---------------------------------------------------------------------------
(* A step that changes neither the set of rows, nor the ids handed out,    *)
(* nor who synchronises what, leaves the abstract state alone.             *)
LEMMA SameRegistry ==
  ASSUME \A c \in Cluster : (db'[c] # NoRow) <=> (db[c] # NoRow),
         used' = used,
         \A t \in Thread : /\ pc'[t] = "syncRun" <=> pc[t] = "syncRun"
                           /\ pc[t] = "syncRun" => tgt'[t] = tgt[t]
  PROVE  regState' = regState
  BY DEF regState, Exists

(* A step that changes the abstract state of c only. *)
LEMMA OneMove ==
  ASSUME NEW c \in Cluster, NEW s,
         regState'[c] = s,
         \A d \in Cluster \ {c} : regState'[d] = regState[d]
  PROVE  regState' = [regState EXCEPT ![c] = s]
  <1>1. regState = [d \in Cluster |-> regState[d]]
    BY Zenon DEF regState
  <1>2. regState' = [d \in Cluster |-> regState'[d]]
    BY Zenon DEF regState
  <1>3. QED
    BY <1>1, <1>2

LEMMA RequestRefines ==
  ASSUME Inductive, NEW t \in Thread, NEW c \in Cluster, Request(t, c)
  PROVE  [Registry!RegistryNext]_regState
  <1> USE LifecycleAssumption DEF Inductive, TypeOK, Goto, apiVars
  <1>1. CASE Add(t, c)
    <2> DEFINE fresh == 0
    <2>1. fresh # NoRow
      BY DEF Row
    <2> HIDE DEF fresh
    <2>2. /\ db' = [db EXCEPT ![c] = fresh]
          /\ used' = used \cup {c} /\ c \notin used
          /\ pc' = [pc EXCEPT ![t] = "addNotice"] /\ pc[t] = "idle"
          /\ tgt' = [tgt EXCEPT ![t] = c]
      BY <1>1 DEF Add, fresh
    <2>3. ~Exists(c)
      BY <2>2
    <2>4. \A u \in Thread : pc[u] = "syncRun" => tgt[u] # c
      BY <2>3 DEF SyncHasRow
    <2>5. \A u \in Thread : pc'[u] = "syncRun" <=> pc[u] = "syncRun"
      BY <2>2
    <2>6. \A u \in Thread : pc[u] = "syncRun" => tgt'[u] = tgt[u]
      BY <2>2
    <2>7. regState[c] = "unknown"
      BY <2>2, <2>3, <2>4 DEF regState
    <2>8. regState'[c] = "registered"
      BY <2>1, <2>2, <2>4, <2>5, <2>6 DEF regState, Exists
    <2>9. \A d \in Cluster \ {c} : regState'[d] = regState[d]
      BY <2>2, <2>5, <2>6 DEF regState, Exists
    <2>10. regState' = [regState EXCEPT ![c] = "registered"]
      BY <2>8, <2>9, OneMove
    <2>11. QED
      BY <2>7, <2>10 DEF Registry!RegistryNext, Registry!Register, Registry!Move
  <1>2. CASE UpdateCluster(t, c)
    <2>1. \A d \in Cluster : (db'[d] # NoRow) <=> (db[d] # NoRow)
      BY <1>2 DEF UpdateCluster, Exists, Row
    <2>2. QED
      BY <1>2, <2>1, SameRegistry DEF UpdateCluster
  <1>3. CASE UpdateCredential(t, c)
    <2>1. \A d \in Cluster : (db'[d] # NoRow) <=> (db[d] # NoRow)
      BY <1>3 DEF UpdateCredential, Exists, Row
    <2>2. QED
      BY <1>3, <2>1, SameRegistry DEF UpdateCredential
  <1>4. CASE SyncCluster(t, c)
    BY <1>4, SameRegistry DEF SyncCluster
  <1>5. CASE DeleteLock(t, c)
    BY <1>5, SameRegistry DEF DeleteLock
  <1>6. CASE ExceptionRead(t, c)
    BY <1>6, SameRegistry DEF ExceptionRead
  <1>7. QED
    BY <1>1, <1>2, <1>3, <1>4, <1>5, <1>6 DEF Request

LEMMA ThreadRefines ==
  ASSUME Inductive, NEW t \in Thread, ThreadStep(t)
  PROVE  [Registry!RegistryNext]_regState
  <1> DEFINE c == tgt[t]
  <1> USE LifecycleAssumption DEF Inductive, TypeOK, Goto
  <1>1. CASE ExceptionStore(t) \/ ExceptionCheck(t)
    BY <1>1, SameRegistry DEF ExceptionStore, ExceptionCheck
  <1>2. ASSUME pc[t] \in Syncing \cup Deleting
        PROVE  \A u \in Thread \ {t} : pc[u] = "syncRun" => tgt[u] # c
    BY <1>2 DEF Syncing
  <1>3. CASE AddCluster(t)
    BY <1>3, SameRegistry DEF AddCluster
  <1>4. CASE SyncInit(t)
    BY <1>4, SameRegistry DEF SyncInit
  <1>5. CASE NewSynchronizer(t)
    <2>1. CASE pc' = [pc EXCEPT ![t] = "idle"]
      BY <1>5, <2>1, SameRegistry DEF NewSynchronizer
    <2>2. CASE Exists(c) /\ pc' = [pc EXCEPT ![t] = "syncRun"]
      <3>1. pc[t] = "syncNew" /\ UNCHANGED <<db, used, tgt>>
        BY <1>5 DEF NewSynchronizer
      <3>2. regState[c] = "registered"
        BY <1>2, <2>2, <3>1 DEF regState, Syncing
      <3>3. regState'[c] = "syncing"
        BY <2>2, <3>1 DEF regState
      <3>4. \A d \in Cluster \ {c} : regState'[d] = regState[d]
        BY <2>2, <3>1 DEF regState, Exists
      <3>5. regState' = [regState EXCEPT ![c] = "syncing"]
        BY <3>3, <3>4, OneMove
      <3>6. QED
        BY <3>2, <3>5 DEF Registry!RegistryNext, Registry!StartSync, Registry!Move
    <2>3. QED
      BY <1>5, <2>1, <2>2 DEF NewSynchronizer
  <1>6. CASE SyncEnd(t)
    <2>1. pc[t] = "syncRun" /\ pc' = [pc EXCEPT ![t] = "idle"] /\ UNCHANGED <<db, used, tgt>>
      BY <1>6 DEF SyncEnd
    <2>2. regState[c] = "syncing"
      BY <2>1 DEF regState
    <2>3. regState'[c] = "registered"
      BY <1>2, <2>1 DEF regState, Syncing, SyncHasRow, Exists
    <2>4. \A d \in Cluster \ {c} : regState'[d] = regState[d]
      BY <2>1 DEF regState, Exists
    <2>5. regState' = [regState EXCEPT ![c] = "registered"]
      BY <2>3, <2>4, OneMove
    <2>6. QED
      BY <2>2, <2>5 DEF Registry!RegistryNext, Registry!EndSync, Registry!Move
  <1>7. CASE DeleteRow(t)
    <2>1. pc[t] = "delTx" /\ pc' \in {[pc EXCEPT ![t] = "idle"], [pc EXCEPT ![t] = "delStore"]}
          /\ UNCHANGED <<used, tgt>>
      BY <1>7 DEF DeleteRow
    <2>2. \A u \in Thread : pc'[u] = "syncRun" <=> pc[u] = "syncRun"
      BY <2>1
    <2>3. CASE UNCHANGED db
      BY <2>1, <2>2, <2>3, SameRegistry
    <2>4. CASE Exists(c) /\ db' = [db EXCEPT ![c] = NoRow]
      <3>1. regState[c] = "registered"
        BY <1>2, <2>1, <2>4 DEF regState, Deleting
      <3>2. regState'[c] = "deleted"
        BY <1>2, <2>1, <2>2, <2>4 DEF regState, Deleting, Exists
      <3>3. \A d \in Cluster \ {c} : regState'[d] = regState[d]
        BY <2>1, <2>2, <2>4 DEF regState, Exists
      <3>4. regState' = [regState EXCEPT ![c] = "deleted"]
        BY <3>2, <3>3, OneMove
      <3>5. QED
        BY <3>1, <3>4 DEF Registry!RegistryNext, Registry!Remove, Registry!Move
    <2>5. QED
      BY <1>7, <2>3, <2>4 DEF DeleteRow
  <1>8. CASE DeleteClusters(t)
    BY <1>8, SameRegistry DEF DeleteClusters
  <1>9. CASE DeleteCluster(t)
    BY <1>9, SameRegistry DEF DeleteCluster
  <1>10. CASE ExceptionSave(t)
    <2>1. /\ pc[t] = "exSave" /\ pc' = [pc EXCEPT ![t] = "idle"]
          /\ db' = [db EXCEPT ![c] = seen[t]]
          /\ UNCHANGED <<used, tgt>>
      BY <1>10 DEF ExceptionSave
    <2>2. seen[t] # NoRow /\ c \in used /\ "Exception" \in Ops
      BY <2>1 DEF InException
    <2>3. \A u \in Thread : pc'[u] = "syncRun" <=> pc[u] = "syncRun"
      BY <2>1
    <2>4. CASE Exists(c)
      BY <2>1, <2>2, <2>3, <2>4, SameRegistry DEF Exists
    <2>5. CASE ~Exists(c)
      <3>1. \A u \in Thread : pc[u] = "syncRun" => tgt[u] # c
        BY <2>5 DEF SyncHasRow
      <3>2. regState[c] = "deleted"
        BY <2>2, <2>5, <3>1 DEF regState
      <3>3. regState'[c] = "registered"
        BY <2>1, <2>2, <2>3, <3>1 DEF regState, Exists
      <3>4. \A d \in Cluster \ {c} : regState'[d] = regState[d]
        BY <2>1, <2>3 DEF regState, Exists
      <3>5. regState' = [regState EXCEPT ![c] = "registered"]
        BY <3>3, <3>4, OneMove
      <3>6. QED
        BY <2>2, <3>2, <3>5 DEF Registry!RegistryNext, Registry!Restore, Registry!Move
    <2>6. QED
      BY <2>4, <2>5
  <1>11. QED
    BY <1>1, <1>3, <1>4, <1>5, <1>6, <1>7, <1>8, <1>9, <1>10 DEF ThreadStep

LEMMA NextRefines ==
  ASSUME Inductive, [Next]_vars
  PROVE  [Registry!RegistryNext]_regState
  <1> USE DEF Inductive, TypeOK, apiVars, leaderVars, workerVars
  <1>1. ASSUME NEW c \in Cluster, Deliver(c)
        PROVE  [Registry!RegistryNext]_regState
    BY <1>1, SameRegistry DEF Deliver, CreatedRead, DeletedNotice, StatusMessage,
       ServiceDeleteMessage
  <1>2. CASE CreatedRegister
    BY <1>2, SameRegistry DEF CreatedRegister
  <1>3. ASSUME NEW w \in Checker, NEW c \in Cluster, HealthCheckClusterList(w, c)
        PROVE  [Registry!RegistryNext]_regState
    BY <1>3, SameRegistry DEF HealthCheckClusterList
  <1>4. ASSUME NEW w \in Worker, WorkerStep(w)
        PROVE  [Registry!RegistryNext]_regState
    <2>1. \A c \in Cluster : (db'[c] # NoRow) <=> (db[c] # NoRow)
      BY <1>4 DEF WorkerStep, CheckClusterStart, CheckCluster, updateClusterState,
         CheckClusterEnd, Exists
    <2>2. UNCHANGED <<used, pc, tgt>>
      BY <1>4 DEF WorkerStep, CheckClusterStart, CheckCluster, updateClusterState,
         CheckClusterEnd
    <2>3. QED
      BY <2>1, <2>2, SameRegistry
  <1>5. CASE UNCHANGED vars
    BY <1>5, SameRegistry DEF vars
  <1>6. QED
    BY <1>1, <1>2, <1>3, <1>4, <1>5, RequestRefines, ThreadRefines DEF Next

(* The requests, the leader and the handler, with all their interleavings  *)
(* and faults, implement the abstract registry: one registration,          *)
(* synchronisations that no deletion interrupts, and a deletion that is    *)
(* final unless clients use SyncException.                                 *)
THEOREM RegistryImplemented == Spec => ImplementsRegistry
  <1>1. Init => Registry!RegistryInit
    BY DEF Init, Registry!RegistryInit, regState, Exists
  <1>2. Inductive /\ [Next]_vars => [Registry!RegistryNext]_regState
    BY NextRefines
  <1>3. QED
    BY <1>1, <1>2, AlwaysInductive, PTL
       DEF Spec, ImplementsRegistry, Registry!RegistrySpec
=============================================================================
