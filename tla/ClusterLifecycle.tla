------------------------- MODULE ClusterLifecycle -------------------------
(***************************************************************************)
(* The life of a cluster record in cluster-manager: the API requests that  *)
(* register, change, synchronise and remove a cluster, run by concurrent   *)
(* request goroutines, against the health checks of the elected leader and *)
(* the memory that leader and API handler keep of the cluster.             *)
(*                                                                         *)
(*   db         cdm_cluster; a row is abstracted to the number of changes  *)
(*              of its name, remarks and credential that were accepted     *)
(*   used       ids handed out so far; the database never reuses one       *)
(*   lock       holder of the etcd mutex cluster.db.locks/<id>             *)
(*   keys       the etcd keys present under clusters/<id>/                 *)
(*   pc, tgt,   control point, cluster and, for SyncException, the row     *)
(*   seen       read at the start, of every request goroutine              *)
(*   msgs       broker messages not delivered yet                          *)
(*   clusters,  the leader's memory: cached rows, the running flag of each *)
(*   isRunningC, check ("absent" when the map has no key) and the clusters *)
(*   cfg        that have an interval                                      *)
(*   wpc, wtgt, control point, cluster and cached row of the goroutines    *)
(*   wrow       that run a check: the periodic ones and the subscriber of  *)
(*              the created notice                                         *)
(*   board      clusters with an entry in the handler's checkStatus map    *)
(*                                                                         *)
(* A database transaction is one step (CockroachDB is serializable).       *)
(***************************************************************************)
EXTENDS Naturals

CONSTANTS
    Cluster,     \* cluster ids
    Thread,      \* goroutines serving API requests
    Checker,     \* goroutines the leader may have running checkCluster
    Notice,      \* the goroutine of the cluster-created subscription
    Ops,         \* the API operations used by the clients
    Faults,      \* "store", "broker", "tx": etcd may refuse a call, a publish may
                 \* be lost, the transaction of cluster.Delete may fail
    MaxVersion,  \* bound on the changes of one row
    NoRow,       \* no row, no entry
    Free         \* nobody holds the lock

Worker == Checker \cup {Notice}
Row == Nat
Key == {"config", "agent", "exception", "sync"}
Topic == {"created", "deleted", "status", "serviceDelete"}
Message == [topic : Topic, c : Cluster]
AllOps == {"Add", "Update", "Credential", "Delete", "Sync", "Exception"}
ThreadPC == {"idle", "addNotice", "syncWait", "syncNew", "syncRun", "delTx",
             "delStore", "delNotice", "exStore", "exCheck", "exSave"}
WorkerPC == {"idle", "spawned", "ticking", "register", "save", "done"}

ASSUME LifecycleAssumption ==
    /\ Notice \notin Checker
    /\ NoRow \notin Row
    /\ Free \notin Thread
    /\ Ops \subseteq AllOps
    /\ Faults \subseteq {"store", "broker", "tx"}
    /\ MaxVersion \in Nat

VARIABLES db, used, lock, keys, pc, tgt, seen, msgs,
          clusters, isRunningC, cfg, wpc, wtgt, wrow, board

apiVars == <<pc, tgt, seen>>
leaderVars == <<clusters, isRunningC, cfg>>
workerVars == <<wpc, wtgt, wrow>>
vars == <<db, used, lock, keys, pc, tgt, seen, msgs,
          clusters, isRunningC, cfg, wpc, wtgt, wrow, board>>

Init ==
    /\ db = [c \in Cluster |-> NoRow]
    /\ used = {}
    /\ lock = [c \in Cluster |-> Free]
    /\ keys = [c \in Cluster |-> {}]
    /\ pc = [t \in Thread |-> "idle"]
    /\ tgt \in [Thread -> Cluster]
    /\ seen = [t \in Thread |-> NoRow]
    /\ msgs = {}
    /\ clusters = [c \in Cluster |-> NoRow]
    /\ isRunningC = [c \in Cluster |-> "absent"]
    /\ cfg = {}
    /\ wpc = [w \in Worker |-> "idle"]
    /\ wtgt \in [Worker -> Cluster]
    /\ wrow = [w \in Worker |-> NoRow]
    /\ board = {}

Exists(c) == db[c] # NoRow
Msg(topic, c) == [topic |-> topic, c |-> c]

(* The messages ms are published one by one. A publish that fails is       *)
(* logged and forgotten.                                                   *)
Publish(ms) ==
    \E sent \in SUBSET ms :
        /\ sent = ms \/ "broker" \in Faults
        /\ msgs' = msgs \cup sent

(* The keys ks of c are put or deleted; a refused call is logged only. *)
PutKeys(c, ks) ==
    \E done \in SUBSET ks :
        /\ done = ks \/ "store" \in Faults
        /\ keys' = [keys EXCEPT ![c] = @ \cup done]
DeleteKeys(c, ks) ==
    \E done \in SUBSET ks :
        /\ done = ks \/ "store" \in Faults
        /\ keys' = [keys EXCEPT ![c] = @ \ done]

Goto(t, l) == pc' = [pc EXCEPT ![t] = l]
Unlock(c) == lock' = [lock EXCEPT ![c] = Free]

---------------------------------------------------------------------------
(* API requests.                                                           *)

(* The transaction of AddCluster: the row and the default config key. *)
Add(t, c) ==
    /\ "Add" \in Ops /\ pc[t] = "idle" /\ c \notin used
    /\ used' = used \cup {c}
    /\ db' = [db EXCEPT ![c] = 0]
    /\ PutKeys(c, {"config"})
    /\ tgt' = [tgt EXCEPT ![t] = c]
    /\ Goto(t, "addNotice")
    /\ UNCHANGED <<lock, seen, msgs, leaderVars, workerVars, board>>

(* The rest of AddCluster: the agent key, the created notice and the       *)
(* goroutine that will synchronise the new cluster.                        *)
AddCluster(t) ==
    /\ pc[t] = "addNotice"
    /\ PutKeys(tgt[t], {"agent"})
    /\ Publish({Msg("created", tgt[t])})
    /\ Goto(t, "syncWait")
    /\ UNCHANGED <<db, used, lock, tgt, seen, leaderVars, workerVars, board>>

(* UpdateCluster: lock, one transaction that rereads the row, unlock. *)
UpdateCluster(t, c) ==
    /\ "Update" \in Ops /\ pc[t] = "idle"
    /\ lock[c] = Free /\ Exists(c) /\ db[c] < MaxVersion
    /\ db' = [db EXCEPT ![c] = @ + 1]
    /\ UNCHANGED <<used, lock, keys, apiVars, msgs, leaderVars, workerVars, board>>

(* UpdateCredential: one transaction, without the lock. *)
UpdateCredential(t, c) ==
    /\ "Credential" \in Ops /\ pc[t] = "idle"
    /\ Exists(c) /\ db[c] < MaxVersion
    /\ db' = [db EXCEPT ![c] = @ + 1]
    /\ UNCHANGED <<used, lock, keys, apiVars, msgs, leaderVars, workerVars, board>>

(* SyncCluster validates the request and leaves the work to a goroutine.   *)
(* IsAbleToSync may refuse, which changes nothing (module SyncJob).        *)
SyncCluster(t, c) ==
    /\ "Sync" \in Ops /\ pc[t] = "idle" /\ Exists(c)
    /\ tgt' = [tgt EXCEPT ![t] = c]
    /\ Goto(t, "syncWait")
    /\ UNCHANGED <<db, used, lock, keys, seen, msgs, leaderVars, workerVars, board>>

(* Faulty variant of SyncInit: the goroutine does not wait for the lock. *)
SyncInitNoLock(t) ==
    /\ pc[t] = "syncWait"
    /\ keys' = [keys EXCEPT ![tgt[t]] = @ \cup {"sync"}]
    /\ Goto(t, "syncNew")
    /\ UNCHANGED <<db, used, lock, tgt, seen, msgs, leaderVars, workerVars, board>>

(* The goroutine takes the lock and sync.Cluster stores the status init;   *)
(* it ends when etcd refuses either.                                       *)
SyncInit(t) ==
    LET c == tgt[t] IN
    /\ pc[t] = "syncWait"
    /\ \/ /\ lock[c] = Free
          /\ lock' = [lock EXCEPT ![c] = t]
          /\ keys' = [keys EXCEPT ![c] = @ \cup {"sync"}]
          /\ Goto(t, "syncNew")
       \/ "store" \in Faults /\ Goto(t, "idle") /\ UNCHANGED <<lock, keys>>
    /\ UNCHANGED <<db, used, tgt, seen, msgs, leaderVars, workerVars, board>>

(* Faulty variant of NewSynchronizer: the error path keeps the lock. *)
NewSynchronizerKeepsLock(t) ==
    /\ pc[t] = "syncNew"
    /\ \/ Goto(t, "idle")
       \/ Exists(tgt[t]) /\ Goto(t, "syncRun")
    /\ UNCHANGED <<db, used, lock, keys, tgt, seen, msgs, leaderVars, workerVars, board>>

(* NewSynchronizer fails for a missing row, and may fail to reach the      *)
(* cloud; sync.Cluster then returns and the goroutine unlocks.             *)
NewSynchronizer(t) ==
    LET c == tgt[t] IN
    /\ pc[t] = "syncNew"
    /\ \/ Unlock(c) /\ Goto(t, "idle")
       \/ Exists(c) /\ Goto(t, "syncRun") /\ UNCHANGED lock
    /\ UNCHANGED <<db, used, keys, tgt, seen, msgs, leaderVars, workerVars, board>>

(* The lists are synchronised, the final status is stored, the lock freed. *)
SyncEnd(t) ==
    LET c == tgt[t] IN
    /\ pc[t] = "syncRun"
    /\ keys' = [keys EXCEPT ![c] = @ \cup {"sync"}]
    /\ Unlock(c)
    /\ Goto(t, "idle")
    /\ UNCHANGED <<db, used, tgt, seen, msgs, leaderVars, workerVars, board>>

(* Faulty variant of DeleteLock: the request does not wait for the lock. *)
DeleteNoLock(t, c) ==
    /\ "Delete" \in Ops /\ pc[t] = "idle"
    /\ tgt' = [tgt EXCEPT ![t] = c]
    /\ Goto(t, "delTx")
    /\ UNCHANGED <<db, used, lock, keys, seen, msgs, leaderVars, workerVars, board>>

(* DeleteCluster takes the lock first. *)
DeleteLock(t, c) ==
    /\ "Delete" \in Ops /\ pc[t] = "idle" /\ lock[c] = Free
    /\ lock' = [lock EXCEPT ![c] = t]
    /\ tgt' = [tgt EXCEPT ![t] = c]
    /\ Goto(t, "delTx")
    /\ UNCHANGED <<db, used, keys, seen, msgs, leaderVars, workerVars, board>>

(* cluster.Delete: a missing row, a foreign owner or a refusal of the DR   *)
(* manager ends the request; otherwise the row and its relations go. An    *)
(* error inside the transaction is lost: GormTransaction overwrites it     *)
(* with the error of the handle it began on, which is nil, so the request  *)
(* goes on with the rows in place.                                         *)
DeleteRow(t) ==
    LET c == tgt[t] IN
    /\ pc[t] = "delTx"
    /\ \/ Unlock(c) /\ Goto(t, "idle") /\ UNCHANGED db
       \/ /\ Exists(c)
          /\ \/ db' = [db EXCEPT ![c] = NoRow]
             \/ "tx" \in Faults /\ UNCHANGED db
          /\ Goto(t, "delStore") /\ UNCHANGED lock
    /\ UNCHANGED <<used, keys, tgt, seen, msgs, leaderVars, workerVars, board>>

(* DeleteClusters removes every key under clusters/<id>, then the key      *)
(* clusters/<id>; an error of either call ends the request before any      *)
(* notice is published.                                                    *)
DeleteClusters(t) ==
    LET c == tgt[t] IN
    /\ pc[t] = "delStore"
    /\ \/ /\ keys' = [keys EXCEPT ![c] = {}]
          /\ Goto(t, "delNotice") /\ UNCHANGED lock
       \/ /\ "store" \in Faults
          /\ keys' \in {keys, [keys EXCEPT ![c] = {}]}
          /\ Unlock(c) /\ Goto(t, "idle")
    /\ UNCHANGED <<db, used, tgt, seen, msgs, leaderVars, workerVars, board>>

(* The end of DeleteCluster: exception and config key, both notices. *)
DeleteCluster(t) ==
    LET c == tgt[t] IN
    /\ pc[t] = "delNotice"
    /\ DeleteKeys(c, {"exception", "config"})
    /\ Publish({Msg("serviceDelete", c), Msg("deleted", c)})
    /\ Unlock(c)
    /\ Goto(t, "idle")
    /\ UNCHANGED <<db, used, tgt, seen, leaderVars, workerVars, board>>

(* SyncException keeps the row it validated until its last step. *)
ExceptionRead(t, c) ==
    /\ "Exception" \in Ops /\ pc[t] = "idle" /\ Exists(c)
    /\ tgt' = [tgt EXCEPT ![t] = c]
    /\ seen' = [seen EXCEPT ![t] = db[c]]
    /\ Goto(t, "exStore")
    /\ UNCHANGED <<db, used, lock, keys, msgs, leaderVars, workerVars, board>>

(* cluster.SyncException replaces the stored exclusions, then they are     *)
(* published to the leader; a failure of either ends the request.          *)
ExceptionStore(t) ==
    LET c == tgt[t] IN
    /\ pc[t] = "exStore"
    /\ \/ /\ keys' = [keys EXCEPT ![c] = @ \cup {"exception"}]
          /\ Goto(t, "exCheck") /\ UNCHANGED seen
       \/ /\ \/ /\ "store" \in Faults
                /\ keys' \in {keys, [keys EXCEPT ![c] = @ \ {"exception"}]}
             \/ /\ "broker" \in Faults
                /\ keys' = [keys EXCEPT ![c] = @ \cup {"exception"}]
          /\ Goto(t, "idle") /\ seen' = [seen EXCEPT ![t] = NoRow]
    /\ UNCHANGED <<db, used, lock, tgt, msgs, leaderVars, workerVars, board>>

(* The state is recomputed from the handler's memory, or is inactive when  *)
(* the cluster cannot be reached, and published.                           *)
ExceptionCheck(t) ==
    /\ pc[t] = "exCheck"
    /\ Publish({Msg("status", tgt[t])})
    /\ Goto(t, "exSave")
    /\ UNCHANGED <<db, used, lock, keys, tgt, seen, leaderVars, workerVars, board>>

(* db.Save of the row read at the start: gorm inserts it when no row has   *)
(* its primary key any more.                                               *)
ExceptionSave(t) ==
    /\ pc[t] = "exSave"
    /\ db' = [db EXCEPT ![tgt[t]] = seen[t]]
    /\ Goto(t, "idle")
    /\ seen' = [seen EXCEPT ![t] = NoRow]
    /\ UNCHANGED <<used, lock, keys, tgt, msgs, leaderVars, workerVars, board>>

---------------------------------------------------------------------------
(* The leader.                                                             *)

(* Faulty variant of CreatedRead: the lookup error is ignored. *)
CreatedReadUnchecked(c) ==
    /\ Msg("created", c) \in msgs /\ wpc[Notice] = "idle"
    /\ msgs' = msgs \ {Msg("created", c)}
    /\ wpc' = [wpc EXCEPT ![Notice] = "register"]
    /\ wtgt' = [wtgt EXCEPT ![Notice] = c]
    /\ wrow' = [wrow EXCEPT ![Notice] = db[c]]
    /\ UNCHANGED <<db, used, lock, keys, apiVars, leaderVars, board>>

(* createClusterEventMonitor reads the row of the new cluster ... *)
CreatedRead(c) ==
    /\ Msg("created", c) \in msgs /\ wpc[Notice] = "idle"
    /\ msgs' = msgs \ {Msg("created", c)}
    /\ \/ /\ Exists(c)
          /\ wpc' = [wpc EXCEPT ![Notice] = "register"]
          /\ wtgt' = [wtgt EXCEPT ![Notice] = c]
          /\ wrow' = [wrow EXCEPT ![Notice] = db[c]]
       \/ ~Exists(c) /\ UNCHANGED workerVars
    /\ UNCHANGED <<db, used, lock, keys, apiVars, leaderVars, board>>

(* ... and enters it into the memory, ready for its first check. *)
CreatedRegister ==
    LET c == wtgt[Notice] IN
    /\ wpc[Notice] = "register"
    /\ clusters' = [clusters EXCEPT ![c] = wrow[Notice]]
    /\ isRunningC' = [isRunningC EXCEPT ![c] = "no"]
    /\ cfg' = cfg \cup {c}
    /\ wpc' = [wpc EXCEPT ![Notice] = "ticking"]
    /\ UNCHANGED <<db, used, lock, keys, apiVars, msgs, wtgt, wrow, board>>

(* deleteClusterEventMonitor. *)
DeletedNotice(c) ==
    /\ Msg("deleted", c) \in msgs
    /\ msgs' = msgs \ {Msg("deleted", c)}
    /\ clusters' = [clusters EXCEPT ![c] = NoRow]
    /\ isRunningC' = [isRunningC EXCEPT ![c] = "absent"]
    /\ cfg' = cfg \ {c}
    /\ UNCHANGED <<db, used, lock, keys, apiVars, workerVars, board>>

(* healthCheckClusterList starts a check goroutine for a listed cluster    *)
(* that has none running, or gives the cluster a default config.           *)
HealthCheckClusterList(w, c) ==
    /\ clusters[c] # NoRow /\ isRunningC[c] = "no"
    /\ \/ /\ c \in cfg /\ wpc[w] = "idle"
          /\ wpc' = [wpc EXCEPT ![w] = "spawned"]
          /\ wtgt' = [wtgt EXCEPT ![w] = c]
          /\ wrow' = [wrow EXCEPT ![w] = clusters[c]]
          /\ UNCHANGED cfg
       \/ c \notin cfg /\ cfg' = cfg \cup {c} /\ UNCHANGED workerVars
    /\ UNCHANGED <<db, used, lock, keys, apiVars, msgs, clusters, isRunningC, board>>

(* checkCluster sets the flag and waits for its ticker. *)
CheckClusterStart(w) ==
    /\ wpc[w] = "spawned"
    /\ isRunningC' = [isRunningC EXCEPT ![wtgt[w]] = "yes"]
    /\ wpc' = [wpc EXCEPT ![w] = "ticking"]
    /\ UNCHANGED <<db, used, lock, keys, apiVars, msgs, clusters, cfg, wtgt, wrow, board>>

(* check calls CheckCluster, which publishes the state it found (Inactive  *)
(* for a cluster whose row is gone).                                       *)
CheckCluster(w) ==
    /\ wpc[w] = "ticking"
    /\ Publish({Msg("status", wtgt[w])})
    /\ wpc' = [wpc EXCEPT ![w] = "save"]
    /\ UNCHANGED <<db, used, lock, keys, apiVars, leaderVars, wtgt, wrow, board>>

(* Faulty variant of updateClusterState: the row is saved without being    *)
(* looked up, which inserts it when it is gone.                            *)
updateClusterStateBlind(w) ==
    /\ wpc[w] = "save" /\ lock[wtgt[w]] = Free
    /\ db' = [db EXCEPT ![wtgt[w]] = wrow[w]]
    /\ wpc' = [wpc EXCEPT ![w] = "done"]
    /\ UNCHANGED <<used, lock, keys, apiVars, msgs, leaderVars, wtgt, wrow, board>>

(* updateClusterState: lock, then one transaction that looks the row up    *)
(* and saves the whole cached row with its new state, unlock. Nothing is   *)
(* saved when the row is gone or etcd refuses the lock.                    *)
updateClusterState(w) ==
    LET c == wtgt[w] IN
    /\ wpc[w] = "save"
    /\ \/ lock[c] = Free /\ Exists(c) /\ db' = [db EXCEPT ![c] = wrow[w]]
       \/ lock[c] = Free /\ ~Exists(c) /\ UNCHANGED db
       \/ "store" \in Faults /\ UNCHANGED db
    /\ wpc' = [wpc EXCEPT ![w] = "done"]
    /\ UNCHANGED <<used, lock, keys, apiVars, msgs, leaderVars, wtgt, wrow, board>>

(* Faulty variant of CheckClusterEnd: the flag is not cleared. *)
CheckClusterEndKeepsFlag(w) ==
    /\ wpc[w] = "done"
    /\ wpc' = [wpc EXCEPT ![w] = "idle"]
    /\ wrow' = [wrow EXCEPT ![w] = NoRow]
    /\ UNCHANGED <<db, used, lock, keys, apiVars, msgs, leaderVars, wtgt, board>>

(* checkCluster clears its flag; the subscriber goroutine sets none. *)
CheckClusterEnd(w) ==
    /\ wpc[w] = "done"
    /\ isRunningC' = IF w = Notice THEN isRunningC
                     ELSE [isRunningC EXCEPT ![wtgt[w]] = "no"]
    /\ wpc' = [wpc EXCEPT ![w] = "idle"]
    /\ wrow' = [wrow EXCEPT ![w] = NoRow]
    /\ UNCHANGED <<db, used, lock, keys, apiVars, msgs, clusters, cfg, wtgt, board>>

---------------------------------------------------------------------------
(* The handler's memory of the service states.                             *)

(* getClusterStatusMonitor stores an entry for the cluster of the message. *)
StatusMessage(c) ==
    /\ Msg("status", c) \in msgs
    /\ msgs' = msgs \ {Msg("status", c)}
    /\ board' = board \cup {c}
    /\ UNCHANGED <<db, used, lock, keys, apiVars, leaderVars, workerVars>>

(* deleteClusterMonitor. *)
ServiceDeleteMessage(c) ==
    /\ Msg("serviceDelete", c) \in msgs
    /\ msgs' = msgs \ {Msg("serviceDelete", c)}
    /\ board' = board \ {c}
    /\ UNCHANGED <<db, used, lock, keys, apiVars, leaderVars, workerVars>>

---------------------------------------------------------------------------
(* Steps a goroutine takes on its own once it has been started. *)
ThreadStep(t) ==
    \/ AddCluster(t) \/ SyncInit(t) \/ NewSynchronizer(t) \/ SyncEnd(t)
    \/ DeleteRow(t) \/ DeleteClusters(t) \/ DeleteCluster(t)
    \/ ExceptionStore(t) \/ ExceptionCheck(t) \/ ExceptionSave(t)

Request(t, c) ==
    \/ Add(t, c) \/ UpdateCluster(t, c) \/ UpdateCredential(t, c)
    \/ SyncCluster(t, c) \/ DeleteLock(t, c) \/ ExceptionRead(t, c)

WorkerStep(w) ==
    \/ CheckClusterStart(w) \/ CheckCluster(w)
    \/ updateClusterState(w) \/ CheckClusterEnd(w)

Deliver(c) ==
    CreatedRead(c) \/ DeletedNotice(c) \/ StatusMessage(c) \/ ServiceDeleteMessage(c)

Next ==
    \/ \E t \in Thread, c \in Cluster : Request(t, c)
    \/ \E t \in Thread : ThreadStep(t)
    \/ \E c \in Cluster : Deliver(c)
    \/ CreatedRegister
    \/ \E w \in Checker, c \in Cluster : HealthCheckClusterList(w, c)
    \/ \E w \in Worker : WorkerStep(w)

Spec == Init /\ [][Next]_vars

(***************************************************************************)
(* Goroutines keep running (weak fairness); a waiter of the etcd mutex     *)
(* gets it, since etcd serves waiters in the order of their revisions      *)
(* (strong fairness of the two steps that wait for it); the leader's loop  *)
(* visits every cluster again and again (strong fairness per cluster, a    *)
(* goroutine can always be started); messages are delivered.               *)
(***************************************************************************)
Fairness ==
    /\ \A t \in Thread : WF_vars(ThreadStep(t)) /\ SF_vars(SyncInit(t))
    /\ \A w \in Worker : WF_vars(WorkerStep(w)) /\ SF_vars(updateClusterState(w))
    /\ \A c \in Cluster :
           /\ SF_vars(CreatedRead(c)) /\ WF_vars(DeletedNotice(c))
           /\ WF_vars(StatusMessage(c)) /\ WF_vars(ServiceDeleteMessage(c))
    /\ \A c \in Cluster : SF_vars(\E w \in Checker : HealthCheckClusterList(w, c))
    /\ WF_vars(CreatedRegister)

FairSpec == Spec /\ Fairness

---------------------------------------------------------------------------
(* Every variable has its type; a check under way has a row to save.       *)
TypeOK ==
    /\ db \in [Cluster -> Row \cup {NoRow}]
    /\ used \subseteq Cluster
    /\ lock \in [Cluster -> Thread \cup {Free}]
    /\ keys \in [Cluster -> SUBSET Key]
    /\ pc \in [Thread -> ThreadPC]
    /\ tgt \in [Thread -> Cluster]
    /\ seen \in [Thread -> Row \cup {NoRow}]
    /\ msgs \subseteq Message
    /\ clusters \in [Cluster -> Row \cup {NoRow}]
    /\ isRunningC \in [Cluster -> {"absent", "no", "yes"}]
    /\ cfg \subseteq Cluster
    /\ wpc \in [Worker -> WorkerPC]
    /\ wtgt \in [Worker -> Cluster]
    /\ wrow \in [Worker -> Row \cup {NoRow}]
    /\ board \subseteq Cluster
    /\ \A w \in Worker : wpc[w] # "idle" => wrow[w] # NoRow

(* A synchronisation that got past NewSynchronizer never sees its cluster  *)
(* disappear: DeleteCluster and the sync goroutines exclude each other     *)
(* through ClusterDBLock (handler.go, SyncCluster and DeleteCluster).      *)
SyncHasRow == \A t \in Thread : pc[t] = "syncRun" => Exists(tgt[t])

(* No late save of a row cached by a health check brings a deleted cluster *)
(* back (health_check.go, updateClusterState looks the row up first); only *)
(* the last step of SyncException can.                                     *)
OnlyExceptionRevives ==
    [][\A c \in Cluster : c \in used /\ db[c] = NoRow /\ db'[c] # NoRow =>
          \E t \in Thread : pc[t] = "exSave" /\ tgt[t] = c]_vars

(* No request goroutine is between NewSynchronizer and the end of a        *)
(* synchronisation while another one is deleting the same cluster          *)
(* (handler.go, both take ClusterDBLock).                                  *)
Syncing == {"syncNew", "syncRun"}
Deleting == {"delTx", "delStore", "delNotice"}
NoSyncDuringDelete ==
    \A t, u \in Thread : pc[t] \in Syncing /\ pc[u] \in Deleting => tgt[t] # tgt[u]

(* The inductive invariant behind the properties above: a goroutine in a   *)
(* critical section holds the lock of its cluster, SyncException has the   *)
(* row it read, and only SyncException is at its control points.           *)
InException == {"exStore", "exCheck", "exSave"}
Inductive ==
    /\ TypeOK
    /\ SyncHasRow
    /\ \A t \in Thread :
          /\ pc[t] \in Syncing \cup Deleting => lock[tgt[t]] = t
          /\ pc[t] \in InException =>
                seen[t] # NoRow /\ tgt[t] \in used /\ "Exception" \in Ops
    /\ \A c \in Cluster : Exists(c) => c \in used

(* The state of a cluster as a client sees it, and the abstract registry   *)
(* that the requests implement.                                            *)
regState ==
    [c \in Cluster |->
        IF \E t \in Thread : pc[t] = "syncRun" /\ tgt[t] = c THEN "syncing"
        ELSE IF Exists(c) THEN "registered"
        ELSE IF c \in used THEN "deleted" ELSE "unknown"]
Registry == INSTANCE ClusterRegistry
    WITH state <- regState, Revivable <- ("Exception" \in Ops)

(* The requests implement the abstract registry: a deletion waits for a    *)
(* synchronisation and, unless clients use SyncException, is final         *)
(* (handler.go, the requests on a cluster).                                *)
ImplementsRegistry == Registry!RegistrySpec

(* A deleted cluster stays deleted (cluster.go, Delete). *)
DeletedStaysDeleted ==
    [][\A c \in Cluster : c \in used /\ db[c] = NoRow => db'[c] = NoRow]_vars

(* What UpdateCluster and UpdateCredential changed is not undone by a      *)
(* later write of another actor.                                           *)
UpdatesSurvive ==
    [][\A c \in Cluster : Exists(c) /\ db'[c] # NoRow => db'[c] >= db[c]]_vars

Idle == \A t \in Thread : pc[t] = "idle"
Deleted(c) == c \in used /\ ~Exists(c)

(* Once all requests are over, nothing is left under clusters/<id> of a    *)
(* deleted cluster (cluster_util.go, DeleteClusters).                      *)
KeysGone == Idle => \A c \in Cluster : Deleted(c) => keys[c] = {}

(* Once all requests are over and their notices delivered, the leader has  *)
(* no deleted cluster in its list (monitor.go, deleteClusterEventMonitor). *)
LeaderForgets ==
    Idle /\ wpc[Notice] = "idle" => \A c \in Cluster :
        Deleted(c) /\ {Msg("created", c), Msg("deleted", c)} \cap msgs = {}
            => clusters[c] = NoRow

(* Once the deletion and all status messages are delivered, the handler    *)
(* keeps no service states of a deleted cluster (handler/monitor.go,       *)
(* deleteClusterMonitor).                                                  *)
HandlerForgets ==
    Idle => \A c \in Cluster :
        Deleted(c) /\ {Msg("status", c), Msg("serviceDelete", c)} \cap msgs = {}
            => c \notin board

(* A deletion that reaches its last step has removed the row               *)
(* (cluster.go, Delete, and the transaction it runs in).                   *)
DeletionDeletes == \A t \in Thread : pc[t] = "delNotice" => Deleted(tgt[t])

(* isRunningC keeps the checks of a cluster apart: at most one periodic    *)
(* check of a cluster is under way (health_check.go,                       *)
(* healthCheckClusterList).                                                *)
OneCheckPerCluster ==
    \A v, w \in Checker : v # w /\ wpc[v] # "idle" /\ wpc[w] # "idle"
        => wtgt[v] # wtgt[w]

(* Every request goroutine ends, whatever the others do with the lock. *)
RequestsEnd == \A t \in Thread : pc[t] # "idle" ~> pc[t] = "idle"

(* The leader checks a cluster of its list again and again until it is     *)
(* told of its deletion (health_check.go, healthCheckClusterList).         *)
ChecksRecur ==
    \A c \in Cluster : clusters[c] # NoRow ~>
        (clusters[c] = NoRow \/ \E w \in Checker : wpc[w] = "save" /\ wtgt[w] = c)
=============================================================================
