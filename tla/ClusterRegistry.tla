-------------------------- MODULE ClusterRegistry --------------------------
(***************************************************************************)
(* What the service promises about one cluster record, whatever goroutines *)
(* serve the requests: a cluster is registered once, a synchronisation     *)
(* runs on a registered cluster only and ends before the cluster can be    *)
(* deleted, and a deletion is final, or, where Revivable, can be undone    *)
(* only as a whole: the cluster is registered again.                       *)
(***************************************************************************)
CONSTANTS Cluster, Revivable
VARIABLE state

RegistryInit == state = [c \in Cluster |-> "unknown"]

Move(c, from, to) == state[c] = from /\ state' = [state EXCEPT ![c] = to]

Register(c) == Move(c, "unknown", "registered")
StartSync(c) == Move(c, "registered", "syncing")
EndSync(c) == Move(c, "syncing", "registered")
Remove(c) == Move(c, "registered", "deleted")
Restore(c) == Revivable /\ Move(c, "deleted", "registered")

RegistryNext ==
    \E c \in Cluster :
        Register(c) \/ StartSync(c) \/ EndSync(c) \/ Remove(c) \/ Restore(c)

RegistrySpec == RegistryInit /\ [][RegistryNext]_state
=============================================================================
