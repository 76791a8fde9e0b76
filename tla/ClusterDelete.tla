---------------------------- MODULE ClusterDelete ----------------------------
(***************************************************************************)
(* The deletion of all rows of a cluster (internal/cluster, deleteRelation)*)
(* as the sequence of its DELETE statements, each the set of rows that it  *)
(* removes. The rows of the cluster are d. The IDs in a condition are read *)
(* from d, too: no statement removes rows that a later condition is about. *)
(* Functions whose name a synchroniser has as well are distinguished by    *)
(* the package.                                                            *)
(***************************************************************************)
EXTENDS ResourceTables

There(d, k) == {r \in DOMAIN d : KindOf[r] = k}
\* The rows of a kind that name one of the rows in ids.
Where(d, k, ids) == {r \in There(d, k) : d[r].refs \cap ids # {}}

deleteClusterStorage(d) ==
    LET sid == There(d, "storage")
        vid == Where(d, "volume", sid)
    IN  <<Where(d, "snapshot", vid), Where(d, "instance_volume", vid), vid, sid>>

cluster_deleteSecurityGroup(d, tid) ==
    LET sgid == Where(d, "security_group", tid)
    IN  <<Where(d, "instance_sg", sgid), {r \in There(d, "rule") : Home[r] \in sgid}, sgid>>

(* Faulty variant: the interfaces are left to the deletion of the routers. *)
deleteClusterNetworkOnly(d, tid) ==
    LET nid == Where(d, "network", tid)
    IN  <<Where(d, "instance_network", nid), Where(d, "floating_ip", nid),
          Where(d, "subnet", nid), nid>>

deleteClusterNetwork(d, tid) ==
    LET nid == Where(d, "network", tid)
        subid == Where(d, "subnet", nid)
    IN  <<Where(d, "instance_network", nid), Where(d, "floating_ip", nid),
          Where(d, "interface", subid), subid, nid>>

cluster_deleteInstance(d, tid) ==
    <<Where(d, "instance", tid), There(d, "spec"), There(d, "keypair")>>

deleteClusterRouter(d, tid) == <<Where(d, "router", tid)>>

deleteRelation(d) ==
    LET tid == There(d, "tenant")
    IN  deleteClusterStorage(d) \o cluster_deleteSecurityGroup(d, tid)
        \o deleteClusterNetwork(d, tid) \o cluster_deleteInstance(d, tid)
        \o deleteClusterRouter(d, tid)
        \o <<tid, There(d, "hypervisor"), There(d, "zone")>>

\* The n-th statement is refused: a row that it removes is named by a row that
\* neither it nor a statement before it removes. Every foreign key of the schema
\* is ON DELETE RESTRICT.
Refused(d, statements, n) ==
    \E r \in DOMAIN d :
        /\ d[r].refs \cap statements[n] # {}
        /\ \A m \in 1..n : r \notin statements[m]

\* The transaction goes through: no statement is refused, and no row is left that
\* would refuse the DELETE of the cluster's own row after them. (No statement
\* removes a user script.)
GoesThrough(d, statements) ==
    /\ \A n \in DOMAIN statements : ~Refused(d, statements, n)
    /\ \A r \in DOMAIN d \ There(d, "script") :
          \E n \in DOMAIN statements : r \in statements[n]
=============================================================================
