------------------------ MODULE MCClusterLifecycle ------------------------
(***************************************************************************)
(* Instances of ClusterLifecycle for TLC.                                  *)
(***************************************************************************)
EXTENDS ClusterLifecycle, TLC

CONSTANTS c1, c2, t1, t2, k1, k2

OneCluster == {c1}
TwoClusters == {c1, c2}
OneThread == {t1}
TwoThreads == {t1, t2}
OneChecker == {k1}
TwoCheckers == {k1, k2}

EveryOp == AllOps
NoException == AllOps \ {"Exception"}

Symmetry == Permutations(Cluster) \cup Permutations(Thread) \cup Permutations(Checker)
=============================================================================
