----------------------------- MODULE MCSyncJob -----------------------------
(***************************************************************************)
(* Instances of SyncJob for TLC.                                           *)
(***************************************************************************)
EXTENDS SyncJob, TLC

CONSTANTS j1, j2
TwoJobs == {j1, j2}
Symmetry == Permutations(Job)
=============================================================================
