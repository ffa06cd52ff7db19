----------------------------- MODULE MCCluster -----------------------------
(* Cluster for model checking. *)
EXTENDS Cluster, TLC

ClusterSymmetry == Permutations(Nodes) \cup Permutations(Users)
=============================================================================
