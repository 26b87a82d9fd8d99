-------------------------------- MODULE MCCluster -------------------------------
(***************************************************************************)
(* The instance of Cluster for TLC.  Requests and ids are interchangeable.  *)
(***************************************************************************)
EXTENDS Cluster, TLC

RequestSymmetry == Permutations(Requests) \cup Permutations(Ids)
===============================================================================
