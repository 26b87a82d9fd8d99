-------------------------------- MODULE MCWorker --------------------------------
(***************************************************************************)
(* Instances of WorkerHandler for TLC.  Commands of one kind are            *)
(* interchangeable.                                                         *)
(***************************************************************************)
EXTENDS WorkerRefinement, TLC

CommandSymmetry == Permutations(Loads) \cup Permutations(Generates)
===============================================================================
