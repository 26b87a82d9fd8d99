------------------------------- MODULE MCGateway -------------------------------
(***************************************************************************)
(* Instances of WorkerGateway for TLC.  Addresses are numbers because the   *)
(* registered workers are ordered; requests and ids are interchangeable.    *)
(***************************************************************************)
EXTENDS WorkerGateway, TLC

RequestSymmetry == Permutations(Requests) \cup Permutations(Ids)
===============================================================================
