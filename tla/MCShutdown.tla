------------------------------- MODULE MCShutdown -------------------------------
(***************************************************************************)
(* Instances of WorkerShutdown for TLC.                                     *)
(***************************************************************************)
EXTENDS WorkerShutdown
===============================================================================
