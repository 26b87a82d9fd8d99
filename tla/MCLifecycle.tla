------------------------------- MODULE MCLifecycle -------------------------------
(***************************************************************************)
(* Instances of MasterLifecycle for TLC.                                    *)
(***************************************************************************)
EXTENDS MasterLifecycle
===============================================================================
