--------------------------------- MODULE MCBus ---------------------------------
(***************************************************************************)
(* Instances of BusDelivery for TLC.  Receivers never interact; two of them *)
(* are enough to see one lag while the other keeps up.                      *)
(***************************************************************************)
EXTENDS BusDelivery
===============================================================================
