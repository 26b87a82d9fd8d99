------------------------------ MODULE MCConnection ------------------------------
(***************************************************************************)
(* An instance of Connection for TLC: base 2, two versions whose headers    *)
(* are two bytes long, and frames longer than the four bytes in flight.     *)
(* One of the bodies looks like the start of a frame, one is empty.         *)
(***************************************************************************)
EXTENDS Connection

MCHeaders == {<<100, 10>>, <<101, 10>>}

MCBodies == [s \in Side |-> IF s = "master" THEN <<<<100, 10>>, <<>>>> ELSE <<<<10>>>>]
===============================================================================
