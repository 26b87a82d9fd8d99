-------------------------------- MODULE MCParser --------------------------------
(***************************************************************************)
(* Instances of RLPGParser for TLC: base 2, a header of two bytes, and four *)
(* bytes to tell apart (two digits, the newline and another one).           *)
(***************************************************************************)
EXTENDS RLPGParser

MCHeader == <<100, 10>>
===============================================================================
