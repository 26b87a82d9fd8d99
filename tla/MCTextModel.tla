------------------------------- MODULE MCTextModel ------------------------------
(***************************************************************************)
(* An instance of TextModel for TLC: two end tokens, and prompts of         *)
(* different lengths, one of which begins the other.                        *)
(***************************************************************************)
EXTENDS TextModel

CONSTANTS bos, word, eos1, eos2

MCToken == {bos, word, eos1, eos2}
MCPrompts == {<<bos>>, <<bos, word>>}
MCEos == {eos1, eos2}
===============================================================================
