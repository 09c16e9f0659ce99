------------------------------- MODULE MCStart -------------------------------
(***************************************************************************)
(* Instances of Start for TLC: types on both sides of the valid ones,      *)
(* sizes that are negative, zero and positive.                             *)
(***************************************************************************)
EXTENDS Start

MCTypeNumbers == -1..4
MCSizeNumbers == {-1, 0, 2}
=============================================================================
