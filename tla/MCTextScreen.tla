---------------------------- MODULE MCTextScreen ----------------------------
(***************************************************************************)
(* Instances of TextScreen for TLC: two rows whose marks share a word.     *)
(***************************************************************************)
EXTENDS TextScreen
==============================================================================
