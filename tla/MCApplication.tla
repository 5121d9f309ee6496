----------------------------- MODULE MCApplication -----------------------------
(***************************************************************************)
(* Instances of Application for TLC: two keys, so that their order shows.  *)
(***************************************************************************)
EXTENDS Application
================================================================================
