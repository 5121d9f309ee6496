----------------------------- MODULE MCFileTable -----------------------------
(***************************************************************************)
(* An instance of FileTable for TLC: a context with one descriptor beyond  *)
(* the five it begins with, so that the table is often full.               *)
(***************************************************************************)
EXTENDS FileTable, TLC

Symmetry == Permutations(File) \cup Permutations(HostFd)
==============================================================================
