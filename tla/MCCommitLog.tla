----------------------------- MODULE MCCommitLog -----------------------------
(***************************************************************************)
(* Finite instances of CommitLog for TLC.                                  *)
(***************************************************************************)
EXTENDS CommitLog
=============================================================================
