----------------------------- MODULE MCReplLink -----------------------------
(* ReplLink for TLC: the constants are given in the .cfg files. *)
EXTENDS ReplLink

=============================================================================
