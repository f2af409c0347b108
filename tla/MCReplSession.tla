---------------------------- MODULE MCReplSession ----------------------------
(* A required string and an optional one. *)
EXTENDS ReplSession

CONSTANTS a, c

MCName == {a, c}
MCOptional == {c}

==============================================================================
