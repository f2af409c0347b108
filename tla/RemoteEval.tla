----------------------------- MODULE RemoteEval -----------------------------
(***************************************************************************)
(* What the serial REPL promises its user, with no wire and no frames: one *)
(* snippet at a time is submitted for remote evaluation.  The board runs   *)
(* it at most once and never after a later one.  The session takes over a  *)
(* snippet's effects only if that very snippet ran, on top of the locals   *)
(* the session held when it was submitted; every other call of eval        *)
(* reports a failure and leaves the session as it was.                     *)
(*                                                                         *)
(* Snippets are numbered in the order of submission.  The session's locals *)
(* are abstracted to their lineage: the snippets whose effects they hold,  *)
(* oldest first.                                                           *)
(***************************************************************************)
EXTENDS Naturals, Sequences, SequencesExt

VARIABLES
    phase,   \* "idle", or "pending" while a call of eval has not returned
    cur,     \* number of the latest snippet submitted
    ran,     \* the snippets the board has run, in the order it ran them
    locals   \* lineage of the session's locals

vars == <<phase, cur, ran, locals>>

Init ==
    /\ phase = "idle"
    /\ cur = 0
    /\ ran = <<>>
    /\ locals = <<>>

Submit ==
    /\ phase = "idle"
    /\ phase' = "pending"
    /\ cur' = cur + 1
    /\ UNCHANGED <<ran, locals>>

\* The board may run a snippet whose eval has already given up on it, but
\* not after a later snippet, and never twice.
Execute(n) ==
    /\ n <= cur
    /\ \A m \in ToSet(ran) : m < n
    /\ ran' = Append(ran, n)
    /\ UNCHANGED <<phase, cur, locals>>

Adopt ==
    /\ phase = "pending"
    /\ cur \in ToSet(ran)
    /\ phase' = "idle"
    /\ locals' = Append(locals, cur)
    /\ UNCHANGED <<cur, ran>>

Fail ==
    /\ phase = "pending"
    /\ phase' = "idle"
    /\ UNCHANGED <<cur, ran, locals>>

Clear ==
    /\ phase = "idle"
    /\ locals' = <<>>
    /\ UNCHANGED <<phase, cur, ran>>

Next ==
    \/ Submit
    \/ \E n \in 1..cur : Execute(n)
    \/ Adopt
    \/ Fail
    \/ Clear

Spec == Init /\ [][Next]_vars

=============================================================================
