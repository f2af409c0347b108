------------------------------ MODULE SessionStore ------------------------------
(***************************************************************************)
(* The values of a REPL session as its user thinks of them: one            *)
(* environment of named values, in which snippets run one after another.   *)
(* There are no slots, no encoding and no device.                          *)
(*                                                                         *)
(* A snippet works on a copy, which replaces the environment as a whole or *)
(* not at all.  The user is told that a snippet succeeded only if it ran   *)
(* to its end and its copy has become the environment.                     *)
(***************************************************************************)
CONSTANTS
    Name,
    Value,  \* what a name may hold, Null among it
    Null

VARIABLES
    phase,  \* "idle", or what has become of the snippet: "running", "complete"
            \* or "broken" (stopped early)
    env,    \* the names that are bound and their values
    work,   \* the snippet's copy
    told    \* what the user was told of the last snippet, when it has ended

vars == <<phase, env, work, told>>

Init ==
    /\ phase = "idle"
    /\ env = <<>> /\ work = <<>>
    /\ told = "nothing"

\* A name that the snippet declares begins as Null.
Begin(New) ==
    /\ phase = "idle"
    /\ phase' = "running"
    /\ work' = [n \in DOMAIN env \union New |->
                   IF n \in DOMAIN env THEN env[n] ELSE Null]
    /\ told' = "nothing"
    /\ UNCHANGED env

Assign(n, v) ==
    /\ phase = "running"
    /\ work' = [work EXCEPT ![n] = v]
    /\ UNCHANGED <<phase, env, told>>

\* A string is moved: its old name is left with Null.
Move(n, m) ==
    /\ phase = "running" /\ n # m
    /\ work' = [work EXCEPT ![m] = work[n], ![n] = Null]
    /\ UNCHANGED <<phase, env, told>>

Stop ==
    /\ phase = "running"
    /\ phase' \in {"complete", "broken"}
    /\ UNCHANGED <<env, work, told>>

Commit ==
    /\ phase \in {"complete", "broken"}
    /\ phase' = "idle"
    /\ env' = work
    /\ told' = IF phase = "complete" THEN "ok" ELSE "error"
    /\ UNCHANGED work

\* What has been computed cannot be kept.
Abort ==
    /\ phase \in {"complete", "broken"}
    /\ phase' = "idle"
    /\ work' = env
    /\ told' = "error"
    /\ UNCHANGED env

\* The snippet does not run at all.
Refuse ==
    /\ phase = "idle"
    /\ told' = "error"
    /\ UNCHANGED <<phase, env, work>>

Clear ==
    /\ phase = "idle"
    /\ env' = <<>> /\ work' = <<>>
    /\ UNCHANGED <<phase, told>>

Next ==
    \/ \E New \in SUBSET Name : Begin(New)
    \/ \E n \in DOMAIN work, v \in Value : Assign(n, v)
    \/ \E n, m \in DOMAIN work : Move(n, m)
    \/ Stop \/ Commit \/ Abort \/ Refuse \/ Clear

Spec == Init /\ [][Next]_vars

=================================================================================
