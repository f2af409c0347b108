------------------------------ MODULE ImageStore ------------------------------
(***************************************************************************)
(* What a board promises about its scripts, with no parts, no sectors and  *)
(* no checksums: it keeps one image or none, and it runs one image at a    *)
(* time.                                                                   *)
(*                                                                         *)
(* An image that was promised ("rss:installed") is kept until the promise  *)
(* has been withdrawn, which is the first thing an install does.  A new    *)
(* image appears at once and only where there is none, and nothing changes *)
(* while a script runs, except by the flash tool, which stops it.          *)
(***************************************************************************)
CONSTANTS
    Image,
    Nothing,
    FromCard   \* what is run from the card, which nobody vouches for

VARIABLES
    kept,      \* the image that is found after a reset
    promised,  \* the image that the user was told is kept
    running    \* what runs

vars == <<kept, promised, running>>

Init ==
    /\ kept = Nothing
    /\ promised = Nothing
    /\ running = Nothing

Idle == running = Nothing

RunKept ==
    /\ Idle /\ kept # Nothing
    /\ running' = kept
    /\ UNCHANGED <<kept, promised>>

\* An image is sent and run once.
RunSent(m) ==
    /\ Idle
    /\ running' = m
    /\ UNCHANGED <<kept, promised>>

RunCard ==
    /\ Idle
    /\ running' = FromCard
    /\ UNCHANGED <<kept, promised>>

\* A script ends, or the board is reset, where nothing may run.
Stop ==
    /\ running' = Nothing
    /\ UNCHANGED <<kept, promised>>

Withdraw ==
    /\ Idle
    /\ promised' = Nothing
    /\ UNCHANGED <<kept, running>>

Drop ==
    /\ Idle /\ promised = Nothing
    /\ kept' = Nothing
    /\ UNCHANGED <<promised, running>>

Keep(m) ==
    /\ Idle /\ promised = Nothing /\ kept = Nothing
    /\ kept' = m
    /\ UNCHANGED <<promised, running>>

\* An install succeeds: what is kept is promised, and is run.
Promise ==
    /\ Idle /\ kept # Nothing
    /\ promised' = kept
    /\ running' = kept
    /\ UNCHANGED kept

\* The flash tool writes an image, or only a part of it.
Flash ==
    /\ running' = Nothing
    /\ kept' \in Image \union {Nothing}
    /\ promised' = kept'

Next ==
    \/ RunKept \/ RunCard \/ Stop
    \/ \E m \in Image : RunSent(m) \/ Keep(m)
    \/ Withdraw \/ Drop \/ Promise \/ Flash

Spec == Init /\ [][Next]_vars

================================================================================
