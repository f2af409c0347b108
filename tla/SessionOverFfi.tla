----------------------------- MODULE SessionOverFfi -----------------------------
(***************************************************************************)
(* A REPL session (src/src/repl_client.rs) whose snippets run behind the C *)
(* interface.  The device keeps no locals: the session sends all of them   *)
(* with every snippet, by slot, and takes them back by slot; which slot a  *)
(* name has, the compiler decides anew for every snippet.  The line in     *)
(* between is ReplLink's subject and is taken as perfect here; its two     *)
(* ends still check the sizes of what they send, and refuse what they      *)
(* receive if it is too large or of too many values.                       *)
(*                                                                         *)
(* Between snippets, stored scripts and other callers use the same VM      *)
(* interface and the same host framework.                                  *)
(***************************************************************************)
EXTENDS FfiBoundary, FiniteSetsExt

CONSTANTS
    Name,
    Program, \* sizes of compiled snippets
    Nodes,   \* how many values a value is made of, itself counted
    MaxNodes \* MAX_VALUE_NODES

ASSUME ProgramAssumption == Program \subseteq Nat \ {0}
ASSUME NodesAssumption == Nodes \in [Wire -> Nat \ {0}] /\ MaxNodes \in Nat

VARIABLES
    locals,  \* SerialReplSession's locals: the bound names and their values
    slot,    \* the slots of the names in the snippet that is being run
    told     \* what eval returned: "ok", "error", or "size_error" if one end
             \* refused what the other has sent; "nothing" while it runs

session == <<locals, slot, told>>
vars == <<ffi, session>>

SessionInit ==
    /\ Init
    /\ locals = <<>> /\ slot = <<>>
    /\ told = "nothing"

-----------------------------------------------------------------------------
\* External: the compiler's choice of slots for the names bound in a snippet.
SlotMaps(names, k) ==
    {s \in [names -> 0..(k - 1)] : \A n, m \in names : s[n] = s[m] => n = m}

\* Mutant: the values are placed one after the other, in the order of the slots.
SeedInOrder(s, k) ==
    [i \in 0..(k - 1) |->
        LET At == {n \in DOMAIN locals : Cardinality({m \in DOMAIN locals : s[m] < s[n]}) = i}
        IN  IF At = {} THEN Null ELSE locals[CHOOSE n \in At : TRUE]]

\* Every local's value at the slot of its name, Null everywhere else.
Seed(s, k) ==
    [i \in 0..(k - 1) |->
        LET At == {n \in DOMAIN locals : s[n] = i}
        IN  IF At = {} THEN Null ELSE locals[CHOOSE n \in At : TRUE]]

\* Mutant: each part of the request is checked, but not their sum.
FitsRequestEach(program, state) == program <= Limit /\ state <= Limit

\* execute: the size of a request; encode_repl_state: the size of a state.
FitsRequest(program, state) == state <= Limit /\ program + state <= Limit

\* The board checks the lengths in the header again, in a way that cannot wrap.
BoardTakes(program, state) ==
    /\ program # 0 /\ state # 0
    /\ program <= Limit /\ state <= Limit /\ program <= Limit - state

NodesOf(values) == MapThenSumSet(LAMBDA i : Nodes[values[i]], DOMAIN values)

\* A state may be encoded that the decoder finds too many values in.
Arrives(state) == {"corrupt"} \union {b \in {"good"} : NodesOf(state) <= MaxNodes}

\* eval up to the call, for a snippet of p bytes with k locals that declares
\* the names New.
Eval(New, k, p) ==
    /\ pc = "idle"
    /\ \E s \in SlotMaps(DOMAIN locals \union New, k) :
          LET size == StateSize(Seed(s, k))
          IN  \/ /\ ~FitsRequest(p, size)
                 /\ told' = "error"
                 /\ UNCHANGED <<ffi, slot>>
              \/ /\ FitsRequest(p, size) /\ ~BoardTakes(p, size)
                 /\ told' = "size_error"
                 /\ UNCHANGED <<ffi, slot>>
              \/ /\ FitsRequest(p, size) /\ BoardTakes(p, size)
                 /\ \E program \in {"corrupt", "good"}, state \in Arrives(Seed(s, k)) :
                       rustscript_repl_run_vmbc("session",
                           [output |-> TRUE, program |-> program, state |-> state,
                            counted |-> TRUE],
                           Seed(s, k))
                 /\ slot' = s
                 /\ told' = IF pc' = "vm" THEN "nothing" ELSE told
    /\ UNCHANGED locals

\* A snippet that does not compile or cannot be encoded.
EvalFails ==
    /\ pc = "idle"
    /\ told' = "error"
    /\ UNCHANGED <<ffi, locals, slot>>

\* sync: the names take back the values at their slots.
Synced(response) == [n \in DOMAIN slot |-> response.locals[slot[n]]]

\* decode_repl_response: a response of too many values is not taken, although
\* the board could encode it and the snippet has run.
Decodes(response) ==
    NodesOf(response.locals)
        + (IF response.result = Empty THEN 0 ELSE Nodes[response.result]) <= MaxNodes

\* eval after the call.  Without a payload the status is all there is; with
\* one, the locals are taken over even if the snippet failed.
Receive ==
    /\ entry = "session"
    /\ rustscript_buffer_free
    /\ slot' = <<>>
    /\ \/ /\ out = Empty
          /\ told' = "error"
          /\ UNCHANGED locals
       \/ /\ out # Empty /\ ResponseSize(mem[out]) > Limit
          /\ told' = "size_error"
          /\ UNCHANGED locals
       \/ /\ out # Empty /\ ResponseSize(mem[out]) <= Limit /\ ~Decodes(mem[out])
          /\ told' = "error"
          /\ UNCHANGED locals
       \/ /\ out # Empty /\ ResponseSize(mem[out]) <= Limit /\ Decodes(mem[out])
          /\ told' = IF status = "ok" THEN "ok" ELSE "error"
          /\ locals' = Synced(mem[out])

\* :clear
Clear ==
    /\ pc = "idle"
    /\ locals' = <<>>
    /\ UNCHANGED <<ffi, slot, told>>

\* Other users of the interface: stored scripts and payloads of rss:load, and
\* calls of any kind that are refused.
Other ==
    /\ \/ \E args \in Args :
             /\ Checked(args) # "accepted"
             /\ rustscript_repl_run_vmbc("other", args, <<>>)
       \/ \E program \in Bytes : rustscript_run_vmbc(program)
       \/ entry = "other" /\ rustscript_buffer_free
    /\ UNCHANGED session

Next ==
    \/ \E New \in SUBSET Name, k \in 0..Slots, p \in Program : Eval(New, k, p)
    \/ EvalFails
    \/ Inside /\ UNCHANGED session
    \/ Receive \/ Clear \/ Other

Spec == SessionInit /\ [][Next]_vars

-----------------------------------------------------------------------------
(* Properties *)

\* Every variable stays within its type.
TypeOK ==
    /\ FfiTypeOK
    /\ DOMAIN locals \subseteq Name /\ \A n \in DOMAIN locals : locals[n] \in Wire
    /\ DOMAIN slot \subseteq Name /\ \A n \in DOMAIN slot : slot[n] \in 0..(Slots - 1)
    /\ told \in {"nothing", "ok", "error", "size_error"}

\* The two ends check how many bytes requests and responses have, separately
\* and in different ways, and agree: what one end sends is never too large for
\* the other.  This is about bytes only.  On the number of values the ends do not
\* agree, which WireCodec shows; here it is a refusal in Eval and in Receive.
SizesAgree == told # "size_error"

\* The snippet that the session has sent is being run, or was.
Ours == entry = "session" /\ vm # "none"

AbstractPhase ==
    IF ~Ours THEN "idle"
    ELSE IF vm = "running" THEN "running"
    ELSE IF vm = "halted" THEN "complete" ELSE "broken"

\* The snippet's copy is what the VM's locals refer to.
AbstractWork == IF Ours THEN [n \in DOMAIN slot |-> Deref(loc[slot[n]])] ELSE locals

AbstractTold == IF told \in {"nothing", "ok"} THEN told ELSE "error"

Abstract == INSTANCE SessionStore WITH
    phase <- AbstractPhase, env <- locals, work <- AbstractWork, told <- AbstractTold

\* The user sees one environment of names: a snippet works on what the last
\* one left, its effects are taken over as a whole or not at all, and it is
\* reported as successful only if it ran to its end and they were, also when the
\* response is encoded on one end and refused on the other.  Slots that
\* change with every snippet, host results in a buffer that is used again, and
\* scripts that run in between do not show.
ImplementsSessionStore == Abstract!Spec

================================================================================
