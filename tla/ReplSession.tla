------------------------------ MODULE ReplSession ------------------------------
(***************************************************************************)
(* What SerialReplSession (src/src/repl_client.rs) knows of its locals     *)
(* after each snippet.  The device keeps nothing between snippets: the     *)
(* values of all locals are sent with every snippet and come back with its *)
(* response.  That a string was moved out of a local is not sent; the      *)
(* session works it out from the bytecode and from what came back.         *)
(*                                                                         *)
(* Locals here are strings.  A snippet is the sequence of its moves,       *)
(* copies and stores, some of them in branches of their own that may be    *)
(* passed by; a run-time error may end the run anywhere.  To move is to    *)
(* leave Null behind; a copy is a move in the language that the bytecode   *)
(* carries out by copying, without Null.                                   *)
(***************************************************************************)
EXTENDS Integers, Sequences, FiniteSets

CONSTANTS
    Name,       \* names of locals
    Optional,   \* those declared with an optional type (string?)
    MaxLength,  \* bound: moves, copies and stores in a snippet
    MaxSnippets \* bound: snippets that are run

ASSUME NameAssumption == Optional \subseteq Name
ASSUME BoundsAssumption == MaxLength \in Nat /\ MaxSnippets \in Nat

VARIABLES
    bound,    \* the names in locals
    moved,    \* those marked moved
    gone,     \* those whose string was moved away on the device
    unset,    \* those that were declared and never stored
    given,    \* ghost: those the last snippet gave away by a copy
    whole,    \* ghost: the last snippet that was answered ran all of itself
    misread,  \* ghost: those whose Null it took for a string
    snippets  \* snippets run so far

vars == <<bound, moved, gone, unset, given, whole, misread, snippets>>

\* Those whose value is Null.
Nulls == gone \union unset

Op == [op : {"move", "copy", "store"}, name : Name, branch : BOOLEAN]

Snippet == UNION {[1..k -> Op] : k \in 0..MaxLength}

Init ==
    /\ bound = {} /\ moved = {} /\ gone = {} /\ unset = {} /\ given = {}
    /\ whole = TRUE /\ misread = {}
    /\ snippets = 0

-----------------------------------------------------------------------------
\* The last of the places I in snippet s that concern n, or 0.
LastOf(s, I, n) ==
    LET At == {i \in I : s[i].name = n}
    IN  IF At = {} THEN 0 ELSE CHOOSE i \in At : \A j \in At : j <= i

\* What a run of s to its end may execute: all that is in no branch.
Paths(s) == {P \in SUBSET DOMAIN s : \A i \in DOMAIN s : s[i].branch \/ i \in P}

\* On path P a string is there at place i: it was stored before, or it is bound
\* and not marked moved.
Usable(s, P, i) ==
    LET before == LastOf(s, P \cap (1..(i - 1)), s[i].name)
    IN  IF before = 0 THEN s[i].name \in bound \ moved
        ELSE s[before].op = "store"

\* The names that exist at place i, executed or not: what is stored in a branch
\* does not declare its name outside of it.
Declared(s, i) ==
    bound \union {s[j].name : j \in {k \in 1..(i - 1) : ~s[k].branch}}

\* External: the compiler accepts a move or copy of what is there whichever
\* branches are taken.
Compiles(s) ==
    /\ \A i \in DOMAIN s : s[i].branch => s[i].name \in Declared(s, i)
    /\ \A P \in Paths(s) : \A i \in P : s[i].op # "store" => Usable(s, P, i)

\* The bindings of the compiled snippet.
Bindings(s) == bound \union {s[i].name : i \in DOMAIN s}

\* Mutant: a store after a move does not take the mark back.
MovedByRebindingForGood(s) ==
    {n \in bound : \E i \in DOMAIN s : s[i].name = n /\ s[i].op # "store"}

\* locals_moved_by_rebinding: the bytecode is read once from its start to its
\* end, and only the names that were bound before are looked at.  A copy to
\* another slot (direct_target) counts like a store of Null or DetachLocal.
MovedByRebinding(s) ==
    {n \in bound : LET i == LastOf(s, DOMAIN s, n) IN i # 0 /\ s[i].op # "store"}

\* The places in E that change the local they name.
Changes(s, E) == {i \in E : s[i].op # "copy"}

\* The device executes the places E of s: a move leaves Null behind.
GoneAfter(s, E) ==
    {n \in Bindings(s) :
        LET i == LastOf(s, Changes(s, E), n)
        IN  IF i = 0 THEN n \in gone ELSE s[i].op = "move"}

UnsetAfter(s, E) ==
    {n \in Bindings(s) :
        LastOf(s, Changes(s, E), n) = 0 /\ (n \in bound => n \in unset)}

GivenAfter(s) ==
    {n \in bound : LET i == LastOf(s, DOMAIN s, n) IN i # 0 /\ s[i].op = "copy"}

\* What the device finds at place i of s, of which it executes the places E.
NullAt(s, E, i) ==
    LET before == LastOf(s, Changes(s, E \cap (1..(i - 1))), s[i].name)
    IN  IF before = 0 THEN s[i].name \in Nulls \/ s[i].name \notin bound
        ELSE s[before].op = "move"

Misread(s, E) ==
    {s[i].name : i \in {j \in E : s[j].op # "store" /\ NullAt(s, E, j)}}

\* Mutant: only the bytecode is consulted.
MarkedMovedByCode(moves, nulls) == moves

\* sync: a local that is not optional and came back as Null must have been
\* moved.  (The code asks for a string's or a byte string's schema, which all
\* locals here have.)
MarkedMoved(moves, nulls) == moves \union (nulls \ Optional)

\* eval of a snippet that compiles and is answered: it took path P and came as
\* far as place k.  Only what a successful run is known to have moved is taken
\* from the bytecode.
Eval ==
    /\ snippets < MaxSnippets
    /\ snippets' = snippets + 1
    /\ \E s \in Snippet :
          /\ Compiles(s)
          /\ \E P \in Paths(s), k \in 0..Len(s), status \in {"ok", "error"} :
                LET E == P \cap (1..k)
                IN  /\ status = "ok" => k = Len(s)
                    /\ bound' = Bindings(s)
                    /\ gone' = GoneAfter(s, E)
                    /\ unset' = UnsetAfter(s, E)
                    /\ given' = GivenAfter(s)
                    /\ misread' = Misread(s, E)
                    /\ moved' = MarkedMoved(IF status = "ok" THEN MovedByRebinding(s)
                                            ELSE {}, Nulls')
                    /\ whole' = (status = "ok" /\ E = DOMAIN s)

\* eval of a snippet that does not compile, or gets no response, or one that
\* cannot be decoded: the session is left as it is.
EvalFails ==
    /\ snippets < MaxSnippets
    /\ snippets' = snippets + 1
    /\ UNCHANGED <<bound, moved, gone, unset, given, whole, misread>>

\* Mutant: the marks outlive the locals.
ClearKeepsMarks ==
    /\ bound' = {} /\ gone' = {} /\ unset' = {} /\ given' = {}
    /\ whole' = TRUE /\ misread' = {}
    /\ UNCHANGED <<moved, snippets>>

\* :clear
Clear ==
    /\ bound' = {} /\ moved' = {} /\ gone' = {} /\ unset' = {} /\ given' = {}
    /\ whole' = TRUE /\ misread' = {}
    /\ UNCHANGED snippets

Next == Eval \/ EvalFails \/ Clear

Spec == Init /\ [][Next]_vars

-----------------------------------------------------------------------------
(* Properties *)

\* Every variable stays within its type; only bound names are marked.
TypeOK ==
    /\ bound \subseteq Name
    /\ moved \subseteq bound
    /\ gone \subseteq bound
    /\ unset \subseteq bound
    /\ gone \cap unset = {}
    /\ given \subseteq bound
    /\ whole \in BOOLEAN
    /\ misread \subseteq Name
    /\ snippets \in 0..MaxSnippets

\* No snippet that compiles takes a Null for the string that a required local
\* promises: whatever earlier snippets moved away and in which branch, where
\* they failed, and whether they reached what they declared.
NullNeverTaken == misread \subseteq Optional

\* Its inductive strengthening: a required local that is null is marked moved.
RequiredNeverNull ==
    (bound \ Optional) \cap Nulls \subseteq moved

\* A local that holds a value can be used: after a snippet that ran to its end
\* nothing is marked moved that was stored again, in the same snippet or since.
\* (The value of a string that was given away by a copy is still there; its
\* mark is gone after one more snippet.)
NoStaleMark == whole => moved \subseteq Nulls \union given

\* "moved_optional_string_is_rejected_before_device_write"
\* (src/src/repl_client.rs:773): an optional string that was moved away is
\* marked moved, so that the compiler rejects it, as well.
OptionalMoveRemembered ==
    bound \cap Optional \cap gone \subseteq moved

================================================================================
