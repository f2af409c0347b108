------------------------------- MODULE ReplInput -------------------------------
(***************************************************************************)
(* The loop of src/src/bin/rustscript-serial-repl.rs: lines are collected  *)
(* until is_repl_input_complete (src/src/repl_client.rs) says that they    *)
(* are a snippet, which is evaluated; lines that begin with a dot are      *)
(* commands.  What an evaluation does is in ReplLink and ReplSession.      *)
(*                                                                         *)
(* A text is a sequence of characters, of which "x" and "+" stand for all  *)
(* that begin nothing and for the operators of one character that do       *)
(* nothing else.                                                           *)
(***************************************************************************)
EXTENDS Integers, Sequences, SequencesExt

CONSTANTS
    Character,
    Line,     \* lines that are typed, with the newline
    MaxLines  \* bound: lines typed

Newline == "\n"
Quote == "\""
Backslash == "\\"
Space == {" ", Newline}
Closing == [open \in {"(", "[", "{"} |->
               CASE open = "(" -> ")" [] open = "[" -> "]" [] open = "{" -> "}"]
Opening == DOMAIN Closing
Closers == {Closing[o] : o \in Opening}

\* A line ends at its newline.  The last of the input may have none.
ASSUME LineAssumption ==
    \A l \in Line : /\ l \in Seq(Character) /\ l # <<>>
                     /\ \A i \in 1..(Len(l) - 1) : l[i] # Newline

VARIABLES
    pending,  \* the text of the lines read since the last snippet
    snippet,  \* the last snippet that was evaluated
    cleared,  \* no snippet was evaluated since the session was cleared
    running,
    lines     \* lines read

inputVars == <<pending, snippet, cleared, running, lines>>

-----------------------------------------------------------------------------
(* is_repl_input_complete *)

\* mode is one of in_line_comment, in_block_comment, in_string, escaped and
\* none of them; skip: the character was taken together with the one before.
Start == [mode |-> "code", stack |-> <<>>, code |-> <<>>, skip |-> FALSE,
          mismatch |-> FALSE]

Kept(s, ch) == [s EXCEPT !.code = Append(@, ch)]

\* Mutant: a quote ends a string, escaped or not.
InStringNoEscape(s, ch) ==
    IF ch = Quote THEN [Kept(s, ch) EXCEPT !.mode = "code"] ELSE s

InString(s, ch) ==
    CASE s.mode = "escaped" -> [s EXCEPT !.mode = "string"]
      [] s.mode = "string" /\ ch = Backslash -> [s EXCEPT !.mode = "escaped"]
      [] s.mode = "string" /\ ch = Quote -> [Kept(s, ch) EXCEPT !.mode = "code"]
      [] OTHER -> s

InComment(s, ch, next) ==
    CASE s.mode = "line" /\ ch = Newline -> [Kept(s, ch) EXCEPT !.mode = "code"]
      [] s.mode = "block" /\ ch = "*" /\ next = "/" ->
            [s EXCEPT !.mode = "code", !.skip = TRUE]
      [] OTHER -> s

\* Mutant: a closing delimiter closes whatever is open.
InCodeAnyCloser(s, ch, next) ==
    CASE ch = "/" /\ next = "/" -> [s EXCEPT !.mode = "line", !.skip = TRUE]
      [] ch = "/" /\ next = "*" -> [s EXCEPT !.mode = "block", !.skip = TRUE]
      [] ch = Quote -> [Kept(s, ch) EXCEPT !.mode = "string"]
      [] ch \in Opening -> [Kept(s, ch) EXCEPT !.stack = Append(@, ch)]
      [] ch \in Closers /\ s.stack = <<>> -> [s EXCEPT !.mismatch = TRUE]
      [] ch \in Closers /\ s.stack # <<>> -> [Kept(s, ch) EXCEPT !.stack = Front(@)]
      [] OTHER -> Kept(s, ch)

InCode(s, ch, next) ==
    LET closes == s.stack # <<>> /\ ch = Closing[Last(s.stack)]
    IN  CASE ch = "/" /\ next = "/" -> [s EXCEPT !.mode = "line", !.skip = TRUE]
          [] ch = "/" /\ next = "*" -> [s EXCEPT !.mode = "block", !.skip = TRUE]
          [] ch = Quote -> [Kept(s, ch) EXCEPT !.mode = "string"]
          [] ch \in Opening -> [Kept(s, ch) EXCEPT !.stack = Append(@, ch)]
          [] ch \in Closers /\ ~closes -> [s EXCEPT !.mismatch = TRUE]
          [] ch \in Closers /\ closes -> [Kept(s, ch) EXCEPT !.stack = Front(@)]
          [] OTHER -> Kept(s, ch)

Read(s, ch, next) ==
    CASE s.mismatch -> s
      [] ~s.mismatch /\ s.skip -> [s EXCEPT !.skip = FALSE]
      [] OTHER -> CASE s.mode = "code" -> InCode(s, ch, next)
                    [] s.mode \in {"line", "block"} -> InComment(s, ch, next)
                    [] s.mode \in {"string", "escaped"} -> InString(s, ch)

\* INCOMPLETE: the tokens of one character, and of those of two the ones that
\* do not end in one of them.
Incomplete == {"+", "=", "/", "*"}
IncompletePair(a, b) == <<a, b>> \in {<<"=", ">">>, <<"&", "&">>, <<"|", "|">>}

\* The text ends in a token of INCOMPLETE, white space aside.
EndsInOperator(code) ==
    LET ends == {i \in DOMAIN code : code[i] \notin Space}
        n == CHOOSE i \in ends : \A j \in ends : j <= i
    IN  /\ ends # {}
        /\ \/ code[n] \in Incomplete
           \/ n > 1 /\ IncompletePair(code[n - 1], code[n])

\* The locals of the loop after each of the characters; peek is empty behind
\* the last.
After(input) ==
    LET peek(i) == IF i < Len(input) THEN input[i + 1] ELSE ""
        after[i \in 0..Len(input)] ==
            IF i = 0 THEN Start ELSE Read(after[i - 1], input[i], peek(i))
    IN  after

is_repl_input_complete(input) ==
    LET s == After(input)[Len(input)]
    IN  \/ s.mismatch
        \/ /\ s.mode \in {"code", "line"}
           /\ s.stack = <<>>
           /\ ~EndsInOperator(s.code)

-----------------------------------------------------------------------------
(* The loop *)

InputInit ==
    /\ pending = <<>> /\ snippet = <<>>
    /\ cleared = TRUE
    /\ running = TRUE
    /\ lines = 0

\* A line is read.
ReadLine == running /\ lines < MaxLines /\ lines' = lines + 1

\* .quit, .exit, or the end of the input.
Quit ==
    /\ ReadLine
    /\ running' = FALSE
    /\ UNCHANGED <<pending, snippet, cleared>>

Cancel ==
    /\ ReadLine
    /\ pending' = <<>>
    /\ UNCHANGED <<snippet, cleared, running>>

\* .clear is a command only between snippets.
ClearCommand ==
    /\ ReadLine /\ pending = <<>>
    /\ cleared' = TRUE
    /\ UNCHANGED <<pending, snippet, running>>

\* .help, an unknown command or a blank line between snippets.
NoOp ==
    /\ ReadLine /\ pending = <<>>
    /\ UNCHANGED <<pending, snippet, cleared, running>>

Blank(l) == \A i \in DOMAIN l : l[i] \in Space

Collect(l) ==
    /\ ReadLine
    /\ ~(Blank(l) /\ pending = <<>>)
    /\ ~is_repl_input_complete(pending \o l)
    /\ pending' = pending \o l
    /\ UNCHANGED <<snippet, cleared, running>>

EvalPending(l) ==
    /\ ReadLine
    /\ ~(Blank(l) /\ pending = <<>>)
    /\ is_repl_input_complete(pending \o l)
    /\ snippet' = pending \o l
    /\ pending' = <<>>
    /\ cleared' = FALSE
    /\ UNCHANGED running

InputNext ==
    \/ Quit \/ Cancel \/ ClearCommand \/ NoOp
    \/ \E l \in Line : Collect(l) \/ EvalPending(l)

InputSpec == InputInit /\ [][InputNext]_inputVars

=============================================================================
