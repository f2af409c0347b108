----------------------------- MODULE InputReference -----------------------------
(***************************************************************************)
(* What it means that a text is complete, and what the loop of ReplInput   *)
(* owes to it: token by token instead of character by character, and with  *)
(* the depth of nesting instead of a stack.                                *)
(***************************************************************************)
EXTENDS ReplInput, FiniteSets

-----------------------------------------------------------------------------
(* Tokens *)

First(S) == IF S = {} THEN 0 ELSE CHOOSE i \in S : \A j \in S : i <= j

\* What begins at p: a comment, a string, or a character that is neither.
Kind(s, p) ==
    LET next == IF p < Len(s) THEN s[p + 1] ELSE ""
    IN  CASE s[p] = "/" /\ next = "/" -> "line"
          [] s[p] = "/" /\ next = "*" -> "block"
          [] s[p] = Quote -> "string"
          [] OTHER -> "char"

\* The backslashes right before j.
Backslashes(s, j) == {k \in 1..(j - 1) : \A l \in k..(j - 1) : s[l] = Backslash}

\* A quote ends a string unless an odd number of backslashes is before it.
Ends(s, p) ==
    CASE Kind(s, p) = "line" -> {j \in (p + 2)..Len(s) : s[j] = Newline}
      [] Kind(s, p) = "block" -> {j \in (p + 3)..Len(s) : s[j - 1] = "*" /\ s[j] = "/"}
      [] Kind(s, p) = "string" -> {j \in (p + 1)..Len(s) : /\ s[j] = Quote
                                                           /\ Cardinality(Backslashes(s, j)) % 2 = 0}
      [] OTHER -> {p}

\* Where the token that begins at p ends; 0 if it does not.
End(s, p) == First(Ends(s, p))

\* Where the tokens begin: the first one at the first character, every other
\* one behind the end of one before.
Tokens(s) ==
    LET upTo[k \in 0..Len(s)] ==
            IF k = 0 THEN {}
            ELSE LET before == upTo[k - 1]
                 IN  IF k = 1 \/ \E p \in before : End(s, p) = k - 1
                     THEN before \union {k} ELSE before
    IN  upTo[Len(s)]

\* What of a token is left without comments and what is in strings.
LeftOf(s, p) ==
    CASE Kind(s, p) = "line" -> {End(s, p)}
      [] Kind(s, p) = "block" -> {}
      [] OTHER -> {p, End(s, p)}

\* The places of the text that are code.
Code(s) == (UNION {LeftOf(s, p) : p \in Tokens(s)}) \ {0}

-----------------------------------------------------------------------------
(* Delimiters *)

\* How many are open behind each place.
Depth(s, code) ==
    [i \in 0..Len(s) |->
        Cardinality({j \in code : j <= i /\ s[j] \in Opening})
            - Cardinality({j \in code : j <= i /\ s[j] \in Closers})]

\* What is between the two is deeper.
Closes(s, depth, c, o) ==
    /\ s[o] \in Opening /\ s[c] = Closing[s[o]]
    /\ depth[o - 1] = depth[c]
    /\ \A j \in o..(c - 1) : depth[j] > depth[c]

ClosesNothing(s, code, depth, c) ==
    s[c] \in Closers /\ ~\E o \in code : o < c /\ Closes(s, depth, c, o)

-----------------------------------------------------------------------------
\* The last of the code, white space aside, is an operator.
EndsOpen(s, code) ==
    \E n \in code :
        /\ s[n] \notin Space /\ \A j \in code : j > n => s[j] \in Space
        /\ \/ s[n] \in Incomplete
           \/ \E m \in code : /\ m < n /\ IncompletePair(s[m], s[n])
                             /\ \A j \in code : j < n => j <= m

\* A text is complete if it is wrong anyway, or if every string, comment and
\* delimiter in it is closed and it does not end in an operator.
Complete(s) ==
    LET code == Code(s)
        depth == Depth(s, code)
    IN  \/ \E c \in code : ClosesNothing(s, code, depth, c)
        \/ /\ \A p \in Tokens(s) : End(s, p) = 0 => Kind(s, p) = "line"
           /\ depth[Len(s)] = 0
           /\ ~EndsOpen(s, code)

-----------------------------------------------------------------------------
(* Properties *)

\* The loop waits for more only as long as the text asks for it; it never sits
\* on a snippet that could run.
WaitsOnlyIfIncomplete == pending # <<>> => ~Complete(pending)

\* What is evaluated is a snippet as it was typed and no more: all of it is
\* there, and the lines before the last were not a snippet.
EvaluatesWholeSnippets ==
    snippet # <<>> =>
        /\ Complete(snippet)
        /\ \A i \in 1..(Len(snippet) - 1) :
              snippet[i] = Newline => ~Complete(SubSeq(snippet, 1, i))

=============================================================================
