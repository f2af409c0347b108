------------------------------ MODULE ReplProofs ------------------------------
(***************************************************************************)
(* Proofs about the client's side of the REPL.                             *)
(*                                                                         *)
(* ReplInput: is_repl_input_complete, which reads a text character by      *)
(* character with a stack, gives the answer of InputReference, and so the  *)
(* loop waits for and evaluates the right texts.  Behind every character   *)
(* the scanner is behind a token or in one (Located), it has kept what is  *)
(* code so far (Listed), and its stack holds the delimiters that the depth *)
(* of nesting says are open (Nested).                                      *)
(*                                                                         *)
(* ReplSession: what the session knows of its locals.                      *)
(***************************************************************************)
EXTENDS ReplSession, InputReference, StreamLemmas, FiniteSetTheorems

-----------------------------------------------------------------------------
(* Numbers, recursive functions and stacks *)

\* What holds at 0 and is passed on to the next number holds up to n.
LEMMA Upwards ==
    ASSUME NEW n \in Nat, NEW S, 0 \in S,
           \A i \in 0..(n - 1) : i \in S => i + 1 \in S
    PROVE  \A i \in 0..n : i \in S
<1> DEFINE Bad == {i \in 0..n : i \notin S}
<1>1. SUFFICES ASSUME Bad # {} PROVE FALSE
  OBVIOUS
<1>2. PICK i \in Bad : \A j \in Bad : i <= j
  <2>1. Bad \subseteq Nat
    OBVIOUS
  <2> HIDE DEF Bad
  <2>2. QED
    BY <1>1, <2>1, LeastElement
<1>3. i - 1 \in 0..(n - 1) /\ i - 1 \notin Bad
  BY <1>2
<1>4. QED
  BY <1>2, <1>3

\* f is given by its first value and by the step to the next one, and there
\* is such a function.
Steps(f, n, first, step) == f = [i \in 0..n |-> IF i = 0 THEN first ELSE step[i][f[i - 1]]]

LEMMA Recursion ==
    ASSUME NEW n \in Nat, NEW first, NEW step
    PROVE  \E f : Steps(f, n, first, step)
<1> DEFINE F == {k \in 0..n : \E f : Steps(f, k, first, step)}
<1>1. 0 \in F
  <2>1. Steps([i \in 0..0 |-> first], 0, first, step)
    BY DEF Steps
  <2>2. QED
    BY <2>1
<1>2. ASSUME NEW k \in 0..(n - 1), k \in F
      PROVE  k + 1 \in F
  <2>1. PICK f : f = [i \in 0..k |-> IF i = 0 THEN first ELSE step[i][f[i - 1]]]
    BY <1>2 DEF Steps
  <2> DEFINE g == [i \in 0..(k + 1) |-> IF i = k + 1 THEN step[k + 1][f[k]] ELSE f[i]]
  <2>2. ASSUME NEW i \in 0..(k + 1)
        PROVE  g[i] = IF i = 0 THEN first ELSE step[i][g[i - 1]]
    <3>1. i # 0 => i - 1 \in 0..(k + 1) /\ i - 1 # k + 1
      OBVIOUS
    <3>2. i # 0 => g[i - 1] = f[i - 1]
      BY <3>1
    <3>3. CASE i = k + 1
      BY <3>2, <3>3
    <3>4. CASE i # k + 1
      <4>1. i \in 0..k /\ g[i] = f[i]
        BY <3>4
      <4>2. f[i] = IF i = 0 THEN first ELSE step[i][f[i - 1]]
        BY <2>1, <4>1
      <4>3. QED
        BY <3>2, <4>1, <4>2
    <3>5. QED
      BY <3>3, <3>4
  <2>3. g = [i \in 0..(k + 1) |-> IF i = 0 THEN first ELSE step[i][g[i - 1]]]
    BY <2>2
  <2>4. Steps(g, k + 1, first, step)
    BY <2>3 DEF Steps
  <2>5. QED
    BY <2>4
<1>3. \A k \in 0..n : k \in F
  <2> HIDE DEF F
  <2>1. QED
    BY <1>1, <1>2, Upwards
<1>4. n \in F
  BY <1>3
<1>5. QED
  BY <1>4

\* What the step leads to when it stays in S.
LEMMA RecursionIn ==
    ASSUME NEW n \in Nat, NEW S, NEW first \in S, NEW step,
           \A i \in 1..n : \A x \in S : step[i][x] \in S,
           NEW f, Steps(f, n, first, step)
    PROVE  \A i \in 0..n : f[i] \in S
<1>1. \A i \in 0..n : f[i] = IF i = 0 THEN first ELSE step[i][f[i - 1]]
  BY DEF Steps
<1> DEFINE F == {i \in 0..n : f[i] \in S}
<1>2. 0 \in F
  BY <1>1
<1>3. \A i \in 0..(n - 1) : i \in F => i + 1 \in F
  <2>1. \A i \in 0..(n - 1) : i + 1 \in 0..n /\ i + 1 \in 1..n /\ i + 1 - 1 = i
    OBVIOUS
  <2>2. QED
    BY <1>1, <2>1
<1>4. \A i \in 0..n : i \in F
  <2> HIDE DEF F
  <2>1. QED
    BY <1>2, <1>3, Upwards
<1>5. QED
  BY <1>4

\* What a stack is without its top.
LEMMA WithoutTop ==
    ASSUME NEW S, NEW q \in Seq(S), q # <<>>
    PROVE  /\ Front(q) \in Seq(S) /\ Len(Front(q)) = Len(q) - 1
           /\ \A i \in 1..(Len(q) - 1) : Front(q)[i] = q[i]
           /\ Last(q) = q[Len(q)] /\ Last(q) \in S
           /\ Len(q) \in Nat \ {0}
<1>1. Len(q) \in Nat \ {0} /\ q \in [1..Len(q) -> S]
  OBVIOUS
<1>2. Front(q) = SubSeq(q, 1, Len(q) - 1) /\ Last(q) = q[Len(q)]
  BY DEF Front, Last
<1>3. Len(q) - 1 <= Len(q) /\ Len(q) - 1 \in Nat
  BY <1>1
<1>4. /\ SubSeq(q, 1, Len(q) - 1) \in Seq(S) /\ Len(SubSeq(q, 1, Len(q) - 1)) = Len(q) - 1
      /\ \A i \in 1..(Len(q) - 1) : SubSeq(q, 1, Len(q) - 1)[i] = q[i]
  BY <1>1, <1>3
<1>5. QED
  BY <1>1, <1>2, <1>4

-----------------------------------------------------------------------------
\* The characters that mean something are different from each other.
LEMMA Chars ==
    /\ Opening = {"(", "[", "{"}
    /\ \A o \in Opening : Closing[o] \in Closers
    /\ Opening \cap Closers = {}
    /\ \A a \in {"/", "*", Quote, Backslash, Newline} : a \notin Opening /\ a \notin Closers
    /\ Quote # "/" /\ Backslash # "/" /\ Newline # "/"
    /\ Quote # Backslash /\ Quote # Newline
<1>1. Opening = {"(", "[", "{"}
  BY DEF Opening, Closing
<1>2. Closers = {")", "]", "}"}
  <2>1. Closing["("] = ")" /\ Closing["["] = "]" /\ Closing["{"] = "}"
    BY DEF Closing
  <2>2. QED
    BY <1>1, <2>1 DEF Closers
<1>3. Opening \cap Closers = {}
  BY <1>1, <1>2
<1>4. \A o \in Opening : Closing[o] \in Closers
  BY DEF Closers
<1>5. \A a \in {"/", "*", Quote, Backslash, Newline} : a \notin Opening
  BY <1>1 DEF Quote, Backslash, Newline
<1>6. \A a \in {"/", "*", Quote, Backslash, Newline} : a \notin Closers
  BY <1>2 DEF Quote, Backslash, Newline
<1>7. Quote # "/" /\ Backslash # "/" /\ Newline # "/"
  BY DEF Quote, Backslash, Newline
<1>8. Quote # Backslash /\ Quote # Newline
  BY DEF Quote, Backslash, Newline
<1>9. QED
  BY <1>1, <1>3, <1>4, <1>5, <1>6, <1>7, <1>8

-----------------------------------------------------------------------------
(* The scanner, character by character *)

Mode == {"code", "line", "block", "string", "escaped"}
Scanner == [mode : Mode, stack : Seq(Opening), code : Seq(Character), skip : BOOLEAN,
            mismatch : BOOLEAN]

Peek(s, i) == IF i < Len(s) THEN s[i + 1] ELSE ""

LEMMA ReadType ==
    ASSUME NEW st \in Scanner, NEW ch \in Character, NEW next
    PROVE  Read(st, ch, next) \in Scanner
<1>1. Kept(st, ch) \in Scanner
  <2>1. st.code \in Seq(Character)
    BY DEF Scanner
  <2>2. Append(st.code, ch) \in Seq(Character)
    BY <2>1
  <2>3. QED
    BY <2>2 DEF Kept, Scanner
<1>2. InString(st, ch) \in Scanner
  BY <1>1 DEF InString, Scanner, Mode
<1>3. InComment(st, ch, next) \in Scanner
  BY <1>1 DEF InComment, Scanner, Mode
<1>4. InCode(st, ch, next) \in Scanner
  <2>1. ch \in Opening => Append(Kept(st, ch).stack, ch) \in Seq(Opening)
    BY DEF Kept, Scanner
  <2>2. st.stack # <<>> => Front(Kept(st, ch).stack) \in Seq(Opening)
    BY WithoutTop DEF Kept, Scanner
  <2>3. QED
    BY <1>1, <2>1, <2>2 DEF InCode, Scanner, Mode
<1>5. st.mode \in Mode
  BY DEF Scanner
<1>6. QED
  BY <1>2, <1>3, <1>4, <1>5 DEF Read, Scanner, Mode

LEMMA AfterSteps ==
    ASSUME NEW s \in Seq(Character)
    PROVE  /\ After(s)[0] = Start
           /\ \A i \in 0..Len(s) : After(s)[i] \in Scanner
           /\ \A i \in 0..(Len(s) - 1) :
                 After(s)[i + 1] = Read(After(s)[i], s[i + 1], Peek(s, i + 1))
<1> DEFINE n == Len(s)
           Of(f) == [i \in 0..n |-> IF i = 0 THEN Start ELSE Read(f[i - 1], s[i], Peek(s, i))]
           step == [i \in 1..n |-> [st \in Scanner |-> Read(st, s[i], Peek(s, i))]]
<1>1. After(s) = CHOOSE f : f = Of(f)
  BY DEF After, Peek
<1>2. Start \in Scanner
  BY DEF Start, Scanner, Mode
<1>3. \A i \in 1..n : \A st \in Scanner :
        step[i][st] = Read(st, s[i], Peek(s, i)) /\ step[i][st] \in Scanner
  BY ReadType
<1>4. n \in Nat
  OBVIOUS
<1> HIDE DEF n, step
<1>5. PICK g : Steps(g, n, Start, step)
  BY <1>4, Recursion
<1>6. \A i \in 0..n : g[i] \in Scanner
  BY <1>2, <1>3, <1>4, <1>5, RecursionIn
<1>7. g = Of(g)
  <2>1. \A i \in 0..n : i # 0 => i \in 1..n /\ i - 1 \in 0..n
    BY <1>4
  <2>2. \A i \in 0..n : i # 0 => step[i][g[i - 1]] = Read(g[i - 1], s[i], Peek(s, i))
    BY <1>3, <1>6, <2>1
  <2>3. g = [i \in 0..n |-> IF i = 0 THEN Start ELSE step[i][g[i - 1]]]
    BY <1>5 DEF Steps
  <2>4. QED
    BY <2>2, <2>3
<1>8. After(s) = Of(After(s))
  <2> HIDE DEF Of
  <2>1. QED
    BY <1>1, <1>7
<1>9. \A i \in 0..n : After(s)[i] = IF i = 0 THEN Start ELSE Read(After(s)[i - 1], s[i], Peek(s, i))
  <2> DEFINE f == After(s)
  <2>1. f = Of(f)
    BY <1>8
  <2> HIDE DEF f
  <2>2. \A i \in 0..n : f[i] = IF i = 0 THEN Start ELSE Read(f[i - 1], s[i], Peek(s, i))
    BY <2>1
  <2>3. QED
    BY <2>2 DEF f
<1>10. \A i \in 0..(n - 1) : i + 1 \in 0..n /\ i + 1 # 0 /\ i + 1 - 1 = i
  BY <1>4
<1>11. \A i \in 0..(n - 1) : After(s)[i + 1] = Read(After(s)[i], s[i + 1], Peek(s, i + 1))
  BY <1>9, <1>10
<1>12. \A i \in 0..n : After(s)[i] \in Scanner
  <2> DEFINE S == {i \in 0..n : After(s)[i] \in Scanner}
  <2>1. 0 \in S
    BY <1>2, <1>4, <1>9
  <2>2. \A i \in 0..(n - 1) : i \in S => i + 1 \in S
    <3>1. \A i \in 0..(n - 1) : i + 1 \in 0..n /\ s[i + 1] \in Character
      BY DEF n
    <3>2. QED
      BY <1>11, <3>1, ReadType
  <2>3. \A i \in 0..n : i \in S
    <3> HIDE DEF S
    <3>1. QED
      BY <1>4, <2>1, <2>2, Upwards
  <2>4. QED
    BY <2>3
<1>13. QED
  BY <1>4, <1>9, <1>11, <1>12 DEF n

-----------------------------------------------------------------------------
(* The tokens *)

\* What is at the beginning of a text is a token, and what comes right behind
\* one is.
LEMMA TokensStep ==
    ASSUME NEW s \in Seq(Character)
    PROVE  /\ Tokens(s) \subseteq 1..Len(s)
           /\ \A k \in 1..Len(s) :
                 k \in Tokens(s) <=> \/ k = 1
                                     \/ \E p \in Tokens(s) : p < k /\ End(s, p) = k - 1
<1> DEFINE n == Len(s)
           More(B, k) == IF k = 1 \/ \E p \in B : End(s, p) = k - 1 THEN B \union {k} ELSE B
           Of(f) == [k \in 0..n |-> IF k = 0 THEN {} ELSE More(f[k - 1], k)]
           step == [k \in 1..n |-> [B \in SUBSET (1..n) |-> More(B, k)]]
<1>1. Tokens(s) = (CHOOSE f : f = Of(f))[n]
  BY DEF Tokens
<1>2. \A k \in 1..n : \A B \in SUBSET (1..n) :
        step[k][B] = More(B, k) /\ step[k][B] \in SUBSET (1..n)
  OBVIOUS
<1>3. n \in Nat
  OBVIOUS
<1> HIDE DEF n, step
<1>4. PICK g : Steps(g, n, {}, step)
  BY <1>3, Recursion
<1>5. \A k \in 0..n : g[k] \in SUBSET (1..n)
  <2> DEFINE S == SUBSET (1..n)
  <2>1. {} \in S /\ \A k \in 1..n : \A B \in S : step[k][B] \in S
    BY <1>2
  <2> HIDE DEF S
  <2>2. \A k \in 0..n : g[k] \in S
    BY <1>3, <1>4, <2>1, RecursionIn
  <2>3. QED
    BY <2>2 DEF S
<1>6. g = Of(g)
  <2>1. \A k \in 0..n : k # 0 => k \in 1..n /\ k - 1 \in 0..n
    BY <1>3
  <2> HIDE DEF More
  <2>2. \A k \in 0..n : k # 0 => step[k][g[k - 1]] = More(g[k - 1], k)
    BY <1>2, <1>5, <2>1
  <2>3. g = [k \in 0..n |-> IF k = 0 THEN {} ELSE step[k][g[k - 1]]]
    BY <1>4 DEF Steps
  <2>4. QED
    BY <2>2, <2>3
<1> DEFINE f == CHOOSE f : f = Of(f)
<1>7. f = Of(f)
  <2> HIDE DEF Of
  <2>1. QED
    BY <1>6
<1> HIDE DEF f, More
<1>8. f[0] = {} /\ \A k \in 0..(n - 1) : f[k + 1] = More(f[k], k + 1)
  <2>1. \A k \in 0..n : f[k] = IF k = 0 THEN {} ELSE More(f[k - 1], k)
    BY <1>7
  <2>2. \A k \in 0..(n - 1) : k + 1 \in 0..n /\ k + 1 # 0 /\ k + 1 - 1 = k
    BY <1>3
  <2>3. QED
    BY <1>3, <2>1, <2>2
<1> DEFINE Right(B, k) == /\ B \subseteq 1..k
                          /\ \A j \in 1..k : j \in B <=> \/ j = 1
                                                         \/ \E p \in B : p < j /\ End(s, p) = j - 1
           S == {k \in 0..n : Right(f[k], k)}
<1>9. Right(f[0], 0)
  BY <1>8
<1>10. ASSUME NEW k \in 0..(n - 1), Right(f[k], k)
       PROVE  Right(f[k + 1], k + 1)
  <2> DEFINE B == f[k]
             C == More(B, k + 1)
  <2>1. f[k + 1] = C /\ k \in Nat
    BY <1>8
  <2>2. B \subseteq C /\ C \subseteq B \union {k + 1} /\ B \subseteq 1..k
    BY <1>10 DEF More
  <2>3. \A p \in C : p \in Nat /\ (p < k + 1 => p \in B)
    BY <2>1, <2>2
  <2>4. \A p \in B : p < k + 1
    BY <2>1, <2>2
  <2>5. k + 1 \in C <=> k + 1 = 1 \/ \E p \in B : End(s, p) = k + 1 - 1
    BY <2>1, <2>4 DEF More
  <2>6. k + 1 \in C <=> k + 1 = 1 \/ \E p \in C : p < k + 1 /\ End(s, p) = k + 1 - 1
    BY <2>2, <2>3, <2>4, <2>5
  <2> HIDE DEF C
  <2>7. \A j \in 1..(k + 1) : j # k + 1 => j \in 1..k /\ (j \in C <=> j \in B)
    BY <2>1, <2>2
  <2>8. \A j \in 1..k : \A p \in C : p < j => p \in B
    BY <2>1, <2>3
  <2>9. \A j \in 1..k : j \in C <=> j = 1 \/ \E p \in C : p < j /\ End(s, p) = j - 1
    BY <1>10, <2>2, <2>7, <2>8
  <2>10. \A j \in 1..(k + 1) : j \in C <=> j = 1 \/ \E p \in C : p < j /\ End(s, p) = j - 1
    BY <2>6, <2>7, <2>9
  <2>11. C \subseteq 1..(k + 1)
    BY <2>1, <2>2
  <2>12. QED
    BY <2>1, <2>10, <2>11
<1>11. \A k \in 0..n : k \in S
  <2>1. 0 \in S
    BY <1>3, <1>9
  <2>2. \A k \in 0..(n - 1) : k \in S => k + 1 \in S
    <3> HIDE DEF Right
    <3>1. \A k \in 0..(n - 1) : k + 1 \in 0..n
      BY <1>3
    <3>2. QED
      BY <1>10, <3>1
  <2> HIDE DEF S
  <2>3. QED
    BY <1>3, <2>1, <2>2, Upwards
<1>12. Right(Tokens(s), n)
  <2>1. Tokens(s) = f[n]
    BY <1>1 DEF f
  <2>2. n \in S
    BY <1>3, <1>11
  <2> HIDE DEF Right
  <2>3. QED
    BY <2>1, <2>2
<1>13. QED
  BY <1>12 DEF n

LEMMA KindIs ==
    ASSUME NEW s, NEW p
    PROVE  /\ Kind(s, p) = "line" <=> s[p] = "/" /\ Peek(s, p) = "/"
           /\ Kind(s, p) = "block" <=> s[p] = "/" /\ Peek(s, p) = "*"
           /\ Kind(s, p) = "string" <=> s[p] = Quote
           /\ Kind(s, p) \in {"line", "block", "string", "char"}
<1>1. Kind(s, p) = CASE s[p] = "/" /\ Peek(s, p) = "/" -> "line"
                     [] s[p] = "/" /\ Peek(s, p) = "*" -> "block"
                     [] s[p] = Quote -> "string"
                     [] OTHER -> "char"
  BY DEF Kind, Peek
<1>2. Quote # "/"
  BY Chars
<1>3. QED
  BY <1>1, <1>2

LEMMA FirstIs ==
    ASSUME NEW S, S \subseteq Nat \ {0}
    PROVE  /\ First(S) = 0 <=> S = {}
           /\ S # {} => First(S) \in S /\ \A j \in S : First(S) <= j
           /\ First(S) \in Nat
           /\ \A i \in S : (\A j \in S : i <= j) => First(S) = i
<1>1. CASE S = {}
  BY <1>1 DEF First
<1>2. CASE S # {}
  <2>1. \E i \in S : \A j \in S : i <= j
    <3>1. S \subseteq Nat
      OBVIOUS
    <3>2. QED
      BY <1>2, <3>1, LeastElement
  <2>2. First(S) = CHOOSE i \in S : \A j \in S : i <= j
    BY <1>2 DEF First
  <2>3. First(S) \in S /\ \A j \in S : First(S) <= j
    BY <2>1, <2>2
  <2> HIDE DEF First
  <2>4. First(S) \in Nat \ {0}
    BY <2>3
  <2>5. \A i \in S : i <= First(S) => First(S) = i
    BY <2>3, <2>4
  <2>6. QED
    BY <1>2, <2>3, <2>4, <2>5
<1>3. QED
  BY <1>1, <1>2

\* Where a token ends.
LEMMA EndIs ==
    ASSUME NEW s \in Seq(Character), NEW p \in 1..Len(s)
    PROVE  /\ Ends(s, p) \subseteq p..Len(s)
           /\ Kind(s, p) = "char" <=> p \in Ends(s, p)
           /\ Kind(s, p) = "char" => End(s, p) = p
           /\ End(s, p) \in Nat
           /\ End(s, p) = 0 <=> Ends(s, p) = {}
           /\ End(s, p) # 0 => End(s, p) \in Ends(s, p) /\ \A j \in Ends(s, p) : End(s, p) <= j
           /\ \A i \in Ends(s, p) : (\A j \in Ends(s, p) : i <= j) => End(s, p) = i
<1>1. Len(s) \in Nat
  OBVIOUS
<1>2. /\ Kind(s, p) = "line" =>
            Ends(s, p) = {j \in (p + 2)..Len(s) : s[j] = Newline}
      /\ Kind(s, p) = "block" =>
            Ends(s, p) = {j \in (p + 3)..Len(s) : s[j - 1] = "*" /\ s[j] = "/"}
      /\ Kind(s, p) = "string" =>
            Ends(s, p) = {j \in (p + 1)..Len(s) : /\ s[j] = Quote
                                                  /\ Cardinality(Backslashes(s, j)) % 2 = 0}
      /\ Kind(s, p) = "char" => Ends(s, p) = {p}
  BY DEF Ends
<1>3. Kind(s, p) \in {"line", "block", "string", "char"}
  BY KindIs
<1> DEFINE E == Ends(s, p)
<1>4. E \subseteq p..Len(s) /\ (Kind(s, p) # "char" => E \subseteq (p + 1)..Len(s))
  <2>1. Kind(s, p) = "line" => E \subseteq (p + 1)..Len(s)
    BY <1>2
  <2>2. Kind(s, p) = "block" => E \subseteq (p + 1)..Len(s)
    BY <1>2
  <2>3. Kind(s, p) = "string" => E \subseteq (p + 1)..Len(s)
    BY <1>2
  <2>4. Kind(s, p) = "char" => E \subseteq p..Len(s)
    BY <1>1, <1>2
  <2>5. (p + 1)..Len(s) \subseteq p..Len(s)
    BY <1>1
  <2>6. QED
    BY <1>3, <2>1, <2>2, <2>3, <2>4, <2>5
<1>5. Kind(s, p) = "char" <=> p \in E
  BY <1>2, <1>4
<1>6. E \subseteq Nat \ {0}
  BY <1>1, <1>4
<1>7. End(s, p) = First(E)
  BY DEF End
<1> HIDE DEF E
<1>8. /\ First(E) = 0 <=> E = {}
      /\ E # {} => First(E) \in E /\ \A j \in E : First(E) <= j
      /\ First(E) \in Nat
      /\ \A i \in E : (\A j \in E : i <= j) => First(E) = i
  BY <1>6, FirstIs
<1>9. Kind(s, p) = "char" => First(E) = p
  <2>1. Kind(s, p) = "char" => \A j \in E : p <= j
    BY <1>2 DEF E
  <2>2. QED
    BY <1>5, <1>8, <2>1
<1>10. QED
  BY <1>4, <1>5, <1>7, <1>8, <1>9 DEF E

\* A token begins behind the end of every token before it.
LEMMA Apart ==
    ASSUME NEW s \in Seq(Character), NEW p \in Tokens(s), NEW q \in Tokens(s), p < q
    PROVE  End(s, p) # 0 /\ End(s, p) < q
<1> DEFINE T == Tokens(s)
           Good(x, y) == x < y => End(s, x) # 0 /\ End(s, x) < y
           Bad == {y \in T : \E x \in T : ~Good(x, y)}
<1>1. T \subseteq 1..Len(s) /\ Len(s) \in Nat /\ \A x \in T : End(s, x) \in Nat
  BY TokensStep, EndIs
<1>2. \A k \in T : k = 1 \/ \E x \in T : x < k /\ End(s, x) = k - 1
  BY <1>1, TokensStep
<1> HIDE DEF T
<1>3. ASSUME Bad # {} PROVE FALSE
  <2>1. PICK y \in Bad : \A z \in Bad : y <= z
    <3>1. T \subseteq Nat
      BY <1>1
    <3>2. Bad \subseteq Nat
      BY <3>1
    <3> HIDE DEF Bad
    <3>3. QED
      BY <1>3, <3>2, LeastElement
  <2>2. PICK x \in T : ~Good(x, y)
    BY <2>1
  <2>3. y \in T /\ x \in Nat /\ y \in Nat /\ x < y /\ x # 0
    BY <1>1, <2>1, <2>2
  <2>4. PICK r \in T : r < y /\ End(s, r) = y - 1
    BY <1>2, <2>3
  <2>5. r \in Nat /\ \A z \in T : z < y => z \notin Bad
    BY <1>1, <2>1, <2>3
  <2>6. CASE x = r
    BY <2>2, <2>3, <2>4, <2>6
  <2>7. CASE x < r
    <3>1. Good(x, r)
      BY <2>4, <2>5
    <3>2. QED
      BY <1>1, <2>2, <2>3, <2>4, <2>5, <2>7, <3>1
  <2>8. CASE r < x
    <3>1. Good(r, x)
      BY <2>3, <2>5
    <3>2. QED
      BY <2>3, <2>4, <2>5, <2>8, <3>1
  <2>9. QED
    BY <2>3, <2>5, <2>6, <2>7, <2>8
<1>4. p \in T /\ q \in T
  BY DEF T
<1>5. QED
  BY <1>3, <1>4

\* Whether a place is code is decided by the token it is in.
LEMMA CodeIs ==
    ASSUME NEW s \in Seq(Character), NEW p \in Tokens(s), NEW i \in p..Len(s),
           End(s, p) = 0 \/ i <= End(s, p)
    PROVE  i \in Code(s) <=> i \in LeftOf(s, p)
<1> DEFINE T == Tokens(s)
<1>1. T \subseteq 1..Len(s) /\ Len(s) \in Nat /\ \A q \in T : End(s, q) \in Nat
  BY TokensStep, EndIs
<1>2. i \in Code(s) <=> \E q \in T : i \in LeftOf(s, q)
  <2>1. i # 0
    BY <1>1
  <2> DEFINE U == UNION {LeftOf(s, q) : q \in T}
  <2>2. i \in U <=> \E q \in T : i \in LeftOf(s, q)
    <3> HIDE DEF T
    <3>1. QED
      BY Zenon
  <2>3. Code(s) = U \ {0}
    BY DEF Code
  <2> HIDE DEF U, T
  <2>4. QED
    BY <2>1, <2>2, <2>3
<1>3. \A q \in T : LeftOf(s, q) \subseteq {q, End(s, q)}
  BY DEF LeftOf
<1>4. ASSUME NEW q \in T, i \in LeftOf(s, q)
      PROVE  q = p
  <2>1. i = q \/ i = End(s, q)
    BY <1>3, <1>4
  <2>2. CASE q < p
    <3>1. End(s, q) < p
      BY <2>2, Apart
    <3>2. QED
      BY <1>1, <2>1, <2>2, <3>1
  <2>3. CASE p < q
    <3>1. End(s, p) # 0 /\ End(s, p) < q
      BY <2>3, Apart
    <3>2. End(s, q) = 0 \/ q <= End(s, q)
      BY <1>1, EndIs
    <3>3. QED
      BY <1>1, <2>1, <3>1, <3>2
  <2>4. QED
    BY <1>1, <2>2, <2>3
<1>5. QED
  BY <1>2, <1>4

-----------------------------------------------------------------------------
(* Backslashes, and the depth of nesting *)

Even(s, j) == Cardinality(Backslashes(s, j)) % 2 = 0

\* Every backslash changes whether their number is even, and anything else
\* starts again at none.
LEMMA BackslashesStep ==
    ASSUME NEW s, NEW i \in Nat \ {0}
    PROVE  Even(s, i + 1) <=> (s[i] = Backslash => ~Even(s, i))
<1> DEFINE B == Backslashes(s, i)
           C == Backslashes(s, i + 1)
<1>1. B = {k \in 1..(i - 1) : \A l \in k..(i - 1) : s[l] = Backslash}
  BY DEF Backslashes
<1>2. C = {k \in 1..i : \A l \in k..i : s[l] = Backslash}
  BY DEF Backslashes
<1>3. CASE s[i] # Backslash
  <2>1. C = {}
    BY <1>2, <1>3
  <2>2. Cardinality(C) = 0
    BY <2>1, FS_EmptySet
  <2>3. QED
    BY <1>3, <2>2 DEF Even
<1>4. CASE s[i] = Backslash
  <2>1. \A k \in 1..(i - 1) : k \in C <=> k \in B
    <3>1. ASSUME NEW k \in 1..(i - 1) PROVE k..i = (k..(i - 1)) \union {i}
      OBVIOUS
    <3>2. QED
      BY <1>1, <1>2, <1>4, <3>1
  <2>2. i \in C /\ i \notin B /\ B \subseteq 1..(i - 1) /\ C \subseteq 1..i
    BY <1>1, <1>2, <1>4
  <2> HIDE DEF B, C
  <2>3. C = B \union {i}
    <3>1. \A k \in 1..i : k = i \/ k \in 1..(i - 1)
      OBVIOUS
    <3>2. QED
      BY <2>1, <2>2, <3>1
  <2>4. IsFiniteSet(B)
    <3>1. IsFiniteSet(1..(i - 1))
      BY FS_Interval
    <3>2. QED
      BY <2>2, <3>1, FS_Subset
  <2>5. Cardinality(C) = Cardinality(B) + 1 /\ Cardinality(B) \in Nat
    BY <2>2, <2>3, <2>4, FS_AddElement, FS_CardinalityType
  <2>6. Cardinality(C) % 2 = 0 <=> ~(Cardinality(B) % 2 = 0)
    BY <2>5
  <2>7. QED
    BY <1>4, <2>6 DEF B, C, Even
<1>5. QED
  BY <1>3, <1>4

\* How many of some places are passed.
Passed(S, i) == Cardinality({j \in S : j <= i})

LEMMA PassedStep ==
    ASSUME NEW S, S \subseteq Nat \ {0}, NEW i \in Nat
    PROVE  /\ Passed(S, 0) = 0
           /\ Passed(S, i) \in Nat
           /\ Passed(S, i + 1) = Passed(S, i) + (IF i + 1 \in S THEN 1 ELSE 0)
<1> DEFINE N(k) == {j \in S : j <= k}
<1>1. \A j \in S : j \in Nat /\ ~(j <= 0)
  OBVIOUS
<1>2. N(0) = {}
  <2>1. \A j \in S : ~(j <= 0)
    BY <1>1
  <2>2. QED
    BY <2>1, Zenon
<1>3. IsFiniteSet(N(i))
  <2>1. IsFiniteSet(1..i)
    BY FS_Interval
  <2>2. N(i) \subseteq 1..i
    <3>1. \A j \in S : j <= i => j \in 1..i
      BY <1>1
    <3>2. QED
      BY <3>1, Zenon
  <2> HIDE DEF N
  <2>3. QED
    BY <2>1, <2>2, FS_Subset
<1>4. N(i + 1) = IF i + 1 \in S THEN N(i) \union {i + 1} ELSE N(i)
  <2>1. \A j \in S : j <= i + 1 <=> j <= i \/ j = i + 1
    BY <1>1
  <2>2. QED
    BY <2>1
<1>5. i + 1 \notin N(i)
  OBVIOUS
<1> HIDE DEF N
<1>6. Cardinality(N(i)) \in Nat
  BY <1>3, FS_CardinalityType
<1>7. Cardinality(N(i + 1)) = Cardinality(N(i)) + (IF i + 1 \in S THEN 1 ELSE 0)
  <2>1. CASE i + 1 \in S
    BY <1>3, <1>4, <1>5, <1>6, <2>1, FS_AddElement
  <2>2. CASE i + 1 \notin S
    BY <1>4, <1>6, <2>2
  <2>3. QED
    BY <2>1, <2>2
<1>8. Cardinality(N(0)) = 0
  BY <1>2, FS_EmptySet
<1>9. QED
  BY <1>6, <1>7, <1>8 DEF N, Passed

LEMMA DepthStep ==
    ASSUME NEW s \in Seq(Character), NEW code, code \subseteq 1..Len(s)
    PROVE  LET depth == Depth(s, code)
           IN  /\ depth[0] = 0
               /\ \A i \in 0..Len(s) : depth[i] \in Int
               /\ \A i \in 0..(Len(s) - 1) :
                     depth[i + 1] = IF i + 1 \in code /\ s[i + 1] \in Opening THEN depth[i] + 1
                                    ELSE IF i + 1 \in code /\ s[i + 1] \in Closers THEN depth[i] - 1
                                    ELSE depth[i]
<1> DEFINE depth == Depth(s, code)
           O == {j \in code : s[j] \in Opening}
           C == {j \in code : s[j] \in Closers}
<1>1. O \subseteq Nat \ {0} /\ C \subseteq Nat \ {0} /\ Len(s) \in Nat
  <2>1. \A j \in code : j \in Nat \ {0}
    OBVIOUS
  <2>2. O \subseteq Nat \ {0} /\ C \subseteq Nat \ {0}
    BY <2>1, Zenon
  <2>3. QED
    BY <2>2
<1>2. \A i \in 0..Len(s) : depth[i] = Passed(O, i) - Passed(C, i)
  <2>1. ASSUME NEW i PROVE {j \in code : j <= i /\ s[j] \in Opening} = {j \in O : j <= i}
    OBVIOUS
  <2>2. ASSUME NEW i PROVE {j \in code : j <= i /\ s[j] \in Closers} = {j \in C : j <= i}
    OBVIOUS
  <2>3. QED
    BY <2>1, <2>2 DEF Depth, Passed
<1>3. \A i \in Nat : /\ Passed(O, 0) = 0 /\ Passed(O, i) \in Nat
                     /\ Passed(O, i + 1) = Passed(O, i) + (IF i + 1 \in O THEN 1 ELSE 0)
  <2> HIDE DEF O
  <2>1. QED
    BY <1>1, PassedStep
<1>4. \A i \in Nat : /\ Passed(C, 0) = 0 /\ Passed(C, i) \in Nat
                     /\ Passed(C, i + 1) = Passed(C, i) + (IF i + 1 \in C THEN 1 ELSE 0)
  <2> HIDE DEF C
  <2>1. QED
    BY <1>1, PassedStep
<1>5. O \cap C = {}
  BY Chars
<1> HIDE DEF depth, O, C
<1>6. depth[0] = 0 /\ \A i \in 0..Len(s) : depth[i] \in Int
  <2>1. 0 \in 0..Len(s) /\ 0 \in Nat /\ \A i \in 0..Len(s) : i \in Nat
    BY <1>1
  <2>2. \A i \in 0..Len(s) : Passed(O, i) \in Nat /\ Passed(C, i) \in Nat
    BY <1>3, <1>4, <2>1
  <2>3. depth[0] = Passed(O, 0) - Passed(C, 0) /\ Passed(O, 0) = 0 /\ Passed(C, 0) = 0
    BY <1>2, <1>3, <1>4, <2>1
  <2>4. \A i \in 0..Len(s) : depth[i] \in Int
    BY <1>2, <2>2
  <2>5. QED
    BY <2>3, <2>4
<1>7. ASSUME NEW i \in 0..(Len(s) - 1)
      PROVE  depth[i + 1] = IF i + 1 \in O THEN depth[i] + 1
                            ELSE IF i + 1 \in C THEN depth[i] - 1 ELSE depth[i]
  <2>1. i \in 0..Len(s) /\ i + 1 \in 0..Len(s) /\ i \in Nat
    BY <1>1
  <2>2. depth[i] = Passed(O, i) - Passed(C, i) /\ depth[i + 1] = Passed(O, i + 1) - Passed(C, i + 1)
    BY <1>2, <2>1
  <2>3. /\ Passed(O, i) \in Nat /\ Passed(C, i) \in Nat
        /\ Passed(O, i + 1) = Passed(O, i) + (IF i + 1 \in O THEN 1 ELSE 0)
        /\ Passed(C, i + 1) = Passed(C, i) + (IF i + 1 \in C THEN 1 ELSE 0)
    BY <1>3, <1>4, <2>1
  <2>4. ~(i + 1 \in O /\ i + 1 \in C)
    BY <1>5
  <2>5. QED
    BY <2>2, <2>3, <2>4
<1>8. QED
  BY <1>6, <1>7 DEF depth, O, C

-----------------------------------------------------------------------------
(* Where the scanner is behind the i-th character: behind a token, or in one *)

Outside(s, i, st) ==
    /\ st.mode = "code" /\ ~st.skip
    /\ i = 0 \/ \E b \in Tokens(s) : End(s, b) = i

LeavingBlock(s, i, st) ==
    /\ st.mode = "code" /\ st.skip
    /\ \E b \in Tokens(s) : Kind(s, b) = "block" /\ End(s, b) = i + 1

InLine(s, i, st) ==
    /\ st.mode = "line"
    /\ \E b \in Tokens(s) : /\ Kind(s, b) = "line"
                            /\ b <= i /\ (st.skip <=> b = i)
                            /\ \A j \in Ends(s, b) : i < j

InBlock(s, i, st) ==
    /\ st.mode = "block"
    /\ \E b \in Tokens(s) : /\ Kind(s, b) = "block"
                            /\ b <= i /\ (st.skip <=> b = i)
                            /\ \A j \in Ends(s, b) : i + 1 < j

InQuotes(s, i, st) ==
    /\ st.mode \in {"string", "escaped"} /\ ~st.skip
    /\ Even(s, i + 1) <=> st.mode = "string"
    /\ \E b \in Tokens(s) : /\ Kind(s, b) = "string"
                            /\ b <= i
                            /\ \A j \in Ends(s, b) : i < j

Located(s, i, st) ==
    \/ Outside(s, i, st) \/ LeavingBlock(s, i, st)
    \/ InLine(s, i, st) \/ InBlock(s, i, st) \/ InQuotes(s, i, st)

\* What the scanner does with a character of the code.
Takes(st, ch, next) ==
    /\ next.code = Append(st.code, ch)
    /\ ch \in Opening => next.stack = Append(st.stack, ch)
    /\ ch \in Closers => /\ st.stack # <<>> /\ ch = Closing[Last(st.stack)]
                         /\ next.stack = Front(st.stack)
    /\ ch \notin Opening \union Closers => next.stack = st.stack

Passes(st, next) == next.code = st.code /\ next.stack = st.stack

Rejects(st, ch) == ch \in Closers /\ (st.stack = <<>> \/ ch # Closing[Last(st.stack)])

\* The scanner reads a character as it should.
ReadsWell(s, i, st) ==
    LET ch == s[i + 1]
        next == Read(st, ch, Peek(s, i + 1))
    IN  IF next.mismatch
        THEN i + 1 \in Code(s) /\ Rejects(st, ch)
        ELSE /\ Located(s, i + 1, next)
             /\ IF i + 1 \in Code(s) THEN Takes(st, ch, next) ELSE Passes(st, next)

\* The next character is in the token b, or ends it.
LEMMA Covered ==
    ASSUME NEW s \in Seq(Character), NEW i \in 0..(Len(s) - 1), NEW b \in Tokens(s), b <= i,
           \A j \in Ends(s, b) : i < j
    PROVE  /\ b \in 1..Len(s) /\ i \in Nat /\ i + 1 \in 1..Len(s)
           /\ i + 1 \in Ends(s, b) <=> End(s, b) = i + 1
           /\ i + 1 \notin Ends(s, b) => \A j \in Ends(s, b) : i + 1 < j
           /\ i + 1 \in Code(s) <=> i + 1 \in LeftOf(s, b)
<1>1. b \in 1..Len(s) /\ i \in Nat /\ i + 1 \in 1..Len(s) /\ Len(s) \in Nat
  BY TokensStep
<1>2. Ends(s, b) \subseteq b..Len(s)
  BY <1>1, EndIs
<1>3. \A j \in Ends(s, b) : j \in Nat /\ i + 1 <= j
  BY <1>1, <1>2
<1>4. i + 1 \in Ends(s, b) <=> End(s, b) = i + 1
  BY <1>1, <1>3, EndIs
<1>5. i + 1 \notin Ends(s, b) => \A j \in Ends(s, b) : i + 1 < j
  BY <1>1, <1>3
<1>6. End(s, b) = 0 \/ i + 1 <= End(s, b)
  BY <1>1, <1>3, EndIs
<1>7. i + 1 \in b..Len(s)
  BY <1>1
<1>8. i + 1 \in Code(s) <=> i + 1 \in LeftOf(s, b)
  BY <1>6, <1>7, CodeIs
<1>9. QED
  BY <1>1, <1>4, <1>5, <1>8

LEMMA LeavingBlockStep ==
    ASSUME NEW s \in Seq(Character), NEW i \in 0..(Len(s) - 1), NEW st \in Scanner, ~st.mismatch,
           LeavingBlock(s, i, st)
    PROVE  ReadsWell(s, i, st)
<1> DEFINE next == Read(st, s[i + 1], Peek(s, i + 1))
<1>1. next = [st EXCEPT !.skip = FALSE]
  BY DEF LeavingBlock, Read
<1>2. PICK b \in Tokens(s) : Kind(s, b) = "block" /\ End(s, b) = i + 1
  BY DEF LeavingBlock
<1>3. b \in 1..Len(s) /\ Len(s) \in Nat /\ i + 1 # 0
  BY TokensStep
<1>4. i + 1 \in b..Len(s)
  BY <1>2, <1>3, EndIs
<1>5. i + 1 \in Code(s) <=> i + 1 \in LeftOf(s, b)
  BY <1>2, <1>4, CodeIs
<1>6. i + 1 \notin Code(s)
  BY <1>2, <1>5 DEF LeftOf
<1>7. ~next.mismatch /\ next.mode = "code" /\ ~next.skip /\ Passes(st, next)
  BY <1>1 DEF LeavingBlock, Scanner, Passes
<1> HIDE DEF next
<1>8. Located(s, i + 1, next)
  BY <1>2, <1>7 DEF Located, Outside
<1>9. QED
  BY <1>6, <1>7, <1>8 DEF ReadsWell, next

LEMMA InLineStep ==
    ASSUME NEW s \in Seq(Character), NEW i \in 0..(Len(s) - 1), NEW st \in Scanner, ~st.mismatch,
           InLine(s, i, st)
    PROVE  ReadsWell(s, i, st)
<1> DEFINE ch == s[i + 1]
           next == Read(st, ch, Peek(s, i + 1))
<1>1. PICK b \in Tokens(s) : /\ Kind(s, b) = "line"
                             /\ b <= i /\ (st.skip <=> b = i)
                             /\ \A j \in Ends(s, b) : i < j
  BY DEF InLine
<1>2. /\ b \in 1..Len(s) /\ i \in Nat /\ i + 1 \in 1..Len(s)
      /\ i + 1 \in Ends(s, b) <=> End(s, b) = i + 1
      /\ i + 1 \notin Ends(s, b) => \A j \in Ends(s, b) : i + 1 < j
      /\ i + 1 \in Code(s) <=> i + 1 \in LeftOf(s, b)
  BY <1>1, Covered
<1>3. i + 1 \in Code(s) <=> i + 1 \in Ends(s, b)
  BY <1>1, <1>2 DEF LeftOf
<1>4. Ends(s, b) = {j \in (b + 2)..Len(s) : s[j] = Newline}
  BY <1>1 DEF Ends
<1>5. st.mode = "line"
  BY DEF InLine
<1>6. CASE st.skip
  <2>1. next = [st EXCEPT !.skip = FALSE]
    BY <1>6 DEF Read
  <2>2. ~next.mismatch /\ next.mode = "line" /\ ~next.skip /\ Passes(st, next)
    BY <1>5, <2>1 DEF Scanner, Passes
  <2>3. i + 1 \notin Ends(s, b) /\ b <= i + 1 /\ b # i + 1
    BY <1>1, <1>2, <1>4, <1>6
  <2> HIDE DEF next
  <2>4. InLine(s, i + 1, next)
    BY <1>1, <1>2, <2>2, <2>3 DEF InLine
  <2>5. QED
    BY <1>3, <2>2, <2>3, <2>4 DEF ReadsWell, Located, next
<1>7. CASE ~st.skip /\ ch = Newline
  <2>1. next = [Kept(st, ch) EXCEPT !.mode = "code"]
    BY <1>5, <1>7 DEF Read, InComment
  <2>2. ~next.mismatch /\ next.mode = "code" /\ ~next.skip /\ Takes(st, ch, next)
    BY <1>7, <2>1, Chars DEF Scanner, Takes, Kept
  <2>3. i + 1 \in Ends(s, b)
    BY <1>1, <1>2, <1>4, <1>7
  <2> HIDE DEF next
  <2>4. Outside(s, i + 1, next)
    BY <1>2, <2>2, <2>3 DEF Outside
  <2>5. QED
    BY <1>3, <2>2, <2>3, <2>4 DEF ReadsWell, Located, next
<1>8. CASE ~st.skip /\ ch # Newline
  <2>1. next = st
    BY <1>5, <1>8 DEF Read, InComment
  <2>2. i + 1 \notin Ends(s, b) /\ b <= i + 1 /\ b # i + 1
    BY <1>1, <1>2, <1>4, <1>8
  <2>3. InLine(s, i + 1, st)
    BY <1>1, <1>2, <1>5, <1>8, <2>2 DEF InLine
  <2> HIDE DEF next
  <2>4. QED
    BY <1>3, <2>1, <2>2, <2>3 DEF ReadsWell, Located, Passes, next
<1>9. QED
  BY <1>6, <1>7, <1>8

LEMMA InBlockStep ==
    ASSUME NEW s \in Seq(Character), NEW i \in 0..(Len(s) - 1), NEW st \in Scanner, ~st.mismatch,
           InBlock(s, i, st)
    PROVE  ReadsWell(s, i, st)
<1> DEFINE ch == s[i + 1]
           next == Read(st, ch, Peek(s, i + 1))
<1>1. PICK b \in Tokens(s) : /\ Kind(s, b) = "block"
                             /\ b <= i /\ (st.skip <=> b = i)
                             /\ \A j \in Ends(s, b) : i + 1 < j
  BY DEF InBlock
<1>2. b \in 1..Len(s) /\ i \in Nat /\ Len(s) \in Nat /\ i + 1 <= Len(s)
  BY TokensStep
<1>3. Ends(s, b) = {j \in (b + 3)..Len(s) : s[j - 1] = "*" /\ s[j] = "/"}
  BY <1>1 DEF Ends
<1>4. \A j \in Ends(s, b) : i < j
  BY <1>1, <1>2, <1>3
<1>5. i + 1 \notin Code(s)
  BY <1>1, <1>4, Covered DEF LeftOf
<1>6. st.mode = "block"
  BY DEF InBlock
<1>7. CASE st.skip
  <2>1. next = [st EXCEPT !.skip = FALSE]
    BY <1>7 DEF Read
  <2>2. ~next.mismatch /\ next.mode = "block" /\ ~next.skip /\ Passes(st, next)
    BY <1>6, <2>1 DEF Scanner, Passes
  <2>3. b <= i + 1 /\ b # i + 1 /\ \A j \in Ends(s, b) : i + 1 + 1 < j
    BY <1>1, <1>2, <1>3, <1>7
  <2> HIDE DEF next
  <2>4. InBlock(s, i + 1, next)
    BY <1>1, <2>2, <2>3 DEF InBlock
  <2>5. QED
    BY <1>5, <2>2, <2>4 DEF ReadsWell, Located, next
<1>8. CASE ~st.skip /\ ch = "*" /\ Peek(s, i + 1) = "/"
  <2>1. next = [st EXCEPT !.mode = "code", !.skip = TRUE]
    BY <1>6, <1>8 DEF Read, InComment
  <2>2. ~next.mismatch /\ next.mode = "code" /\ next.skip /\ Passes(st, next)
    BY <2>1 DEF Scanner, Passes
  <2>3. i + 1 < Len(s) /\ s[i + 1 + 1] = "/"
    BY <1>8 DEF Peek
  <2>4. i + 1 + 1 \in Ends(s, b)
    <3>1. i + 1 + 1 \in (b + 3)..Len(s) /\ i + 1 + 1 - 1 = i + 1
      BY <1>1, <1>2, <1>8, <2>3
    <3>2. QED
      BY <1>3, <1>8, <2>3, <3>1
  <2>5. \A j \in Ends(s, b) : i + 1 + 1 <= j
    BY <1>1, <1>2, <1>3
  <2>6. End(s, b) = i + 1 + 1
    BY <1>2, <2>4, <2>5, EndIs
  <2> HIDE DEF next
  <2>7. LeavingBlock(s, i + 1, next)
    BY <1>1, <2>2, <2>6 DEF LeavingBlock
  <2>8. QED
    BY <1>5, <2>2, <2>7 DEF ReadsWell, Located, next
<1>9. CASE ~st.skip /\ ~(ch = "*" /\ Peek(s, i + 1) = "/")
  <2>1. next = st
    BY <1>6, <1>9 DEF Read, InComment
  <2>2. i + 1 + 1 \notin Ends(s, b)
    <3>1. ASSUME i + 1 + 1 \in Ends(s, b) PROVE FALSE
      <4>1. i + 1 + 1 <= Len(s) /\ s[i + 1 + 1 - 1] = "*" /\ s[i + 1 + 1] = "/"
        BY <1>2, <1>3, <3>1
      <4>2. i + 1 < Len(s) /\ i + 1 + 1 - 1 = i + 1
        BY <1>2, <4>1
      <4>3. QED
        BY <1>9, <4>1, <4>2 DEF Peek
    <3>2. QED
      BY <3>1
  <2>3. b <= i + 1 /\ b # i + 1 /\ \A j \in Ends(s, b) : i + 1 + 1 < j
    BY <1>1, <1>2, <1>3, <2>2
  <2>4. InBlock(s, i + 1, st)
    BY <1>1, <1>6, <1>9, <2>3 DEF InBlock
  <2> HIDE DEF next
  <2>5. QED
    BY <1>5, <2>1, <2>4 DEF ReadsWell, Located, Passes, next
<1>10. QED
  BY <1>7, <1>8, <1>9

LEMMA InQuotesStep ==
    ASSUME NEW s \in Seq(Character), NEW i \in 0..(Len(s) - 1), NEW st \in Scanner, ~st.mismatch,
           InQuotes(s, i, st)
    PROVE  ReadsWell(s, i, st)
<1> DEFINE ch == s[i + 1]
           next == Read(st, ch, Peek(s, i + 1))
<1>1. PICK b \in Tokens(s) : /\ Kind(s, b) = "string"
                             /\ b <= i
                             /\ \A j \in Ends(s, b) : i < j
  BY DEF InQuotes
<1>2. /\ b \in 1..Len(s) /\ i \in Nat /\ i + 1 \in 1..Len(s)
      /\ i + 1 \in Ends(s, b) <=> End(s, b) = i + 1
      /\ i + 1 \notin Ends(s, b) => \A j \in Ends(s, b) : i + 1 < j
      /\ i + 1 \in Code(s) <=> i + 1 \in LeftOf(s, b)
  BY <1>1, Covered
<1>3. i + 1 \in Code(s) <=> i + 1 \in Ends(s, b)
  <2>1. LeftOf(s, b) = {b, End(s, b)} /\ b # i + 1
    BY <1>1, <1>2 DEF LeftOf
  <2>2. QED
    BY <1>2, <2>1
<1>4. i + 1 \in Ends(s, b) <=> ch = Quote /\ Even(s, i + 1)
  <2>1. i + 1 \in (b + 1)..Len(s)
    BY <1>1, <1>2
  <2>2. QED
    BY <1>1, <2>1 DEF Ends, Even
<1>5. Even(s, i + 1 + 1) <=> (ch = Backslash => ~Even(s, i + 1))
  <2>1. i + 1 \in Nat \ {0}
    BY <1>2
  <2>2. QED
    BY <2>1, BackslashesStep
<1>6. /\ st.mode \in {"string", "escaped"} /\ ~st.skip
      /\ Even(s, i + 1) <=> st.mode = "string"
  BY DEF InQuotes
<1>7. next = InString(st, ch)
  BY <1>6 DEF Read
<1>8. CASE i + 1 \in Ends(s, b)
  <2>1. next = [Kept(st, ch) EXCEPT !.mode = "code"]
    BY <1>4, <1>6, <1>7, <1>8, Chars DEF InString
  <2>2. ~next.mismatch /\ next.mode = "code" /\ ~next.skip /\ Takes(st, ch, next)
    BY <1>4, <1>6, <1>8, <2>1, Chars DEF Scanner, Takes, Kept
  <2> HIDE DEF next
  <2>3. Outside(s, i + 1, next)
    BY <1>2, <1>8, <2>2 DEF Outside
  <2>4. QED
    BY <1>3, <1>8, <2>2, <2>3 DEF ReadsWell, Located, next
<1>9. CASE i + 1 \notin Ends(s, b)
  <2>1. next \in {[st EXCEPT !.mode = "string"], [st EXCEPT !.mode = "escaped"], st}
    BY <1>4, <1>6, <1>7, <1>9 DEF InString
  <2>2. ~next.mismatch /\ ~next.skip /\ Passes(st, next)
    BY <1>6, <2>1 DEF Scanner, Passes
  <2>3. next.mode \in {"string", "escaped"} /\ (next.mode = "string" <=> Even(s, i + 1 + 1))
    <3>1. CASE st.mode = "escaped"
      BY <1>5, <1>6, <1>7, <3>1 DEF InString, Scanner
    <3>2. CASE st.mode = "string" /\ ch = Backslash
      <4>1. next = [st EXCEPT !.mode = "escaped"]
        BY <1>6, <1>7, <3>2, Chars DEF InString
      <4>2. QED
        BY <1>5, <1>6, <3>2, <4>1 DEF Scanner
    <3>3. CASE st.mode = "string" /\ ch # Backslash
      BY <1>4, <1>5, <1>6, <1>7, <1>9, <3>3 DEF InString, Scanner
    <3>4. QED
      BY <1>6, <3>1, <3>2, <3>3
  <2> HIDE DEF next
  <2>4. InQuotes(s, i + 1, next)
    <3>1. b <= i + 1
      BY <1>1, <1>2
    <3>2. QED
      BY <1>1, <1>2, <1>9, <2>2, <2>3, <3>1 DEF InQuotes
  <2>5. QED
    BY <1>3, <1>9, <2>2, <2>4 DEF ReadsWell, Located, next
<1>10. QED
  BY <1>8, <1>9

\* A character that begins no string or comment.
LEMMA PlainStep ==
    ASSUME NEW st \in Scanner, NEW ch \in Character, NEW peek,
           ~st.mismatch, ~st.skip, st.mode = "code",
           ~(ch = "/" /\ peek \in {"/", "*"}), ch # Quote
    PROVE  LET next == Read(st, ch, peek)
           IN  IF next.mismatch THEN Rejects(st, ch)
               ELSE Takes(st, ch, next) /\ next.mode = "code" /\ ~next.skip
<1> DEFINE next == Read(st, ch, peek)
           closes == st.stack # <<>> /\ ch = Closing[Last(st.stack)]
<1>1. next = CASE ch \in Opening -> [Kept(st, ch) EXCEPT !.stack = Append(@, ch)]
               [] ch \in Closers /\ ~closes -> [st EXCEPT !.mismatch = TRUE]
               [] ch \in Closers /\ closes -> [Kept(st, ch) EXCEPT !.stack = Front(@)]
               [] OTHER -> Kept(st, ch)
  BY DEF Read, InCode
<1>2. ~(ch \in Opening /\ ch \in Closers)
  BY Chars
<1>3. CASE ch \in Opening
  <2>1. next = [Kept(st, ch) EXCEPT !.stack = Append(@, ch)]
    BY <1>1, <1>2, <1>3
  <2>2. QED
    BY <1>2, <1>3, <2>1 DEF Scanner, Kept, Takes
<1>4. CASE ch \in Closers /\ ~closes
  <2>1. next = [st EXCEPT !.mismatch = TRUE]
    BY <1>1, <1>2, <1>4
  <2>2. QED
    BY <1>4, <2>1 DEF Scanner, Rejects
<1>5. CASE ch \in Closers /\ closes
  <2>1. next = [Kept(st, ch) EXCEPT !.stack = Front(@)]
    BY <1>1, <1>2, <1>5
  <2>2. QED
    BY <1>2, <1>5, <2>1 DEF Scanner, Kept, Takes
<1>6. CASE ch \notin Opening /\ ch \notin Closers
  <2>1. next = Kept(st, ch)
    BY <1>1, <1>6
  <2>2. QED
    BY <1>6, <2>1 DEF Scanner, Kept, Takes
<1>7. QED
  BY <1>3, <1>4, <1>5, <1>6

LEMMA OutsideStep ==
    ASSUME NEW s \in Seq(Character), NEW i \in 0..(Len(s) - 1), NEW st \in Scanner, ~st.mismatch,
           Outside(s, i, st)
    PROVE  ReadsWell(s, i, st)
<1> DEFINE p == i + 1
           ch == s[p]
           next == Read(st, ch, Peek(s, p))
<1>1. p \in 1..Len(s) /\ i \in Nat /\ p \in Nat /\ p - 1 = i /\ p # 0 /\ ch \in Character
  OBVIOUS
<1>2. p \in Tokens(s)
  <2>1. CASE i = 0
    BY <1>1, <2>1, TokensStep
  <2>2. ASSUME NEW b \in Tokens(s), End(s, b) = i, i # 0 PROVE p \in Tokens(s)
    <3>1. b \in 1..Len(s)
      BY TokensStep
    <3>2. i \in b..Len(s)
      BY <2>2, <3>1, EndIs
    <3>3. b < p
      BY <1>1, <3>1, <3>2
    <3>4. QED
      BY <1>1, <2>2, <3>3, TokensStep
  <2>3. QED
    BY <2>1, <2>2 DEF Outside
<1>3. st.mode = "code" /\ ~st.skip
  BY DEF Outside
<1>4. /\ Ends(s, p) \subseteq p..Len(s)
      /\ Kind(s, p) = "char" <=> p \in Ends(s, p)
      /\ Kind(s, p) = "char" => End(s, p) = p
      /\ End(s, p) # 0 => End(s, p) \in Ends(s, p)
  BY <1>1, EndIs
<1> HIDE DEF p
<1>5. p \in p..Len(s) /\ (End(s, p) = 0 \/ p <= End(s, p))
  BY <1>1, <1>4
<1>6. p \in Code(s) <=> p \in LeftOf(s, p)
  BY <1>2, <1>5, CodeIs
<1>7. \A j \in Ends(s, p) : Kind(s, p) # "char" => p < j
  BY <1>1, <1>4
<1>8. CASE Kind(s, p) = "line"
  <2>1. next = [st EXCEPT !.mode = "line", !.skip = TRUE]
    <3>1. ch = "/" /\ Peek(s, p) = "/"
      BY <1>8, KindIs
    <3>2. ch # Quote /\ ch \notin Opening /\ ch \notin Closers
      BY <3>1, Chars
    <3>3. InCode(st, ch, Peek(s, p)) = [st EXCEPT !.mode = "line", !.skip = TRUE]
      BY <3>1, <3>2 DEF InCode
    <3>4. QED
      BY <1>3, <3>3 DEF Read
  <2>2. ~next.mismatch /\ next.mode = "line" /\ next.skip /\ Passes(st, next)
    BY <2>1 DEF Scanner, Passes
  <2>3. p \notin Code(s)
    <3>1. LeftOf(s, p) = {End(s, p)} /\ p # End(s, p)
      BY <1>1, <1>4, <1>8 DEF LeftOf
    <3>2. QED
      BY <1>6, <3>1
  <2> HIDE DEF next
  <2>4. InLine(s, p, next)
    BY <1>1, <1>2, <1>7, <1>8, <2>2 DEF InLine
  <2>5. QED
    BY <2>2, <2>3, <2>4 DEF ReadsWell, Located, next, p
<1>9. CASE Kind(s, p) = "block"
  <2>1. next = [st EXCEPT !.mode = "block", !.skip = TRUE]
    <3>1. ch = "/" /\ Peek(s, p) = "*"
      BY <1>9, KindIs
    <3>2. ch # Quote /\ ch \notin Opening /\ ch \notin Closers
      BY <3>1, Chars
    <3>3. InCode(st, ch, Peek(s, p)) = [st EXCEPT !.mode = "block", !.skip = TRUE]
      BY <3>1, <3>2 DEF InCode
    <3>4. QED
      BY <1>3, <3>3 DEF Read
  <2>2. ~next.mismatch /\ next.mode = "block" /\ next.skip /\ Passes(st, next)
    BY <2>1 DEF Scanner, Passes
  <2>3. p \notin Code(s)
    BY <1>6, <1>9 DEF LeftOf
  <2>4. \A j \in Ends(s, p) : p + 1 < j
    BY <1>1, <1>9 DEF Ends
  <2> HIDE DEF next
  <2>5. InBlock(s, p, next)
    BY <1>1, <1>2, <1>9, <2>2, <2>4 DEF InBlock
  <2>6. QED
    BY <2>2, <2>3, <2>5 DEF ReadsWell, Located, next, p
<1>10. CASE Kind(s, p) = "string"
  <2>1. ch = Quote /\ ch # "/"
    BY <1>10, KindIs, Chars
  <2>2. next = [Kept(st, ch) EXCEPT !.mode = "string"]
    BY <1>3, <2>1, Chars DEF Read, InCode
  <2>3. ~next.mismatch /\ next.mode = "string" /\ ~next.skip /\ Takes(st, ch, next)
    BY <1>3, <2>1, <2>2, Chars DEF Scanner, Takes, Kept
  <2>4. p \in Code(s)
    BY <1>6, <1>10 DEF LeftOf
  <2>5. Even(s, p + 1)
    <3>1. ch # Backslash /\ p \in Nat \ {0}
      BY <1>1, <2>1, Chars
    <3>2. QED
      BY <3>1, BackslashesStep
  <2> HIDE DEF next
  <2>6. InQuotes(s, p, next)
    BY <1>1, <1>2, <1>7, <1>10, <2>3, <2>5 DEF InQuotes
  <2>7. QED
    BY <2>3, <2>4, <2>6 DEF ReadsWell, Located, next, p
<1>11. CASE Kind(s, p) = "char"
  <2>1. ~(ch = "/" /\ Peek(s, p) \in {"/", "*"}) /\ ch # Quote
    BY <1>11, KindIs
  <2>2. IF next.mismatch THEN Rejects(st, ch)
        ELSE Takes(st, ch, next) /\ next.mode = "code" /\ ~next.skip
    BY <1>1, <1>3, <2>1, PlainStep
  <2>3. p \in Code(s)
    BY <1>6, <1>11 DEF LeftOf
  <2> HIDE DEF next
  <2>4. ~next.mismatch => Outside(s, p, next)
    BY <1>2, <1>4, <1>11, <2>2 DEF Outside
  <2>5. QED
    BY <2>2, <2>3, <2>4 DEF ReadsWell, Located, next, p
<1>12. QED
  BY <1>8, <1>9, <1>10, <1>11, KindIs

LEMMA ScanStep ==
    ASSUME NEW s \in Seq(Character), NEW i \in 0..(Len(s) - 1), NEW st \in Scanner, ~st.mismatch,
           Located(s, i, st)
    PROVE  ReadsWell(s, i, st)
BY OutsideStep, LeavingBlockStep, InLineStep, InBlockStep, InQuotesStep DEF Located

-----------------------------------------------------------------------------
(* The text without comments, and the stack *)

LEMMA CodeType ==
    ASSUME NEW s \in Seq(Character)
    PROVE  Code(s) \subseteq 1..Len(s)
<1> DEFINE T == Tokens(s)
           U == UNION {LeftOf(s, p) : p \in T}
<1>1. \A p \in T : p \in 1..Len(s) /\ (End(s, p) # 0 => End(s, p) \in p..Len(s))
  BY TokensStep, EndIs
<1>2. \A p \in T : End(s, p) # 0 => End(s, p) \in 1..Len(s)
  BY <1>1
<1>3. \A p \in T : LeftOf(s, p) \subseteq {p, End(s, p)}
  BY DEF LeftOf
<1>4. Code(s) = U \ {0}
  BY DEF Code
<1>5. \A i \in U : \E p \in T : i \in LeftOf(s, p)
  <2> HIDE DEF T
  <2>1. QED
    BY Zenon
<1> HIDE DEF T, U
<1>6. \A i \in Code(s) : i \in 1..Len(s)
  BY <1>1, <1>2, <1>3, <1>4, <1>5
<1>7. QED
  BY <1>6

\* text is what is code of the first i characters of s; at says where each of
\* its characters is.
Listed(s, i, text) ==
    \E at \in [1..Len(text) -> Code(s)] :
        /\ \A k \in 1..Len(text) : at[k] <= i /\ text[k] = s[at[k]]
        /\ \A k, l \in 1..Len(text) : k < l => at[k] < at[l]
        /\ \A c \in Code(s) : c <= i => \E k \in 1..Len(text) : at[k] = c

\* The open delimiters of the first i characters of s are those of the stack;
\* open says where each of them is.
Nested(s, i, stack) ==
    LET depth == Depth(s, Code(s))
    IN  /\ depth[i] = Len(stack)
        /\ \A j \in 0..i : depth[j] >= 0
        /\ \E open \in [1..Len(stack) -> Code(s)] :
              \A k \in 1..Len(stack) :
                  /\ open[k] <= i /\ s[open[k]] = stack[k]
                  /\ depth[open[k] - 1] = k - 1
                  /\ \A j \in 0..i : open[k] <= j => depth[j] >= k

LEMMA ListedTakes ==
    ASSUME NEW s \in Seq(Character), NEW i \in 0..(Len(s) - 1), i + 1 \in Code(s),
           NEW text \in Seq(Character), Listed(s, i, text)
    PROVE  Listed(s, i + 1, Append(text, s[i + 1]))
<1>1. PICK at \in [1..Len(text) -> Code(s)] :
        /\ \A k \in 1..Len(text) : at[k] <= i /\ text[k] = s[at[k]]
        /\ \A k, l \in 1..Len(text) : k < l => at[k] < at[l]
        /\ \A c \in Code(s) : c <= i => \E k \in 1..Len(text) : at[k] = c
  BY DEF Listed
<1> DEFINE m == Len(text)
           at2 == [k \in 1..(m + 1) |-> IF k = m + 1 THEN i + 1 ELSE at[k]]
           text2 == Append(text, s[i + 1])
<1>2. m \in Nat /\ i \in Nat /\ \A c \in Code(s) : c \in Nat
  BY CodeType
<1>3. Len(text2) = m + 1 /\ text2[m + 1] = s[i + 1] /\ \A k \in 1..m : text2[k] = text[k]
  OBVIOUS
<1>4. \A k \in 1..(m + 1) : k # m + 1 => k \in 1..m
  BY <1>2
<1>5. \A k \in 1..m : k \in 1..(m + 1) /\ k # m + 1
  BY <1>2
<1> HIDE DEF m, text2
<1>6. at2 \in [1..(m + 1) -> Code(s)]
  BY <1>1, <1>4 DEF m
<1>7. at2[m + 1] = i + 1 /\ \A k \in 1..m : at2[k] = at[k] /\ at[k] \in Code(s)
  <2>1. m + 1 \in 1..(m + 1)
    BY <1>2
  <2>2. \A k \in 1..m : at[k] \in Code(s)
    BY <1>1 DEF m
  <2>3. QED
    BY <1>5, <2>1, <2>2
<1> HIDE DEF at2
<1>8. \A k \in 1..(m + 1) : at2[k] <= i + 1 /\ text2[k] = s[at2[k]]
  <2>1. \A k \in 1..m : at2[k] <= i + 1 /\ text2[k] = s[at2[k]]
    BY <1>1, <1>2, <1>3, <1>7 DEF m
  <2>2. QED
    BY <1>2, <1>3, <1>4, <1>7, <2>1
<1>9. ASSUME NEW k \in 1..(m + 1), NEW l \in 1..(m + 1), k < l
      PROVE  at2[k] < at2[l]
  <2>1. k \in 1..m
    BY <1>2, <1>9
  <2>2. CASE l = m + 1
    BY <1>1, <1>2, <1>7, <2>1, <2>2 DEF m
  <2>3. CASE l # m + 1
    BY <1>1, <1>4, <1>7, <1>9, <2>1, <2>3 DEF m
  <2>4. QED
    BY <2>2, <2>3
<1>10. ASSUME NEW c \in Code(s), c <= i + 1
       PROVE  \E k \in 1..(m + 1) : at2[k] = c
  <2>1. CASE c = i + 1
    <3>1. m + 1 \in 1..(m + 1)
      BY <1>2
    <3>2. QED
      BY <1>7, <2>1, <3>1
  <2>2. CASE c # i + 1
    <3>1. c <= i
      BY <1>2, <1>10, <2>2
    <3>2. PICK k \in 1..m : at[k] = c
      BY <1>1, <3>1 DEF m
    <3>3. QED
      BY <1>5, <1>7, <3>2
  <2>3. QED
    BY <2>1, <2>2
<1>11. Listed(s, i + 1, text2)
  <2>1. m + 1 = Len(text2)
    BY <1>3
  <2>2. at2 \in [1..Len(text2) -> Code(s)]
    BY <1>6, <2>1
  <2>3. \A k \in 1..Len(text2) : at2[k] <= i + 1 /\ text2[k] = s[at2[k]]
    BY <1>8, <2>1
  <2>4. \A k, l \in 1..Len(text2) : k < l => at2[k] < at2[l]
    BY <1>9, <2>1
  <2>5. \A c \in Code(s) : c <= i + 1 => \E k \in 1..Len(text2) : at2[k] = c
    BY <1>10, <2>1
  <2>6. QED
    BY <2>2, <2>3, <2>4, <2>5, Zenon DEF Listed
<1>12. QED
  BY <1>11 DEF text2

LEMMA ListedPasses ==
    ASSUME NEW s \in Seq(Character), NEW i \in 0..(Len(s) - 1), i + 1 \notin Code(s),
           NEW text \in Seq(Character), Listed(s, i, text)
    PROVE  Listed(s, i + 1, text)
<1>1. PICK at \in [1..Len(text) -> Code(s)] :
        /\ \A k \in 1..Len(text) : at[k] <= i /\ text[k] = s[at[k]]
        /\ \A k, l \in 1..Len(text) : k < l => at[k] < at[l]
        /\ \A c \in Code(s) : c <= i => \E k \in 1..Len(text) : at[k] = c
  BY DEF Listed
<1>2. i \in Nat /\ \A c \in Code(s) : c \in Nat
  BY CodeType
<1>3. \A c \in Code(s) : c <= i + 1 => c <= i
  BY <1>2
<1>4. \A k \in 1..Len(text) : at[k] <= i + 1
  <2>1. \A k \in 1..Len(text) : at[k] \in Nat /\ at[k] <= i
    BY <1>1, <1>2
  <2>2. QED
    BY <1>2, <2>1
<1>5. QED
  BY <1>1, <1>3, <1>4 DEF Listed

LEMMA DepthHere ==
    ASSUME NEW s \in Seq(Character), NEW i \in 0..(Len(s) - 1)
    PROVE  LET depth == Depth(s, Code(s))
           IN  /\ i \in Nat /\ i + 1 \in Nat /\ i \in 0..i
               /\ \A j \in 0..(i + 1) : depth[j] \in Int /\ (j = i + 1 \/ j \in 0..i)
               /\ \A c \in Code(s) : c \in Nat /\ c # 0
               /\ i + 1 \in Code(s) /\ s[i + 1] \in Opening => depth[i + 1] = depth[i] + 1
               /\ i + 1 \in Code(s) /\ s[i + 1] \in Closers => depth[i + 1] = depth[i] - 1
               /\ ~(i + 1 \in Code(s) /\ s[i + 1] \in Opening \union Closers) =>
                     depth[i + 1] = depth[i]
<1> DEFINE C == Code(s)
           depth == Depth(s, C)
<1>1. C \subseteq 1..Len(s)
  BY CodeType
<1>2. \A c \in C : c \in Nat /\ c # 0
  BY <1>1
<1>3. i \in Nat /\ i + 1 \in Nat /\ i \in 0..i /\ Len(s) \in Nat /\ i + 1 <= Len(s)
  OBVIOUS
<1> HIDE DEF C
<1>4. /\ \A j \in 0..Len(s) : depth[j] \in Int
      /\ depth[i + 1] = IF i + 1 \in C /\ s[i + 1] \in Opening THEN depth[i] + 1
                        ELSE IF i + 1 \in C /\ s[i + 1] \in Closers THEN depth[i] - 1
                        ELSE depth[i]
  BY <1>1, DepthStep
<1>5. ~(s[i + 1] \in Opening /\ s[i + 1] \in Closers)
  BY Chars
<1> HIDE DEF depth
<1>6. \A j \in 0..(i + 1) : j \in 0..Len(s) /\ (j = i + 1 \/ j \in 0..i)
  BY <1>3
<1>7. QED
  BY <1>2, <1>3, <1>4, <1>5, <1>6 DEF depth, C

LEMMA NestedSame ==
    ASSUME NEW s \in Seq(Character), NEW i \in 0..(Len(s) - 1),
           ~(i + 1 \in Code(s) /\ s[i + 1] \in Opening \union Closers),
           NEW stack \in Seq(Opening), Nested(s, i, stack)
    PROVE  Nested(s, i + 1, stack)
<1> DEFINE depth == Depth(s, Code(s))
           m == Len(stack)
<1>1. PICK open \in [1..m -> Code(s)] :
        \A k \in 1..m : /\ open[k] <= i /\ s[open[k]] = stack[k]
                        /\ depth[open[k] - 1] = k - 1
                        /\ \A j \in 0..i : open[k] <= j => depth[j] >= k
  BY DEF Nested
<1>2. depth[i] = m /\ \A j \in 0..i : depth[j] >= 0
  BY DEF Nested
<1>3. /\ i \in Nat /\ i + 1 \in Nat /\ i \in 0..i
      /\ \A j \in 0..(i + 1) : depth[j] \in Int /\ (j = i + 1 \/ j \in 0..i)
      /\ \A c \in Code(s) : c \in Nat /\ c # 0
      /\ depth[i + 1] = depth[i]
  BY DepthHere
<1>4. m \in Nat /\ \A k \in 1..m : k \in Nat /\ k <= m /\ open[k] \in Nat
  <2>1. \A k \in 1..m : open[k] \in Code(s)
    BY <1>1, Zenon
  <2>2. \A k \in 1..m : open[k] \in Nat
    BY <1>3, <2>1, Zenon
  <2>3. m \in Nat
    OBVIOUS
  <2> HIDE DEF m
  <2>4. QED
    BY <2>2, <2>3
<1> HIDE DEF depth, m
<1>5. \A j \in 0..(i + 1) : depth[j] >= 0
  BY <1>2, <1>3, <1>4
<1>6. \A k \in 1..m : open[k] <= i + 1
  BY <1>1, <1>3, <1>4
<1>7. \A k \in 1..m : \A j \in 0..(i + 1) : open[k] <= j => depth[j] >= k
  BY <1>1, <1>2, <1>3, <1>4
<1>8. depth[i + 1] = m
  BY <1>2, <1>3
<1>9. \A k \in 1..m : /\ open[k] <= i + 1 /\ s[open[k]] = stack[k]
                      /\ depth[open[k] - 1] = k - 1
                      /\ \A j \in 0..(i + 1) : open[k] <= j => depth[j] >= k
  BY <1>1, <1>6, <1>7, Zenon
<1>10. QED
  BY <1>1, <1>5, <1>8, <1>9, Zenon DEF Nested, depth, m

LEMMA NestedOpens ==
    ASSUME NEW s \in Seq(Character), NEW i \in 0..(Len(s) - 1),
           i + 1 \in Code(s), s[i + 1] \in Opening,
           NEW stack \in Seq(Opening), Nested(s, i, stack)
    PROVE  Nested(s, i + 1, Append(stack, s[i + 1]))
<1> DEFINE depth == Depth(s, Code(s))
           m == Len(stack)
           stack2 == Append(stack, s[i + 1])
<1>1. PICK open \in [1..m -> Code(s)] :
        \A k \in 1..m : /\ open[k] <= i /\ s[open[k]] = stack[k]
                        /\ depth[open[k] - 1] = k - 1
                        /\ \A j \in 0..i : open[k] <= j => depth[j] >= k
  BY DEF Nested
<1>2. depth[i] = m /\ \A j \in 0..i : depth[j] >= 0
  BY DEF Nested
<1>3. /\ i \in Nat /\ i + 1 \in Nat /\ i \in 0..i
      /\ \A j \in 0..(i + 1) : depth[j] \in Int /\ (j = i + 1 \/ j \in 0..i)
      /\ \A c \in Code(s) : c \in Nat /\ c # 0
      /\ depth[i + 1] = depth[i] + 1
  BY DepthHere
<1>4. m \in Nat /\ \A k \in 1..m : k \in Nat /\ k <= m /\ open[k] \in Nat /\ open[k] \in Code(s)
  <2>1. \A k \in 1..m : open[k] \in Code(s)
    BY <1>1, Zenon
  <2>2. \A k \in 1..m : open[k] \in Nat
    BY <1>3, <2>1, Zenon
  <2>3. m \in Nat
    OBVIOUS
  <2> HIDE DEF m
  <2>4. QED
    BY <2>1, <2>2, <2>3
<1>5. Len(stack2) = m + 1 /\ stack2[m + 1] = s[i + 1] /\ \A k \in 1..m : stack2[k] = stack[k]
  OBVIOUS
<1> DEFINE open2 == [k \in 1..(m + 1) |-> IF k = m + 1 THEN i + 1 ELSE open[k]]
<1> HIDE DEF depth, m, stack2
<1>6. \A k \in 1..(m + 1) : k = m + 1 \/ (k \in 1..m /\ k # m + 1)
  BY <1>4
<1>7. m + 1 \in 1..(m + 1) /\ \A k \in 1..m : k \in 1..(m + 1) /\ k # m + 1
  BY <1>4
<1>8. open2 \in [1..(m + 1) -> Code(s)]
  BY <1>4, <1>6
<1>9. open2[m + 1] = i + 1 /\ \A k \in 1..m : open2[k] = open[k]
  BY <1>7
<1> HIDE DEF open2
<1>10. \A j \in 0..(i + 1) : depth[j] >= 0
  BY <1>2, <1>3, <1>4
<1>11. ASSUME NEW k \in 1..(m + 1)
       PROVE  /\ open2[k] <= i + 1 /\ s[open2[k]] = stack2[k]
              /\ depth[open2[k] - 1] = k - 1
              /\ \A j \in 0..(i + 1) : open2[k] <= j => depth[j] >= k
  <2>1. CASE k = m + 1
    <3>1. open2[k] = i + 1 /\ open2[k] - 1 = i /\ k - 1 = m
      <4>1. open2[k] = i + 1
        BY <1>9, <2>1, Zenon
      <4>2. open2[k] - 1 = i
        BY <1>3, <4>1
      <4>3. k - 1 = m
        BY <1>4, <2>1
      <4>4. QED
        BY <4>1, <4>2, <4>3
    <3>2. \A j \in 0..(i + 1) : i + 1 <= j => depth[j] >= k
      BY <1>2, <1>3, <1>4, <2>1
    <3>3. QED
      BY <1>2, <1>3, <1>5, <2>1, <3>1, <3>2
  <2>2. CASE k \in 1..m
    <3>1. open2[k] = open[k] /\ open[k] <= i + 1
      <4>1. open2[k] = open[k] /\ open[k] \in Nat /\ open[k] <= i
        BY <1>1, <1>4, <1>9, <2>2, Zenon
      <4>2. QED
        BY <1>3, <4>1
    <3>2. \A j \in 0..(i + 1) : open[k] <= j => depth[j] >= k
      <4>1. \A j \in 0..i : open[k] <= j => depth[j] >= k
        BY <1>1, <2>2, Zenon
      <4>2. depth[i + 1] >= k
        BY <1>2, <1>3, <1>4, <2>2
      <4>3. \A j \in 0..(i + 1) : j = i + 1 \/ j \in 0..i
        BY <1>3
      <4>4. QED
        BY <4>1, <4>2, <4>3, Zenon
    <3>3. QED
      BY <1>1, <1>5, <2>2, <3>1, <3>2
  <2>3. QED
    BY <1>6, <2>1, <2>2
<1>12. Nested(s, i + 1, stack2)
  <2>1. m + 1 = Len(stack2)
    BY <1>5
  <2>2. depth[i + 1] = Len(stack2) /\ open2 \in [1..Len(stack2) -> Code(s)]
    BY <1>2, <1>3, <1>8, <2>1
  <2>3. \A k \in 1..Len(stack2) :
          /\ open2[k] <= i + 1 /\ s[open2[k]] = stack2[k]
          /\ depth[open2[k] - 1] = k - 1
          /\ \A j \in 0..(i + 1) : open2[k] <= j => depth[j] >= k
    BY <1>11, <2>1
  <2>4. QED
    BY <1>10, <2>2, <2>3, Zenon DEF Nested, depth
<1>13. QED
  BY <1>12 DEF stack2

LEMMA NestedCloses ==
    ASSUME NEW s \in Seq(Character), NEW i \in 0..(Len(s) - 1),
           i + 1 \in Code(s), s[i + 1] \in Closers,
           NEW stack \in Seq(Opening), stack # <<>>, Nested(s, i, stack)
    PROVE  Nested(s, i + 1, Front(stack))
<1> DEFINE depth == Depth(s, Code(s))
           m == Len(stack)
           stack2 == Front(stack)
<1>1. PICK open \in [1..m -> Code(s)] :
        \A k \in 1..m : /\ open[k] <= i /\ s[open[k]] = stack[k]
                        /\ depth[open[k] - 1] = k - 1
                        /\ \A j \in 0..i : open[k] <= j => depth[j] >= k
  BY DEF Nested
<1>2. depth[i] = m /\ \A j \in 0..i : depth[j] >= 0
  BY DEF Nested
<1>3. /\ i \in Nat /\ i + 1 \in Nat /\ i \in 0..i
      /\ \A j \in 0..(i + 1) : depth[j] \in Int /\ (j = i + 1 \/ j \in 0..i)
      /\ \A c \in Code(s) : c \in Nat /\ c # 0
      /\ depth[i + 1] = depth[i] - 1
  BY DepthHere
<1>4. /\ Len(stack2) = m - 1 /\ m \in Nat \ {0}
      /\ \A k \in 1..(m - 1) : stack2[k] = stack[k]
  BY WithoutTop
<1>5. \A k \in 1..(m - 1) : k \in 1..m /\ k <= m - 1 /\ k \in Nat
  BY <1>4
<1>6. \A k \in 1..m : open[k] \in Nat /\ open[k] \in Code(s)
  BY <1>1, <1>3
<1> DEFINE open2 == [k \in 1..(m - 1) |-> open[k]]
<1> HIDE DEF depth, m, stack2
<1>7. open2 \in [1..(m - 1) -> Code(s)] /\ \A k \in 1..(m - 1) : open2[k] = open[k]
  BY <1>5, <1>6
<1> HIDE DEF open2
<1>8. \A j \in 0..(i + 1) : depth[j] >= 0
  BY <1>2, <1>3, <1>4
<1>9. ASSUME NEW k \in 1..(m - 1)
      PROVE  /\ open2[k] <= i + 1 /\ s[open2[k]] = stack2[k]
             /\ depth[open2[k] - 1] = k - 1
             /\ \A j \in 0..(i + 1) : open2[k] <= j => depth[j] >= k
  <2>1. k \in 1..m /\ open2[k] = open[k] /\ open[k] \in Nat
    BY <1>5, <1>6, <1>7
  <2>2. open[k] <= i + 1
    BY <1>1, <1>3, <2>1
  <2>3. \A j \in 0..(i + 1) : open[k] <= j => depth[j] >= k
    BY <1>1, <1>2, <1>3, <1>4, <1>5, <2>1
  <2>4. QED
    BY <1>1, <1>4, <2>1, <2>2, <2>3
<1>10. Nested(s, i + 1, stack2)
  <2>1. m - 1 = Len(stack2)
    BY <1>4
  <2>2. depth[i + 1] = Len(stack2) /\ open2 \in [1..Len(stack2) -> Code(s)]
    BY <1>2, <1>3, <1>7, <2>1
  <2>3. \A k \in 1..Len(stack2) :
          /\ open2[k] <= i + 1 /\ s[open2[k]] = stack2[k]
          /\ depth[open2[k] - 1] = k - 1
          /\ \A j \in 0..(i + 1) : open2[k] <= j => depth[j] >= k
    BY <1>9, <2>1
  <2>4. QED
    BY <1>8, <2>2, <2>3, Zenon DEF Nested, depth
<1>11. QED
  BY <1>10 DEF stack2

\* A closing delimiter is refused just when there is nothing that it closes.
LEMMA RefusedIs ==
    ASSUME NEW s \in Seq(Character), NEW i \in 0..(Len(s) - 1),
           i + 1 \in Code(s), s[i + 1] \in Closers,
           NEW stack \in Seq(Opening), Nested(s, i, stack)
    PROVE  ClosesNothing(s, Code(s), Depth(s, Code(s)), i + 1)
              <=> (stack = <<>> \/ s[i + 1] # Closing[Last(stack)])
<1> DEFINE depth == Depth(s, Code(s))
           m == Len(stack)
           c == i + 1
<1>1. PICK open \in [1..m -> Code(s)] :
        \A k \in 1..m : /\ open[k] <= i /\ s[open[k]] = stack[k]
                        /\ depth[open[k] - 1] = k - 1
                        /\ \A j \in 0..i : open[k] <= j => depth[j] >= k
  BY DEF Nested
<1>2. depth[i] = m /\ \A j \in 0..i : depth[j] >= 0
  BY DEF Nested
<1>3. /\ i \in Nat /\ c \in Nat /\ i \in 0..i
      /\ \A j \in 0..c : depth[j] \in Int /\ (j = c \/ j \in 0..i)
      /\ \A x \in Code(s) : x \in Nat /\ x # 0
      /\ depth[c] = depth[i] - 1
  BY DepthHere
<1>4. m \in Nat /\ (stack = <<>> <=> m = 0)
  OBVIOUS
<1>5. stack # <<>> => m \in 1..m /\ Last(stack) = stack[m] /\ Last(stack) \in Opening
  BY WithoutTop
<1>6. c - 1 = i
  BY <1>3
<1> HIDE DEF depth, m, c
<1>7. ASSUME stack # <<>>, s[c] = Closing[Last(stack)]
      PROVE  Closes(s, depth, c, open[m]) /\ open[m] \in Code(s) /\ open[m] < c
  <2>1. open[m] \in Code(s) /\ open[m] \in Nat /\ open[m] <= i
    BY <1>1, <1>3, <1>5, <1>7
  <2>2. s[open[m]] \in Opening /\ s[c] = Closing[s[open[m]]]
    BY <1>1, <1>5, <1>7
  <2>3. depth[open[m] - 1] = depth[c]
    BY <1>1, <1>2, <1>3, <1>5, <1>7
  <2>4. \A j \in open[m]..(c - 1) : depth[j] > depth[c]
    <3>1. \A j \in open[m]..(c - 1) : j \in 0..i /\ open[m] <= j /\ j \in 0..c
      BY <1>3, <1>6, <2>1 DEF c
    <3>2. \A j \in open[m]..(c - 1) : depth[j] >= m /\ depth[j] \in Int
      BY <1>1, <1>3, <1>5, <1>7, <3>1
    <3>3. QED
      BY <1>2, <1>3, <1>4, <3>2
  <2>5. open[m] < c
    BY <1>3, <2>1 DEF c
  <2>6. QED
    BY <2>1, <2>2, <2>3, <2>4, <2>5 DEF Closes
<1>8. ASSUME NEW o \in Code(s), o < c, Closes(s, depth, c, o)
      PROVE  stack # <<>> /\ s[c] = Closing[Last(stack)]
  <2>1. o \in Nat /\ o # 0 /\ o <= i /\ o \in 0..i /\ o - 1 \in 0..i /\ o - 1 \in 0..c
    BY <1>3, <1>8 DEF c
  <2>2. s[c] = Closing[s[o]] /\ depth[o - 1] = m - 1
    BY <1>2, <1>3, <1>8 DEF Closes
  <2>3. \A j \in o..i : depth[j] > m - 1
    BY <1>2, <1>3, <1>6, <1>8 DEF Closes
  <2>4. stack # <<>>
    BY <1>2, <1>4, <2>1, <2>2
  <2> DEFINE p == open[m]
  <2>5. p \in Nat /\ p # 0 /\ p <= i /\ p - 1 \in 0..i
    BY <1>1, <1>3, <1>5, <2>4
  <2>6. depth[p - 1] = m - 1 /\ s[p] = stack[m] /\ \A j \in 0..i : p <= j => depth[j] >= m
    BY <1>1, <1>5, <2>4
  <2> HIDE DEF p
  <2>7. ~(o < p)
    <3>1. ASSUME o < p PROVE FALSE
      <4>1. p - 1 \in o..i
        BY <1>3, <2>1, <2>5, <3>1
      <4>2. QED
        BY <1>4, <2>3, <2>6, <4>1
    <3>2. QED
      BY <3>1
  <2>8. ~(p < o)
    <3>1. ASSUME p < o PROVE FALSE
      <4>1. p <= o - 1
        BY <2>1, <2>5, <3>1
      <4>2. QED
        BY <1>4, <2>1, <2>2, <2>6, <4>1
    <3>2. QED
      BY <3>1
  <2>9. o = p
    BY <2>1, <2>5, <2>7, <2>8
  <2>10. QED
    BY <1>5, <2>2, <2>4, <2>6, <2>9
<1>9. ClosesNothing(s, Code(s), depth, c) <=> (stack = <<>> \/ s[c] # Closing[Last(stack)])
  <2>1. s[c] \in Closers
    BY DEF c
  <2>2. QED
    BY <1>7, <1>8, <2>1 DEF ClosesNothing
<1>10. QED
  BY <1>9 DEF c, depth

-----------------------------------------------------------------------------
(* The scanner and the tokens give the same answer *)

\* The scanner's variables behind the i-th character.
Scanned(s, i, st) ==
    IF st.mismatch
    THEN \E c \in Code(s) : ClosesNothing(s, Code(s), Depth(s, Code(s)), c)
    ELSE /\ Located(s, i, st)
         /\ Listed(s, i, st.code)
         /\ Nested(s, i, st.stack)
         /\ \A c \in Code(s) : c <= i => ~ClosesNothing(s, Code(s), Depth(s, Code(s)), c)

LEMMA ScannedStart ==
    ASSUME NEW s \in Seq(Character)
    PROVE  Scanned(s, 0, Start)
<1>1. Start = [mode |-> "code", stack |-> <<>>, code |-> <<>>, skip |-> FALSE, mismatch |-> FALSE]
  BY DEF Start
<1>2. Located(s, 0, Start)
  BY <1>1 DEF Located, Outside
<1>3. \A c \in Code(s) : c \in Nat /\ c # 0
  BY CodeType
<1>4. \A c \in Code(s) : ~(c <= 0)
  BY <1>3
<1>5. Len(<<>>) = 0 /\ 1..0 = {}
  OBVIOUS
<1> DEFINE none == [k \in 1..0 |-> 0]
<1>6. none \in [1..0 -> Code(s)]
  OBVIOUS
<1>7. Listed(s, 0, <<>>)
  BY <1>4, <1>5, <1>6 DEF Listed
<1>8. Nested(s, 0, <<>>)
  <2> DEFINE depth == Depth(s, Code(s))
  <2>1. depth[0] = 0
    BY CodeType, DepthStep
  <2> HIDE DEF depth
  <2>2. \A j \in 0..0 : depth[j] >= 0
    BY <2>1
  <2>3. QED
    BY <1>5, <1>6, <2>1, <2>2 DEF Nested, depth
<1>9. QED
  BY <1>1, <1>2, <1>4, <1>7, <1>8 DEF Scanned

LEMMA ScannedStep ==
    ASSUME NEW s \in Seq(Character), NEW i \in 0..(Len(s) - 1), NEW st \in Scanner,
           Scanned(s, i, st)
    PROVE  Scanned(s, i + 1, Read(st, s[i + 1], Peek(s, i + 1)))
<1> DEFINE ch == s[i + 1]
           next == Read(st, ch, Peek(s, i + 1))
           Nothing(c) == ClosesNothing(s, Code(s), Depth(s, Code(s)), c)
<1>1. CASE st.mismatch
  <2>1. next = st
    BY <1>1 DEF Read
  <2>2. QED
    BY <1>1, <2>1 DEF Scanned
<1>2. CASE ~st.mismatch
  <2>1. /\ Located(s, i, st) /\ Listed(s, i, st.code) /\ Nested(s, i, st.stack)
        /\ \A c \in Code(s) : c <= i => ~Nothing(c)
    BY <1>2 DEF Scanned
  <2>2. ReadsWell(s, i, st)
    BY <1>2, <2>1, ScanStep
  <2>3. st.code \in Seq(Character) /\ st.stack \in Seq(Opening)
    BY DEF Scanner
  <2>4. i + 1 \in Code(s) /\ ch \in Closers =>
           (Nothing(i + 1) <=> st.stack = <<>> \/ ch # Closing[Last(st.stack)])
    BY <2>1, <2>3, RefusedIs
  <2>5. \A c \in Code(s) : c <= i + 1 => c <= i \/ c = i + 1
    <3>1. \A c \in Code(s) : c \in Nat
      BY CodeType
    <3>2. i \in Nat
      OBVIOUS
    <3>3. QED
      BY <3>1, <3>2
  <2>6. Nothing(i + 1) => ch \in Closers
    BY DEF ClosesNothing
  <2> HIDE DEF Nothing, next
  <2>7. CASE next.mismatch
    <3>1. i + 1 \in Code(s) /\ Rejects(st, ch)
      BY <2>2, <2>7 DEF ReadsWell, next
    <3>2. Nothing(i + 1)
      BY <2>4, <3>1 DEF Rejects
    <3>3. QED
      BY <2>7, <3>1, <3>2 DEF Scanned, next, Nothing
  <2>8. CASE ~next.mismatch /\ i + 1 \in Code(s)
    <3>1. Located(s, i + 1, next) /\ Takes(st, ch, next)
      BY <2>2, <2>8 DEF ReadsWell, next
    <3>2. Listed(s, i + 1, next.code)
      BY <2>1, <2>3, <2>8, <3>1, ListedTakes DEF Takes
    <3>3. Nested(s, i + 1, next.stack)
      <4>1. CASE ch \in Opening
        BY <2>1, <2>3, <2>8, <3>1, <4>1, NestedOpens DEF Takes
      <4>2. CASE ch \in Closers
        BY <2>1, <2>3, <2>8, <3>1, <4>2, NestedCloses DEF Takes
      <4>3. CASE ch \notin Opening \union Closers
        BY <2>1, <2>3, <3>1, <4>3, NestedSame DEF Takes
      <4>4. QED
        BY <4>1, <4>2, <4>3
    <3>4. ~Nothing(i + 1)
      BY <2>4, <2>6, <2>8, <3>1 DEF Takes
    <3>5. \A c \in Code(s) : c <= i + 1 => ~Nothing(c)
      BY <2>1, <2>5, <3>4
    <3>6. QED
      BY <2>8, <3>1, <3>2, <3>3, <3>5 DEF Scanned, next, Nothing
  <2>9. CASE ~next.mismatch /\ i + 1 \notin Code(s)
    <3>1. Located(s, i + 1, next) /\ Passes(st, next)
      BY <2>2, <2>9 DEF ReadsWell, next
    <3>2. Listed(s, i + 1, next.code)
      BY <2>1, <2>3, <2>9, <3>1, ListedPasses DEF Passes
    <3>3. Nested(s, i + 1, next.stack)
      BY <2>1, <2>3, <2>9, <3>1, NestedSame DEF Passes
    <3>4. \A c \in Code(s) : c <= i + 1 => ~Nothing(c)
      BY <2>1, <2>5, <2>9
    <3>5. QED
      BY <2>9, <3>1, <3>2, <3>3, <3>4 DEF Scanned, next, Nothing
  <2>10. QED
    BY <2>7, <2>8, <2>9 DEF next
<1>3. QED
  BY <1>1, <1>2

LEMMA ScannedAll ==
    ASSUME NEW s \in Seq(Character)
    PROVE  Scanned(s, Len(s), After(s)[Len(s)]) /\ After(s)[Len(s)] \in Scanner
<1> DEFINE S == {i \in 0..Len(s) : Scanned(s, i, After(s)[i])}
<1>1. Len(s) \in Nat
  OBVIOUS
<1>2. 0 \in S
  BY <1>1, ScannedStart, AfterSteps
<1>3. ASSUME NEW i \in 0..(Len(s) - 1), i \in S
      PROVE  i + 1 \in S
  <2>1. i \in 0..Len(s) /\ i + 1 \in 0..Len(s)
    BY <1>1
  <2>2. After(s)[i] \in Scanner /\ After(s)[i + 1] = Read(After(s)[i], s[i + 1], Peek(s, i + 1))
    BY <2>1, AfterSteps
  <2>3. Scanned(s, i + 1, After(s)[i + 1])
    BY <1>3, <2>2, ScannedStep
  <2>4. QED
    BY <2>1, <2>3
<1>4. \A i \in 0..Len(s) : i \in S
  <2> HIDE DEF S
  <2>1. QED
    BY <1>1, <1>2, <1>3, Upwards
<1>5. Len(s) \in 0..Len(s)
  BY <1>1
<1>6. Len(s) \in S
  BY <1>4, <1>5
<1>7. QED
  BY <1>5, <1>6, AfterSteps

\* The answer of the end of the code.
LEMMA EndsInOperatorIs ==
    ASSUME NEW s \in Seq(Character), NEW text \in Seq(Character), Listed(s, Len(s), text)
    PROVE  EndsInOperator(text) <=> EndsOpen(s, Code(s))
<1> DEFINE n == Len(s)
           m == Len(text)
           C == Code(s)
<1>1. PICK at \in [1..m -> C] :
        /\ \A k \in 1..m : at[k] <= n /\ text[k] = s[at[k]]
        /\ \A k, l \in 1..m : k < l => at[k] < at[l]
        /\ \A c \in C : c <= n => \E k \in 1..m : at[k] = c
  BY DEF Listed
<1>2. \A c \in C : c \in Nat /\ c <= n
  BY CodeType
<1>3. \A c \in C : \E k \in 1..m : at[k] = c
  BY <1>1, <1>2
<1>4. m \in Nat /\ DOMAIN text = 1..m /\ \A k \in 1..m : k \in Nat /\ at[k] \in C /\ at[k] \in Nat
  BY <1>1, <1>2
<1> HIDE DEF C, n, m
\* The order is kept both ways.
<1>5. \A k, l \in 1..m : k < l <=> at[k] < at[l]
  <2>1. \A k, l \in 1..m : k < l \/ k = l \/ l < k
    BY <1>4
  <2>2. QED
    BY <1>1, <1>4, <2>1
<1> DEFINE shown == {k \in 1..m : text[k] \notin Space}
           Final(k) == k \in shown /\ \A l \in shown : l <= k
<1>6. \A k \in 1..m : Final(k) <=> s[at[k]] \notin Space /\ \A j \in C : j > at[k] => s[j] \in Space
  <2>1. ASSUME NEW k \in 1..m, Final(k), NEW j \in C, j > at[k]
        PROVE  s[j] \in Space
    <3>1. PICK l \in 1..m : at[l] = j
      BY <1>3
    <3>2. k < l
      BY <1>4, <1>5, <2>1, <3>1
    <3>3. l \notin shown
      BY <1>4, <2>1, <3>2
    <3>4. QED
      BY <1>1, <3>1, <3>3
  <2>2. ASSUME NEW k \in 1..m, s[at[k]] \notin Space, \A j \in C : j > at[k] => s[j] \in Space,
               NEW l \in shown
        PROVE  l <= k
    <3>1. ~(k < l)
      <4>1. ASSUME k < l PROVE FALSE
        <5>1. at[l] \in C /\ at[l] > at[k]
          BY <1>4, <1>5, <4>1
        <5>2. QED
          BY <1>1, <2>2, <5>1
      <4>2. QED
        BY <4>1
    <3>2. QED
      BY <1>4, <3>1
  <2>3. \A k \in 1..m : k \in shown <=> s[at[k]] \notin Space
    BY <1>1
  <2>4. QED
    BY <2>1, <2>2, <2>3
\* The last one shown, when there is one.
<1>7. shown # {} => \E k \in shown : \A l \in shown : l <= k
  <2>1. shown \subseteq 1..m
    OBVIOUS
  <2> HIDE DEF shown
  <2>2. QED
    BY <1>4, <2>1, GreatestElement
<1> DEFINE last == CHOOSE k \in shown : \A l \in shown : l <= k
<1>8. shown # {} => Final(last)
  BY <1>7
<1>9. \A k : Final(k) => shown # {} /\ k = last /\ k \in 1..m
  <2>1. ASSUME NEW k, Final(k) PROVE k = last
    <3>1. k \in shown /\ last \in shown /\ k <= last /\ last <= k
      BY <1>8, <2>1
    <3>2. QED
      BY <1>4, <3>1
  <2>2. QED
    BY <2>1
<1>10. EndsInOperator(text) <=>
          /\ shown # {}
          /\ \/ text[last] \in Incomplete
             \/ last > 1 /\ IncompletePair(text[last - 1], text[last])
  BY <1>4 DEF EndsInOperator
<1> HIDE DEF last, Final
<1>11. ASSUME NEW k \in 1..m
       PROVE  (k > 1 /\ IncompletePair(text[k - 1], text[k])) <=>
                 \E c \in C : /\ c < at[k] /\ IncompletePair(s[c], s[at[k]])
                              /\ \A j \in C : j < at[k] => j <= c
  <2>1. ASSUME k > 1, IncompletePair(text[k - 1], text[k])
        PROVE  \E c \in C : /\ c < at[k] /\ IncompletePair(s[c], s[at[k]])
                            /\ \A j \in C : j < at[k] => j <= c
    <3>1. k - 1 \in 1..m /\ k - 1 < k
      BY <1>4, <2>1
    <3>2. /\ at[k - 1] \in C /\ at[k - 1] < at[k]
          /\ IncompletePair(s[at[k - 1]], s[at[k]])
      BY <1>1, <1>4, <2>1, <3>1
    <3>3. ASSUME NEW j \in C, j < at[k] PROVE j <= at[k - 1]
      <4>1. PICK l \in 1..m : at[l] = j
        BY <1>3
      <4>2. l < k
        BY <1>5, <3>3, <4>1
      <4>3. l = k - 1 \/ l < k - 1
        BY <1>4, <4>2
      <4>4. QED
        BY <1>4, <1>5, <3>1, <4>1, <4>3
    <3>4. QED
      BY <3>2, <3>3
  <2>2. ASSUME NEW c \in C, c < at[k], IncompletePair(s[c], s[at[k]]),
               \A j \in C : j < at[k] => j <= c
        PROVE  k > 1 /\ IncompletePair(text[k - 1], text[k])
    <3>1. PICK l \in 1..m : at[l] = c
      BY <1>3
    <3>2. l < k
      BY <1>5, <2>2, <3>1
    <3>3. k > 1 /\ k - 1 \in 1..m /\ k - 1 < k
      BY <1>4, <3>2
    <3>4. at[k - 1] <= at[l]
      BY <1>4, <1>5, <2>2, <3>1, <3>3
    <3>5. ~(l < k - 1)
      BY <1>4, <1>5, <3>3, <3>4
    <3>6. l = k - 1
      BY <1>4, <3>2, <3>5
    <3>7. QED
      BY <1>1, <2>2, <3>1, <3>3, <3>6
  <2>3. QED
    BY <2>1, <2>2
<1> DEFINE Open(k) == \/ text[k] \in Incomplete
                      \/ k > 1 /\ IncompletePair(text[k - 1], text[k])
           OpenAt(c) == \/ s[c] \in Incomplete
                        \/ \E x \in C : /\ x < c /\ IncompletePair(s[x], s[c])
                                         /\ \A j \in C : j < c => j <= x
<1>12. \A k \in 1..m : Open(k) <=> OpenAt(at[k])
  <2>1. \A k \in 1..m : text[k] = s[at[k]]
    BY <1>1
  <2>2. QED
    BY <1>11, <2>1
<1>13. EndsOpen(s, C) <=> \E c \in C : /\ s[c] \notin Space /\ \A j \in C : j > c => s[j] \in Space
                                       /\ OpenAt(c)
  BY DEF EndsOpen
<1>14. EndsInOperator(text) <=> \E k \in 1..m : Final(k) /\ Open(k)
  BY <1>8, <1>9, <1>10
<1> HIDE DEF Open, OpenAt
<1>15. EndsInOperator(text) <=>
          \E k \in 1..m : /\ s[at[k]] \notin Space /\ \A j \in C : j > at[k] => s[j] \in Space
                          /\ OpenAt(at[k])
  BY <1>6, <1>12, <1>14
<1>16. EndsInOperator(text) <=> EndsOpen(s, C)
  BY <1>3, <1>4, <1>13, <1>15
<1>17. QED
  BY <1>16 DEF C

\* Every string and comment that begins is closed, a comment of a line aside.
LEMMA ModeIs ==
    ASSUME NEW s \in Seq(Character), NEW st \in Scanner, Located(s, Len(s), st)
    PROVE  st.mode \in {"code", "line"}
              <=> \A p \in Tokens(s) : End(s, p) = 0 => Kind(s, p) = "line"
<1> DEFINE n == Len(s)
<1>1. n \in Nat
  OBVIOUS
<1>2. \A p \in Tokens(s) : /\ p \in 1..n /\ End(s, p) \in Nat
                           /\ End(s, p) # 0 => p <= End(s, p) /\ End(s, p) <= n
                           /\ \A j \in Ends(s, p) : j <= n
                           /\ End(s, p) # 0 => End(s, p) \in Ends(s, p)
  <2>1. ASSUME NEW p \in Tokens(s)
        PROVE  /\ p \in 1..n /\ End(s, p) \in Nat
               /\ End(s, p) # 0 => p <= End(s, p) /\ End(s, p) <= n
               /\ \A j \in Ends(s, p) : j <= n
               /\ End(s, p) # 0 => End(s, p) \in Ends(s, p)
    <3>1. p \in 1..n
      BY TokensStep
    <3>2. /\ Ends(s, p) \subseteq p..n /\ End(s, p) \in Nat
          /\ End(s, p) # 0 => End(s, p) \in Ends(s, p)
      BY <3>1, EndIs
    <3> HIDE DEF n
    <3>3. QED
      BY <1>1, <3>1, <3>2
  <2>2. QED
    BY <2>1
<1> HIDE DEF n
\* A token that has no end is the last one.
<1>3. ASSUME NEW b \in Tokens(s), \A j \in Ends(s, b) : n < j
      PROVE  End(s, b) = 0 /\ \A p \in Tokens(s) : End(s, p) = 0 => p = b
  <2>1. End(s, b) = 0
    BY <1>1, <1>2, <1>3
  <2>2. ASSUME NEW p \in Tokens(s), End(s, p) = 0 PROVE p = b
    <3>1. ~(p < b) /\ ~(b < p)
      BY <2>1, <2>2, Apart
    <3>2. QED
      BY <1>2, <3>1
  <2>3. QED
    BY <2>1, <2>2
<1>4. CASE Outside(s, n, st)
  <2>1. CASE n = 0
    BY <1>2, <1>4, <2>1 DEF Outside
  <2>2. CASE n # 0
    <3>1. PICK b \in Tokens(s) : End(s, b) = n
      BY <1>4, <2>2 DEF Outside
    <3>2. ASSUME NEW p \in Tokens(s), End(s, p) = 0 PROVE FALSE
      <4>1. ~(p < b)
        BY <3>2, Apart
      <4>2. ~(b < p)
        <5>1. ASSUME b < p PROVE FALSE
          <6>1. n < p
            BY <3>1, <5>1, Apart
          <6>2. QED
            BY <1>1, <1>2, <6>1
        <5>2. QED
          BY <5>1
      <4>3. p = b
        BY <1>2, <4>1, <4>2
      <4>4. QED
        BY <2>2, <3>1, <3>2, <4>3
    <3>3. QED
      BY <1>4, <3>2 DEF Outside
  <2>3. QED
    BY <2>1, <2>2
<1>5. CASE LeavingBlock(s, n, st)
  <2>1. PICK b \in Tokens(s) : End(s, b) = n + 1
    BY <1>5 DEF LeavingBlock
  <2>2. QED
    BY <1>1, <1>2, <2>1
<1>6. CASE InLine(s, n, st)
  <2>1. PICK b \in Tokens(s) : Kind(s, b) = "line" /\ \A j \in Ends(s, b) : n < j
    BY <1>6 DEF InLine
  <2>2. QED
    BY <1>3, <1>6, <2>1 DEF InLine
<1>7. CASE InBlock(s, n, st)
  <2>1. PICK b \in Tokens(s) : Kind(s, b) = "block" /\ \A j \in Ends(s, b) : n + 1 < j
    BY <1>7 DEF InBlock
  <2>2. \A j \in Ends(s, b) : n < j
    <3>1. \A j \in Ends(s, b) : j <= n
      BY <1>2
    <3>2. Ends(s, b) \subseteq Nat
      BY <1>2, EndIs DEF n
    <3>3. QED
      BY <1>1, <2>1, <3>2
  <2>3. QED
    BY <1>3, <1>7, <2>1, <2>2 DEF InBlock
<1>8. CASE InQuotes(s, n, st)
  <2>1. PICK b \in Tokens(s) : Kind(s, b) = "string" /\ \A j \in Ends(s, b) : n < j
    BY <1>8 DEF InQuotes
  <2>2. QED
    BY <1>3, <1>8, <2>1 DEF InQuotes
<1>9. QED
  BY <1>4, <1>5, <1>6, <1>7, <1>8 DEF Located, n

\* For every text, reading it character by character with a stack
\* (is_repl_input_complete) answers what the tokens and the depth of nesting
\* of the text say.
THEOREM SameAnswer ==
    ASSUME NEW s \in Seq(Character)
    PROVE  is_repl_input_complete(s) <=> Complete(s)
<1> DEFINE st == After(s)[Len(s)]
           depth == Depth(s, Code(s))
           Nothing == \E c \in Code(s) : ClosesNothing(s, Code(s), depth, c)
           Closed == \A p \in Tokens(s) : End(s, p) = 0 => Kind(s, p) = "line"
<1>1. Scanned(s, Len(s), st) /\ st \in Scanner
  BY ScannedAll
<1>2. is_repl_input_complete(s) <=>
        \/ st.mismatch
        \/ st.mode \in {"code", "line"} /\ st.stack = <<>> /\ ~EndsInOperator(st.code)
  BY DEF is_repl_input_complete
<1>3. Complete(s) <=> Nothing \/ (Closed /\ depth[Len(s)] = 0 /\ ~EndsOpen(s, Code(s)))
  BY DEF Complete
<1> HIDE DEF st
<1>4. CASE st.mismatch
  BY <1>1, <1>2, <1>3, <1>4 DEF Scanned
<1>5. CASE ~st.mismatch
  <2>1. /\ Located(s, Len(s), st) /\ Listed(s, Len(s), st.code) /\ Nested(s, Len(s), st.stack)
        /\ \A c \in Code(s) : c <= Len(s) => ~ClosesNothing(s, Code(s), depth, c)
    BY <1>1, <1>5 DEF Scanned
  <2>2. st.code \in Seq(Character) /\ st.stack \in Seq(Opening)
    BY <1>1 DEF Scanner
  <2>3. \A c \in Code(s) : c <= Len(s)
    BY CodeType
  <2>4. ~Nothing
    BY <2>1, <2>3
  <2>5. st.mode \in {"code", "line"} <=> Closed
    BY <1>1, <2>1, ModeIs
  <2>6. EndsInOperator(st.code) <=> EndsOpen(s, Code(s))
    BY <2>1, <2>2, EndsInOperatorIs
  <2>7. depth[Len(s)] = Len(st.stack)
    BY <2>1 DEF Nested
  <2>8. st.stack = <<>> <=> depth[Len(s)] = 0
    BY <2>2, <2>7
  <2> HIDE DEF Nothing, Closed, depth
  <2>9. QED
    BY <1>2, <1>3, <1>5, <2>4, <2>5, <2>6, <2>8
<1>6. QED
  BY <1>4, <1>5

-----------------------------------------------------------------------------
(* The loop *)

\* No line that is waiting completed what was waiting before it.
LoopInv ==
    /\ pending \in Seq(Character) /\ snippet \in Seq(Character)
    /\ WaitsOnlyIfIncomplete
    /\ \A i \in 1..Len(pending) :
          pending[i] = Newline => ~Complete(SubSeq(pending, 1, i))
    /\ EvaluatesWholeSnippets

LEMMA LoopStart == InputInit => LoopInv
<1>1. <<>> \in Seq(Character) /\ Len(<<>>) = 0
  OBVIOUS
<1>2. QED
  BY <1>1 DEF InputInit, LoopInv, WaitsOnlyIfIncomplete, EvaluatesWholeSnippets

\* The newlines of what is waiting and one more line: those that were waiting,
\* and the end of the line.
LEMMA NewlinesOf ==
    ASSUME LoopInv, NEW l \in Line, NEW i \in 1..Len(pending \o l),
           (pending \o l)[i] = Newline
    PROVE  \/ i = Len(pending \o l)
           \/ i \in 1..(Len(pending \o l) - 1) /\ ~Complete(SubSeq(pending \o l, 1, i))
<1>1. /\ pending \in Seq(Character) /\ l \in Seq(Character)
      /\ Len(pending) \in Nat /\ Len(l) \in Nat
  BY LineAssumption DEF LoopInv
<1> DEFINE s == pending \o l
<1>2. /\ s \in Seq(Character) /\ Len(s) = Len(pending) + Len(l)
      /\ \A k \in 1..Len(pending) : s[k] = pending[k]
      /\ \A k \in 1..Len(l) : s[Len(pending) + k] = l[k]
  BY <1>1
<1> HIDE DEF s
<1>3. i \in 1..Len(s) /\ s[i] = Newline
  BY DEF s
<1>4. CASE i <= Len(pending)
  <2>1. i \in 1..Len(pending) /\ pending[i] = Newline
    BY <1>1, <1>2, <1>3, <1>4
  <2>2. ~Complete(SubSeq(pending, 1, i))
    BY <2>1 DEF LoopInv
  <2>3. SubSeq(s, 1, i) = SubSeq(pending, 1, i)
    BY <1>1, <1>2, <1>3, <1>4
  <2>4. i = Len(s) \/ i \in 1..(Len(s) - 1)
    BY <1>1, <1>2, <1>3
  <2>5. QED
    BY <2>2, <2>3, <2>4 DEF s
<1>5. CASE Len(pending) < i
  <2> DEFINE k == i - Len(pending)
  <2>1. k \in 1..Len(l) /\ i = Len(pending) + k
    BY <1>1, <1>2, <1>3, <1>5
  <2> HIDE DEF k
  <2>2. l[k] = Newline
    BY <1>2, <1>3, <2>1
  <2>3. k \notin 1..(Len(l) - 1)
    BY <2>2, LineAssumption
  <2>4. k = Len(l)
    BY <1>1, <2>1, <2>3
  <2>5. QED
    BY <1>2, <2>1, <2>4 DEF s
<1>6. QED
  BY <1>1, <1>3, <1>4, <1>5

LEMMA CollectKeeps ==
    ASSUME LoopInv, NEW l \in Line, Collect(l)
    PROVE  LoopInv'
<1> DEFINE s == pending \o l
<1>1. pending \in Seq(Character) /\ l \in Seq(Character)
  BY LineAssumption DEF LoopInv
<1>2. s \in Seq(Character)
  BY <1>1
<1>3. ~Complete(s) /\ pending' = s /\ snippet' = snippet
  BY <1>2, SameAnswer DEF Collect
<1>4. \A i \in 1..Len(s) : s[i] = Newline => ~Complete(SubSeq(s, 1, i))
  <2>1. ASSUME NEW i \in 1..Len(s), s[i] = Newline
        PROVE  ~Complete(SubSeq(s, 1, i))
    <3>1. i = Len(s) \/ ~Complete(SubSeq(s, 1, i))
      BY <2>1, NewlinesOf
    <3> HIDE DEF s
    <3>2. SubSeq(s, 1, Len(s)) = s
      BY <1>2
    <3>3. QED
      BY <1>3, <3>1, <3>2
  <2>2. QED
    BY <2>1
<1> HIDE DEF s
<1>5. pending' \in Seq(Character) /\ snippet' \in Seq(Character) /\ WaitsOnlyIfIncomplete'
  BY <1>2, <1>3 DEF LoopInv, WaitsOnlyIfIncomplete
<1>6. \A i \in 1..Len(pending') : pending'[i] = Newline => ~Complete(SubSeq(pending', 1, i))
  BY <1>3, <1>4
<1>7. EvaluatesWholeSnippets'
  BY <1>3 DEF LoopInv, EvaluatesWholeSnippets
<1>8. QED
  BY <1>5, <1>6, <1>7 DEF LoopInv

LEMMA EvalKeeps ==
    ASSUME LoopInv, NEW l \in Line, EvalPending(l)
    PROVE  LoopInv'
<1> DEFINE s == pending \o l
<1>1. pending \in Seq(Character) /\ l \in Seq(Character)
  BY LineAssumption DEF LoopInv
<1>2. s \in Seq(Character)
  BY <1>1
<1>3. Complete(s) /\ pending' = <<>> /\ snippet' = s
  BY <1>2, SameAnswer DEF EvalPending
<1>4. \A i \in 1..(Len(s) - 1) : s[i] = Newline => ~Complete(SubSeq(s, 1, i))
  <2>1. ASSUME NEW i \in 1..(Len(s) - 1), s[i] = Newline
        PROVE  ~Complete(SubSeq(s, 1, i))
    <3>1. i \in 1..Len(s) /\ i # Len(s)
      BY <1>2
    <3>2. QED
      BY <2>1, <3>1, NewlinesOf
  <2>2. QED
    BY <2>1
<1> HIDE DEF s
<1>5. pending' \in Seq(Character) /\ snippet' \in Seq(Character) /\ Len(pending') = 0
  BY <1>2, <1>3
<1>6. WaitsOnlyIfIncomplete'
  BY <1>3 DEF WaitsOnlyIfIncomplete
<1>7. EvaluatesWholeSnippets'
  BY <1>3, <1>4 DEF EvaluatesWholeSnippets
<1>8. QED
  BY <1>5, <1>6, <1>7 DEF LoopInv

LEMMA LoopStep ==
    ASSUME LoopInv, [InputNext]_inputVars
    PROVE  LoopInv'
<1>1. ASSUME pending' = pending, snippet' = snippet
      PROVE  LoopInv'
  BY <1>1 DEF LoopInv, WaitsOnlyIfIncomplete, EvaluatesWholeSnippets
<1>2. CASE Quit \/ ClearCommand \/ NoOp \/ UNCHANGED inputVars
  BY <1>1, <1>2 DEF Quit, ClearCommand, NoOp, inputVars
<1>3. CASE Cancel
  <2>1. pending' = <<>> /\ snippet' = snippet /\ Len(<<>>) = 0 /\ <<>> \in Seq(Character)
    BY <1>3 DEF Cancel
  <2>2. QED
    BY <2>1 DEF LoopInv, WaitsOnlyIfIncomplete, EvaluatesWholeSnippets
<1>4. ASSUME NEW l \in Line, Collect(l) \/ EvalPending(l)
      PROVE  LoopInv'
  BY <1>4, CollectKeeps, EvalKeeps
<1>5. QED
  BY <1>2, <1>3, <1>4 DEF InputNext

LEMMA LoopAlways == InputSpec => []LoopInv
<1>1. LoopInv /\ [InputNext]_inputVars => LoopInv'
  BY LoopStep
<1>2. QED
  BY LoopStart, <1>1, PTL DEF InputSpec

\* Text that is waiting is incomplete, whatever the lines are.
THEOREM WaitsForMore == InputSpec => []WaitsOnlyIfIncomplete
<1>1. LoopInv => WaitsOnlyIfIncomplete
  BY DEF LoopInv
<1>2. QED
  BY LoopAlways, <1>1, PTL

\* What is evaluated is complete, and was not before its last line.
THEOREM WholeSnippets == InputSpec => []EvaluatesWholeSnippets
<1>1. LoopInv => EvaluatesWholeSnippets
  BY DEF LoopInv
<1>2. QED
  BY LoopAlways, <1>1, PTL

-----------------------------------------------------------------------------
(* The session: its locals after each snippet *)

\* The names in a snippet are names.
LEMMA SnippetNames ==
    ASSUME NEW s \in Snippet, NEW i \in DOMAIN s
    PROVE  s[i] \in Op /\ s[i].name \in Name
BY DEF Snippet, Op

\* What a snippet declares and leaves behind is among its bindings, and what
\* it moves was stored or declared before.
LEMMA BindingsType ==
    ASSUME TypeOK, NEW s \in Snippet, NEW E \in SUBSET DOMAIN s
    PROVE  /\ Bindings(s) \subseteq Name
           /\ bound \subseteq Bindings(s)
           /\ MovedByRebinding(s) \subseteq bound
           /\ GoneAfter(s, E) \subseteq Bindings(s)
           /\ UnsetAfter(s, E) \subseteq Bindings(s)
           /\ GivenAfter(s) \subseteq bound
           /\ GoneAfter(s, E) \cap UnsetAfter(s, E) = {}
<1>1. {s[i].name : i \in DOMAIN s} \subseteq Name
  BY SnippetNames
<1>2. GoneAfter(s, E) \cap UnsetAfter(s, E) = {}
  <2>1. SUFFICES ASSUME NEW n \in GoneAfter(s, E), n \in UnsetAfter(s, E)
                 PROVE  FALSE
    OBVIOUS
  <2>2. LastOf(s, Changes(s, E), n) = 0 /\ (n \in bound => n \in unset)
    BY <2>1 DEF UnsetAfter
  <2>3. n \in gone
    BY <2>2 DEF GoneAfter
  <2>4. QED
    BY <2>2, <2>3 DEF TypeOK
<1>3. QED
  BY <1>1, <1>2 DEF TypeOK, Bindings, MovedByRebinding, GoneAfter, UnsetAfter, GivenAfter

\* The last place that concerns n is found if there is one, and it is what is
\* found among any of the places that include it.
LEMMA LastFound ==
    ASSUME NEW s \in Snippet, NEW I, I \subseteq DOMAIN s, NEW n, NEW i,
           i = LastOf(s, I, n), i # 0
    PROVE  /\ i \in I /\ s[i].name = n
           /\ \A J \in SUBSET I : i \in J => LastOf(s, J, n) = i
<1> DEFINE At(J) == {j \in J : s[j].name = n}
<1>1. PICK k \in Nat : DOMAIN s = 1..k
  BY BoundsAssumption DEF Snippet
<1>2. At(I) # {} /\ i = CHOOSE x \in At(I) : \A y \in At(I) : y <= x
  BY DEF LastOf
<1>3. At(I) \subseteq 1..k
  BY <1>1
<1>4. \E x \in At(I) : \A y \in At(I) : y <= x
  <2> HIDE DEF At
  <2> QED
    BY <1>2, <1>3, GreatestElement
<1>5. i \in At(I) /\ \A y \in At(I) : y <= i
  BY <1>2, <1>4
<1>6. ASSUME NEW J \in SUBSET I, i \in J
      PROVE  LastOf(s, J, n) = i
  <2>1. i \in At(J) /\ At(J) \subseteq At(I)
    BY <1>5, <1>6
  <2>2. \A x \in At(J) : (\A y \in At(J) : y <= x) <=> x = i
    BY <1>3, <1>5, <2>1
  <2>3. LastOf(s, J, n) = CHOOSE x \in At(J) : \A y \in At(J) : y <= x
    BY <2>1 DEF LastOf
  <2> QED
    BY <2>1, <2>2, <2>3
<1> QED
  BY <1>5, <1>6

\* If nothing is found, there is nothing.
LEMMA LastMissing ==
    ASSUME NEW s \in Snippet, NEW I, I \subseteq DOMAIN s, NEW n,
           LastOf(s, I, n) = 0
    PROVE  \A J \in SUBSET I : LastOf(s, J, n) = 0
<1> DEFINE At(J) == {j \in J : s[j].name = n}
<1>1. PICK k \in Nat : DOMAIN s = 1..k
  BY BoundsAssumption DEF Snippet
<1>2. At(I) = {}
  <2>1. SUFFICES ASSUME At(I) # {} PROVE FALSE
    OBVIOUS
  <2>2. At(I) \subseteq 1..k
    BY <1>1
  <2>3. \E x \in At(I) : \A y \in At(I) : y <= x
    <3> HIDE DEF At
    <3> QED
      BY <1>1, <2>1, <2>2, GreatestElement
  <2>4. 0 = CHOOSE x \in At(I) : \A y \in At(I) : y <= x
    BY <2>1 DEF LastOf
  <2> QED
    BY <2>2, <2>3, <2>4
<1> QED
  BY <1>2 DEF LastOf

\* What compiles takes no Null for a required string, on any path and as far as
\* it comes: before the place there is a store, or else a local that is bound
\* and not marked, which by RequiredNeverNull is not null.
LEMMA NothingMisread ==
    ASSUME RequiredNeverNull, NEW s \in Snippet, Compiles(s),
           NEW P \in Paths(s), NEW k \in 0..Len(s)
    PROVE  Misread(s, P \cap (1..k)) \subseteq Optional
<1> DEFINE E == P \cap (1..k)
<1>1. SUFFICES ASSUME NEW i \in E, s[i].op # "store", NullAt(s, E, i)
               PROVE  s[i].name \in Optional
  BY DEF Misread
<1> DEFINE n == s[i].name
           B == P \cap (1..(i - 1))
           before == LastOf(s, B, n)
<1>2. DOMAIN s = 1..Len(s) /\ Len(s) \in Nat
  BY BoundsAssumption DEF Snippet
<1>3. E \cap (1..(i - 1)) = B /\ B \subseteq DOMAIN s
  BY <1>2 DEF Paths
<1>4. Changes(s, B) \subseteq B
  BY DEF Changes
<1>5. /\ before = 0 => n \in bound \ moved
      /\ before # 0 => s[before].op = "store"
  <2>1. Usable(s, P, i)
    BY <1>1 DEF Compiles
  <2> QED
    BY <2>1 DEF Usable
<1> DEFINE c == LastOf(s, Changes(s, B), n)
<1>n. /\ c = 0 => n \in Nulls \/ n \notin bound
      /\ c # 0 => s[c].op = "move"
  BY <1>1, <1>3 DEF NullAt
<1> HIDE DEF B, E, n
<1>6. CASE before = 0
  <2>1. n \in bound \ moved
    BY <1>5, <1>6
  <2>2. c = 0
    BY <1>3, <1>4, <1>6, LastMissing
  <2>3. n \in Nulls
    BY <1>n, <2>1, <2>2
  <2> QED
    BY <2>1, <2>3 DEF RequiredNeverNull, n
<1>7. CASE before # 0
  <2>1. s[before].op = "store"
    BY <1>5, <1>7
  <2>2. before \in B
    BY <1>3, <1>7, LastFound
  <2>3. before \in Changes(s, B)
    BY <2>1, <2>2 DEF Changes
  <2>4. c = before
    BY <1>3, <1>4, <1>7, <2>3, LastFound
  <2> QED
    BY <1>n, <1>7, <2>1, <2>4
<1> QED
  BY <1>6, <1>7

\* RequiredNeverNull is what a snippet needs of the ones before it.
Inv == TypeOK /\ RequiredNeverNull /\ NoStaleMark /\ NullNeverTaken

LEMMA InitInv == Init => Inv
BY BoundsAssumption
DEF Init, Inv, TypeOK, RequiredNeverNull, NoStaleMark, NullNeverTaken, Nulls

LEMMA NextInv == Inv /\ [Next]_vars => Inv'
<1> SUFFICES ASSUME Inv, [Next]_vars PROVE Inv'
  OBVIOUS
<1> USE BoundsAssumption, NameAssumption
<1>1. CASE Eval
  <2> DEFINE Ran(s, E, status) ==
               /\ bound' = Bindings(s)
               /\ gone' = GoneAfter(s, E)
               /\ unset' = UnsetAfter(s, E)
               /\ given' = GivenAfter(s)
               /\ misread' = Misread(s, E)
               /\ moved' = MarkedMoved(IF status = "ok" THEN MovedByRebinding(s)
                                       ELSE {}, Nulls')
               /\ whole' = (status = "ok" /\ E = DOMAIN s)
  <2>a. PICK s \in Snippet :
          /\ Compiles(s)
          /\ \E P \in Paths(s), k \in 0..Len(s), status \in {"ok", "error"} :
                (status = "ok" => k = Len(s)) /\ Ran(s, P \cap (1..k), status)
    BY <1>1 DEF Eval
  <2>b. PICK P \in Paths(s), k \in 0..Len(s), status \in {"ok", "error"} :
          Ran(s, P \cap (1..k), status)
    BY <2>a
  <2> DEFINE E == P \cap (1..k)
  <2>1. Ran(s, E, status)
    BY <2>b
  <2>e. E \in SUBSET DOMAIN s
    BY DEF Paths
  <2>m. Misread(s, E) \subseteq Optional
    BY <2>a, NothingMisread DEF Inv
  <2> HIDE DEF E
  <2>2. /\ Bindings(s) \subseteq Name
        /\ bound \subseteq Bindings(s)
        /\ MovedByRebinding(s) \subseteq bound
        /\ GoneAfter(s, E) \subseteq Bindings(s)
        /\ UnsetAfter(s, E) \subseteq Bindings(s)
        /\ GivenAfter(s) \subseteq bound
        /\ GoneAfter(s, E) \cap UnsetAfter(s, E) = {}
    BY <2>e, BindingsType DEF Inv
  <2>3. snippets' \in 0..MaxSnippets
    BY <1>1 DEF Inv, TypeOK, Eval
  <2>4. TypeOK'
    BY <2>1, <2>2, <2>3, <2>m DEF TypeOK, MarkedMoved, Nulls
  <2>5. RequiredNeverNull'
    BY <2>1 DEF RequiredNeverNull, MarkedMoved
  <2>6. NoStaleMark'
    <3>1. SUFFICES ASSUME status = "ok", E = DOMAIN s, NEW n \in MovedByRebinding(s)
                   PROVE  n \in GoneAfter(s, E) \union GivenAfter(s)
      BY <2>1 DEF NoStaleMark, MarkedMoved, Nulls
    <3>2. n \in Bindings(s)
      BY <2>2, <3>1
    <3> DEFINE i == LastOf(s, DOMAIN s, n)
    <3>3. i # 0 /\ s[i].op # "store" /\ n \in bound
      BY DEF MovedByRebinding
    <3>4. CASE s[i].op = "copy"
      BY <3>3, <3>4 DEF GivenAfter
    <3>5. CASE s[i].op # "copy"
      <4>1. i \in DOMAIN s
        BY <3>3, LastFound
      <4>2. s[i].op = "move"
        BY <3>3, <3>5, <4>1, SnippetNames DEF Op
      <4>3. i \in Changes(s, E) /\ Changes(s, E) \subseteq DOMAIN s
        BY <3>1, <3>5, <4>1 DEF Changes
      <4>4. LastOf(s, Changes(s, E), n) = i
        BY <3>3, <4>3, LastFound
      <4> QED
        BY <3>2, <3>3, <4>2, <4>4 DEF GoneAfter
    <3> QED
      BY <3>4, <3>5
  <2>7. NullNeverTaken'
    BY <2>1, <2>m DEF NullNeverTaken
  <2>8. QED
    BY <2>4, <2>5, <2>6, <2>7 DEF Inv
<1>2. CASE EvalFails
  BY <1>2 DEF Inv, EvalFails, TypeOK, RequiredNeverNull, NoStaleMark, NullNeverTaken, Nulls
<1>3. CASE Clear
  BY <1>3 DEF Inv, Clear, TypeOK, RequiredNeverNull, NoStaleMark, NullNeverTaken, Nulls
<1>4. CASE UNCHANGED vars
  BY <1>4 DEF Inv, vars, TypeOK, RequiredNeverNull, NoStaleMark, NullNeverTaken, Nulls
<1>5. QED
  BY <1>1, <1>2, <1>3, <1>4 DEF Next

LEMMA InvHolds == Spec => []Inv
BY InitInv, NextInv, PTL DEF Spec

\* Only bound names are marked, gone or unset, and none is both of the latter.
THEOREM TypeCorrect == Spec => []TypeOK
BY InvHolds, PTL DEF Inv

\* However many snippets are run, whichever branches they take and wherever
\* they fail: none that compiles takes a Null for the string that a required
\* local promises (compile_snippet and sync in src/src/repl_client.rs).
THEOREM RequiredStringsSafe == Spec => []NullNeverTaken
BY InvHolds, PTL DEF Inv

\* A mark of locals_moved_by_rebinding or of sync is not kept for a local that
\* was stored again.
THEOREM MarksAreCurrent == Spec => []NoStaleMark
BY InvHolds, PTL DEF Inv

=============================================================================
