----------------------- MODULE ResponseScannerProofs -----------------------
(***************************************************************************)
(* Theorems about ResponseScanner for every alphabet, every magic that     *)
(* does not begin with two equal bytes, every header length and limit.     *)
(***************************************************************************)
EXTENDS ResponseScanner, StreamLemmas

-----------------------------------------------------------------------------
(* Moving bytes between the parts of the stream *)

\* A byte that was pushed back is taken again.
LEMMA SplitTake ==
    ASSUME NEW S, NEW r \in Seq(S), NEW a \in Seq(S), NEW b \in Seq(S),
           NEW c \in Seq(S), c # <<>>, Split(r, a, b, c)
    PROVE  Split(r, a, Append(b, Head(c)), Tail(c))
<1> DEFINE t == Tail(c)
           d == Append(b, Head(c))
<1>1. /\ Head(c) \in S /\ Head(c) = c[1] /\ t \in Seq(S)
      /\ Len(t) = Len(c) - 1
      /\ \A i \in 1..Len(t) : t[i] = c[i + 1]
  BY ReadStream
<1>2. /\ Len(d) = Len(b) + 1
      /\ \A i \in 1..Len(b) : d[i] = b[i]
      /\ d[Len(b) + 1] = c[1]
  BY <1>1, WriteStream
<1>3. Len(a) \in Nat /\ Len(b) \in Nat /\ Len(c) \in Nat /\ Len(c) >= 1 /\ Len(r) \in Nat
  OBVIOUS
<1> HIDE DEF t, d
<1>4. Len(r) = Len(a) + Len(d) + Len(t)
  BY <1>1, <1>2, <1>3 DEF Split
<1>5. ASSUME NEW i \in 1..Len(d) PROVE r[Len(a) + i] = d[i]
  <2>1. CASE i \in 1..Len(b)
    BY <1>2, <2>1 DEF Split
  <2>2. CASE i = Len(b) + 1
    <3>1. r[Len(a) + Len(b) + 1] = c[1]
      BY <1>3 DEF Split
    <3>2. Len(a) + Len(b) + 1 = Len(a) + i
      BY <1>3, <2>2
    <3> QED
      BY <1>2, <2>2, <3>1, <3>2
  <2> QED
    BY <1>2, <1>3, <2>1, <2>2
<1>6. ASSUME NEW i \in 1..Len(t) PROVE r[Len(a) + Len(d) + i] = t[i]
  <2>1. i + 1 \in 1..Len(c) /\ Len(a) + Len(d) + i = Len(a) + Len(b) + (i + 1)
    BY <1>1, <1>2, <1>3
  <2>2. r[Len(a) + Len(b) + (i + 1)] = c[i + 1]
    BY <2>1 DEF Split
  <2> QED
    BY <1>1, <2>1, <2>2
<1> QED
  BY <1>4, <1>5, <1>6 DEF Split, t, d

\* A byte is read from the port when nothing is pushed back.
LEMMA SplitRead ==
    ASSUME NEW S, NEW r \in Seq(S), NEW a \in Seq(S), NEW b \in Seq(S),
           NEW e \in S, Split(r, a, b, <<>>)
    PROVE  Split(Append(r, e), a, Append(b, e), <<>>)
<1> DEFINE q == Append(r, e)
           d == Append(b, e)
<1>1. /\ Len(q) = Len(r) + 1
      /\ \A i \in 1..Len(r) : q[i] = r[i]
      /\ q[Len(r) + 1] = e
  BY WriteStream
<1>2. /\ Len(d) = Len(b) + 1
      /\ \A i \in 1..Len(b) : d[i] = b[i]
      /\ d[Len(b) + 1] = e
  BY WriteStream
<1>3. Len(a) \in Nat /\ Len(b) \in Nat /\ Len(r) \in Nat /\ Len(<<>>) = 0
  OBVIOUS
<1>4. Len(r) = Len(a) + Len(b)
  BY <1>3 DEF Split
<1> HIDE DEF q, d
<1>5. Len(q) = Len(a) + Len(d) + Len(<<>>)
  BY <1>1, <1>2, <1>3, <1>4
<1>6. ASSUME NEW i \in 1..Len(a) PROVE q[i] = a[i]
  <2>1. i \in 1..Len(r)
    BY <1>3, <1>4
  <2> QED
    BY <1>1, <2>1 DEF Split
<1>7. ASSUME NEW i \in 1..Len(d) PROVE q[Len(a) + i] = d[i]
  <2>1. CASE i \in 1..Len(b)
    <3>1. Len(a) + i \in 1..Len(r)
      BY <1>3, <1>4, <2>1
    <3> QED
      BY <1>1, <1>2, <2>1, <3>1 DEF Split
  <2>2. CASE i = Len(b) + 1
    <3>1. Len(a) + i = Len(r) + 1
      BY <1>3, <1>4, <2>2
    <3> QED
      BY <1>1, <1>2, <2>2, <3>1
  <2> QED
    BY <1>2, <1>3, <2>1, <2>2
<1>8. \A i \in 1..Len(<<>>) : q[Len(a) + Len(d) + i] = <<>>[i]
  BY <1>3
<1> QED
  BY <1>5, <1>6, <1>7, <1>8 DEF Split, q, d

\* The first byte of the candidate is output.
LEMMA SplitOut ==
    ASSUME NEW S, NEW r \in Seq(S), NEW a \in Seq(S), NEW b \in Seq(S),
           NEW c \in Seq(S), b # <<>>, Split(r, a, b, c)
    PROVE  Split(r, Append(a, Head(b)), Tail(b), c)
<1> DEFINE t == Tail(b)
           d == Append(a, Head(b))
<1>1. /\ Head(b) \in S /\ Head(b) = b[1] /\ t \in Seq(S)
      /\ Len(t) = Len(b) - 1
      /\ \A i \in 1..Len(t) : t[i] = b[i + 1]
  BY ReadStream
<1>2. /\ Len(d) = Len(a) + 1
      /\ \A i \in 1..Len(a) : d[i] = a[i]
      /\ d[Len(a) + 1] = b[1]
  BY <1>1, WriteStream
<1>3. Len(a) \in Nat /\ Len(b) \in Nat /\ Len(b) >= 1 /\ Len(c) \in Nat /\ Len(r) \in Nat
  OBVIOUS
<1> HIDE DEF t, d
<1>4. Len(r) = Len(d) + Len(t) + Len(c)
  BY <1>1, <1>2, <1>3 DEF Split
<1>5. ASSUME NEW i \in 1..Len(d) PROVE r[i] = d[i]
  <2>1. CASE i \in 1..Len(a)
    BY <1>2, <2>1 DEF Split
  <2>2. CASE i = Len(a) + 1
    BY <1>2, <1>3, <2>2 DEF Split
  <2> QED
    BY <1>2, <1>3, <2>1, <2>2
<1>6. ASSUME NEW i \in 1..Len(t) PROVE r[Len(d) + i] = t[i]
  <2> DEFINE m == Len(a)
             n == Len(b)
  <2>0. m \in Nat /\ n \in Nat /\ Len(t) = n - 1 /\ Len(d) = m + 1
    BY <1>1, <1>2, <1>3
  <2> HIDE DEF m, n
  <2>1a. i + 1 \in 1..n /\ Len(d) + i = m + (i + 1)
    BY <2>0
  <2>1. i + 1 \in 1..Len(b) /\ Len(d) + i = Len(a) + (i + 1)
    BY <2>1a DEF m, n
  <2>2. r[Len(a) + (i + 1)] = b[i + 1]
    BY <2>1 DEF Split
  <2> QED
    BY <1>1, <2>1, <2>2
<1>7. ASSUME NEW i \in 1..Len(c) PROVE r[Len(d) + Len(t) + i] = c[i]
  <2>1. Len(d) + Len(t) + i = Len(a) + Len(b) + i
    BY <1>1, <1>2, <1>3
  <2>2. r[Len(a) + Len(b) + i] = c[i]
    BY DEF Split
  <2> QED
    BY <2>1, <2>2
<1> QED
  BY <1>4, <1>5, <1>6, <1>7 DEF Split, t, d

\* What is left of the candidate is pushed back.
LEMMA SplitPush ==
    ASSUME NEW S, NEW r \in Seq(S), NEW a \in Seq(S), NEW b \in Seq(S),
           NEW c \in Seq(S), Split(r, a, b, c)
    PROVE  Split(r, a, <<>>, b \o c)
<1> DEFINE d == b \o c
<1>1. /\ Len(d) = Len(b) + Len(c)
      /\ \A i \in 1..(Len(b) + Len(c)) : d[i] = IF i <= Len(b) THEN b[i] ELSE c[i - Len(b)]
  BY WriteAll
<1>2. Len(a) \in Nat /\ Len(b) \in Nat /\ Len(c) \in Nat /\ Len(<<>>) = 0
  OBVIOUS
<1> HIDE DEF d
<1>3. ASSUME NEW i \in 1..Len(d) PROVE r[Len(a) + Len(<<>>) + i] = d[i]
  <2>0. Len(a) + Len(<<>>) + i = Len(a) + i /\ i \in 1..(Len(b) + Len(c))
    BY <1>1, <1>2
  <2>1. CASE i <= Len(b)
    <3>1. i \in 1..Len(b)
      BY <1>2, <2>1
    <3>2. d[i] = b[i]
      BY <1>1, <2>0, <2>1
    <3>3. r[Len(a) + i] = b[i]
      BY <3>1 DEF Split
    <3> QED
      BY <2>0, <3>2, <3>3
  <2>2. CASE ~(i <= Len(b))
    <3>1. i - Len(b) \in 1..Len(c) /\ Len(a) + Len(b) + (i - Len(b)) = Len(a) + i
      BY <1>2, <2>0, <2>2
    <3>2. d[i] = c[i - Len(b)]
      BY <1>1, <2>0, <2>2
    <3>3. r[Len(a) + Len(b) + (i - Len(b))] = c[i - Len(b)]
      BY <3>1 DEF Split
    <3> QED
      BY <2>0, <3>1, <3>2, <3>3
  <2> QED
    BY <2>1, <2>2
<1>4. Len(r) = Len(a) + Len(<<>>) + Len(d)
  BY <1>1, <1>2 DEF Split
<1>5. \A i \in 1..Len(<<>>) : r[Len(a) + i] = <<>>[i]
  BY <1>2
<1>6. \A i \in 1..Len(a) : r[i] = a[i]
  BY DEF Split
<1> QED
  BY <1>3, <1>4, <1>5, <1>6 DEF Split, d

-----------------------------------------------------------------------------
(* Types *)

\* What taking a byte does to the port and to the bytes pushed back.
LEMMA TakeTypes ==
    ASSUME TypeOK, NEW b \in Byte, Take(b)
    PROVE  /\ read' \in Seq(Byte)
           /\ pending' \in Seq(Byte)
           /\ Len(read') >= Len(read)
           /\ \A i \in 1..Len(read) : read'[i] = read[i]
<1>0. read \in Seq(Byte) /\ pending \in Seq(Byte) /\ Len(read) \in Nat
  BY DEF TypeOK
<1>1. CASE pending # <<>> /\ pending' = Tail(pending) /\ UNCHANGED read
  BY <1>0, <1>1, ReadStream
<1>2. CASE FromPort(b) /\ UNCHANGED pending
  <2>1. read' = Append(read, b)
    BY <1>2 DEF FromPort
  <2>2. /\ Append(read, b) \in Seq(Byte)
        /\ Len(Append(read, b)) = Len(read) + 1
        /\ \A i \in 1..Len(read) : Append(read, b)[i] = read[i]
    BY <1>0, WriteStream
  <2> QED
    BY <1>0, <1>2, <2>1, <2>2
<1> QED
  BY <1>1, <1>2 DEF Take

LEMMA TypeNext == TypeOK /\ CandShape /\ [Next]_vars => TypeOK'
<1> SUFFICES ASSUME TypeOK, CandShape, [Next]_vars
             PROVE  TypeOK'
  OBVIOUS
<1>0. /\ read \in Seq(Byte) /\ pending \in Seq(Byte) /\ cand \in Seq(Byte)
      /\ out \in Seq(Byte) /\ body \in Seq(Byte)
      /\ Len(cand) \in Nat /\ Len(cand) <= HeaderLen
      /\ pc \in {"magic", "shift", "rest", "body", "done", "error"}
  BY DEF TypeOK
<1>a. /\ HeaderLen \in Nat /\ Len(Magic) \in Nat /\ Len(Magic) >= 2
      /\ HeaderLen >= Len(Magic) + 2
  BY HeaderAssumption, MagicAssumption
<1>1. CASE FillMagic
  <2>1. PICK b \in Byte : Take(b) /\ cand' = Append(cand, b)
    BY <1>1 DEF FillMagic
  <2>2. cand' \in Seq(Byte) /\ Len(cand') = Len(cand) + 1
    BY <1>0, <2>1, WriteStream
  <2>3. Len(cand) < Len(Magic)
    BY <1>1 DEF FillMagic, CandShape
  <2>4. Len(cand') <= HeaderLen
    BY <1>0, <1>a, <2>2, <2>3
  <2> QED
    BY <1>0, <1>1, <2>1, <2>2, <2>4, TakeTypes DEF FillMagic, TypeOK
<1>2. CASE Shift
  <2>1. PICK b \in Byte : Take(b) /\ cand' = Append(Tail(cand), b)
    BY <1>2 DEF Shift
  <2>2. Len(cand) = Len(Magic) /\ cand # <<>>
    BY <1>0, <1>2, <1>a, NotEmpty DEF Shift, CandShape
  <2>3. Tail(cand) \in Seq(Byte) /\ Len(Tail(cand)) = Len(cand) - 1 /\ Head(cand) \in Byte
    BY <1>0, <2>2, ReadStream
  <2>4. cand' \in Seq(Byte) /\ Len(cand') = Len(Tail(cand)) + 1
    BY <2>1, <2>3, WriteStream
  <2>5. Len(cand') <= HeaderLen
    BY <1>0, <2>3, <2>4
  <2>6. out' \in Seq(Byte)
    BY <1>0, <1>2, <2>3, WriteStream DEF Shift
  <2> QED
    BY <1>0, <1>2, <2>1, <2>4, <2>5, <2>6, TakeTypes DEF Shift, TypeOK
<1>3. CASE PreludeTooLong \/ MagicFound \/ BodyTooLong \/ Accept
  BY <1>3 DEF PreludeTooLong, MagicFound, BodyTooLong, Accept, TypeOK
<1>4. CASE FillRest
  <2>1. PICK b \in Byte : Take(b) /\ cand' = Append(cand, b)
    BY <1>4 DEF FillRest
  <2>2. cand' \in Seq(Byte) /\ Len(cand') = Len(cand) + 1
    BY <1>0, <2>1, WriteStream
  <2>3. Len(cand') <= HeaderLen
    BY <1>0, <1>4, <1>a, <2>2 DEF FillRest
  <2> QED
    BY <1>0, <1>4, <2>1, <2>2, <2>3, TakeTypes DEF FillRest, TypeOK
<1>5. CASE Reject
  <2>1. cand # <<>>
    BY <1>0, <1>5, <1>a, NotEmpty DEF Reject
  <2>2. Tail(cand) \in Seq(Byte) /\ Head(cand) \in Byte
    BY <1>0, <2>1, ReadStream
  <2>3. out' \in Seq(Byte) /\ pending' \in Seq(Byte)
    BY <1>0, <1>5, <2>2, WriteStream, WriteAll DEF Reject
  <2>4. <<>> \in Seq(Byte) /\ Len(<<>>) <= HeaderLen
    BY <1>a
  <2> QED
    BY <1>0, <1>5, <2>3, <2>4 DEF Reject, TypeOK
<1>6. CASE FillBody
  <2>1. PICK b \in Byte : FromPort(b) /\ body' = Append(body, b)
    BY <1>6 DEF FillBody
  <2>2. read' \in Seq(Byte) /\ body' \in Seq(Byte)
    BY <1>0, <2>1, WriteStream DEF FromPort
  <2> QED
    BY <1>0, <1>6, <2>2 DEF FillBody, TypeOK
<1>7. CASE Return
  BY <1>7 DEF Return, TypeOK
<1>8. CASE ReadFails
  BY <1>8 DEF ReadFails, TypeOK
<1>9. CASE UNCHANGED vars
  BY <1>9 DEF vars, TypeOK
<1>10. CASE ShiftFails
  <2>1. cand # <<>>
    BY <1>0, <1>10, <1>a, NotEmpty DEF ShiftFails, CandShape
  <2>2. Tail(cand) \in Seq(Byte) /\ Len(Tail(cand)) = Len(cand) - 1 /\ Head(cand) \in Byte
    BY <1>0, <2>1, ReadStream
  <2>3. Len(Tail(cand)) <= HeaderLen
    BY <1>0, <1>a, <2>2
  <2>4. Append(out, Head(cand)) \in Seq(Byte)
    BY <1>0, <2>2, WriteStream
  <2> QED
    BY <1>0, <1>10, <2>2, <2>3, <2>4 DEF ShiftFails, TypeOK
<1> QED
  BY <1>1, <1>2, <1>3, <1>4, <1>5, <1>6, <1>7, <1>8, <1>9, <1>10 DEF Next

-----------------------------------------------------------------------------
(* The candidate *)

LEMMA CandShapeNext == TypeOK /\ CandShape /\ [Next]_vars => CandShape'
<1> SUFFICES ASSUME TypeOK, CandShape, [Next]_vars
             PROVE  CandShape'
  OBVIOUS
<1>0. /\ cand \in Seq(Byte) /\ Len(cand) \in Nat /\ Len(cand) <= HeaderLen
      /\ pc \in {"magic", "shift", "rest", "body", "done", "error"}
  BY DEF TypeOK
<1>a. /\ HeaderLen \in Nat /\ Len(Magic) \in Nat /\ Len(Magic) >= 2
      /\ HeaderLen >= Len(Magic) + 2
  BY HeaderAssumption, MagicAssumption
<1>1. CASE FillMagic
  <2>1. PICK b \in Byte : cand' = Append(cand, b)
    BY <1>1 DEF FillMagic
  <2>2. Len(cand') = Len(cand) + 1 /\ Len(cand) < Len(Magic)
    BY <1>0, <1>1, <2>1, WriteStream DEF FillMagic, CandShape
  <2>3. CASE Len(cand') = Len(Magic) /\ pc' = "shift"
    BY <2>3 DEF CandShape
  <2>4. CASE Len(cand') # Len(Magic) /\ pc' = "magic"
    <3>1. Len(cand') < Len(Magic)
      BY <1>0, <1>a, <2>2, <2>4
    <3> QED
      BY <2>4, <3>1 DEF CandShape
  <2> QED
    BY <1>1, <2>3, <2>4 DEF FillMagic
<1>2. CASE Shift
  <2>1. PICK b \in Byte : cand' = Append(Tail(cand), b)
    BY <1>2 DEF Shift
  <2>2. Len(cand) = Len(Magic) /\ cand # <<>>
    BY <1>0, <1>2, <1>a, NotEmpty DEF Shift, CandShape
  <2>3. Tail(cand) \in Seq(Byte) /\ Len(Tail(cand)) = Len(cand) - 1
    BY <1>0, <2>2, ReadStream
  <2>4. Len(cand') = Len(Tail(cand)) + 1
    BY <2>1, <2>3, WriteStream
  <2>5. Len(cand') = Len(Magic)
    BY <1>0, <2>2, <2>3, <2>4
  <2> QED
    BY <1>2, <2>5 DEF Shift, CandShape
<1>3. CASE MagicFound
  <2>1. pc' = "rest" /\ cand' = Magic
    BY <1>3 DEF MagicFound
  <2>2. Len(cand') >= Len(Magic)
    BY <1>a, <2>1
  <2> QED
    BY <2>1, <2>2 DEF CandShape
<1>4. CASE FillRest
  <2>1. PICK b \in Byte : cand' = Append(cand, b)
    BY <1>4 DEF FillRest
  <2>2. /\ Len(cand') = Len(cand) + 1
        /\ \A i \in 1..Len(cand) : cand'[i] = cand[i]
    BY <1>0, <2>1, WriteStream
  <2>3. /\ Len(cand) >= Len(Magic)
        /\ \A k \in 1..Len(Magic) : cand[k] = Magic[k]
        /\ pc' = "rest"
    BY <1>4 DEF FillRest, CandShape
  <2>4. Len(cand') >= Len(Magic)
    BY <1>0, <1>a, <2>2, <2>3
  <2>5. \A k \in 1..Len(Magic) : k \in 1..Len(cand)
    BY <1>0, <1>a, <2>3
  <2> QED
    BY <2>2, <2>3, <2>4, <2>5 DEF CandShape
<1>5. CASE Reject
  <2>1. pc' = "magic" /\ cand' = <<>> /\ Len(<<>>) < Len(Magic)
    BY <1>5, <1>a DEF Reject
  <2> QED
    BY <2>1 DEF CandShape
<1>6. CASE Accept
  BY <1>6 DEF Accept, CandShape
<1>7. CASE ShiftFails \/ PreludeTooLong \/ BodyTooLong \/ ReadFails
  BY <1>7 DEF ShiftFails, PreludeTooLong, BodyTooLong, ReadFails, CandShape
<1>8. CASE FillBody \/ Return
  BY <1>8 DEF FillBody, Return, CandShape
<1>9. CASE UNCHANGED vars
  BY <1>9 DEF vars, CandShape
<1> QED
  BY <1>1, <1>2, <1>3, <1>4, <1>5, <1>6, <1>7, <1>8, <1>9 DEF Next

\* The variables stay within their types for every alphabet and magic.
THEOREM TypeCorrect == Spec => [](TypeOK /\ CandShape)
<1>1. Init => TypeOK /\ CandShape
  <2>1. <<>> \in Seq(Byte) /\ Len(<<>>) <= HeaderLen /\ Len(<<>>) < Len(Magic)
    BY HeaderAssumption, MagicAssumption
  <2> QED
    BY <2>1 DEF Init, TypeOK, CandShape
<1> QED
  BY <1>1, TypeNext, CandShapeNext, PTL DEF Spec

-----------------------------------------------------------------------------
(* The stream *)

\* Taking a byte moves it to the end of what precedes the bytes pushed back.
LEMMA TakeConserves ==
    ASSUME TypeOK, NEW a \in Seq(Byte), NEW c \in Seq(Byte), NEW b \in Byte,
           Take(b), Split(read, a, c, pending)
    PROVE  Split(read', a, Append(c, b), pending')
<1>0. read \in Seq(Byte) /\ pending \in Seq(Byte)
  BY DEF TypeOK
<1>1. CASE pending # <<>> /\ b = Head(pending) /\ pending' = Tail(pending) /\ UNCHANGED read
  <2>1. Split(read, a, Append(c, Head(pending)), Tail(pending))
    BY <1>0, <1>1, SplitTake
  <2> QED
    BY <1>1, <2>1
<1>2. CASE pending = <<>> /\ FromPort(b) /\ UNCHANGED pending
  <2>1. Split(Append(read, b), a, Append(c, b), <<>>)
    BY <1>0, <1>2, SplitRead
  <2>2. read' = Append(read, b)
    BY <1>2 DEF FromPort
  <2> QED
    BY <1>2, <2>1, <2>2
<1> QED
  BY <1>1, <1>2 DEF Take

LEMMA ConservedNext ==
    TypeOK /\ CandShape /\ BytesConserved /\ [Next]_vars => BytesConserved'
<1> SUFFICES ASSUME TypeOK, CandShape, BytesConserved, [Next]_vars
             PROVE  BytesConserved'
  OBVIOUS
<1>0. /\ read \in Seq(Byte) /\ pending \in Seq(Byte) /\ cand \in Seq(Byte)
      /\ out \in Seq(Byte) /\ Len(cand) \in Nat
  BY DEF TypeOK
<1>a. HeaderLen \in Nat /\ Len(Magic) \in Nat /\ Len(Magic) >= 2 /\ HeaderLen >= Len(Magic) + 2
  BY HeaderAssumption, MagicAssumption
<1>1. CASE FillMagic \/ FillRest
  <2>1. PICK b \in Byte : Take(b) /\ cand' = Append(cand, b) /\ out' = out
    BY <1>1 DEF FillMagic, FillRest
  <2>2. Split(read, out, cand, pending)
    BY <1>1 DEF FillMagic, FillRest, BytesConserved
  <2>3. Split(read', out, Append(cand, b), pending')
    BY <1>0, <2>1, <2>2, TakeConserves
  <2> QED
    BY <2>1, <2>3 DEF BytesConserved
<1>2. CASE Shift
  <2>1. PICK b \in Byte : /\ Take(b) /\ cand' = Append(Tail(cand), b)
                          /\ out' = Append(out, Head(cand))
    BY <1>2 DEF Shift
  <2>2. cand # <<>>
    BY <1>0, <1>2, <1>a, NotEmpty DEF Shift, CandShape
  <2>3. Split(read, out, cand, pending)
    BY <1>2 DEF Shift, BytesConserved
  <2>4. Split(read, out', Tail(cand), pending)
    BY <1>0, <2>1, <2>2, <2>3, SplitOut
  <2>5. Head(cand) \in Byte /\ Tail(cand) \in Seq(Byte)
    BY <1>0, <2>2, ReadStream
  <2>6. out' \in Seq(Byte)
    BY <1>0, <2>1, <2>5, WriteStream
  <2>7. Split(read', out', Append(Tail(cand), b), pending')
    BY <2>1, <2>4, <2>5, <2>6, TakeConserves
  <2> QED
    BY <2>1, <2>7 DEF BytesConserved
<1>3. CASE Reject
  <2>1. cand # <<>>
    BY <1>0, <1>3, <1>a, NotEmpty DEF Reject
  <2>2. Split(read, out, cand, pending)
    BY <1>3 DEF Reject, BytesConserved
  <2>3. Split(read, Append(out, Head(cand)), Tail(cand), pending)
    BY <1>0, <2>1, <2>2, SplitOut
  <2>4. Head(cand) \in Byte /\ Tail(cand) \in Seq(Byte)
    BY <1>0, <2>1, ReadStream
  <2>5. Append(out, Head(cand)) \in Seq(Byte)
    BY <1>0, <2>4, WriteStream
  <2>6. Split(read, Append(out, Head(cand)), <<>>, Tail(cand) \o pending)
    BY <1>0, <2>3, <2>4, <2>5, SplitPush
  <2> QED
    BY <1>3, <2>6 DEF Reject, BytesConserved
<1>4. CASE MagicFound
  BY <1>4 DEF MagicFound, BytesConserved
<1>5. CASE ShiftFails \/ PreludeTooLong \/ BodyTooLong \/ Accept \/ FillBody \/ Return \/ ReadFails
  BY <1>5 DEF ShiftFails, PreludeTooLong, BodyTooLong, Accept, FillBody, Return, ReadFails,
              BytesConserved
<1>6. CASE UNCHANGED vars
  BY <1>6 DEF vars, BytesConserved
<1> QED
  BY <1>1, <1>2, <1>3, <1>4, <1>5, <1>6 DEF Next

\* At the start every part is empty.
LEMMA SplitEmpty == Split(<<>>, <<>>, <<>>, <<>>)
<1>1. Len(<<>>) = 0
  OBVIOUS
<1>2. \A i \in 1..Len(<<>>) : FALSE
  BY <1>1
<1> QED
  BY <1>1, <1>2 DEF Split

\* No byte of the stream is lost, doubled or moved by the search for a
\* response (read_stream_byte, rotate_left and pending in execute).
THEOREM StreamConserved == Spec => []BytesConserved
<1>1. Init => BytesConserved
  BY SplitEmpty DEF Init, BytesConserved
<1> QED
  BY <1>1, ConservedNext, TypeCorrect, PTL DEF Spec

-----------------------------------------------------------------------------
(* Bytes that were pushed back *)

LEMMA PendingNext ==
    TypeOK /\ CandShape /\ PendingFits /\ [Next]_vars => PendingFits'
<1> SUFFICES ASSUME TypeOK, CandShape, PendingFits, [Next]_vars
             PROVE  PendingFits'
  OBVIOUS
<1>0. /\ pending \in Seq(Byte) /\ cand \in Seq(Byte)
      /\ Len(cand) \in Nat /\ Len(pending) \in Nat
  BY DEF TypeOK
<1>a. HeaderLen \in Nat /\ Len(Magic) \in Nat /\ Len(Magic) >= 2 /\ HeaderLen >= Len(Magic) + 2
  BY HeaderAssumption, MagicAssumption
\* Taking a byte while the candidate grows.
<1>b. ASSUME NEW b \in Byte, Take(b), pc \in {"magic", "shift", "rest"},
             Len(cand') \in Nat, Len(cand') <= Len(cand) + 1, pending' # <<>>
      PROVE  Len(cand') + Len(pending') <= HeaderLen
  <2>1. CASE pending # <<>> /\ pending' = Tail(pending)
    <3>1. Len(pending') = Len(pending) - 1
      BY <1>0, <2>1, ReadStream
    <3>2. Len(cand) + Len(pending) <= HeaderLen
      BY <1>b, <2>1 DEF PendingFits
    <3> QED
      BY <1>0, <1>a, <1>b, <3>1, <3>2
  <2>2. CASE pending = <<>> /\ pending' = pending
    BY <1>b, <2>2
  <2> QED
    BY <1>b, <2>1, <2>2 DEF Take
<1>1. CASE FillMagic \/ FillRest
  <2>1. PICK b \in Byte : Take(b) /\ cand' = Append(cand, b)
    BY <1>1 DEF FillMagic, FillRest
  <2>2. Len(cand') \in Nat /\ Len(cand') <= Len(cand) + 1
    BY <1>0, <2>1, WriteStream
  <2>3. pc \in {"magic", "shift", "rest"} /\ pc' # "body"
    BY <1>1 DEF FillMagic, FillRest
  <2> QED
    BY <1>b, <2>1, <2>2, <2>3 DEF PendingFits
<1>2. CASE Shift
  <2>1. PICK b \in Byte : Take(b) /\ cand' = Append(Tail(cand), b)
    BY <1>2 DEF Shift
  <2>2. cand # <<>>
    BY <1>0, <1>2, <1>a, NotEmpty DEF Shift, CandShape
  <2>3. Tail(cand) \in Seq(Byte) /\ Len(Tail(cand)) = Len(cand) - 1
    BY <1>0, <2>2, ReadStream
  <2>4. Len(cand') = Len(Tail(cand)) + 1
    BY <2>1, <2>3, WriteStream
  <2>5. Len(cand') \in Nat /\ Len(cand') <= Len(cand) + 1
    BY <1>0, <2>3, <2>4
  <2>6. pc \in {"magic", "shift", "rest"} /\ pc' # "body"
    BY <1>2 DEF Shift
  <2> QED
    BY <1>b, <2>1, <2>5, <2>6 DEF PendingFits
<1>3. CASE Reject
  <2>1. pending = <<>>
    <3>1. pending # <<>> => Len(cand) + Len(pending) <= HeaderLen
      BY <1>3 DEF Reject, PendingFits
    <3>2. pending # <<>> => Len(pending) >= 1
      BY <1>0, NotEmpty
    <3> QED
      BY <1>0, <1>3, <1>a, <3>1, <3>2 DEF Reject
  <2>2. cand # <<>>
    BY <1>0, <1>3, <1>a, NotEmpty DEF Reject
  <2>3. Tail(cand) \in Seq(Byte) /\ Len(Tail(cand)) = Len(cand) - 1
    BY <1>0, <2>2, ReadStream
  <2>4. Len(Tail(cand) \o pending) = Len(Tail(cand)) + Len(pending)
    BY <1>0, <2>3, WriteAll
  <2>5. Len(pending) = 0 /\ Len(<<>>) = 0
    BY <2>1
  <2>6. Len(<<>>) + Len(Tail(cand) \o pending) <= HeaderLen
    BY <1>0, <1>3, <1>a, <2>3, <2>4, <2>5 DEF Reject
  <2>7. pc' = "magic" /\ cand' = <<>> /\ pending' = Tail(cand) \o pending
    BY <1>3 DEF Reject
  <2> QED
    BY <2>6, <2>7 DEF PendingFits
<1>4. CASE Accept
  <2>1. pending # <<>> => Len(cand) + Len(pending) <= HeaderLen
    BY <1>4 DEF Accept, PendingFits
  <2>2. pending # <<>> => Len(pending) >= 1
    BY <1>0, NotEmpty
  <2>3. pending = <<>>
    BY <1>0, <1>4, <1>a, <2>1, <2>2 DEF Accept
  <2> QED
    BY <1>4, <2>3 DEF Accept, PendingFits
<1>5. CASE MagicFound
  BY <1>5 DEF MagicFound, PendingFits
<1>6. CASE ShiftFails \/ PreludeTooLong \/ BodyTooLong \/ FillBody \/ Return \/ ReadFails
  BY <1>6 DEF ShiftFails, PreludeTooLong, BodyTooLong, FillBody, Return, ReadFails, PendingFits
<1>7. CASE UNCHANGED vars
  BY <1>7 DEF vars, PendingFits
<1> QED
  BY <1>1, <1>2, <1>3, <1>4, <1>5, <1>6, <1>7 DEF Next

LEMMA PendingInvariant == Spec => []PendingFits
<1>1. Init => PendingFits
  BY DEF Init, PendingFits
<1> QED
  BY <1>1, PendingNext, TypeCorrect, PTL DEF Spec

-----------------------------------------------------------------------------
(* The body *)

\* The body is empty while the header is looked for.
NoBodyYet == pc \in {"magic", "shift", "rest"} => body = <<>>

\* BodyFollowsHeader is established when the header is accepted, because by
\* then everything that was pushed back has been used up.
LEMMA BodyNext ==
    /\ TypeOK /\ CandShape /\ BytesConserved /\ PendingFits
    /\ NoBodyYet /\ BodyFollowsHeader
    /\ [Next]_vars
    => (NoBodyYet /\ BodyFollowsHeader)'
<1> SUFFICES ASSUME TypeOK, CandShape, BytesConserved, PendingFits,
                    NoBodyYet, BodyFollowsHeader, [Next]_vars
             PROVE  NoBodyYet' /\ BodyFollowsHeader'
  OBVIOUS
<1>0. /\ read \in Seq(Byte) /\ pending \in Seq(Byte) /\ out \in Seq(Byte) /\ body \in Seq(Byte)
      /\ Len(read) \in Nat /\ Len(out) \in Nat /\ Len(body) \in Nat
      /\ Len(cand) \in Nat /\ Len(pending) \in Nat
      /\ HeaderLen \in Nat
  BY HeaderAssumption DEF TypeOK
<1>1. CASE Accept
  <2>1. /\ pc = "rest" /\ Len(cand) = HeaderLen /\ pc' = "body"
        /\ read' = read /\ out' = out /\ body' = body
    BY <1>1 DEF Accept
  <2>2. body = <<>>
    BY <2>1 DEF NoBodyYet
  <2>3. pending # <<>> => Len(cand) + Len(pending) <= HeaderLen /\ Len(pending) >= 1
    BY <1>0, <2>1, NotEmpty DEF PendingFits
  <2>4. Len(pending) = 0
    <3>1. CASE pending = <<>>
      BY <3>1
    <3> QED
      BY <1>0, <2>1, <2>3, <3>1
  <2>5. Len(read) = Len(out) + Len(cand) + Len(pending)
    BY <2>1 DEF BytesConserved, Split
  <2>6. Len(body) = 0
    BY <2>2
  <2>7. Len(read) = Len(out) + HeaderLen + Len(body)
    BY <1>0, <2>1, <2>4, <2>5, <2>6
  <2>8. \A i \in 1..Len(body) : read[Len(out) + HeaderLen + i] = body[i]
    BY <2>6
  <2> QED
    BY <2>1, <2>7, <2>8 DEF NoBodyYet, BodyFollowsHeader
<1>2. CASE FillBody
  <2>1. PICK b \in Byte : read' = Append(read, b) /\ body' = Append(body, b)
    BY <1>2 DEF FillBody, FromPort
  <2>2. pc = "body" /\ pc' = "body" /\ out' = out
    BY <1>2 DEF FillBody
  <2>3. /\ Len(read') = Len(read) + 1
        /\ \A i \in 1..Len(read) : read'[i] = read[i]
        /\ read'[Len(read) + 1] = b
    BY <1>0, <2>1, WriteStream
  <2>4. /\ Len(body') = Len(body) + 1
        /\ \A i \in 1..Len(body) : body'[i] = body[i]
        /\ body'[Len(body) + 1] = b
    BY <1>0, <2>1, WriteStream
  <2>5. /\ Len(read) = Len(out) + HeaderLen + Len(body)
        /\ \A i \in 1..Len(body) : read[Len(out) + HeaderLen + i] = body[i]
    BY <2>2 DEF BodyFollowsHeader
  <2>6. Len(read') = Len(out) + HeaderLen + Len(body')
    BY <1>0, <2>3, <2>4, <2>5
  <2>7. ASSUME NEW i \in 1..Len(body')
        PROVE  read'[Len(out) + HeaderLen + i] = body'[i]
    <3>1. CASE i \in 1..Len(body)
      <4>1. Len(out) + HeaderLen + i \in 1..Len(read)
        BY <1>0, <2>5, <3>1
      <4> QED
        BY <2>3, <2>4, <2>5, <3>1, <4>1
    <3>2. CASE i = Len(body) + 1
      <4>1. Len(out) + HeaderLen + i = Len(read) + 1
        BY <1>0, <2>5, <3>2
      <4> QED
        BY <2>3, <2>4, <3>2, <4>1
    <3> QED
      BY <1>0, <2>4, <3>1, <3>2
  <2> QED
    BY <2>2, <2>6, <2>7 DEF NoBodyYet, BodyFollowsHeader
<1>3. CASE Return
  BY <1>3 DEF Return, NoBodyYet, BodyFollowsHeader
<1>4. CASE FillMagic \/ Shift \/ ShiftFails \/ PreludeTooLong \/ MagicFound
  BY <1>4 DEF FillMagic, Shift, ShiftFails, PreludeTooLong, MagicFound, NoBodyYet,
              BodyFollowsHeader
<1>5. CASE FillRest \/ Reject \/ BodyTooLong \/ ReadFails
  BY <1>5 DEF FillRest, Reject, BodyTooLong, ReadFails, NoBodyYet, BodyFollowsHeader
<1>6. CASE UNCHANGED vars
  BY <1>6 DEF vars, NoBodyYet, BodyFollowsHeader
<1> QED
  BY <1>1, <1>2, <1>3, <1>4, <1>5, <1>6 DEF Next

\* The body that is decoded is what the device sent after the header, though
\* read_exact goes past pending.
THEOREM BodyIsAfterHeader == Spec => []BodyFollowsHeader
<1>1. Init => NoBodyYet /\ BodyFollowsHeader
  BY DEF Init, NoBodyYet, BodyFollowsHeader
<1> QED
  BY <1>1, BodyNext, TypeCorrect, StreamConserved, PendingInvariant, PTL DEF Spec

-----------------------------------------------------------------------------
(* No response is missed *)

\* A place that cannot begin a response cannot begin one later.
LEMMA StaysRuledOut ==
    ASSUME TypeOK, NEW i \in Nat, ~MayStartAt(i),
           read' \in Seq(Byte), Len(read') >= Len(read),
           \A j \in 1..Len(read) : read'[j] = read[j]
    PROVE  ~MayStartAt(i)'
<1>0. Len(read) \in Nat /\ Len(read') \in Nat /\ Len(Magic) \in Nat
  BY MagicAssumption DEF TypeOK
<1>1. CASE \E k \in 1..Len(Magic) : i + k <= Len(read) /\ read[i + k] # Magic[k]
  <2>1. PICK k \in 1..Len(Magic) : i + k <= Len(read) /\ read[i + k] # Magic[k]
    BY <1>1
  <2>2. i + k \in 1..Len(read) /\ i + k <= Len(read')
    BY <1>0, <2>1
  <2>3. read'[i + k] # Magic[k]
    BY <2>1, <2>2
  <2> QED
    BY <2>2, <2>3 DEF MayStartAt
<1>2. CASE i + Len(Magic) + 1 <= Len(read) /\ read[i + Len(Magic) + 1] # Id
  <2>1. i + Len(Magic) + 1 \in 1..Len(read) /\ i + Len(Magic) + 1 <= Len(read')
    BY <1>0, <1>2
  <2>2. read'[i + Len(Magic) + 1] # Id
    BY <1>2, <2>1
  <2> QED
    BY <2>1, <2>2 DEF MayStartAt
<1> QED
  BY <1>1, <1>2 DEF MayStartAt

\* The byte that is output now is ruled out by the candidate it begins.
LEMMA OutputRuledOut ==
    ASSUME TypeOK, CandShape, BytesConserved, Shift \/ ShiftFails \/ Reject
    PROVE  ~MayStartAt(Len(out))
<1>0. /\ cand \in Seq(Byte) /\ Magic \in Seq(Byte) /\ Len(Magic) >= 2
      /\ Len(cand) \in Nat /\ Len(Magic) \in Nat /\ Len(out) \in Nat
      /\ Len(read) \in Nat /\ Len(pending) \in Nat
  BY MagicAssumption DEF TypeOK
<1>1. /\ Len(read) = Len(out) + Len(cand) + Len(pending)
      /\ \A k \in 1..Len(cand) : read[Len(out) + k] = cand[k]
  BY DEF Shift, ShiftFails, Reject, BytesConserved, Split
<1>2. CASE Shift \/ ShiftFails
  <2>1. Len(cand) = Len(Magic) /\ cand # Magic
    BY <1>2 DEF Shift, ShiftFails, CandShape
  <2>2. PICK k \in 1..Len(Magic) : cand[k] # Magic[k]
    BY <1>0, <2>1, SeqEqual
  <2>3. k \in 1..Len(cand) /\ Len(out) + k <= Len(read)
    BY <1>0, <1>1, <2>1
  <2>4. read[Len(out) + k] # Magic[k]
    BY <1>1, <2>2, <2>3
  <2> QED
    BY <2>3, <2>4 DEF MayStartAt
<1>3. CASE Reject
  <2>1. Len(cand) = HeaderLen /\ cand[Len(Magic) + 1] # Id
    BY <1>3 DEF Reject, Ours
  <2>2. /\ Len(Magic) + 1 \in 1..Len(cand)
        /\ Len(out) + Len(Magic) + 1 <= Len(read)
        /\ Len(out) + (Len(Magic) + 1) = Len(out) + Len(Magic) + 1
    BY <1>0, <1>1, <2>1, HeaderAssumption
  <2>3. read[Len(out) + Len(Magic) + 1] # Id
    BY <1>1, <2>1, <2>2
  <2> QED
    BY <2>2, <2>3 DEF MayStartAt
<1> QED
  BY <1>2, <1>3

LEMMA MissedNext ==
    TypeOK /\ CandShape /\ BytesConserved /\ NoResponseMissed /\ [Next]_vars
    => NoResponseMissed'
<1> SUFFICES ASSUME TypeOK, CandShape, BytesConserved, NoResponseMissed, [Next]_vars
             PROVE  NoResponseMissed'
  OBVIOUS
<1>0. /\ read \in Seq(Byte) /\ cand \in Seq(Byte) /\ out \in Seq(Byte)
      /\ Len(read) \in Nat /\ Len(out) \in Nat /\ Len(cand) \in Nat
  BY DEF TypeOK
<1>a. Len(Magic) \in Nat /\ Len(Magic) >= 2 /\ HeaderLen \in Nat /\ HeaderLen >= Len(Magic) + 2
  BY HeaderAssumption, MagicAssumption
\* Whatever the step, the stream only grows.
<1>b. /\ read' \in Seq(Byte) /\ Len(read') >= Len(read)
      /\ \A j \in 1..Len(read) : read'[j] = read[j]
  <2>1. CASE \E b \in Byte : Take(b)
    BY <2>1, TakeTypes
  <2>2. CASE \E b \in Byte : FromPort(b)
    <3>1. PICK b \in Byte : read' = Append(read, b)
      BY <2>2 DEF FromPort
    <3>2. /\ Append(read, b) \in Seq(Byte)
          /\ Len(Append(read, b)) = Len(read) + 1
          /\ \A j \in 1..Len(read) : Append(read, b)[j] = read[j]
      BY <1>0, WriteStream
    <3> QED
      BY <1>0, <3>1, <3>2
  <2>3. CASE UNCHANGED read
    BY <1>0, <2>3
  <2>4. CASE FillMagic \/ Shift \/ FillRest
    BY <2>1, <2>4 DEF FillMagic, Shift, FillRest
  <2>5. CASE FillBody
    BY <2>2, <2>5 DEF FillBody
  <2>6. CASE \/ ShiftFails \/ PreludeTooLong \/ MagicFound \/ Reject
             \/ BodyTooLong \/ Accept \/ Return \/ ReadFails
    BY <2>3, <2>6 DEF ShiftFails, PreludeTooLong, MagicFound, Reject, BodyTooLong, Accept,
                      Return, ReadFails
  <2> QED
    BY <2>3, <2>4, <2>5, <2>6 DEF Next, vars
<1>1. CASE Shift \/ ShiftFails \/ Reject
  <2>1. cand # <<>>
    BY <1>0, <1>1, <1>a, NotEmpty DEF Shift, ShiftFails, Reject, CandShape
  <2>2. out' = Append(out, Head(cand)) /\ Head(cand) \in Byte
    BY <1>0, <1>1, <2>1, ReadStream DEF Shift, ShiftFails, Reject
  <2>3. Len(out') = Len(out) + 1
    BY <1>0, <2>2, WriteStream
  <2>4. ASSUME NEW i \in 0..(Len(out') - 1)
        PROVE  ~MayStartAt(i)'
    <3>0. i \in Nat /\ (i \in 0..(Len(out) - 1) \/ i = Len(out))
      BY <1>0, <2>3
    <3>1. ~MayStartAt(i)
      BY <1>1, <3>0, OutputRuledOut DEF NoResponseMissed
    <3> QED
      BY <1>b, <3>0, <3>1, StaysRuledOut
  <2> QED
    BY <2>4 DEF NoResponseMissed
<1>2. CASE UNCHANGED out
  <2>1. ASSUME NEW i \in 0..(Len(out) - 1)
        PROVE  ~MayStartAt(i)'
    <3>1. i \in Nat /\ ~MayStartAt(i)
      BY <1>0 DEF NoResponseMissed
    <3> QED
      BY <1>b, <3>1, StaysRuledOut
  <2> QED
    BY <1>2, <2>1 DEF NoResponseMissed
<1>3. Shift \/ ShiftFails \/ Reject \/ UNCHANGED out
  BY DEF Next, vars, FillMagic, PreludeTooLong, MagicFound, FillRest, BodyTooLong,
         Accept, FillBody, Return, ReadFails
<1> QED
  BY <1>1, <1>2, <1>3

\* Script output that resembles a header never hides the response: execute
\* accepts the first header on the wire that has the id of its request.
THEOREM FirstResponseFound == Spec => []NoResponseMissed
<1>1. Init => NoResponseMissed
  <2>1. Len(<<>>) = 0
    OBVIOUS
  <2> QED
    BY <2>1 DEF Init, NoResponseMissed
<1> QED
  BY <1>1, MissedNext, TypeCorrect, StreamConserved, PTL DEF Spec

-----------------------------------------------------------------------------
(* The limit on device output *)

LEMMA OvershootNext ==
    TypeOK /\ CandShape /\ Overshoot /\ [Next]_vars => Overshoot'
<1> SUFFICES ASSUME TypeOK, CandShape, Overshoot, [Next]_vars
             PROVE  Overshoot'
  OBVIOUS
<1>0. /\ out \in Seq(Byte) /\ cand \in Seq(Byte) /\ pending \in Seq(Byte)
      /\ Len(out) \in Nat /\ Len(cand) \in Nat /\ Limit \in Nat
  BY LimitAssumption DEF TypeOK
<1>a. /\ Len(Magic) \in Nat /\ Len(Magic) >= 2 /\ Magic[1] # Magic[2]
      /\ HeaderLen \in Nat /\ HeaderLen >= Len(Magic) + 2
  BY HeaderAssumption, MagicAssumption
<1>1. CASE FillMagic
  <2>1. PICK b \in Byte : Take(b) /\ cand' = Append(cand, b)
    BY <1>1 DEF FillMagic
  <2>2. out' = out /\ pc' \in {"magic", "shift"}
    BY <1>1 DEF FillMagic
  <2>3. /\ Len(cand') = Len(cand) + 1
        /\ \A i \in 1..Len(cand) : cand'[i] = cand[i]
        /\ cand'[Len(cand) + 1] = b
        /\ cand' \in Seq(Byte)
    BY <1>0, <2>1, WriteStream
  <2>4. cand' # <<>>
    BY <1>0, <2>3, NotEmpty
  <2>5. ASSUME Len(out) > Limit
        PROVE  cand'[1] = Magic[2]
    <3>1. CASE cand # <<>>
      <4>1. cand[1] = Magic[2] /\ 1 \in 1..Len(cand)
        BY <1>0, <2>5, <3>1, NotEmpty DEF Overshoot
      <4> QED
        BY <2>3, <4>1
    <3>2. CASE cand = <<>>
      <4>1. pending # <<>> /\ pending[1] = Magic[2] /\ Len(cand) = 0
        BY <2>5, <3>2 DEF Overshoot
      <4>2. b = pending[1]
        BY <1>0, <2>1, <4>1 DEF Take
      <4> QED
        BY <2>3, <4>1, <4>2
    <3> QED
      BY <3>1, <3>2
  <2> QED
    BY <2>2, <2>4, <2>5 DEF Overshoot
<1>2. CASE Shift \/ ShiftFails
  <2>1. cand # <<>>
    BY <1>0, <1>2, <1>a, NotEmpty DEF Shift, ShiftFails, CandShape
  <2>2. Len(out') = Len(out) + 1 /\ Len(out) < Limit
    BY <1>0, <1>2, <2>1, ReadStream, WriteStream DEF Shift, ShiftFails
  <2>3. ~(Len(out') > Limit)
    BY <1>0, <2>2
  <2> QED
    BY <2>3 DEF Overshoot
<1>3. CASE MagicFound
  <2>1. cand = Magic /\ out' = out /\ cand # <<>>
    BY <1>0, <1>a, <1>3, NotEmpty DEF MagicFound
  <2>2. ~(Len(out) > Limit)
    BY <1>a, <2>1 DEF Overshoot
  <2> QED
    BY <2>1, <2>2 DEF Overshoot
<1>4. CASE FillRest \/ BodyTooLong \/ Accept
  <2>1. pc = "rest" /\ out' = out
    BY <1>4 DEF FillRest, BodyTooLong, Accept
  <2>2. ~(Len(out) > Limit)
    BY <2>1 DEF Overshoot
  <2> QED
    BY <2>1, <2>2 DEF Overshoot
<1>5. CASE Reject
  <2>1. /\ pc = "rest" /\ Len(cand) = HeaderLen /\ pc' = "magic" /\ cand' = <<>>
        /\ out' = Append(out, Head(cand)) /\ pending' = Tail(cand) \o pending
    BY <1>5 DEF Reject
  <2>2. Len(out) <= Limit
    BY <1>0, <2>1 DEF Overshoot
  <2>3. cand # <<>>
    BY <1>0, <1>a, <2>1, NotEmpty
  <2>4. /\ Head(cand) \in Byte /\ Tail(cand) \in Seq(Byte)
        /\ Len(Tail(cand)) = Len(cand) - 1
        /\ \A i \in 1..Len(Tail(cand)) : Tail(cand)[i] = cand[i + 1]
    BY <1>0, <2>3, ReadStream
  <2>5. Len(out') = Len(out) + 1
    BY <1>0, <2>1, <2>4, WriteStream
  <2>6. pending' # <<>> /\ pending'[1] = Magic[2]
    <3>1. Len(Tail(cand)) >= 1 /\ 1 \in 1..Len(Tail(cand))
      BY <1>0, <1>a, <2>1, <2>4
    <3>2. Tail(cand)[1] = cand[2]
      BY <2>4, <3>1
    <3>3. cand[2] = Magic[2]
      BY <1>a, <2>1 DEF CandShape
    <3>4. /\ pending' \in Seq(Byte)
          /\ Len(pending') = Len(Tail(cand)) + Len(pending)
          /\ \A i \in 1..(Len(Tail(cand)) + Len(pending)) :
                pending'[i] = IF i <= Len(Tail(cand)) THEN Tail(cand)[i]
                              ELSE pending[i - Len(Tail(cand))]
      BY <1>0, <2>1, <2>4, WriteAll
    <3>5. Len(pending) \in Nat /\ Len(Tail(cand)) \in Nat
      BY <1>0, <2>4
    <3> DEFINE t == Len(Tail(cand))
               n == Len(pending)
    <3>6. t \in Nat /\ n \in Nat /\ t >= 1
      BY <3>1, <3>5
    <3> HIDE DEF t, n
    <3>7. 1 \in 1..(t + n) /\ t + n >= 1
      BY <3>6
    <3>8. pending'[1] = Tail(cand)[1]
      BY <3>1, <3>4, <3>7 DEF t, n
    <3>9. pending' # <<>>
      BY <3>4, <3>7, NotEmpty DEF t, n
    <3> QED
      BY <3>2, <3>3, <3>8, <3>9
  <2>7. Len(out') > Limit => Len(out') = Limit + 1
    BY <1>0, <2>2, <2>5
  <2> QED
    BY <2>1, <2>6, <2>7 DEF Overshoot
<1>6. CASE PreludeTooLong
  BY <1>6 DEF PreludeTooLong, Overshoot
<1>7. CASE FillBody \/ Return
  <2>1. pc = "body" /\ out' = out
    BY <1>7 DEF FillBody, Return
  <2>2. ~(Len(out) > Limit)
    BY <2>1 DEF Overshoot
  <2> QED
    BY <2>1, <2>2 DEF Overshoot
<1>8. CASE ReadFails
  BY <1>8 DEF ReadFails, Overshoot
<1>9. CASE UNCHANGED vars
  BY <1>9 DEF vars, Overshoot
<1> QED
  BY <1>1, <1>2, <1>3, <1>4, <1>5, <1>6, <1>7, <1>8, <1>9 DEF Next

\* device_output never exceeds MAX_PRELUDE_BYTES by more than one byte, though
\* the branch that rejects a header does not compare its length with the limit.
THEOREM PreludeLimited == Spec => []OutputBounded
<1>1. Init => Overshoot
  <2>1. Len(<<>>) = 0
    OBVIOUS
  <2> QED
    BY <2>1, LimitAssumption DEF Init, Overshoot
<1>2. TypeOK /\ Overshoot => OutputBounded
  BY LimitAssumption DEF TypeOK, Overshoot, OutputBounded
<1> QED
  BY <1>1, <1>2, OvershootNext, TypeCorrect, PTL DEF Spec

=============================================================================
