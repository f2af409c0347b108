------------------------------ MODULE WireProofs ------------------------------
(***************************************************************************)
(* Theorems about WireDecoder and WireCodec: for every set of values and   *)
(* of frames, and for all limits.                                          *)
(*                                                                         *)
(* What the writer does is the sequence of its states.  The decoder never  *)
(* accepts too much because at each step the values that are built, list   *)
(* by list, are a sequence of such states that spells the cells read so    *)
(* far (Faithful); it never accepts too little because at each step it is  *)
(* where the writer of the frame has been (InLockstep).                    *)
(***************************************************************************)
EXTENDS WireCodec, StreamLemmas

-----------------------------------------------------------------------------
(* The decoder within its limits *)

\* One open collection less to read from.
LEMMA OneLessType ==
    ASSUME frames \in Seq(OpenFrame), frames # <<>>, Top.left > 0
    PROVE  /\ OneLess \in Seq(OpenFrame)
           /\ Len(OneLess) = Len(frames)
           /\ \A i \in 1..Len(frames) : /\ OneLess[i].kind = frames[i].kind
                                        /\ OneLess[i].count = frames[i].count
<1>1. Len(frames) \in 1..Len(frames) /\ frames \in [1..Len(frames) -> OpenFrame]
  OBVIOUS
<1>2. [frames[Len(frames)] EXCEPT !.left = @ - 1] \in OpenFrame
  <2>1. ASSUME NEW f \in OpenFrame, f.left > 0
        PROVE  [f EXCEPT !.left = @ - 1] \in OpenFrame
    <3>1. f.left \in Nat /\ f.left - 1 \in Nat
      BY <2>1 DEF OpenFrame
    <3>2. QED
      BY <3>1 DEF OpenFrame
  <2>2. frames[Len(frames)] \in OpenFrame /\ frames[Len(frames)].left > 0
    BY <1>1 DEF Top
  <2> QED
    BY <2>1, <2>2
<1>3. OneLess \in [1..Len(frames) -> OpenFrame]
  BY <1>1, <1>2 DEF OneLess
<1>4. OneLess \in Seq(OpenFrame) /\ Len(OneLess) = Len(frames)
  BY <1>3
<1>5. \A i \in 1..Len(frames) : /\ OneLess[i].kind = frames[i].kind
                                /\ OneLess[i].count = frames[i].count
  BY <1>1 DEF OneLess, OpenFrame
<1> QED
  BY <1>4, <1>5

\* Room for count items is within the limit if the length was accepted.
LEMMA CountBounded ==
    ASSUME TypeOK, NEW at \in Nat, NEW width \in {1, 2}, at >= 1,
           CountFits(at, width)
    PROVE  /\ Cell(at) \in Nat
           /\ width * Cell(at) <= Len(bytes)
           /\ offset + at \in 0..Len(bytes)
<1>1. offset + at \in 1..Len(bytes)
  BY DEF TypeOK, CountFits, Has, Remaining
<1>2. Cell(at) \in Nat
  BY <1>1 DEF TypeOK, Cell
<1>3. Cell(at) <= (Len(bytes) - offset - at) \div width
  BY <1>1 DEF CountFits, Remaining, TypeOK
<1>4. Len(bytes) - offset - at \in Nat
  BY <1>1 DEF TypeOK
<1>5. \A n, c \in Nat : c <= n \div width => width * c <= n
  OBVIOUS
<1>6. width * Cell(at) <= Len(bytes) - offset - at
  BY <1>2, <1>3, <1>4, <1>5
<1> QED
  BY <1>1, <1>2, <1>4, <1>6 DEF TypeOK

\* Once the magic has been read, the size of the frame has been checked.
SizeChecked == offset > 0 => Len(bytes) <= MaxBytes
Begun == frames # <<>> => offset > 0

Inv == TypeOK /\ ReservationsBounded /\ SizeChecked /\ Begun

\* Inv holds at the beginning.
LEMMA InitInv == Init => Inv
<1> SUFFICES ASSUME Init PROVE Inv
  OBVIOUS
<1>1. bytes \in Seq(Nat) /\ frames \in Seq(OpenFrame) /\ frames = <<>> /\ Len(frames) = 0
  BY InputAssumption DEF Init
<1>2. 0 \in 0..Len(bytes) /\ 0 \in 0..MaxNodes
  BY <1>1, LimitsAssumption
<1> QED
  BY <1>1, <1>2, LimitsAssumption DEF Init, Inv, TypeOK, ReservationsBounded, SizeChecked, Begun

\* A step that fails changes the outcome only.
LEMMA FailInv ==
    ASSUME Inv, NEW error \in Errors, Fail(error)
    PROVE  Inv'
BY DEF Inv, Fail, TypeOK, ReservationsBounded, SizeChecked, Begun

\* A length that is refused changes nothing.
LEMMA RefuseCountInv ==
    ASSUME Inv, NEW at, NEW width, RefuseCount(at, width)
    PROVE  Inv'
BY FailInv DEF RefuseCount, Errors

\* A value that is no collection has been read.
LEMMA ScalarInv ==
    ASSUME Inv, NEW k, NEW a, NEW n \in Nat, n >= 1,
           frames # <<>>, Top.left > 0, nodes < MaxNodes, ReadScalar(k, a, n)
    PROVE  Inv'
<1>1. /\ offset' = offset + n /\ offset' \in 0..Len(bytes)
      /\ nodes' \in 0..MaxNodes
  BY LimitsAssumption DEF Inv, TypeOK, ReadScalar, Has, Remaining
<1>2. /\ frames' = OneLess /\ frames' \in Seq(OpenFrame)
      /\ Len(frames') = Len(frames)
      /\ \A i \in 1..Len(frames) : /\ frames'[i].kind = frames[i].kind
                                   /\ frames'[i].count = frames[i].count
  BY OneLessType DEF Inv, TypeOK, ReadScalar
<1>3. TypeOK'
  BY <1>1, <1>2 DEF Inv, TypeOK, ReadScalar
<1>4. ReservationsBounded'
  BY <1>2 DEF Inv, ReservationsBounded, Width
<1>5. SizeChecked' /\ Begun'
  BY <1>1 DEF Inv, SizeChecked, Begun, TypeOK, ReadScalar
<1> QED
  BY <1>3, <1>4, <1>5 DEF Inv

\* The frames of the list of locals and of the result stand alone.
LEMMA SingleFrame ==
    ASSUME NEW k \in {"locals", "result", "none"}, NEW c \in Nat, c <= MaxBytes
    PROVE  /\ <<Frame(k, c, c)>> \in Seq(OpenFrame)
           /\ Len(<<Frame(k, c, c)>>) = 1
           /\ Width(<<Frame(k, c, c)>>[1].kind) * <<Frame(k, c, c)>>[1].count <= MaxBytes
<1>1. Frame(k, c, c) \in OpenFrame
  BY DEF Frame, OpenFrame
<1>2. Width(k) = 1
  BY DEF Width
<1> QED
  BY <1>1, <1>2 DEF Frame

\* Every step keeps Inv.
LEMMA NextInv == Inv /\ [Next]_vars => Inv'
<1> SUFFICES ASSUME Inv, [Next]_vars PROVE Inv'
  OBVIOUS
<1>1. CASE RefuseFrame \/ RefuseLocals \/ RefuseValue \/ InvalidTag
            \/ RefuseCollection \/ RefuseResult
  BY <1>1, FailInv, RefuseCountInv
     DEF RefuseFrame, RefuseLocals, RefuseValue, InvalidTag, RefuseCollection,
         RefuseResult, Errors
<1>2. CASE ReadMagic
  <2>1. 1 \in 0..Len(bytes) /\ Len(bytes) <= MaxBytes
    BY <1>2 DEF ReadMagic, AtMagic, Has, Remaining, Inv, TypeOK
  <2> QED
    BY <1>2, <2>1 DEF ReadMagic, Inv, TypeOK, ReservationsBounded, SizeChecked, Begun
<1>3. CASE ReadLocals
  <2>1. /\ Cell(1) \in Nat /\ Cell(1) <= Len(bytes)
        /\ offset' \in 0..Len(bytes) /\ offset' = 2 /\ Len(bytes) <= MaxBytes
    BY <1>3, CountBounded DEF ReadLocals, AtCount, Inv, SizeChecked
  <2>2. Cell(1) <= MaxBytes
    BY <2>1, LimitsAssumption DEF Inv, TypeOK
  <2>3. /\ frames' = <<Frame("locals", Cell(1), Cell(1))>>
        /\ frames' \in Seq(OpenFrame) /\ Len(frames') = 1
        /\ Width(frames'[1].kind) * frames'[1].count <= MaxBytes
    BY <1>3, <2>1, <2>2, SingleFrame DEF ReadLocals
  <2>4. TypeOK'
    BY <1>3, <2>1, <2>3 DEF ReadLocals, Inv, TypeOK
  <2>5. ReservationsBounded'
    BY <2>3, LimitsAssumption DEF ReservationsBounded
  <2> QED
    BY <1>3, <2>1, <2>4, <2>5 DEF ReadLocals, Inv, SizeChecked, Begun
<1>4. CASE DecodeNull
  BY <1>4, ScalarInv DEF DecodeNull, Tag, AtValue
<1>5. CASE DecodeNumber
  BY <1>5, ScalarInv, FailInv DEF DecodeNumber, Tag, AtValue, Errors
<1>6. CASE DecodeBool
  BY <1>6, ScalarInv, FailInv DEF DecodeBool, Tag, AtValue, Errors
<1>7. CASE DecodeText
  <2>1. PICK k \in {"string", "bytes"} :
           /\ Tag(k)
           /\ \/ \E e \in Errors : Fail(e)
              \/ Has(2) /\ ReadScalar(k, 3, 2 + Cell(2))
    BY <1>7 DEF DecodeText, Errors
  <2>2. CASE Has(2) /\ ReadScalar(k, 3, 2 + Cell(2))
    <3>1. Cell(2) \in Nat
      BY <2>2 DEF Has, Remaining, Cell, Inv, TypeOK
    <3>2. 2 + Cell(2) \in Nat /\ 2 + Cell(2) >= 1
      BY <3>1
    <3> QED
      BY <2>1, <2>2, <3>2, ScalarInv DEF Tag, AtValue
  <2> QED
    BY <2>1, <2>2, FailInv
<1>8. CASE OpenCollection
  <2>1. PICK k \in {"array", "map"} :
           /\ Tag(k) /\ CountFits(2, Width(k))
           /\ frames' = Append(OneLess, Frame(k, Cell(2), Width(k) * Cell(2)))
    BY <1>8 DEF OpenCollection
  <2>2. Width(k) \in {1, 2}
    BY DEF Width
  <2>3. /\ Cell(2) \in Nat /\ Width(k) * Cell(2) <= Len(bytes)
        /\ offset + 2 \in 0..Len(bytes)
    BY <2>1, <2>2, CountBounded DEF Inv
  <2>4. /\ OneLess \in Seq(OpenFrame)
        /\ Len(OneLess) = Len(frames)
        /\ \A i \in 1..Len(frames) : /\ OneLess[i].kind = frames[i].kind
                                     /\ OneLess[i].count = frames[i].count
    BY <2>1, OneLessType DEF Tag, AtValue, Inv, TypeOK
  <2> DEFINE f == Frame(k, Cell(2), Width(k) * Cell(2))
  <2>5. f \in OpenFrame /\ f.kind = k /\ f.count = Cell(2)
    <3>1. Width(k) * Cell(2) \in Nat
      BY <2>2, <2>3
    <3> QED
      BY <2>3, <3>1 DEF Frame, OpenFrame
  <2> HIDE DEF f
  <2>6. /\ frames' \in Seq(OpenFrame)
        /\ Len(frames') = Len(frames) + 1
        /\ frames'[Len(frames) + 1] = f
        /\ \A i \in 1..Len(frames) : frames'[i] = OneLess[i]
    BY <2>1, <2>4, <2>5 DEF f
  <2>7. Len(bytes) <= MaxBytes
    BY <2>1 DEF Tag, AtValue, Inv, SizeChecked, Begun
  <2>8. TypeOK'
    BY <1>8, <2>1, <2>3, <2>6, LimitsAssumption DEF OpenCollection, Tag, Inv, TypeOK
  <2>9. ReservationsBounded'
    <3>1. Len(frames') <= MaxNesting + 2
      BY <2>1, <2>6, LimitsAssumption DEF Tag, Depth, Inv, TypeOK
    <3>2. ASSUME NEW i \in 1..Len(frames')
          PROVE  Width(frames'[i].kind) * frames'[i].count <= MaxBytes
      <4>1. CASE i \in 1..Len(frames)
        BY <2>4, <2>6, <4>1 DEF Inv, ReservationsBounded
      <4>2. CASE i = Len(frames) + 1
        <5>1. Width(k) * Cell(2) \in Nat
          BY <2>2, <2>3
        <5> QED
          BY <2>3, <2>5, <2>6, <2>7, <4>2, <5>1, LimitsAssumption DEF Inv, TypeOK
      <4> QED
        BY <2>6, <4>1, <4>2 DEF Inv, TypeOK
    <3> QED
      BY <3>1, <3>2 DEF ReservationsBounded
  <2>10. SizeChecked' /\ Begun'
    BY <1>8, <2>1, <2>7 DEF OpenCollection, Inv, TypeOK, SizeChecked, Begun
  <2> QED
    BY <2>8, <2>9, <2>10 DEF Inv
<1>9. CASE CloseCollection
  <2>1. frames' = SubSeq(frames, 1, Len(frames) - 1) /\ Len(frames) > 1
    BY <1>9 DEF CloseCollection
  <2>2. /\ frames' \in Seq(OpenFrame)
        /\ Len(frames') = Len(frames) - 1
        /\ \A i \in 1..(Len(frames) - 1) : frames'[i] = frames[i]
    BY <2>1 DEF Inv, TypeOK
  <2>3. TypeOK'
    BY <1>9, <2>2 DEF CloseCollection, Inv, TypeOK
  <2>4. ReservationsBounded'
    <3>1. Len(frames) \in Nat /\ Len(frames) <= MaxNesting + 2
      BY DEF Inv, TypeOK, ReservationsBounded
    <3>2. Len(frames') <= MaxNesting + 2
      BY <2>2, <3>1, LimitsAssumption
    <3>3. \A i \in 1..Len(frames') : i \in 1..Len(frames) /\ frames'[i] = frames[i]
      BY <2>2, <3>1
    <3> QED
      BY <3>2, <3>3 DEF Inv, ReservationsBounded
  <2> QED
    BY <1>9, <2>1, <2>3, <2>4 DEF CloseCollection, Inv, SizeChecked, Begun
<1>10. CASE ReadResult
  <2> DEFINE k == IF Cell(1) = 1 THEN "result" ELSE "none"
  <2>1. /\ Cell(1) \in 0..1 /\ offset + 1 \in 0..Len(bytes)
        /\ frames' = <<Frame(k, Cell(1), Cell(1))>>
        /\ offset' = offset + 1
    BY <1>10 DEF ReadResult, Has, Remaining, Cell, Inv, TypeOK
  <2>2. Len(bytes) <= MaxBytes /\ offset > 0
    BY <1>10 DEF ReadResult, AtResult, AtEnd, Inv, SizeChecked, Begun
  <2>3. Cell(1) \in Nat /\ Cell(1) <= MaxBytes
    BY <2>1, <2>2, LimitsAssumption DEF Inv, TypeOK
  <2>4. /\ frames' \in Seq(OpenFrame) /\ Len(frames') = 1
        /\ Width(frames'[1].kind) * frames'[1].count <= MaxBytes
    BY <2>1, <2>3, SingleFrame
  <2>5. TypeOK'
    BY <1>10, <2>1, <2>4 DEF ReadResult, Inv, TypeOK
  <2>6. ReservationsBounded'
    BY <2>4, LimitsAssumption DEF ReservationsBounded
  <2> QED
    BY <1>10, <2>1, <2>2, <2>5, <2>6 DEF ReadResult, Inv, TypeOK, SizeChecked, Begun
<1>11. CASE Finish
  BY <1>11 DEF Finish, Inv, TypeOK, Errors, ReservationsBounded, SizeChecked, Begun
<1>12. CASE UNCHANGED vars
  BY <1>12 DEF vars, Inv, TypeOK, ReservationsBounded, SizeChecked, Begun
<1> QED
  BY <1>1, <1>2, <1>3, <1>4, <1>5, <1>6, <1>7, <1>8, <1>9, <1>10, <1>11, <1>12 DEF Next

\* The invariant the theorems follow from.
THEOREM InvHolds == Spec => []Inv
BY InitInv, NextInv, PTL DEF Spec

\* Every variable stays within its type: the decoder reads within the frame and
\* begins at most MAX_VALUE_NODES values.
THEOREM TypeCorrect == Spec => []TypeOK
<1>1. Inv => TypeOK
  BY DEF Inv
<1> QED
  BY <1>1, InvHolds, PTL

\* However a frame is made up, decode_value reserves room for no more items at
\* once than a frame has bytes, at most MAX_NESTING + 1 collections deep.
THEOREM RoomBounded == Spec => []ReservationsBounded
<1>1. Inv => ReservationsBounded
  BY DEF Inv
<1> QED
  BY <1>1, InvHolds, PTL

-----------------------------------------------------------------------------
(* The writer, step by step *)

\* The values in a value.
Items(v) == IF IsCollection(v) THEN v.items ELSE <<>>

\* A state of the writer, of whatever values.
Proper(w) ==
    /\ w = [cells |-> w.cells, nodes |-> w.nodes, todo |-> w.todo]
    /\ w.cells \in Seq(Nat) /\ w.nodes \in Nat /\ IsSeq(w.todo)

\* The writer goes from w to x.
Writes(w, x) ==
    /\ Proper(w) /\ ~Stops(w)
    /\ HeadCells(Head(w.todo).value) \in Seq(Nat)
    /\ IsSeq(Items(Head(w.todo).value))
    /\ x = WriteNext(w)

\* The writer goes from a to b and writes n values.
Leads(a, b, n) ==
    /\ n \in Nat /\ Proper(a) /\ Proper(b)
    /\ \E t : t[0] = a /\ t[n] = b /\ \A i \in 1..n : Writes(t[i - 1], t[i])

\* A state with c in front of its cells, k more values, and rest behind what is left.
Framed(w, c, k, rest) ==
    [cells |-> c \o w.cells, nodes |-> k + w.nodes, todo |-> w.todo \o rest]

\* What is to be written has as many elements as there are values.
LEMMA TodoSeq ==
    ASSUME NEW values, IsSeq(values), NEW d
    PROVE  /\ IsSeq(Todo(values, d)) /\ Len(Todo(values, d)) = Len(values)
           /\ DOMAIN Todo(values, d) = 1..Len(values) /\ Len(values) \in Nat
           /\ \A i \in 1..Len(values) : Todo(values, d)[i] = [value |-> values[i], depth |-> d]
<1>1. PICK S : values \in Seq(S)
  BY DEF IsSeq
<1> DEFINE R == {[value |-> x, depth |-> d] : x \in S}
<1>2. DOMAIN values = 1..Len(values) /\ Len(values) \in Nat /\ \A i \in 1..Len(values) : values[i] \in S
  BY <1>1
<1>3. Todo(values, d) = [i \in 1..Len(values) |-> [value |-> values[i], depth |-> d]]
  BY <1>2 DEF Todo
<1>4. Todo(values, d) \in Seq(R)
  BY <1>2, <1>3
<1>5. DOMAIN Todo(values, d) = 1..Len(values)
  BY <1>3
<1>6. Len(Todo(values, d)) = Len(values)
  <2> HIDE DEF R
  <2>1. QED
    BY <1>2, <1>4, <1>5
<1>7. \A i \in 1..Len(values) : Todo(values, d)[i] = [value |-> values[i], depth |-> d]
  BY <1>3
<1>8. IsSeq(Todo(values, d))
  BY <1>4 DEF IsSeq
<1>9. QED
  BY <1>2, <1>5, <1>6, <1>7, <1>8

\* The writer goes from states to states.
LEMMA WritesProper ==
    ASSUME NEW w, NEW x, Writes(w, x)
    PROVE  Proper(x)
<1> DEFINE v == Head(w.todo).value
           todo == Todo(Items(v), Head(w.todo).depth + 1) \o Tail(w.todo)
<1>1. x = [cells |-> w.cells \o HeadCells(v), nodes |-> w.nodes + 1, todo |-> todo]
  BY DEF Writes, WriteNext, Items
<1>2. IsSeq(todo)
  <2>1. IsSeq(Tail(w.todo))
    BY HeadTail DEF Writes, Stops, Proper
  <2>2. QED
    BY <2>1, Assoc, TodoSeq DEF Writes
<1>3. w.cells \o HeadCells(v) \in Seq(Nat) /\ w.nodes + 1 \in Nat
  BY DEF Writes, Proper
<1> HIDE DEF todo, v
<1>4. QED
  BY <1>1, <1>2, <1>3 DEF Proper

\* The same with something before and behind it.
LEMMA FramedProper ==
    ASSUME NEW w, Proper(w), NEW c \in Seq(Nat), NEW k \in Nat, NEW rest, IsSeq(rest)
    PROVE  Proper(Framed(w, c, k, rest))
<1>1. c \o w.cells \in Seq(Nat) /\ k + w.nodes \in Nat /\ IsSeq(w.todo \o rest)
  BY Assoc DEF Proper
<1>2. QED
  BY <1>1 DEF Proper, Framed

\* What is written already, and what is left for later, does not change a step.
LEMMA FramedStep ==
    ASSUME NEW w, NEW x, Writes(w, x), NEW c \in Seq(Nat), NEW k \in Nat, NEW rest, IsSeq(rest)
    PROVE  Writes(Framed(w, c, k, rest), Framed(x, c, k, rest))
<1> DEFINE v == Head(w.todo).value
           f == Framed(w, c, k, rest)
           opened == Todo(Items(v), Head(w.todo).depth + 1)
<1>1. Proper(f)
  BY FramedProper DEF Writes
<1>2. /\ Head(f.todo) = Head(w.todo) /\ Tail(f.todo) = Tail(w.todo) \o rest
      /\ f.todo # <<>> /\ IsSeq(Tail(w.todo))
  <2>1. f.todo = w.todo \o rest /\ IsSeq(w.todo) /\ w.todo # <<>>
    BY DEF Framed, Writes, Proper, Stops
  <2> HIDE DEF f
  <2>2. QED
    BY <2>1, HeadTail
<1>3. f.cells = c \o w.cells /\ f.nodes = k + w.nodes
  BY DEF Framed
<1>4. ~Stops(f)
  <2> HIDE DEF f
  <2>1. QED
    BY <1>2 DEF Writes, Stops
<1>5. x = [cells |-> w.cells \o HeadCells(v), nodes |-> w.nodes + 1, todo |-> opened \o Tail(w.todo)]
  BY DEF Writes, WriteNext, Items
<1>6. WriteNext(f) = [cells |-> f.cells \o HeadCells(v), nodes |-> f.nodes + 1,
                      todo |-> opened \o Tail(f.todo)]
  <2> HIDE DEF f
  <2>1. QED
    BY <1>2 DEF WriteNext, Items
<1>7. (c \o w.cells) \o HeadCells(v) = c \o (w.cells \o HeadCells(v))
  <2>1. w.cells \in Seq(Nat) /\ HeadCells(v) \in Seq(Nat)
    BY DEF Writes, Proper
  <2>2. c \in Seq(Nat)
    OBVIOUS
  <2>3. QED
    BY <2>1, <2>2, NatAssoc
<1>8. (k + w.nodes) + 1 = k + (w.nodes + 1)
  BY DEF Writes, Proper
<1>9. (opened \o Tail(w.todo)) \o rest = opened \o (Tail(w.todo) \o rest)
  <2>1. IsSeq(opened)
    BY TodoSeq DEF Writes
  <2> DEFINE t == Tail(w.todo)
  <2>2. IsSeq(t) /\ IsSeq(rest)
    BY <1>2
  <2> HIDE DEF opened, t
  <2>3. (opened \o t) \o rest = opened \o (t \o rest)
    BY <2>1, <2>2, Assoc
  <2>4. QED
    BY <2>3, Zenon DEF t
<1>10. WriteNext(f) = Framed(x, c, k, rest)
  BY <1>2, <1>3, <1>5, <1>6, <1>7, <1>8, <1>9, Zenon DEF Framed
<1>11. QED
  <2> HIDE DEF f
  <2>1. QED
    BY <1>1, <1>2, <1>4, <1>10 DEF Writes, f

\* Nor does it change many of them.
LEMMA LeadsFramed ==
    ASSUME NEW a, NEW b, NEW n, Leads(a, b, n),
           NEW c \in Seq(Nat), NEW k \in Nat, NEW rest, IsSeq(rest)
    PROVE  Leads(Framed(a, c, k, rest), Framed(b, c, k, rest), n)
<1>1. PICK t : t[0] = a /\ t[n] = b /\ \A i \in 1..n : Writes(t[i - 1], t[i])
  BY DEF Leads
<1> DEFINE u == [i \in 0..n |-> Framed(t[i], c, k, rest)]
<1>2. n \in Nat
  BY DEF Leads
<1>3. u[0] = Framed(a, c, k, rest) /\ u[n] = Framed(b, c, k, rest)
  BY <1>1, <1>2
<1>4. ASSUME NEW i \in 1..n PROVE Writes(u[i - 1], u[i])
  <2>1. u[i - 1] = Framed(t[i - 1], c, k, rest) /\ u[i] = Framed(t[i], c, k, rest)
    BY <1>2
  <2>2. Writes(t[i - 1], t[i])
    BY <1>1
  <2> HIDE DEF u
  <2>3. QED
    BY <2>1, <2>2, FramedStep
<1>5. Proper(Framed(a, c, k, rest)) /\ Proper(Framed(b, c, k, rest))
  BY FramedProper DEF Leads
<1> HIDE DEF u
<1>6. QED
  BY <1>2, <1>3, <1>4, <1>5 DEF Leads

\* The steps of the writer can be put one after the other.
LEMMA LeadsOn ==
    ASSUME NEW a, NEW b, NEW c, NEW n, NEW m, Leads(a, b, n), Leads(b, c, m)
    PROVE  Leads(a, c, n + m)
<1>1. PICK t : t[0] = a /\ t[n] = b /\ \A i \in 1..n : Writes(t[i - 1], t[i])
  BY DEF Leads
<1>2. PICK u : u[0] = b /\ u[m] = c /\ \A i \in 1..m : Writes(u[i - 1], u[i])
  BY DEF Leads
<1>3. n \in Nat /\ m \in Nat
  BY DEF Leads
<1> DEFINE r == [i \in 0..(n + m) |-> IF i <= n THEN t[i] ELSE u[i - n]]
<1>4. r[0] = a /\ r[n + m] = c
  BY <1>1, <1>2, <1>3
<1>5. ASSUME NEW i \in 1..(n + m) PROVE Writes(r[i - 1], r[i])
  <2>1. CASE i <= n
    <3>1. r[i - 1] = t[i - 1] /\ r[i] = t[i] /\ i \in 1..n
      BY <1>3, <2>1
    <3> HIDE DEF r
    <3>2. QED
      BY <1>1, <3>1
  <2>2. CASE i > n
    <3>1. r[i] = u[i - n] /\ i - n \in 1..m
      BY <1>3, <2>2
    <3>2. r[i - 1] = u[(i - n) - 1]
      <4>1. CASE i = n + 1
        <5>1. r[i - 1] = t[n] /\ (i - n) - 1 = 0
          BY <1>3, <4>1
        <5> HIDE DEF r
        <5>2. QED
          BY <1>1, <1>2, <5>1
      <4>2. CASE i # n + 1
        <5>1. i - 1 \in 0..(n + m) /\ ~(i - 1 <= n) /\ (i - 1) - n = (i - n) - 1
          BY <1>3, <2>2, <4>2
        <5>2. QED
          BY <5>1
      <4>3. QED
        BY <4>1, <4>2
    <3> HIDE DEF r
    <3>3. QED
      BY <1>2, <3>1, <3>2
  <2>3. QED
    BY <1>3, <2>1, <2>2
<1> HIDE DEF r
<1>6. QED
  BY <1>3, <1>4, <1>5 DEF Leads

\* A step is a sequence of steps.
LEMMA OneWrite ==
    ASSUME NEW a, NEW b, Writes(a, b)
    PROVE  Leads(a, b, 1)
<1> DEFINE r == [i \in 0..1 |-> IF i = 0 THEN a ELSE b]
<1>1. r[0] = a /\ r[1] = b
  OBVIOUS
<1>2. ASSUME NEW i \in 1..1 PROVE Writes(r[i - 1], r[i])
  <2>1. i = 1 /\ i - 1 = 0
    OBVIOUS
  <2> HIDE DEF r
  <2>2. QED
    BY <1>1, <2>1
<1> HIDE DEF r
<1>3. QED
  BY <1>1, <1>2, WritesProper DEF Leads, Writes

\* Where the writer begins with values at depth d, and where it ends.
Begin(vs, d) == [cells |-> <<>>, nodes |-> 0, todo |-> Todo(vs, d)]
Done(s, n) == [cells |-> s, nodes |-> n, todo |-> <<>>]

\* The values vs, at depth d, are n values with their items and are written as s.
Spelled(vs, s, n, d) == IsSeq(vs) /\ Leads(Begin(vs, d), Done(s, n), n)

\* The types of what is spelled.
LEMMA SpelledType ==
    ASSUME NEW vs, NEW s, NEW n, NEW d, Spelled(vs, s, n, d)
    PROVE  s \in Seq(Nat) /\ n \in Nat /\ IsSeq(vs)
BY DEF Spelled, Leads, Done, Proper

\* The writer begins in a state.
LEMMA BeginProper ==
    ASSUME NEW vs, IsSeq(vs), NEW d
    PROVE  Proper(Begin(vs, d))
BY TodoSeq DEF Begin, Proper

\* No values are no cells.
LEMMA SpelledNothing ==
    ASSUME NEW d
    PROVE  Spelled(<<>>, <<>>, 0, d)
<1>1. IsSeq(<<>>) /\ Todo(<<>>, d) = <<>>
  BY DEF IsSeq, Todo
<1>2. Begin(<<>>, d) = Done(<<>>, 0) /\ Proper(Begin(<<>>, d))
  BY <1>1, BeginProper DEF Begin, Done
<1>3. \E t : t[0] = Begin(<<>>, d)
  <2>1. [i \in {0} |-> Begin(<<>>, d)][0] = Begin(<<>>, d)
    OBVIOUS
  <2>2. QED
    BY <2>1
<1>4. QED
  BY <1>1, <1>2, <1>3 DEF Spelled, Leads

\* One value to be written.
LEMMA TodoOne ==
    ASSUME NEW v, NEW d
    PROVE  /\ Todo(<<v>>, d) = <<[value |-> v, depth |-> d]>>
           /\ IsSeq(<<v>>) /\ IsSeq(Todo(<<v>>, d)) /\ Todo(<<v>>, d) # <<>>
           /\ Head(Todo(<<v>>, d)) = [value |-> v, depth |-> d]
           /\ Tail(Todo(<<v>>, d)) = <<>>
<1>1. <<v>> \in Seq({v}) /\ DOMAIN <<v>> = {1} /\ <<v>>[1] = v
  OBVIOUS
<1>2. Todo(<<v>>, d) = <<[value |-> v, depth |-> d]>>
  BY <1>1 DEF Todo
<1>3. ASSUME NEW e PROVE IsSeq(<<e>>) /\ <<e>> # <<>> /\ Head(<<e>>) = e /\ Tail(<<e>>) = <<>>
  <2>1. <<e>> \in Seq({e}) /\ Len(<<e>>) = 1 /\ <<e>>[1] = e
    OBVIOUS
  <2>2. <<e>> # <<>> /\ Head(<<e>>) = e
    BY <2>1
  <2>3. Tail(<<e>>) = <<>>
    BY <2>1, <2>2, HeadTailProperties, EmptySeq
  <2>4. QED
    BY <2>1, <2>2, <2>3 DEF IsSeq
<1>4. QED
  BY <1>2, <1>3

\* One value more to be written.
LEMMA TodoAppend ==
    ASSUME NEW vs, IsSeq(vs), NEW v, NEW d
    PROVE  Todo(Append(vs, v), d) = Todo(vs, d) \o Todo(<<v>>, d) /\ IsSeq(Append(vs, v))
<1>1. PICK S : vs \in Seq(S)
  BY DEF IsSeq
<1> DEFINE e(x) == [value |-> x, depth |-> d]
           T == S \union {v}
           R == {e(x) : x \in T}
<1>2. vs \in Seq(T) /\ Append(vs, v) \in Seq(T) /\ Len(vs) \in Nat
      /\ Len(Append(vs, v)) = Len(vs) + 1
      /\ \A i \in 1..(Len(vs) + 1) : Append(vs, v)[i] = IF i <= Len(vs) THEN vs[i] ELSE v
  BY <1>1, SeqMonotonic, AppendProperties
<1>3. IsSeq(Append(vs, v))
  BY <1>2 DEF IsSeq
<1>4. /\ Len(Todo(Append(vs, v), d)) = Len(vs) + 1
      /\ \A i \in 1..(Len(vs) + 1) : Todo(Append(vs, v), d)[i] = e(Append(vs, v)[i])
      /\ DOMAIN Todo(Append(vs, v), d) = 1..(Len(vs) + 1)
  <2> DEFINE q == Append(vs, v)
  <2>1. IsSeq(q) /\ Len(q) = Len(vs) + 1
    BY <1>2, <1>3
  <2> HIDE DEF q
  <2>2. /\ Len(Todo(q, d)) = Len(q) /\ DOMAIN Todo(q, d) = 1..Len(q)
        /\ \A i \in 1..Len(q) : Todo(q, d)[i] = e(q[i])
    BY <2>1, TodoSeq
  <2> HIDE DEF T, R, e
  <2>3. QED
    BY <2>1, <2>2 DEF q
<1>5. /\ Len(Todo(vs, d)) = Len(vs)
      /\ \A i \in 1..Len(vs) : Todo(vs, d)[i] = e(vs[i])
      /\ IsSeq(Todo(vs, d))
  BY TodoSeq
<1>6. Todo(<<v>>, d) = <<e(v)>> /\ IsSeq(Todo(<<v>>, d))
  BY TodoOne
<1>7. PICK Q : Todo(vs, d) \in Seq(Q) /\ <<e(v)>> \in Seq(Q) /\ Todo(Append(vs, v), d) \in Seq(Q)
  <2> DEFINE p == Todo(vs, d)
             q == <<e(v)>>
             r == Todo(Append(vs, v), d)
  <2>1. IsSeq(p) /\ IsSeq(r)
    BY <1>3, <1>5, TodoSeq
  <2>2. IsSeq(q)
    BY <1>6
  <2> HIDE DEF p, q, r
  <2>3. \E Q : p \in Seq(Q) /\ q \in Seq(Q) /\ r \in Seq(Q)
    BY <2>1, <2>2, Three
  <2>4. QED
    BY <2>3, Zenon DEF p, q, r
<1>8. /\ Todo(vs, d) \o <<e(v)>> \in Seq(Q)
      /\ Len(Todo(vs, d) \o <<e(v)>>) = Len(vs) + 1
      /\ \A i \in 1..(Len(vs) + 1) :
            (Todo(vs, d) \o <<e(v)>>)[i] = IF i <= Len(vs) THEN Todo(vs, d)[i] ELSE e(v)
  <2> HIDE DEF e
  <2>1. Len(<<e(v)>>) = 1 /\ <<e(v)>>[1] = e(v)
    OBVIOUS
  <2>2. QED
    BY <1>2, <1>5, <1>7, <2>1, ConcatProperties
<1>9. \A i \in 1..(Len(vs) + 1) : (Todo(vs, d) \o <<e(v)>>)[i] = Todo(Append(vs, v), d)[i]
  <2> HIDE DEF e
  <2>1. QED
    BY <1>2, <1>4, <1>5, <1>8
<1>10. QED
  <2> HIDE DEF e
  <2>1. Todo(Append(vs, v), d) = Todo(vs, d) \o <<e(v)>>
    BY <1>4, <1>7, <1>8, <1>9, SeqEqual
  <2>2. QED
    BY <1>3, <1>6, <2>1

\* A value more, its own cells and then its items.
LEMMA SpelledOn ==
    ASSUME NEW vs, NEW s, NEW n, NEW d \in Nat, Spelled(vs, s, n, d), d <= MaxNesting,
           NEW v, HeadCells(v) \in Seq(Nat),
           NEW r, NEW m, Spelled(Items(v), r, m, d + 1)
    PROVE  Spelled(Append(vs, v), (s \o HeadCells(v)) \o r, (n + 1) + m, d)
<1> DEFINE H == HeadCells(v)
           rest == Todo(<<v>>, d)
           mid == [cells |-> s, nodes |-> n, todo |-> rest]
           open == [cells |-> s \o H, nodes |-> n + 1, todo |-> Todo(Items(v), d + 1)]
<1>1. s \in Seq(Nat) /\ n \in Nat /\ IsSeq(vs) /\ r \in Seq(Nat) /\ m \in Nat /\ IsSeq(Items(v))
  BY SpelledType
<1>2. /\ IsSeq(rest) /\ rest # <<>> /\ Tail(rest) = <<>>
      /\ Head(rest) = [value |-> v, depth |-> d]
  BY TodoOne
<1>3. Leads(Begin(Append(vs, v), d), mid, n)
  <2>1. Framed(Begin(vs, d), <<>>, 0, rest) = Begin(Append(vs, v), d)
    <3>1. <<>> \o <<>> = <<>> /\ 0 + 0 = 0
      OBVIOUS
    <3>2. Todo(vs, d) \o rest = Todo(Append(vs, v), d)
      BY <1>1, TodoAppend
    <3> HIDE DEF rest
    <3>3. QED
      BY <3>1, <3>2 DEF Framed, Begin
  <2>2. Framed(Done(s, n), <<>>, 0, rest) = mid
    <3>1. <<>> \o s = s /\ 0 + n = n
      BY <1>1
    <3>2. <<>> \o rest = rest
      BY <1>2, EmptyIsUnit
    <3> HIDE DEF rest
    <3>3. QED
      BY <3>1, <3>2 DEF Framed, Done
  <2>3. Leads(Begin(vs, d), Done(s, n), n) /\ <<>> \in Seq(Nat)
    BY DEF Spelled
  <2> HIDE DEF rest, mid
  <2>4. QED
    BY <1>2, <2>1, <2>2, <2>3, LeadsFramed
<1>4. Leads(mid, open, 1)
  <2>1. Proper(mid)
    BY <1>1, <1>2 DEF Proper
  <2>2. ~Stops(mid)
    <3> HIDE DEF rest
    <3>1. QED
      BY <1>2, LimitsAssumption DEF Stops
  <2>3. Head(mid.todo).value = v /\ Head(mid.todo).depth = d
    <3> HIDE DEF rest
    <3>1. QED
      BY <1>2
  <2>4. WriteNext(mid) = open
    <3>1. Todo(Items(v), d + 1) \o <<>> = Todo(Items(v), d + 1)
      BY <1>1, TodoSeq, EmptyIsUnit
    <3>2. mid.cells = s /\ mid.nodes = n /\ mid.todo = rest
      OBVIOUS
    <3> HIDE DEF rest, mid
    <3>3. QED
      BY <1>2, <2>3, <3>1, <3>2 DEF WriteNext, Items
  <2> HIDE DEF mid, open
  <2>5. Writes(mid, open)
    BY <1>1, <2>1, <2>2, <2>3, <2>4 DEF Writes
  <2>6. QED
    BY <2>5, OneWrite
<1>5. Leads(open, Done((s \o H) \o r, (n + 1) + m), m)
  <2>1. s \o H \in Seq(Nat) /\ n + 1 \in Nat
    BY <1>1
  <2>2. Framed(Begin(Items(v), d + 1), s \o H, n + 1, <<>>) = open
    <3>1. (s \o H) \o <<>> = s \o H /\ (n + 1) + 0 = n + 1
      BY <2>1
    <3>2. Todo(Items(v), d + 1) \o <<>> = Todo(Items(v), d + 1)
      BY <1>1, TodoSeq, EmptyIsUnit
    <3>3. QED
      BY <3>1, <3>2 DEF Framed, Begin
  <2>3. Framed(Done(r, m), s \o H, n + 1, <<>>) = Done((s \o H) \o r, (n + 1) + m)
    <3>1. <<>> \o <<>> = <<>>
      OBVIOUS
    <3>2. QED
      BY <3>1 DEF Framed, Done
  <2>4. Leads(Begin(Items(v), d + 1), Done(r, m), m) /\ IsSeq(<<>>)
    BY EmptyIsUnit DEF Spelled
  <2> HIDE DEF open, H
  <2>5. QED
    BY <2>1, <2>2, <2>3, <2>4, LeadsFramed
<1> HIDE DEF mid, open, H
<1>6. Leads(Begin(Append(vs, v), d), Done((s \o H) \o r, (n + 1) + m), (n + 1) + m)
  BY <1>3, <1>4, <1>5, LeadsOn
<1>7. IsSeq(Append(vs, v))
  BY <1>1, TodoAppend
<1>8. QED
  BY <1>6, <1>7 DEF Spelled, H

\* One step of the writer, or none.
NextWritten(w) == IF Stops(w) THEN w ELSE WriteNext(w)

\* Written is what MaxBytes steps of the writer lead to.
LEMMA WrittenSteps ==
    ASSUME NEW values
    PROVE  \E f : /\ f[0] = Begin(values, 0)
                  /\ \A i \in 1..MaxBytes : f[i] = NextWritten(f[i - 1])
                  /\ Written(values) = f[MaxBytes]
<1> DEFINE Step(f, n) == [i \in 0..n |-> IF i = 0 THEN Begin(values, 0)
                                        ELSE NextWritten(f[i - 1])]
           Good(n) == \E f : f = Step(f, n)
<1>1. Good(MaxBytes)
  <2>1. SUFFICES ASSUME ~Good(MaxBytes) PROVE FALSE
    OBVIOUS
  <2> DEFINE Bad == {n \in 0..MaxBytes : ~Good(n)}
  <2>2. PICK n \in Bad : \A m \in Bad : n <= m
    <3>1. MaxBytes \in Bad /\ Bad \subseteq Nat
      BY <2>1, LimitsAssumption
    <3> HIDE DEF Bad
    <3>2. QED
      BY <3>1, LeastElement
  <2>3. CASE n = 0
    <3> DEFINE f == [i \in 0..0 |-> Begin(values, 0)]
    <3>1. f = Step(f, 0)
      OBVIOUS
    <3>2. QED
      BY <2>2, <2>3, <3>1
  <2>4. CASE n # 0
    <3>1. n \in 1..MaxBytes /\ n - 1 \in 0..MaxBytes /\ n - 1 \notin Bad
      <4> HIDE DEF Good
      <4>1. QED
        BY <2>2, <2>4, LimitsAssumption
    <3>2. PICK f : f = Step(f, n - 1)
      BY <3>1
    <3> DEFINE g == [i \in 0..n |-> IF i = n THEN NextWritten(f[n - 1]) ELSE f[i]]
    <3>3. \A i \in 0..n : g[i] = IF i = 0 THEN Begin(values, 0) ELSE NextWritten(g[i - 1])
      <4> SUFFICES ASSUME NEW i \in 0..n
                   PROVE  g[i] = IF i = 0 THEN Begin(values, 0) ELSE NextWritten(g[i - 1])
        OBVIOUS
      <4>1. CASE i = n
        <5>1. g[i] = NextWritten(f[n - 1]) /\ g[n - 1] = f[n - 1] /\ i # 0
          BY <2>4, <4>1, <3>1
        <5> HIDE DEF g
        <5>2. QED
          BY <4>1, <5>1
      <4>2. CASE i # n
        <5>1. i \in 0..(n - 1) /\ g[i] = f[i]
          BY <3>1, <4>2
        <5>2. f[i] = IF i = 0 THEN Begin(values, 0) ELSE NextWritten(f[i - 1])
          BY <3>2, <5>1
        <5>3. i # 0 => g[i - 1] = f[i - 1]
          BY <3>1, <5>1
        <5> HIDE DEF g
        <5>4. QED
          BY <5>1, <5>2, <5>3
      <4>3. QED
        BY <4>1, <4>2
    <3>4. g = Step(g, n)
      BY <3>3
    <3>5. Good(n)
      BY <3>4
    <3> HIDE DEF Good
    <3>6. QED
      BY <2>2, <3>5
  <2>5. QED
    BY <2>3, <2>4
<1> DEFINE f == CHOOSE f : f = Step(f, MaxBytes)
<1>2. f = Step(f, MaxBytes)
  <2> HIDE DEF Step
  <2>1. QED
    BY <1>1
<1>3. Written(values) = f[MaxBytes]
  BY DEF Written, Begin, NextWritten
<1>4. f[0] = Begin(values, 0) /\ \A i \in 1..MaxBytes : f[i] = NextWritten(f[i - 1])
  <2> HIDE DEF f
  <2>1. QED
    BY <1>2, LimitsAssumption
<1> HIDE DEF f
<1>5. QED
  BY <1>3, <1>4

\* What is spelled is what the encoder writes.
LEMMA SpelledIsWritten ==
    ASSUME NEW vs, NEW s, NEW n, Spelled(vs, s, n, 0), n <= MaxBytes
    PROVE  Written(vs) = Done(s, n)
<1>1. PICK t : /\ t[0] = Begin(vs, 0) /\ t[n] = Done(s, n)
               /\ \A i \in 1..n : Writes(t[i - 1], t[i])
  BY DEF Spelled, Leads
<1>2. PICK f : /\ f[0] = Begin(vs, 0)
               /\ \A i \in 1..MaxBytes : f[i] = NextWritten(f[i - 1])
               /\ Written(vs) = f[MaxBytes]
  BY WrittenSteps
<1>3. n \in Nat /\ MaxBytes \in Nat
  BY LimitsAssumption DEF Spelled, Leads
<1> DEFINE same(i) == f[i] = IF i <= n THEN t[i] ELSE Done(s, n)
           Bad == {i \in 0..MaxBytes : ~same(i)}
<1>4. ASSUME Bad # {} PROVE FALSE
  <2>1. PICK i \in Bad : \A j \in Bad : i <= j
    <3>1. Bad \subseteq Nat
      OBVIOUS
    <3> HIDE DEF Bad
    <3>2. QED
      BY <1>4, <3>1, LeastElement
  <2>2. same(0)
    BY <1>1, <1>2, <1>3
  <2>3. i \in 1..MaxBytes /\ i - 1 \in 0..MaxBytes /\ i - 1 \notin Bad /\ ~same(i)
    <3> HIDE DEF same
    <3>1. QED
      BY <1>3, <2>1, <2>2
  <2>4. same(i - 1) /\ f[i] = NextWritten(f[i - 1])
    <3> HIDE DEF same
    <3>1. QED
      BY <1>2, <2>3
  <2>5. CASE i <= n
    <3>1. f[i - 1] = t[i - 1] /\ Writes(t[i - 1], t[i])
      BY <1>1, <1>3, <2>3, <2>4, <2>5
    <3>2. f[i] = t[i]
      BY <2>4, <3>1 DEF NextWritten, Writes
    <3>3. QED
      BY <2>3, <2>5, <3>2
  <2>6. CASE i > n
    <3>1. f[i - 1] = Done(s, n)
      <4>1. CASE i - 1 = n
        BY <1>1, <1>3, <2>4, <4>1
      <4>2. CASE i - 1 # n
        BY <1>3, <2>3, <2>4, <2>6, <4>2
      <4>3. QED
        BY <4>1, <4>2
    <3>2. f[i] = Done(s, n)
      BY <2>4, <3>1 DEF NextWritten, Stops, Done
    <3>3. QED
      BY <1>3, <2>3, <2>6, <3>2
  <2>7. QED
    BY <1>3, <2>3, <2>5, <2>6
<1>5. same(MaxBytes)
  BY <1>3, <1>4
<1>6. QED
  BY <1>1, <1>2, <1>3, <1>5

-----------------------------------------------------------------------------
(* What a step of the decoder reads *)

\* OneLess changes nothing but the innermost collection.
LEMMA OneLessLeft ==
    ASSUME frames \in Seq(OpenFrame), frames # <<>>
    PROVE  /\ \A i \in 1..(Len(frames) - 1) : OneLess[i] = frames[i]
           /\ OneLess[Len(frames)].left = Top.left - 1
<1>1. Len(frames) \in 1..Len(frames) /\ frames \in [1..Len(frames) -> OpenFrame]
  OBVIOUS
<1>2. \A i \in 1..(Len(frames) - 1) : i \in 1..Len(frames) /\ i # Len(frames)
  <2>1. Len(frames) \in Nat /\ \A n \in Nat : \A i \in 1..(n - 1) : i \in 1..n /\ i # n
    OBVIOUS
  <2>2. QED
    BY <2>1
<1>3. \A i \in 1..(Len(frames) - 1) : OneLess[i] = frames[i]
  BY <1>1, <1>2 DEF OneLess
<1>4. frames[Len(frames)] \in OpenFrame
  BY <1>1
<1>5. OneLess[Len(frames)] = [frames[Len(frames)] EXCEPT !.left = @ - 1]
  BY <1>1 DEF OneLess
<1>6. [frames[Len(frames)] EXCEPT !.left = @ - 1].left = frames[Len(frames)].left - 1
  BY <1>4 DEF OpenFrame
<1>7. QED
  BY <1>3, <1>5, <1>6 DEF Top

-----------------------------------------------------------------------------
\* A value that is read behind a list, its cells and then its items, belongs
\* to the list.
LEMMA ListGrows ==
    ASSUME NEW s, IsSeq(s), NEW cells \in Seq(Nat),
           NEW q \in 0..Len(s), NEW p \in 0..q, NEW v,
           NEW e \in 0..Len(cells), NEW c \in 0..e, NEW b \in 0..c, NEW a \in 0..b,
           NEW d \in Nat, d <= MaxNesting, NEW n, NEW m,
           Spelled(SubSeq(s, p + 1, q), SubSeq(cells, a + 1, b), n, d),
           HeadCells(v) = SubSeq(cells, b + 1, c),
           Spelled(Items(v), SubSeq(cells, c + 1, e), m, d + 1)
    PROVE  Spelled(SubSeq(Append(SubSeq(s, 1, q), v), p + 1, q + 1),
                   SubSeq(cells, a + 1, e), (n + 1) + m, d)
<1>1. HeadCells(v) \in Seq(Nat)
  <2>1. b \in Nat /\ c \in 0..Len(cells)
    OBVIOUS
  <2>2. SubSeq(cells, b + 1, c) \in Seq(Nat)
    BY <2>1, NatPart
  <2>3. QED
    BY <2>2, Zenon
<1>2. Spelled(Append(SubSeq(s, p + 1, q), v),
              (SubSeq(cells, a + 1, b) \o SubSeq(cells, b + 1, c)) \o SubSeq(cells, c + 1, e),
              (n + 1) + m, d)
  BY <1>1, SpelledOn
<1>3. SubSeq(cells, a + 1, b) \o SubSeq(cells, b + 1, c) = SubSeq(cells, a + 1, c)
  <2>1. a + 1 \in 1..(Len(cells) + 1) /\ b \in ((a + 1) - 1)..Len(cells) /\ c \in b..Len(cells)
    OBVIOUS
  <2>2. QED
    BY <2>1, ConcatAdjacentSubSeq
<1>4. SubSeq(cells, a + 1, c) \o SubSeq(cells, c + 1, e) = SubSeq(cells, a + 1, e)
  <2>1. a + 1 \in 1..(Len(cells) + 1) /\ c \in ((a + 1) - 1)..Len(cells) /\ e \in c..Len(cells)
    OBVIOUS
  <2>2. QED
    BY <2>1, ConcatAdjacentSubSeq
<1>5. SubSeq(Append(SubSeq(s, 1, q), v), p + 1, q + 1) = Append(SubSeq(s, p + 1, q), v)
  BY PartGrows
<1>6. QED
  BY <1>2, <1>3, <1>4, <1>5, Zenon

\* A tag is the number of its kind.
LEMMA TagCell ==
    ASSUME NEW c \in 0..7
    PROVE  (CHOOSE i \in 1..8 : Kinds[i] = Kinds[c + 1]) - 1 = c
<1>1. \A i, j \in 1..8 : Kinds[i] = Kinds[j] => i = j
  BY DEF Kinds
<1>2. c + 1 \in 1..8
  OBVIOUS
<1>3. (CHOOSE i \in 1..8 : Kinds[i] = Kinds[c + 1]) = c + 1
  BY <1>1, <1>2
<1> DEFINE found == CHOOSE i \in 1..8 : Kinds[i] = Kinds[c + 1]
<1> HIDE DEF found
<1>4. found = c + 1
  BY <1>3 DEF found
<1>5. found - 1 = c
  BY <1>4
<1>6. QED
  BY <1>5 DEF found

\* The cells of a scalar are its tag, the length of a text, and itself.
LEMMA ScalarHead ==
    ASSUME NEW c \in 0..7, NEW cells
    PROVE  /\ Items(Scalar(Kinds[c + 1], cells)) = IF Kinds[c + 1] \in {"array", "map"}
                                                   THEN Scalar(Kinds[c + 1], cells).items ELSE <<>>
           /\ Kinds[c + 1] \in {"null", "int", "float", "bool"} =>
                 HeadCells(Scalar(Kinds[c + 1], cells)) = <<c>> \o cells
           /\ Kinds[c + 1] \in {"string", "bytes"} =>
                 HeadCells(Scalar(Kinds[c + 1], cells)) = <<c, Len(cells)>> \o cells
<1> DEFINE k == Kinds[c + 1]
<1>1. (CHOOSE i \in 1..8 : Kinds[i] = k) - 1 = c
  BY TagCell
<1>2. Scalar(k, cells).kind = k /\ Scalar(k, cells).cells = cells
  BY DEF Scalar
<1> HIDE DEF k
<1>3. QED
  BY <1>1, <1>2 DEF HeadCells, Items, IsCollection, k

\* The cells of a collection before its items are its tag and their number.
LEMMA CollectionHead ==
    ASSUME NEW c \in 0..7, NEW items, Kinds[c + 1] \in {"array", "map"}
    PROVE  /\ Items(Collection(Kinds[c + 1], items)) = items
           /\ HeadCells(Collection(Kinds[c + 1], items))
                  = <<c, Len(items) \div Width(Kinds[c + 1])>>
<1> DEFINE k == Kinds[c + 1]
<1>1. (CHOOSE i \in 1..8 : Kinds[i] = k) - 1 = c
  BY TagCell
<1>2. Collection(k, items).kind = k /\ Collection(k, items).items = items
  BY DEF Collection
<1> HIDE DEF k
<1>3. QED
  BY <1>1, <1>2 DEF HeadCells, Items, IsCollection, k

-----------------------------------------------------------------------------
(* Only what is written is accepted *)

\* What came before the first cell of the open list, a, in which m values, and k
\* with their items, were built: nothing but the number of the locals, or the
\* locals and the flag of the result.
Preamble(a, m, k) ==
    \/ /\ frames[1].kind = "locals" /\ bytes[2] = frames[1].count
       /\ a = 2 /\ m = 0 /\ k = 0
    \/ /\ frames[1].kind = (IF frames[1].count = 1 THEN "result" ELSE "none")
       /\ form = "response" /\ frames[1].count \in {0, 1} /\ bytes[a] = frames[1].count
       /\ 3 <= a /\ bytes[2] = m
       /\ Spelled(SubSeq(built, 1, m), SubSeq(bytes, 3, a - 1), k, 0)

\* How many values a list has.
Room(f) == Width(f.kind) * f.count

\* The values that list j has so far are spelled by its cells, which end before the
\* tag and the length of the next list, and it still reads the others.
Level(j, at, from, cnt) ==
    /\ 2 <= at[j] /\ at[j] + 2 <= at[j + 1]
    /\ Spelled(SubSeq(built, from[j] + 1, from[j + 1]),
               SubSeq(bytes, at[j] + 1, at[j + 1] - 2), (cnt[j + 1] - 1) - cnt[j], j - 1)
    /\ (from[j + 1] - from[j]) + frames[j].left + (IF j = Len(frames) THEN 0 ELSE 1)
           = Room(frames[j])
    /\ j > 1 => \E c \in 0..7 : /\ frames[j].kind = Kinds[c + 1]
                                /\ frames[j].kind \in {"array", "map"}
                                /\ bytes[at[j] - 1] = c /\ bytes[at[j]] = frames[j].count

\* Numbers that do not decrease.
Ordered(at, n) == \A i, j \in 1..n : i <= j => at[i] <= at[j]

\* All open lists are as they should be.  List j begins behind cell at[j] and value
\* from[j] when cnt[j] values had begun.
SoundWith(at, from, cnt) ==
    LET n == Len(frames) + 1
    IN  /\ at \in [1..n -> Nat] /\ from \in [1..n -> Nat] /\ cnt \in [1..n -> Nat]
        /\ Ordered(at, n) /\ Ordered(from, n)
        /\ at[n] = offset + 2 /\ from[n] = Len(built) /\ cnt[n] = nodes + 1
        /\ Preamble(at[1], from[1], cnt[1])
        /\ \A j \in 1..Len(frames) : Level(j, at, from, cnt)

\* The open lists have been read as they were written.
Sound == \E at, from, cnt : SoundWith(at, from, cnt)

\* The frame has been read to its end.
Finished ==
    /\ Len(frames) = 1 /\ Top.left = 0 /\ ~(form = "response" /\ Top.kind = "locals")
    /\ offset = Len(bytes)

\* The decoder has built what was written in the cells it has read.
Faithful ==
    /\ IsSeq(built) /\ nodes <= offset
    /\ frames = <<>> => built = <<>> /\ nodes = 0
    /\ offset > 0 => Len(bytes) >= 1 /\ bytes[1] = Magic[form]
    /\ frames # <<>> => Sound
    /\ outcome = "ok" => frames # <<>> /\ Finished

\* The values of a collection below the one that is read remain as they are.
LEMMA LevelKept ==
    ASSUME IsSeq(built), NEW q \in 0..Len(built), NEW v,
           built' = built \/ built' = Append(SubSeq(built, 1, q), v), bytes' = bytes,
           NEW at, NEW from, NEW cnt, NEW at1, NEW from1, NEW cnt1,
           NEW j \in Nat \ {0}, Level(j, at, from, cnt),
           from[j] \in Nat, from[j + 1] \in from[j]..q,
           at1[j] = at[j], at1[j + 1] = at[j + 1], from1[j] = from[j],
           from1[j + 1] = from[j + 1], cnt1[j] = cnt[j], cnt1[j + 1] = cnt[j + 1],
           frames'[j].kind = frames[j].kind, frames'[j].count = frames[j].count,
           Room(frames'[j]) = Room(frames[j]),
           frames'[j].left + (IF j = Len(frames') THEN 0 ELSE 1)
               = frames[j].left + (IF j = Len(frames) THEN 0 ELSE 1),
           frames[j].left \in Nat, frames'[j].left \in Nat
    PROVE  Level(j, at1, from1, cnt1)'
<1>1. SubSeq(built', from[j] + 1, from[j + 1]) = SubSeq(built, from[j] + 1, from[j + 1])
  <2>1. from[j] + 1 \in Nat \ {0} /\ from[j + 1] \in 0..q
    OBVIOUS
  <2>2. SubSeq(Append(SubSeq(built, 1, q), v), from[j] + 1, from[j + 1])
            = SubSeq(built, from[j] + 1, from[j + 1])
    BY <2>1, PartKept
  <2>3. QED
    BY <2>2
<1>2. (from[j + 1] - from[j]) + frames'[j].left + (IF j = Len(frames') THEN 0 ELSE 1)
          = (from[j + 1] - from[j]) + frames[j].left + (IF j = Len(frames) THEN 0 ELSE 1)
  <2> DEFINE a == IF j = Len(frames') THEN 0 ELSE 1
             b == IF j = Len(frames) THEN 0 ELSE 1
  <2>1. a \in Nat /\ b \in Nat /\ frames'[j].left + a = frames[j].left + b
    OBVIOUS
  <2>2. \A x, y, z \in Int : y + a = z + b => x + y + a = x + z + b
    <3> HIDE DEF a, b
    <3>1. QED
      BY <2>1
  <2>3. from[j + 1] - from[j] \in Int /\ frames'[j].left \in Int /\ frames[j].left \in Int
    OBVIOUS
  <2>4. QED
    BY <2>1, <2>2, <2>3
<1>3. QED
  BY <1>1, <1>2 DEF Level

\* What was before the list does not change when more is built.
LEMMA PreambleKept ==
    ASSUME IsSeq(built), NEW q \in 0..Len(built), NEW v,
           built' = built \/ built' = Append(SubSeq(built, 1, q), v),
           bytes' = bytes, form' = form,
           NEW a, NEW m \in 0..q, NEW k, Preamble(a, m, k),
           frames'[1].kind = frames[1].kind, frames'[1].count = frames[1].count
    PROVE  Preamble(a, m, k)'
<1>1. SubSeq(built', 1, m) = SubSeq(built, 1, m)
  <2>1. SubSeq(Append(SubSeq(built, 1, q), v), 1, m) = SubSeq(built, 1, m)
    BY PartKept
  <2>2. QED
    BY <2>1
<1>2. QED
  BY <1>1 DEF Preamble

\* A list of numbers with its first n kept and another one behind them.
Extendable(f, m, n, x) ==
    \E g \in [1..(n + 1) -> Nat] :
       /\ g[n + 1] = x /\ \A i \in 1..n : g[i] = f[i]
       /\ Ordered(f, m) /\ (n > 0 => f[n] <= x) => Ordered(g, n + 1)

\* There is always another number to put behind them.
LEMMA Extended ==
    ASSUME NEW m \in Nat, NEW f \in [1..m -> Nat], NEW n \in 0..m, NEW x \in Nat
    PROVE  Extendable(f, m, n, x)
<1> DEFINE g == [i \in 1..(n + 1) |-> IF i = n + 1 THEN x ELSE f[i]]
<1>1. n \in Nat /\ \A i \in 1..n : i \in 1..m /\ i \in 1..(n + 1) /\ i # n + 1
  OBVIOUS
<1>2. \A i \in 1..(n + 1) : i = n + 1 \/ i \in 1..n
  BY <1>1
<1>3. \A i \in 1..n : g[i] = f[i] /\ g[i] \in Nat
  BY <1>1
<1>4. g[n + 1] = x
  BY <1>1
<1>5. g \in [1..(n + 1) -> Nat]
  BY <1>2, <1>3, <1>4
<1> HIDE DEF g
<1>6. ASSUME Ordered(f, m), n > 0 => f[n] <= x PROVE Ordered(g, n + 1)
  <2>1. ASSUME NEW i \in 1..(n + 1), NEW j \in 1..(n + 1), i <= j
        PROVE  g[i] <= g[j]
    <3>1. CASE j \in 1..n
      <4>1. i \in 1..n /\ i \in 1..m /\ j \in 1..m
        BY <1>1, <2>1, <3>1
      <4>2. f[i] <= f[j]
        BY <1>6, <2>1, <4>1 DEF Ordered
      <4>3. QED
        BY <1>3, <3>1, <4>1, <4>2
    <3>2. CASE j = n + 1 /\ i \in 1..n
      <4>1. n > 0 /\ i <= n /\ i \in 1..m /\ n \in 1..m
        BY <1>1, <3>2
      <4>2. f[i] <= f[n] /\ f[i] \in Nat /\ f[n] \in Nat
        BY <1>6, <4>1 DEF Ordered
      <4>3. f[i] <= x
        BY <1>6, <4>1, <4>2
      <4>4. QED
        BY <1>3, <1>4, <3>2, <4>3
    <3>3. CASE j = n + 1 /\ i = n + 1
      BY <1>4, <3>3
    <3>4. QED
      BY <1>2, <3>1, <3>2, <3>3
  <2>2. QED
    BY <2>1 DEF Ordered
<1>7. QED
  BY <1>3, <1>4, <1>5, <1>6 DEF Extendable

\* A step that changes the lists from the n-th on, and nothing of the first q
\* values that were built.
Keeps(n, q) ==
    /\ built' = built \/ \E v : built' = Append(SubSeq(built, 1, q), v)
    /\ UNCHANGED <<form, bytes>>
    /\ Len(frames') = n
    /\ frames'[1].kind = frames[1].kind /\ frames'[1].count = frames[1].count
    /\ \A j \in 1..(n - 1) :
         /\ frames'[j].kind = frames[j].kind /\ frames'[j].count = frames[j].count
         /\ frames'[j].left + (IF j = n THEN 0 ELSE 1)
                = frames[j].left + (IF j = Len(frames) THEN 0 ELSE 1)
         /\ frames[j].left \in Nat /\ frames'[j].left \in Nat

\* The innermost list after the step.
NewLast(n, at, from, cnt) ==
    /\ offset' \in Nat /\ nodes' \in Nat /\ Len(built') \in Nat /\ frames'[n].left \in Nat
    /\ from[n] <= Len(built') /\ at[n] <= offset'
    /\ Spelled(SubSeq(built', from[n] + 1, Len(built')),
               SubSeq(bytes, at[n] + 1, offset'), nodes' - cnt[n], n - 1)
    /\ (Len(built') - from[n]) + frames'[n].left = Room(frames'[n])
    /\ n > 1 => \E c \in 0..7 : /\ frames'[n].kind = Kinds[c + 1]
                                /\ frames'[n].kind \in {"array", "map"}
                                /\ bytes[at[n] - 1] = c /\ bytes[at[n]] = frames'[n].count

\* A step of the innermost list keeps all others sound.
LEMMA SoundFrom ==
    ASSUME IsSeq(built), NEW at, NEW from, NEW cnt, SoundWith(at, from, cnt),
           frames \in Seq(OpenFrame), NEW n \in 1..(Len(frames) + 1),
           NEW q \in 0..Len(built), from[n] <= q,
           Keeps(n, q), NewLast(n, at, from, cnt)
    PROVE  Sound'
<1>k. /\ \E v : built' = built \/ built' = Append(SubSeq(built, 1, q), v)
      /\ bytes' = bytes /\ form' = form /\ Len(frames') = n
      /\ frames'[1].kind = frames[1].kind /\ frames'[1].count = frames[1].count
  BY DEF Keeps
<1>v. PICK v : built' = built \/ built' = Append(SubSeq(built, 1, q), v)
  BY <1>k
<1> DEFINE m == Len(frames) + 1
<1>0. /\ Len(frames) \in Nat /\ n \in 1..(Len(frames) + 1)
      /\ offset' \in Nat /\ nodes' \in Nat /\ Len(built') \in Nat
      /\ from[n] <= Len(built') /\ at[n] <= offset'
  BY DEF NewLast
<1>n. \A a \in Nat : \A b \in 1..(a + 1) :
         /\ a + 1 \in Nat /\ b \in 1..(a + 1) /\ b \in Nat \ {0} /\ b - 1 \in 0..(a + 1)
         /\ b \in 0..(a + 1) /\ b = (b - 1) + 1 /\ 1 \in 1..(a + 1) /\ 1 \in 1..b /\ b \in 1..b
         /\ \A j \in 1..b : j # b => /\ j \in 1..(b - 1) /\ j + 1 \in 1..b /\ j \in Nat \ {0}
                                    /\ j \in 1..a /\ j \in 1..(a + 1) /\ j + 1 \in 1..(a + 1)
                                    /\ j + 1 <= b /\ j <= j + 1 /\ 1 <= b
  OBVIOUS
<1>1. /\ m \in Nat /\ n \in 1..m /\ n \in Nat \ {0} /\ n - 1 \in 0..m /\ n \in 0..m
      /\ n = (n - 1) + 1 /\ Len(frames) \in Nat /\ 1 \in 1..m
      /\ \A j \in 1..n : j # n => /\ j \in 1..(n - 1) /\ j + 1 \in 1..n /\ j \in Nat \ {0}
                                 /\ j \in 1..Len(frames) /\ j \in 1..m /\ j + 1 \in 1..m
                                 /\ j + 1 <= n /\ j <= j + 1
      /\ 1 <= n
  <2>1. 1 <= n
    BY <1>0
  <2>2. QED
    BY <1>0, <1>n, <2>1, Zenon
<1>2. /\ at \in [1..m -> Nat] /\ from \in [1..m -> Nat] /\ cnt \in [1..m -> Nat]
      /\ Ordered(at, m) /\ Ordered(from, m)
      /\ Preamble(at[1], from[1], cnt[1])
      /\ \A j \in 1..Len(frames) : Level(j, at, from, cnt)
  BY DEF SoundWith
<1>3. at[n] \in Nat /\ from[n] \in Nat /\ cnt[n] \in Nat
  BY <1>1, <1>2
<1>p. \A x \in Nat : /\ x + 1 \in Nat /\ x + 2 \in Nat
                     /\ \A y \in Nat : y <= x => y <= x + 2 /\ y + 2 <= x + 2
  OBVIOUS
<1>4. offset' + 2 \in Nat /\ at[n] <= offset' + 2
  BY <1>0, <1>3, <1>p, Zenon
<1> HIDE DEF m
<1>x. ASSUME NEW f \in [1..m -> Nat], NEW x \in Nat
      PROVE  \E g \in [1..(n + 1) -> Nat] :
                /\ g[n + 1] = x /\ \A i \in 1..n : g[i] = f[i]
                /\ Ordered(f, m) /\ f[n] <= x => Ordered(g, n + 1)
  <2>1. m \in Nat /\ n \in 0..m
    BY <1>1
  <2>2. Extendable(f, m, n, x)
    BY <2>1, Extended
  <2>3. QED
    BY <2>2, Zenon DEF Extendable
<1>5. PICK at1 \in [1..(n + 1) -> Nat] :
         at1[n + 1] = offset' + 2 /\ (\A i \in 1..n : at1[i] = at[i]) /\ Ordered(at1, n + 1)
  BY <1>2, <1>4, <1>x, Zenon
<1>6. PICK from1 \in [1..(n + 1) -> Nat] :
         from1[n + 1] = Len(built') /\ (\A i \in 1..n : from1[i] = from[i])
         /\ Ordered(from1, n + 1)
  BY <1>0, <1>2, <1>x, Zenon
<1>7. PICK cnt1 \in [1..(n + 1) -> Nat] :
         cnt1[n + 1] = nodes' + 1 /\ \A i \in 1..n : cnt1[i] = cnt[i]
  <2>1. nodes' + 1 \in Nat
    BY <1>0, <1>p, Zenon
  <2>2. QED
    BY <1>2, <1>x, <2>1, Zenon
<1>8. 1 \in 1..n /\ n \in 1..n /\ Len(built) \in Nat /\ n = Len(frames')
  BY <1>1, <1>k DEF IsSeq
<1>9. Preamble(at1[1], from1[1], cnt1[1])'
  <2>1. at1[1] = at[1] /\ from1[1] = from[1] /\ cnt1[1] = cnt[1]
    BY <1>5, <1>6, <1>7, <1>8
  <2>2. from[1] <= from[n] /\ from[1] \in Nat
    BY <1>1, <1>2 DEF Ordered
  <2>3. from[1] \in 0..q
    BY <1>3, <2>2
  <2>4. Preamble(at[1], from[1], cnt[1])'
    BY <1>k, <1>v, <1>2, <2>3, PreambleKept
  <2>5. QED
    BY <2>1, <2>4
<1>10. ASSUME NEW j \in 1..n, j # n PROVE Level(j, at1, from1, cnt1)'
  <2>1. /\ j \in 1..(n - 1) /\ j \in 1..n /\ j + 1 \in 1..n /\ j \in Nat \ {0}
        /\ j \in 1..Len(frames) /\ j \in 1..m /\ j + 1 \in 1..m /\ n \in 1..m /\ j + 1 <= n
    BY <1>1, <1>10, Zenon
  <2>2. from[j] \in Nat /\ from[j + 1] \in Nat /\ from[j] <= from[j + 1] /\ from[j + 1] <= from[n]
    <3>1. from[j] \in Nat /\ from[j + 1] \in Nat
      BY <1>2, <2>1
    <3>2. j <= j + 1
      BY <1>1, <1>10, Zenon
    <3>3. QED
      BY <1>2, <2>1, <3>1, <3>2, Zenon DEF Ordered
  <2>3. from[j + 1] \in from[j]..q
    <3>1. \A x, y, z \in Nat : \A p \in 0..Len(built) :
             x <= y /\ y <= z /\ z <= p => y \in x..p
      OBVIOUS
    <3>2. QED
      BY <1>3, <2>2, <3>1, Zenon
  <2>4. /\ at1[j] = at[j] /\ at1[j + 1] = at[j + 1] /\ from1[j] = from[j]
        /\ from1[j + 1] = from[j + 1] /\ cnt1[j] = cnt[j] /\ cnt1[j + 1] = cnt[j + 1]
    BY <1>5, <1>6, <1>7, <2>1
  <2>5. /\ frames'[j].kind = frames[j].kind /\ frames'[j].count = frames[j].count
        /\ frames'[j].left + (IF j = Len(frames') THEN 0 ELSE 1)
               = frames[j].left + (IF j = Len(frames) THEN 0 ELSE 1)
        /\ frames[j].left \in Nat /\ frames'[j].left \in Nat
    BY <1>8, <2>1 DEF Keeps
  <2>r. Room(frames'[j]) = Room(frames[j])
    BY <2>5 DEF Room
  <2>6. Level(j, at, from, cnt)
    BY <1>2, <2>1
  <2>7. QED
    BY <1>k, <1>v, <2>1, <2>2, <2>3, <2>4, <2>5, <2>r, <2>6, LevelKept
<1>11. Level(n, at1, from1, cnt1)'
  <2>1. /\ at1[n] = at[n] /\ from1[n] = from[n] /\ cnt1[n] = cnt[n]
    BY <1>5, <1>6, <1>7, <1>8
  <2>2. 2 <= at[n]
    <3>1. 2 <= at[1] /\ at[1] <= at[n]
      <4>1. at[1] <= at[n]
        BY <1>1, <1>2, Zenon DEF Ordered
      <4>2. at[1] \in Nat
        BY <1>1, <1>2
      <4>3. at[1] = 2 \/ 3 <= at[1]
        BY <1>2, Zenon DEF Preamble
      <4>4. \A x \in Nat : x = 2 \/ 3 <= x => 2 <= x
        OBVIOUS
      <4>5. 2 <= at[1]
        BY <4>2, <4>3, <4>4, Zenon
      <4>6. QED
        BY <4>1, <4>5
    <3>2. at[1] \in Nat
      BY <1>1, <1>2
    <3>3. \A x, y \in Nat : 2 <= x /\ x <= y => 2 <= y
      OBVIOUS
    <3>4. QED
      BY <1>3, <3>1, <3>2, <3>3, Zenon
  <2>3. (offset' + 2) - 2 = offset' /\ ((nodes' + 1) - 1) - cnt[n] = nodes' - cnt[n]
    <3>1. \A x, y, z \in Nat : (x + 2) - 2 = x /\ ((y + 1) - 1) - z = y - z
      OBVIOUS
    <3>2. QED
      BY <1>0, <1>3, <3>1, Zenon
  <2>4. Spelled(SubSeq(built', from1[n] + 1, from1[n + 1]),
                SubSeq(bytes', at1[n] + 1, at1[n + 1] - 2), (cnt1[n + 1] - 1) - cnt1[n], n - 1)
    <3>1. Spelled(SubSeq(built', from[n] + 1, Len(built')),
                  SubSeq(bytes, at[n] + 1, offset'), nodes' - cnt[n], n - 1)
      BY DEF NewLast
    <3>2. QED
      BY <1>5, <1>6, <1>7, <1>k, <2>1, <2>3, <3>1
  <2>5. (from1[n + 1] - from1[n]) + frames'[n].left + 0 = Room(frames'[n])
    <3>1. (Len(built') - from[n]) + frames'[n].left = Room(frames'[n])
          /\ Len(built') \in Nat /\ frames'[n].left \in Nat
      BY DEF NewLast
    <3>2. \A x, y, z \in Nat : (x - y) + z + 0 = (x - y) + z
      OBVIOUS
    <3>3. (Len(built') - from[n]) + frames'[n].left + 0 = Room(frames'[n])
      BY <1>3, <3>1, <3>2, Zenon
    <3>4. from1[n + 1] = Len(built') /\ from1[n] = from[n]
      BY <1>6, <2>1, Zenon
    <3>5. QED
      BY <3>3, <3>4, Zenon
  <2>6. 2 <= at1[n] /\ at1[n] + 2 <= at1[n + 1]
    <3>1. at[n] + 2 <= offset' + 2
      BY <1>0, <1>3, <1>p, Zenon
    <3>2. QED
      BY <1>5, <2>1, <2>2, <3>1, Zenon
  <2>7. n > 1 => \E c \in 0..7 : /\ frames'[n].kind = Kinds[c + 1]
                                 /\ frames'[n].kind \in {"array", "map"}
                                 /\ bytes'[at1[n] - 1] = c /\ bytes'[at1[n]] = frames'[n].count
    BY <1>k, <2>1 DEF NewLast
  <2>8. (IF n = Len(frames') THEN 0 ELSE 1) = 0
    BY <1>8
  <2>9. QED
    BY <2>4, <2>5, <2>6, <2>7, <2>8 DEF Level
<1>12. SoundWith(at1, from1, cnt1)'
  <2>1. \A j \in 1..n : Level(j, at1, from1, cnt1)'
    BY <1>10, <1>11
  <2>2. QED
    BY <1>5, <1>6, <1>7, <1>8, <1>9, <2>1 DEF SoundWith
<1>13. QED
  BY <1>12 DEF Sound

\* What is known of the innermost list.
Innermost(L, at, from, cnt) ==
    /\ at[L] \in Nat /\ from[L] \in 0..Len(built) /\ cnt[L] \in Nat
    /\ at[L + 1] = offset + 2 /\ from[L + 1] = Len(built) /\ cnt[L + 1] = nodes + 1
    /\ 2 <= at[L] /\ at[L] <= offset
    /\ nodes - cnt[L] \in Nat
    /\ Spelled(SubSeq(built, from[L] + 1, Len(built)), SubSeq(bytes, at[L] + 1, offset),
               nodes - cnt[L], L - 1)
    /\ (Len(built) - from[L]) + frames[L].left = Room(frames[L])
    /\ L > 1 => \E c \in 0..7 : /\ frames[L].kind = Kinds[c + 1]
                                /\ frames[L].kind \in {"array", "map"}
                                /\ bytes[at[L] - 1] = c /\ bytes[at[L]] = frames[L].count

\* It follows from what is known of all lists.
LEMMA InnermostKnown ==
    ASSUME NEW L \in Nat \ {0}, Len(frames) = L, NEW at, NEW from, NEW cnt,
           SoundWith(at, from, cnt), IsSeq(built), offset \in Nat, nodes \in Nat,
           frames[L].left \in Nat
    PROVE  Innermost(L, at, from, cnt)
<1>1. Len(built) \in Nat /\ L \in 1..L /\ L \in 1..(L + 1) /\ L + 1 \in 1..(L + 1) /\ L <= L + 1
  BY DEF IsSeq
<1>2. /\ at \in [1..(L + 1) -> Nat] /\ from \in [1..(L + 1) -> Nat] /\ cnt \in [1..(L + 1) -> Nat]
      /\ Ordered(from, L + 1)
      /\ at[L + 1] = offset + 2 /\ from[L + 1] = Len(built) /\ cnt[L + 1] = nodes + 1
      /\ \A j \in 1..L : Level(j, at, from, cnt)
  BY DEF SoundWith
<1>3. /\ 2 <= at[L] /\ at[L] + 2 <= at[L + 1]
      /\ Spelled(SubSeq(built, from[L] + 1, from[L + 1]),
                 SubSeq(bytes, at[L] + 1, at[L + 1] - 2), (cnt[L + 1] - 1) - cnt[L], L - 1)
      /\ (from[L + 1] - from[L]) + frames[L].left + (IF L = Len(frames) THEN 0 ELSE 1)
             = Room(frames[L])
      /\ L > 1 => \E c \in 0..7 : /\ frames[L].kind = Kinds[c + 1]
                                  /\ frames[L].kind \in {"array", "map"}
                                  /\ bytes[at[L] - 1] = c /\ bytes[at[L]] = frames[L].count
  BY <1>1, <1>2, Zenon DEF Level
<1>4. at[L] \in Nat /\ from[L] \in Nat /\ cnt[L] \in Nat
  BY <1>1, <1>2
<1>5. from[L] \in 0..Len(built)
  <2>1. from[L] <= Len(built)
    BY <1>1, <1>2, Zenon DEF Ordered
  <2>2. QED
    BY <1>1, <1>4, <2>1
<1>6. at[L] <= offset /\ (offset + 2) - 2 = offset /\ ((nodes + 1) - 1) - cnt[L] = nodes - cnt[L]
  <2>1. at[L] + 2 <= offset + 2
    BY <1>2, <1>3, Zenon
  <2>2. \A a, o, c, n \in Nat : /\ a + 2 <= o + 2 => a <= o
                               /\ (o + 2) - 2 = o /\ ((n + 1) - 1) - c = n - c
    OBVIOUS
  <2>3. QED
    BY <1>4, <2>1, <2>2, Zenon
<1>7. Spelled(SubSeq(built, from[L] + 1, Len(built)), SubSeq(bytes, at[L] + 1, offset),
              nodes - cnt[L], L - 1)
  BY <1>2, <1>3, <1>6
<1>8. nodes - cnt[L] \in Nat
  BY <1>7, SpelledType
<1>9. (Len(built) - from[L]) + frames[L].left = Room(frames[L])
  <2>1. (Len(built) - from[L]) + frames[L].left + 0 = Room(frames[L])
    BY <1>2, <1>3
  <2>2. (Len(built) - from[L]) + frames[L].left + 0 = (Len(built) - from[L]) + frames[L].left
    BY <1>1, <1>4
  <2>3. QED
    BY <2>1, <2>2
<1>10. QED
  BY <1>2, <1>3, <1>4, <1>5, <1>6, <1>7, <1>8, <1>9 DEF Innermost

\* The rest of what is to be shown of a step.
LEMMA FaithfulIfSound ==
    ASSUME Inv, Faithful, frames # <<>>, Sound', IsSeq(built'), frames' # <<>>,
           outcome = "running", outcome' = outcome, form' = form, bytes' = bytes,
           NEW n \in Nat, offset' = offset + n,
           nodes' = nodes \/ (nodes' = nodes + 1 /\ n > 0)
    PROVE  Faithful'
<1>1. offset \in Nat /\ nodes \in Nat /\ nodes <= offset /\ offset > 0
  BY DEF Inv, TypeOK, Faithful, Begun
<1>2. nodes' <= offset'
  BY <1>1
<1>3. Len(bytes) >= 1 /\ bytes[1] = Magic[form]
  BY <1>1 DEF Faithful
<1>4. QED
  BY <1>2, <1>3 DEF Faithful

\* A value that is no collection.
LEMMA ScalarSound ==
    ASSUME Inv, Faithful, NEW k, NEW a, NEW n \in Nat \ {0}, frames # <<>>, Top.left > 0,
           Depth <= MaxNesting, outcome = "running", ReadScalar(k, a, n),
           HeadCells(Scalar(k, SubSeq(bytes, offset + a, offset + n)))
               = SubSeq(bytes, offset + 1, offset + n),
           k \notin {"array", "map"}
    PROVE  Faithful'
<1>l. PICK L : L = Len(frames)
  OBVIOUS
<1>v. PICK v : v = Scalar(k, SubSeq(bytes, offset + a, offset + n))
  OBVIOUS
<1>1. PICK at, from, cnt : SoundWith(at, from, cnt)
  BY DEF Faithful, Sound
<1>2. /\ built' = Append(built, v) /\ frames' = OneLess /\ offset' = offset + n
      /\ nodes' = nodes + 1 /\ UNCHANGED <<form, bytes, outcome>>
      /\ offset + n <= Len(bytes)
  BY <1>v DEF ReadScalar, Has, Remaining, Inv, TypeOK
<1>3. /\ offset \in Nat /\ nodes \in Nat /\ Len(bytes) \in Nat /\ bytes \in Seq(Nat)
      /\ frames \in Seq(OpenFrame) /\ L \in Nat \ {0} /\ L - 1 <= MaxNesting
  BY <1>l DEF Inv, TypeOK, Depth
<1>4. /\ Len(frames') = L
      /\ \A i \in 1..L : frames'[i].kind = frames[i].kind /\ frames'[i].count = frames[i].count
      /\ \A i \in 1..(L - 1) : frames'[i] = frames[i]
      /\ frames'[L].left = frames[L].left - 1
      /\ frames[L].left \in Nat \ {0}
      /\ \A i \in 1..L : frames[i].left \in Nat
  <2>1. \A i \in 1..L : frames[i] \in OpenFrame
    BY <1>l, <1>3
  <2>2. \A i \in 1..L : frames[i].left \in Nat
    BY <2>1 DEF OpenFrame
  <2>3. QED
    BY <1>l, <1>2, <1>3, <2>2, OneLessType, OneLessLeft DEF Top
<1>5. PICK S : built \in Seq(S)
  BY DEF Faithful, IsSeq
<1>6. Len(built) \in Nat /\ SubSeq(built, 1, Len(built)) = built /\ IsSeq(built)
  BY <1>5, SubSeqFull DEF IsSeq
<1>7. built' = Append(SubSeq(built, 1, Len(built)), v) /\ Len(built') = Len(built) + 1
      /\ IsSeq(built')
  <2>1. Len(built) \in 0..Len(built) /\ 0 \in 0..Len(built)
    BY <1>6
  <2>2. /\ IsSeq(Append(SubSeq(built, 1, Len(built)), v))
        /\ Len(Append(SubSeq(built, 1, Len(built)), v)) = Len(built) + 1
    BY <1>6, <2>1, PartGrows
  <2>3. QED
    BY <1>2, <1>6, <2>2
<1>8. Innermost(L, at, from, cnt)
  BY <1>l, <1>1, <1>3, <1>4, <1>6, InnermostKnown
<1>f. /\ at[L] \in Nat /\ at[L] <= offset /\ from[L] \in 0..Len(built) /\ cnt[L] \in Nat
      /\ nodes - cnt[L] \in Nat
  BY <1>8, Zenon DEF Innermost
<1>g. from[L] \in Nat /\ from[L] <= Len(built)
  BY <1>6, <1>f
<1>9. Keeps(L, Len(built))
  <2>1. \A j \in 1..(L - 1) : j \in 1..L /\ j # L /\ 1 \in 1..L
    BY <1>3
  <2>2. 1 \in 1..L
    BY <1>3
  <2>3. QED
    BY <1>l, <1>2, <1>4, <1>7, <2>1, <2>2 DEF Keeps
<1>10. NewLast(L, at, from, cnt)
  <2>1. Items(v) = <<>>
    BY <1>v DEF Items, IsCollection, Scalar
  <2>2. SubSeq(bytes, (offset + n) + 1, offset + n) = <<>>
    BY <1>3, SubSeqEmpty
  <2>3. Spelled(Items(v), SubSeq(bytes, (offset + n) + 1, offset + n), 0, (L - 1) + 1)
    BY <2>1, <2>2, SpelledNothing
  <2>4. Spelled(SubSeq(built', from[L] + 1, Len(built) + 1),
                SubSeq(bytes, at[L] + 1, offset + n), ((nodes - cnt[L]) + 1) + 0, L - 1)
    <3>1. /\ offset + n \in 0..Len(bytes) /\ offset + n \in 0..(offset + n)
          /\ offset \in 0..(offset + n) /\ at[L] \in 0..offset
          /\ L - 1 \in Nat /\ L - 1 <= MaxNesting /\ Len(built) \in 0..Len(built)
          /\ from[L] \in 0..Len(built)
      <4>1. \A x, y, z, w \in Nat : y > 0 /\ x + y <= z /\ w <= x =>
               x + y \in 0..z /\ x + y \in 0..(x + y) /\ x \in 0..(x + y) /\ w \in 0..x
        OBVIOUS
      <4>2. n > 0 /\ n \in Nat
        OBVIOUS
      <4>3. L - 1 \in Nat /\ L - 1 <= MaxNesting /\ Len(built) \in 0..Len(built)
        BY <1>3, <1>6
      <4>4. QED
        BY <1>2, <1>3, <1>f, <4>1, <4>2, <4>3, Zenon
    <3>2. HeadCells(v) = SubSeq(bytes, offset + 1, offset + n)
      BY <1>v
    <3>3. Spelled(SubSeq(built, from[L] + 1, Len(built)), SubSeq(bytes, at[L] + 1, offset),
                  nodes - cnt[L], L - 1)
      BY <1>8 DEF Innermost
    <3>4. QED
      BY <1>3, <1>6, <1>7, <2>3, <3>1, <3>2, <3>3, ListGrows
  <2>5. ((nodes - cnt[L]) + 1) + 0 = nodes' - cnt[L]
    <3>1. \A x, y \in Nat : x - y \in Nat => ((x - y) + 1) + 0 = (x + 1) - y
      OBVIOUS
    <3>2. QED
      BY <1>2, <1>3, <1>f, <3>1, Zenon
  <2>6. Spelled(SubSeq(built', from[L] + 1, Len(built')),
                SubSeq(bytes, at[L] + 1, offset'), nodes' - cnt[L], L - 1)
    BY <1>2, <1>7, <2>4, <2>5
  <2>7. (Len(built') - from[L]) + frames'[L].left = Room(frames'[L])
    <3>1. Room(frames'[L]) = Room(frames[L])
      BY <1>3, <1>4 DEF Room
    <3>2. (Len(built) - from[L]) + frames[L].left = Room(frames[L]) /\ from[L] \in 0..Len(built)
      BY <1>8 DEF Innermost
    <3>3. ((Len(built) + 1) - from[L]) + (frames[L].left - 1) = (Len(built) - from[L]) + frames[L].left
      <4>1. \A x, y, z \in Nat : ((x + 1) - y) + (z - 1) = (x - y) + z
        OBVIOUS
      <4>2. frames[L].left \in Nat
        BY <1>4
      <4>3. QED
        BY <1>6, <1>g, <4>1, <4>2, Zenon
    <3>4. QED
      BY <1>4, <1>7, <3>1, <3>2, <3>3
  <2>8. L > 1 => \E c \in 0..7 : /\ frames'[L].kind = Kinds[c + 1]
                                 /\ frames'[L].kind \in {"array", "map"}
                                 /\ bytes[at[L] - 1] = c /\ bytes[at[L]] = frames'[L].count
    <3>1. L \in 1..L
      BY <1>3
    <3>2. frames'[L].kind = frames[L].kind /\ frames'[L].count = frames[L].count
      BY <1>4, <3>1, Zenon
    <3>3. L > 1 => \E c \in 0..7 : /\ frames[L].kind = Kinds[c + 1]
                                   /\ frames[L].kind \in {"array", "map"}
                                   /\ bytes[at[L] - 1] = c /\ bytes[at[L]] = frames[L].count
      BY <1>8, Zenon DEF Innermost
    <3>4. QED
      BY <3>2, <3>3
  <2>9. /\ offset' \in Nat /\ nodes' \in Nat /\ Len(built') \in Nat /\ frames'[L].left \in Nat
        /\ from[L] <= Len(built') /\ at[L] <= offset'
    <3>1. \A x, y, z \in Nat : /\ x + y \in Nat /\ x + 1 \in Nat /\ (z <= x => z <= x + y)
                              /\ (z <= x => z <= x + 1)
      OBVIOUS
    <3>2. frames'[L].left \in Nat
      <4>1. \A x \in Nat \ {0} : x - 1 \in Nat
        OBVIOUS
      <4>2. QED
        BY <1>4, <4>1, Zenon
    <3>3. n \in Nat
      OBVIOUS
    <3>4. offset' \in Nat /\ nodes' \in Nat /\ at[L] <= offset'
      BY <1>2, <1>3, <1>f, <3>1, <3>3, Zenon
    <3>5. Len(built') \in Nat /\ from[L] <= Len(built')
      <4>1. Len(built) + 1 \in Nat /\ from[L] <= Len(built) + 1
        BY <1>6, <1>g, <3>1, Zenon
      <4>2. QED
        BY <1>7, <4>1, Zenon
    <3>6. QED
      BY <3>2, <3>4, <3>5, Zenon
  <2>10. QED
    BY <2>6, <2>7, <2>8, <2>9 DEF NewLast
<1>11. Sound'
  <2>1. L \in 1..(Len(frames) + 1) /\ Len(built) \in 0..Len(built) /\ from[L] <= Len(built)
    <3>1. \A x \in Nat \ {0} : x \in 1..(x + 1)
      OBVIOUS
    <3>2. \A x \in Nat : x \in 0..x
      OBVIOUS
    <3>3. QED
      BY <1>l, <1>3, <1>6, <1>g, <3>1, <3>2, Zenon
  <2>2. QED
    BY <1>1, <1>3, <1>6, <1>9, <1>10, <2>1, SoundFrom
<1>12. frames' # <<>>
  BY <1>3, <1>4
<1>13. QED
  BY <1>2, <1>7, <1>11, <1>12, FaithfulIfSound

\* A collection begins.
LEMMA OpenSound ==
    ASSUME Inv, Faithful, OpenCollection
    PROVE  Faithful'
<1>l. PICK L : L = Len(frames)
  OBVIOUS
<1>1. PICK k \in {"array", "map"} :
         /\ Tag(k) /\ CountFits(2, Width(k))
         /\ frames' = Append(OneLess, Frame(k, Cell(2), Width(k) * Cell(2)))
         /\ offset' = offset + 2 /\ nodes' = nodes + 1
         /\ UNCHANGED <<form, bytes, built, outcome>>
  BY DEF OpenCollection
<1>2. /\ outcome = "running" /\ frames # <<>> /\ Top.left > 0
      /\ Cell(1) \in 0..7 /\ k = Kinds[Cell(1) + 1] /\ Cell(2) \in Nat
  <2>1. Width(k) \in {1, 2}
    BY DEF Width
  <2>2. Cell(2) \in Nat
    BY <1>1, <2>1, CountBounded DEF Inv
  <2>3. QED
    BY <1>1, <2>2 DEF Tag, AtValue
<1>3. /\ offset \in Nat /\ nodes \in Nat
      /\ frames \in Seq(OpenFrame) /\ L \in Nat \ {0} /\ IsSeq(built) /\ Len(built) \in Nat
  <2>1. IsSeq(built) /\ Len(built) \in Nat
    BY DEF Faithful, IsSeq
  <2>2. QED
    BY <1>l, <1>2, <2>1 DEF Inv, TypeOK
<1>4. PICK at, from, cnt : SoundWith(at, from, cnt)
  BY <1>2 DEF Faithful, Sound
<1> DEFINE count == Cell(2)
           tag == Cell(1)
           new == Frame(k, count, Width(k) * count)
<1>r. Width(k) * count \in Nat
  <2>1. Width(k) \in Nat
    BY DEF Width
  <2>2. QED
    BY <1>2, <2>1
<1>5. /\ new.kind = k /\ new.count = count /\ new.left = Room(new) /\ new.left \in Nat
      /\ new \in OpenFrame
  BY <1>2, <1>r DEF Frame, Room, OpenFrame
<1> HIDE DEF new
<1>6. /\ Len(frames') = L + 1 /\ frames'[L + 1] = new
      /\ \A i \in 1..L : frames'[i] = OneLess[i]
  <2>1. OneLess \in Seq(OpenFrame) /\ Len(OneLess) = L
    BY <1>l, <1>2, <1>3, OneLessType
  <2>2. frames' = Append(OneLess, new)
    BY <1>1 DEF new
  <2>3. QED
    BY <1>3, <1>5, <2>1, <2>2, AppendProperties
<1>7. /\ \A i \in 1..L : frames'[i].kind = frames[i].kind /\ frames'[i].count = frames[i].count
      /\ \A i \in 1..(L - 1) : frames'[i] = frames[i]
      /\ frames'[L].left = frames[L].left - 1
      /\ frames[L].left \in Nat \ {0}
      /\ \A i \in 1..L : frames[i].left \in Nat
  <2>1. \A i \in 1..L : frames[i] \in OpenFrame
    BY <1>l, <1>3
  <2>2. \A i \in 1..L : frames[i].left \in Nat
    BY <2>1 DEF OpenFrame
  <2>3. \A i \in 1..(L - 1) : i \in 1..L
    BY <1>3
  <2>4. L \in 1..L
    BY <1>3
  <2>5. /\ \A i \in 1..L : OneLess[i].kind = frames[i].kind /\ OneLess[i].count = frames[i].count
        /\ \A i \in 1..(L - 1) : OneLess[i] = frames[i]
        /\ OneLess[L].left = frames[L].left - 1 /\ frames[L].left > 0
    BY <1>l, <1>2, <1>3, OneLessType, OneLessLeft DEF Top
  <2>6. QED
    BY <1>6, <2>2, <2>3, <2>4, <2>5
<1>8. /\ at[L + 1] = offset + 2 /\ from[L + 1] = Len(built) /\ cnt[L + 1] = nodes + 1
  BY <1>l, <1>4 DEF SoundWith
<1>9. Keeps(L + 1, Len(built))
  <2>1. \A j \in 1..((L + 1) - 1) : ((j \in 1..(L - 1) /\ j # L) \/ j = L) /\ j # L + 1 /\ j \in 1..L
    BY <1>3
  <2>2. 1 \in 1..L
    BY <1>3
  <2>3. ASSUME NEW j \in 1..((L + 1) - 1)
        PROVE  /\ frames'[j].kind = frames[j].kind /\ frames'[j].count = frames[j].count
               /\ frames'[j].left + (IF j = L + 1 THEN 0 ELSE 1)
                      = frames[j].left + (IF j = Len(frames) THEN 0 ELSE 1)
               /\ frames[j].left \in Nat /\ frames'[j].left \in Nat
    <3>1. CASE j \in 1..(L - 1) /\ j # L
      BY <1>l, <1>7, <2>1, <3>1
    <3>2. CASE j = L
      <4>1. frames'[L].left + 1 = frames[L].left + 0 /\ frames[L].left \in Nat
            /\ frames'[L].left \in Nat /\ L # L + 1
        <5>1. \A x \in Nat \ {0} : (x - 1) + 1 = x + 0 /\ x - 1 \in Nat /\ x \in Nat /\ x # x + 1
          OBVIOUS
        <5>2. QED
          BY <1>3, <1>7, <5>1, Zenon
      <4>2. QED
        BY <1>l, <1>7, <2>1, <3>2, <4>1
    <3>3. QED
      BY <2>1, <3>1, <3>2
  <2>4. QED
    BY <1>1, <1>6, <1>7, <2>2, <2>3 DEF Keeps
<1>10. NewLast(L + 1, at, from, cnt)
  <2>1. bytes \in Seq(Nat)
    BY DEF Inv, TypeOK
  <2>2. /\ SubSeq(built', from[L + 1] + 1, Len(built')) = <<>>
        /\ SubSeq(bytes, at[L + 1] + 1, offset') = <<>>
    <3>1. PICK S : built \in Seq(S)
      BY <1>3 DEF IsSeq
    <3>2. SubSeq(built, Len(built) + 1, Len(built)) = <<>>
      BY <1>3, <3>1, SubSeqEmpty
    <3>3. SubSeq(bytes, (offset + 2) + 1, offset + 2) = <<>>
      BY <1>3, <2>1, SubSeqEmpty
    <3>4. QED
      BY <1>1, <1>8, <3>2, <3>3
  <2>3. nodes' - cnt[L + 1] = 0 /\ (L + 1) - 1 = L
    BY <1>1, <1>3, <1>8
  <2>4. Spelled(SubSeq(built', from[L + 1] + 1, Len(built')),
                SubSeq(bytes, at[L + 1] + 1, offset'), nodes' - cnt[L + 1], (L + 1) - 1)
    BY <2>2, <2>3, SpelledNothing
  <2>5. (Len(built') - from[L + 1]) + frames'[L + 1].left = Room(frames'[L + 1])
    BY <1>1, <1>3, <1>5, <1>6, <1>8
  <2>6. bytes[at[L + 1] - 1] = tag /\ bytes[at[L + 1]] = count
    <3>1. (offset + 2) - 1 = offset + 1
      BY <1>3
    <3>2. QED
      BY <1>8, <3>1 DEF Cell
  <2>7. /\ offset' \in Nat /\ nodes' \in Nat /\ Len(built') \in Nat /\ frames'[L + 1].left \in Nat
        /\ from[L + 1] <= Len(built') /\ at[L + 1] <= offset'
    BY <1>1, <1>3, <1>5, <1>6, <1>8
  <2>8. /\ tag \in 0..7 /\ frames'[L + 1].kind = Kinds[tag + 1]
        /\ frames'[L + 1].kind \in {"array", "map"} /\ frames'[L + 1].count = count
    BY <1>2, <1>5, <1>6
  <2> HIDE DEF tag, count
  <2>9. L + 1 > 1 => \E c \in 0..7 :
              /\ frames'[L + 1].kind = Kinds[c + 1]
              /\ frames'[L + 1].kind \in {"array", "map"}
              /\ bytes[at[L + 1] - 1] = c /\ bytes[at[L + 1]] = frames'[L + 1].count
    BY <2>6, <2>8
  <2>10. QED
    BY <2>4, <2>5, <2>7, <2>9, Zenon DEF NewLast
<1>11. Sound'
  <2>1. L + 1 \in 1..(Len(frames) + 1) /\ Len(built) \in 0..Len(built) /\ from[L + 1] <= Len(built)
    BY <1>l, <1>3, <1>8
  <2>2. QED
    BY <1>3, <1>4, <1>9, <1>10, <2>1, SoundFrom
<1>12. frames' # <<>>
  BY <1>3, <1>6
<1>13. QED
  <2>1. 2 \in Nat
    OBVIOUS
  <2>2. QED
    BY <1>1, <1>2, <1>3, <1>11, <1>12, <2>1, FaithfulIfSound

\* A collection ends: its items are those that are built last.
LEMMA CloseSound ==
    ASSUME Inv, Faithful, CloseCollection
    PROVE  Faithful'
<1>l. PICK L : L = Len(frames)
  OBVIOUS
<1>1. PICK at, from, cnt : SoundWith(at, from, cnt)
  BY DEF Faithful, Sound, CloseCollection, AtEnd
<1>2. /\ outcome = "running" /\ frames # <<>> /\ frames[L].left = 0 /\ L > 1
      /\ frames' = SubSeq(frames, 1, L - 1)
      /\ UNCHANGED <<form, bytes, offset, nodes, outcome>>
  BY <1>l DEF CloseCollection, AtEnd, Top
<1>3. /\ offset \in Nat /\ nodes \in Nat /\ Len(bytes) \in Nat /\ bytes \in Seq(Nat)
      /\ offset <= Len(bytes)
      /\ frames \in Seq(OpenFrame) /\ L \in Nat \ {0} /\ L - 1 \in Nat \ {0}
      /\ L - 2 \in Nat /\ L - 2 <= MaxNesting /\ IsSeq(built) /\ Len(built) \in Nat
  <2>1. IsSeq(built) /\ Len(built) \in Nat
    BY DEF Faithful, IsSeq
  <2>2. L <= MaxNesting + 2 /\ MaxNesting \in Nat
    BY <1>l, LimitsAssumption DEF Inv, ReservationsBounded
  <2>3. frames \in Seq(OpenFrame) /\ L \in Nat
    BY <1>l DEF Inv, TypeOK
  <2>4. L - 1 \in Nat \ {0} /\ L - 2 \in Nat /\ L - 2 <= MaxNesting
    BY <1>2, <2>2, <2>3
  <2>5. QED
    BY <1>2, <2>1, <2>3, <2>4 DEF Inv, TypeOK
<1>n. /\ L \in 1..L /\ L - 1 \in 1..L /\ L \in 1..(L + 1) /\ L - 1 \in 1..(L + 1)
      /\ (L - 1) + 1 = L /\ L - 1 # L /\ (L - 1) - 1 = L - 2 /\ (L - 2) + 1 = L - 1
      /\ L - 1 <= L
  BY <1>3
<1>4. /\ Len(frames') = L - 1
      /\ \A i \in 1..(L - 1) : frames'[i] = frames[i]
      /\ \A i \in 1..L : frames[i].left \in Nat /\ frames[i] \in OpenFrame
  <2>1. \A i \in 1..L : frames[i] \in OpenFrame
    BY <1>l, <1>3
  <2>2. \A i \in 1..L : frames[i].left \in Nat
    BY <2>1 DEF OpenFrame
  <2>3. Len(frames') = L - 1 /\ \A i \in 1..(L - 1) : frames'[i] = frames[i]
    BY <1>l, <1>2, <1>3
  <2>4. QED
    BY <2>1, <2>2, <2>3
<1>5. Innermost(L, at, from, cnt)
  BY <1>l, <1>1, <1>3, <1>4, <1>n, InnermostKnown
<1>f. /\ at[L] \in Nat /\ at[L] <= offset /\ from[L] \in 0..Len(built) /\ cnt[L] \in Nat
      /\ nodes - cnt[L] \in Nat
      /\ Spelled(SubSeq(built, from[L] + 1, Len(built)), SubSeq(bytes, at[L] + 1, offset),
                 nodes - cnt[L], L - 1)
      /\ (Len(built) - from[L]) + frames[L].left = Room(frames[L])
  BY <1>5, Zenon DEF Innermost
<1>6. /\ at[L - 1] \in Nat /\ from[L - 1] \in Nat /\ cnt[L - 1] \in Nat
      /\ from[L - 1] <= from[L] /\ Level(L - 1, at, from, cnt)
  <2>1. /\ at \in [1..(L + 1) -> Nat] /\ from \in [1..(L + 1) -> Nat] /\ cnt \in [1..(L + 1) -> Nat]
        /\ Ordered(from, L + 1) /\ \A j \in 1..L : Level(j, at, from, cnt)
    BY <1>l, <1>1 DEF SoundWith
  <2>2. from[L - 1] <= from[L]
    BY <1>n, <2>1, Zenon DEF Ordered
  <2>3. QED
    BY <1>n, <2>1, <2>2
<1>7. /\ 2 <= at[L - 1] /\ at[L - 1] + 2 <= at[L]
      /\ Spelled(SubSeq(built, from[L - 1] + 1, from[L]),
                 SubSeq(bytes, at[L - 1] + 1, at[L] - 2), (cnt[L] - 1) - cnt[L - 1], L - 2)
      /\ (from[L] - from[L - 1]) + frames[L - 1].left + 1 = Room(frames[L - 1])
      /\ L - 1 > 1 => \E c \in 0..7 : /\ frames[L - 1].kind = Kinds[c + 1]
                                      /\ frames[L - 1].kind \in {"array", "map"}
                                      /\ bytes[at[L - 1] - 1] = c
                                      /\ bytes[at[L - 1]] = frames[L - 1].count
  <2>1. (IF L - 1 = Len(frames) THEN 0 ELSE 1) = 1
    BY <1>l, <1>n
  <2>2. QED
    BY <1>6, <1>n, <2>1, Zenon DEF Level
<1>a. /\ at[L] - 2 \in Nat /\ at[L] \in ((at[L] - 2) + 1)..Len(bytes)
      /\ at[L] >= (at[L] - 2) + 2 /\ at[L - 1] \in 0..(at[L] - 2) /\ at[L - 1] <= offset
      /\ offset \in 0..Len(bytes) /\ at[L] \in 0..offset /\ at[L] - 2 \in 0..at[L]
  <2>1. \A x, y, z, w \in Nat : 2 <= x /\ x + 2 <= y /\ y <= z /\ z <= w =>
           /\ y - 2 \in Nat /\ y \in ((y - 2) + 1)..w /\ y >= (y - 2) + 2
           /\ x \in 0..(y - 2) /\ x <= z /\ z \in 0..w /\ y \in 0..z /\ y - 2 \in 0..y
    OBVIOUS
  <2>2. /\ at[L - 1] \in Nat /\ at[L] \in Nat /\ offset \in Nat /\ Len(bytes) \in Nat
        /\ 2 <= at[L - 1] /\ at[L - 1] + 2 <= at[L] /\ at[L] <= offset /\ offset <= Len(bytes)
    BY <1>3, <1>6, <1>7, <1>f, Zenon
  <2>3. QED
    BY <2>1, <2>2
<1>8. PICK c \in 0..7 : /\ frames[L].kind = Kinds[c + 1]
                        /\ frames[L].kind \in {"array", "map"}
                        /\ bytes[at[L] - 1] = c /\ bytes[at[L]] = frames[L].count
  BY <1>2, <1>5 DEF Innermost
<1> DEFINE k == frames[L].kind
           count == frames[L].count
           items == SubSeq(built, from[L] + 1, Len(built))
<1>9. /\ Len(built) - from[L] = Width(k) * count /\ count \in Nat /\ from[L] \in Nat
      /\ from[L] <= Len(built) /\ Len(built) - Width(k) * count = from[L]
  <2>1. count \in Nat /\ from[L] \in Nat /\ from[L] <= Len(built)
    BY <1>3, <1>4, <1>f, <1>n DEF OpenFrame
  <2>2. PICK r : r = Room(frames[L])
    OBVIOUS
  <2>3. (Len(built) - from[L]) + 0 = r
    BY <1>2, <1>f, <2>2, Zenon
  <2>4. Len(built) - from[L] = Room(frames[L]) /\ Len(built) - Room(frames[L]) = from[L]
    <3>1. \A x, y \in Nat : (x - y) + 0 = x - y /\ x - (x - y) = y
      OBVIOUS
    <3>2. /\ (Len(built) - from[L]) + 0 = Len(built) - from[L]
          /\ Len(built) - (Len(built) - from[L]) = from[L]
      BY <1>3, <2>1, <3>1, Zenon
    <3>3. QED
      BY <2>2, <2>3, <3>2, Zenon
  <2>5. QED
    BY <2>1, <2>4 DEF Room
<1>10. built' = Append(SubSeq(built, 1, from[L]), Collection(k, items))
  <2>1. LET n == Len(built) - Width(k) * count
        IN  built' = Append(SubSeq(built, 1, n), Collection(k, SubSeq(built, n + 1, Len(built))))
    BY <1>l DEF CloseCollection, Top
  <2>2. QED
    BY <1>9, <2>1
<1>11. HeadCells(Collection(k, items)) = SubSeq(bytes, (at[L] - 2) + 1, at[L])
       /\ Items(Collection(k, items)) = items
  <2>1. Len(items) = Width(k) * count
    <3>1. PICK S : built \in Seq(S)
      BY <1>3 DEF IsSeq
    <3>2. Len(items) = Len(built) - from[L]
      BY <1>3, <1>9, <3>1
    <3>3. QED
      BY <1>9, <3>2
  <2>2. Len(items) \div Width(k) = count
    <3>1. \A x \in Nat : (1 * x) \div 1 = x /\ (2 * x) \div 2 = x
      OBVIOUS
    <3>2. Width(k) = 1 \/ Width(k) = 2
      BY DEF Width
    <3> HIDE DEF items, k, count
    <3>3. QED
      BY <1>9, <2>1, <3>1, <3>2
  <2>3. HeadCells(Collection(k, items)) = <<c, count>> /\ Items(Collection(k, items)) = items
    <3> HIDE DEF items
    <3>1. QED
      BY <1>8, <2>2, CollectionHead
  <2>4. SubSeq(bytes, (at[L] - 2) + 1, (at[L] - 2) + 2)
            = <<bytes[(at[L] - 2) + 1], bytes[(at[L] - 2) + 2]>>
    BY <1>3, <1>a, CellsRead
  <2>5. (at[L] - 2) + 2 = at[L] /\ (at[L] - 2) + 1 = at[L] - 1
    BY <1>f
  <2>6. QED
    BY <1>8, <2>3, <2>4, <2>5
<1> HIDE DEF k, count, items
<1>12. /\ IsSeq(built') /\ Len(built') = from[L] + 1
  <2>1. from[L - 1] \in 0..from[L]
    BY <1>6, <1>9
  <2>2. QED
    BY <1>3, <1>f, <1>10, <2>1, PartGrows
<1>13. Keeps(L - 1, from[L])
  <2>1. 1 \in 1..(L - 1)
    BY <1>3
  <2>2. \A j \in 1..((L - 1) - 1) : j \in 1..(L - 1) /\ j \in 1..L /\ j # L - 1 /\ j # L
    BY <1>3
  <2>3. QED
    <3>1. /\ frames'[1].kind = frames[1].kind /\ frames'[1].count = frames[1].count
      BY <1>4, <2>1
    <3>2. ASSUME NEW j \in 1..((L - 1) - 1)
          PROVE  /\ frames'[j].kind = frames[j].kind /\ frames'[j].count = frames[j].count
                 /\ frames'[j].left + (IF j = L - 1 THEN 0 ELSE 1)
                        = frames[j].left + (IF j = Len(frames) THEN 0 ELSE 1)
                 /\ frames[j].left \in Nat /\ frames'[j].left \in Nat
      <4>1. frames'[j] = frames[j] /\ frames[j].left \in Nat
        BY <1>4, <2>2, Zenon
      <4>2. (IF j = L - 1 THEN 0 ELSE 1) = 1 /\ (IF j = Len(frames) THEN 0 ELSE 1) = 1
        BY <1>l, <2>2
      <4>3. QED
        BY <4>1, <4>2
    <3>3. \E v : built' = Append(SubSeq(built, 1, from[L]), v)
      BY <1>10
    <3>4. QED
      BY <1>2, <1>4, <3>1, <3>2, <3>3, Zenon DEF Keeps
<1>14. NewLast(L - 1, at, from, cnt)
  <2>1. Spelled(SubSeq(built', from[L - 1] + 1, from[L] + 1),
                SubSeq(bytes, at[L - 1] + 1, offset),
                (((cnt[L] - 1) - cnt[L - 1]) + 1) + (nodes - cnt[L]), L - 2)
    <3>1. /\ offset \in 0..Len(bytes) /\ at[L] \in 0..offset /\ at[L] - 2 \in 0..at[L]
          /\ at[L - 1] \in 0..(at[L] - 2)
      BY <1>a
    <3>2. from[L] \in 0..Len(built) /\ from[L - 1] \in 0..from[L]
      BY <1>6, <1>9, <1>f
    <3>3. Spelled(Items(Collection(k, items)), SubSeq(bytes, at[L] + 1, offset),
                  nodes - cnt[L], (L - 2) + 1)
      BY <1>f, <1>n, <1>11 DEF items
    <3>4. QED
      BY <1>3, <1>7, <1>10, <1>11, <3>1, <3>2, <3>3, ListGrows
  <2>2. (((cnt[L] - 1) - cnt[L - 1]) + 1) + (nodes - cnt[L]) = nodes - cnt[L - 1]
    <3>1. \A x, y, z \in Nat : (((x - 1) - y) + 1) + (z - x) = z - y
      OBVIOUS
    <3>2. cnt[L] \in Nat /\ cnt[L - 1] \in Nat /\ nodes \in Nat
      BY <1>3, <1>6, <1>f, Zenon
    <3>3. QED
      BY <3>1, <3>2
  <2>3. Spelled(SubSeq(built', from[L - 1] + 1, Len(built')),
                SubSeq(bytes, at[L - 1] + 1, offset'), nodes' - cnt[L - 1], (L - 1) - 1)
    BY <1>2, <1>12, <1>n, <2>1, <2>2
  <2>4. frames'[L - 1] = frames[L - 1] /\ frames[L - 1].left \in Nat
    <3>1. L - 1 \in 1..(L - 1)
      BY <1>3
    <3>2. QED
      BY <1>4, <1>n, <3>1, Zenon
  <2>5. (Len(built') - from[L - 1]) + frames'[L - 1].left = Room(frames'[L - 1])
    <3>1. \A x, y, z \in Nat : ((x + 1) - y) + z = (x - y) + z + 1
      OBVIOUS
    <3>2. QED
      <4>1. (from[L] - from[L - 1]) + frames[L - 1].left + 1 = Room(frames[L - 1])
        BY <1>7
      <4>2. ((from[L] + 1) - from[L - 1]) + frames[L - 1].left = Room(frames[L - 1])
        <5>1. from[L] \in Nat /\ from[L - 1] \in Nat
          BY <1>6, <1>9
        <5>2. QED
          BY <2>4, <3>1, <4>1, <5>1
      <4>3. QED
        BY <1>12, <2>4, <4>2
  <2>6. L - 1 > 1 => \E d \in 0..7 : /\ frames'[L - 1].kind = Kinds[d + 1]
                                     /\ frames'[L - 1].kind \in {"array", "map"}
                                     /\ bytes[at[L - 1] - 1] = d
                                     /\ bytes[at[L - 1]] = frames'[L - 1].count
    BY <1>7, <2>4
  <2>7. /\ offset' \in Nat /\ nodes' \in Nat /\ Len(built') \in Nat
        /\ frames'[L - 1].left \in Nat
        /\ from[L - 1] <= Len(built') /\ at[L - 1] <= offset'
    <3>1. from[L - 1] <= from[L] + 1 /\ from[L] + 1 \in Nat
      BY <1>6, <1>9
    <3>2. at[L - 1] <= offset
      BY <1>a
    <3>3. QED
      BY <1>2, <1>3, <1>12, <2>4, <3>1, <3>2
  <2>8. QED
    BY <2>3, <2>5, <2>6, <2>7, Zenon DEF NewLast
<1>15. Sound'
  <2>1. /\ L - 1 \in 1..(Len(frames) + 1) /\ from[L] \in 0..Len(built)
        /\ from[L - 1] <= from[L]
    BY <1>l, <1>6, <1>f, <1>n
  <2>2. QED
    BY <1>1, <1>3, <1>13, <1>14, <2>1, SoundFrom
<1>16. frames' # <<>>
  BY <1>3, <1>4
<1>17. nodes <= offset /\ (offset > 0 => Len(bytes) >= 1 /\ bytes[1] = Magic[form])
  BY DEF Faithful
<1>18. QED
  BY <1>2, <1>12, <1>15, <1>16, <1>17 DEF Faithful

\* The cells of a scalar that is read are those the encoder writes.
LEMMA TagRead ==
    ASSUME Inv, NEW k, Tag(k)
    PROVE  /\ offset \in Nat /\ bytes \in Seq(Nat) /\ Len(bytes) \in Nat
           /\ frames # <<>> /\ Top.left > 0 /\ Depth <= MaxNesting /\ outcome = "running"
           /\ bytes[offset + 1] \in 0..7 /\ k = Kinds[bytes[offset + 1] + 1]
BY DEF Tag, AtValue, Cell, Inv, TypeOK

\* Null, a number or a Boolean is read.
LEMMA FixedSound ==
    ASSUME Inv, Faithful, NEW k \in {"null", "int", "float", "bool"}, Tag(k),
           NEW n \in Nat \ {0}, ReadScalar(k, 2, n)
    PROVE  Faithful'
<1>1. /\ offset \in Nat /\ bytes \in Seq(Nat) /\ Len(bytes) \in Nat
      /\ frames # <<>> /\ Top.left > 0 /\ Depth <= MaxNesting /\ outcome = "running"
      /\ bytes[offset + 1] \in 0..7 /\ k = Kinds[bytes[offset + 1] + 1]
  BY TagRead
<1>2. offset + n \in (offset + 1)..Len(bytes)
  BY <1>1 DEF ReadScalar, Has, Remaining
<1>3. <<bytes[offset + 1]>> \o SubSeq(bytes, offset + 2, offset + n)
          = SubSeq(bytes, offset + 1, offset + n)
  BY <1>1, <1>2, CellsRead
<1>4. HeadCells(Scalar(k, SubSeq(bytes, offset + 2, offset + n)))
          = <<bytes[offset + 1]>> \o SubSeq(bytes, offset + 2, offset + n)
  BY <1>1, ScalarHead
<1>5. k \notin {"array", "map"}
  OBVIOUS
<1>6. QED
  BY <1>1, <1>3, <1>4, <1>5, ScalarSound

\* A string or bytes are read.
LEMMA TextSound ==
    ASSUME Inv, Faithful, NEW k \in {"string", "bytes"}, Tag(k), Has(2), Has(2 + Cell(2)),
           ReadScalar(k, 3, 2 + Cell(2))
    PROVE  Faithful'
<1>1. /\ offset \in Nat /\ bytes \in Seq(Nat) /\ Len(bytes) \in Nat
      /\ frames # <<>> /\ Top.left > 0 /\ Depth <= MaxNesting /\ outcome = "running"
      /\ bytes[offset + 1] \in 0..7 /\ k = Kinds[bytes[offset + 1] + 1]
  BY TagRead
<1>2. offset + 2 \in 1..Len(bytes)
  BY <1>1 DEF Has, Remaining
<1>3. PICK m \in Nat : m = Cell(2) /\ m = bytes[offset + 2]
  BY <1>1, <1>2 DEF Cell
<1>4. offset + (2 + m) <= Len(bytes) /\ 2 + m \in Nat \ {0}
  <2>1. Has(2 + m)
    BY <1>3, Zenon
  <2>2. offset \in Nat /\ Len(bytes) \in Nat
    BY <1>1
  <2>3. QED
    BY <1>3, <2>1, <2>2 DEF Has, Remaining
<1>5. offset + (2 + m) \in (offset + 1)..Len(bytes) /\ offset + (2 + m) >= offset + 2
  BY <1>1, <1>4
<1>6. <<bytes[offset + 1], bytes[offset + 2]>> \o SubSeq(bytes, offset + 3, offset + (2 + m))
          = SubSeq(bytes, offset + 1, offset + (2 + m))
  BY <1>1, <1>5, CellsRead
<1>7. Len(SubSeq(bytes, offset + 3, offset + (2 + m))) = m
  <2>1. \A i \in (offset + 3)..(offset + (2 + m)) : bytes[i] \in Nat
    BY <1>1, <1>4
  <2>2. Len(SubSeq(bytes, offset + 3, offset + (2 + m)))
            = IF offset + 3 <= offset + (2 + m) THEN (offset + (2 + m)) - (offset + 3) + 1 ELSE 0
    BY <1>1, <2>1, SubSeqProperties
  <2>3. QED
    BY <1>1, <2>2
<1>8. HeadCells(Scalar(k, SubSeq(bytes, offset + 3, offset + (2 + m))))
          = <<bytes[offset + 1], m>> \o SubSeq(bytes, offset + 3, offset + (2 + m))
  BY <1>1, <1>7, ScalarHead
<1>9. k \notin {"array", "map"}
  OBVIOUS
<1>10. ReadScalar(k, 3, 2 + m)
  BY <1>3
<1>11. HeadCells(Scalar(k, SubSeq(bytes, offset + 3, offset + (2 + m))))
          = SubSeq(bytes, offset + 1, offset + (2 + m))
  BY <1>3, <1>6, <1>8
<1>12. QED
  BY <1>1, <1>4, <1>9, <1>10, <1>11, ScalarSound

\* The list of locals or the result begins.
LEMMA ListSound ==
    ASSUME IsSeq(built'), bytes' \in Seq(Nat), offset' \in Nat, 2 <= offset', nodes' \in Nat,
           NEW k \in {"locals", "result", "none"}, NEW c \in Nat,
           frames' = <<Frame(k, c, c)>>, Preamble(offset, Len(built), nodes)'
    PROVE  Sound'
<1>1. PICK o \in Nat : o = offset'
  OBVIOUS
<1>2. PICK m \in Nat : m = nodes'
  OBVIOUS
<1>3. PICK b \in Nat : b = Len(built')
  BY DEF IsSeq
<1>a. PICK at : at = [i \in 1..2 |-> IF i = 1 THEN o ELSE o + 2]
  OBVIOUS
<1>b. PICK from : from = [i \in 1..2 |-> b]
  OBVIOUS
<1>c. PICK cnt : cnt = [i \in 1..2 |-> IF i = 1 THEN m ELSE m + 1]
  OBVIOUS
<1>4. /\ at \in [1..2 -> Nat] /\ from \in [1..2 -> Nat] /\ cnt \in [1..2 -> Nat]
      /\ at[1] = o /\ at[2] = o + 2 /\ from[1] = b /\ from[2] = b /\ cnt[1] = m /\ cnt[2] = m + 1
  BY <1>a, <1>b, <1>c
<1>5. Ordered(at, 2) /\ Ordered(from, 2)
  BY <1>a, <1>b DEF Ordered
<1>6. /\ Len(frames') = 1 /\ frames'[1].kind = k /\ frames'[1].count = c /\ frames'[1].left = c
      /\ Room(frames'[1]) = c
  <2>1. Width(k) = 1
    BY DEF Width
  <2>2. Len(frames') = 1 /\ frames'[1].kind = k /\ frames'[1].count = c /\ frames'[1].left = c
    BY DEF Frame
  <2>3. Width(k) * c = c
    BY <2>1
  <2>4. QED
    BY <2>2, <2>3 DEF Room
<1>7. SubSeq(built', b + 1, b) = <<>> /\ SubSeq(bytes', o + 1, o) = <<>>
  <2>1. PICK S : built' \in Seq(S)
    BY DEF IsSeq
  <2>2. QED
    BY <2>1, SubSeqEmpty
<1>8. Level(1, at, from, cnt)'
  <2>1. Spelled(SubSeq(built', b + 1, b), SubSeq(bytes', o + 1, o), 0, 0)
    BY <1>7, SpelledNothing
  <2>2. (o + 2) - 2 = o /\ ((m + 1) - 1) - m = 0 /\ 1 - 1 = 0 /\ 1 + 1 = 2
    OBVIOUS
  <2>3. Spelled(SubSeq(built', from[1] + 1, from[1 + 1]),
                SubSeq(bytes', at[1] + 1, at[1 + 1] - 2), (cnt[1 + 1] - 1) - cnt[1], 1 - 1)
    BY <1>4, <2>1, <2>2
  <2>4. (from[1 + 1] - from[1]) + frames'[1].left + (IF 1 = Len(frames') THEN 0 ELSE 1)
            = Room(frames'[1])
    <3>1. (IF 1 = Len(frames') THEN 0 ELSE 1) = 0
      BY <1>6
    <3>2. from[1 + 1] = b /\ from[1] = b
      BY <1>4
    <3>3. (b - b) + c + 0 = c
      BY <1>3
    <3>4. QED
      BY <1>6, <3>1, <3>2, <3>3, Zenon
  <2>5. 2 <= at[1] /\ at[1] + 2 <= at[1 + 1]
    BY <1>1, <1>4
  <2>6. QED
    BY <2>3, <2>4, <2>5 DEF Level
<1>9. SoundWith(at, from, cnt)'
  <2>1. Len(frames') + 1 = 2 /\ \A j \in 1..Len(frames') : j = 1
    BY <1>6
  <2>2. Preamble(at[1], from[1], cnt[1])'
    BY <1>1, <1>2, <1>3, <1>4 DEF Preamble
  <2>3. QED
    BY <1>1, <1>2, <1>3, <1>4, <1>5, <1>8, <2>1, <2>2 DEF SoundWith
<1>10. QED
  BY <1>9 DEF Sound

\* The list of locals begins.
LEMMA LocalsSound ==
    ASSUME Inv, Faithful, ReadLocals
    PROVE  Faithful'
<1>1. /\ outcome = "running" /\ offset = 1 /\ frames = <<>> /\ CountFits(1, 1) /\ offset' = 2
      /\ frames' = <<Frame("locals", Cell(1), Cell(1))>>
      /\ UNCHANGED <<form, bytes, nodes, built, outcome>>
  BY DEF ReadLocals, AtCount
<1>2. /\ built = <<>> /\ nodes = 0 /\ IsSeq(built) /\ Len(built) = 0
      /\ Len(bytes) >= 1 /\ bytes[1] = Magic[form]
  BY <1>1 DEF Faithful
<1>3. bytes \in Seq(Nat) /\ Cell(1) \in Nat /\ Cell(1) = bytes[2]
  BY <1>1, CountBounded DEF Inv, TypeOK, Cell
<1>4. /\ frames'[1].kind = "locals" /\ frames'[1].count = bytes[2] /\ frames' # <<>>
  BY <1>1, <1>3 DEF Frame
<1>5. Preamble(2, 0, 0)'
  BY <1>1, <1>4 DEF Preamble
<1>6. Sound'
  <2>1. Preamble(offset, Len(built), nodes)'
    BY <1>1, <1>2, <1>5 DEF Preamble
  <2>2. offset' \in Nat /\ 2 <= offset' /\ nodes' \in Nat /\ bytes' \in Seq(Nat) /\ IsSeq(built')
    BY <1>1, <1>2, <1>3
  <2>3. QED
    BY <1>1, <1>3, <2>1, <2>2, ListSound
<1>7. QED
  BY <1>1, <1>2, <1>4, <1>6 DEF Faithful

\* The locals are complete, and the result begins.
LEMMA ResultSound ==
    ASSUME Inv, Faithful, ReadResult
    PROVE  Faithful'
<1> DEFINE k == IF Cell(1) = 1 THEN "result" ELSE "none"
           c == Cell(1)
<1>1. /\ outcome = "running" /\ Len(frames) = 1 /\ frames # <<>> /\ frames[1].left = 0
      /\ form = "response" /\ frames[1].kind = "locals" /\ Has(1) /\ c <= 1
      /\ frames' = <<Frame(k, c, c)>> /\ offset' = offset + 1
      /\ UNCHANGED <<form, bytes, nodes, built, outcome>>
  BY DEF ReadResult, AtResult, AtEnd, Top
<1>2. /\ offset \in Nat /\ nodes \in Nat /\ bytes \in Seq(Nat) /\ Len(bytes) \in Nat
      /\ IsSeq(built) /\ Len(built) \in Nat /\ nodes <= offset
      /\ c \in {0, 1} /\ c = bytes[offset + 1] /\ frames[1].count \in Nat
  <2>1. IsSeq(built) /\ Len(built) \in Nat /\ nodes <= offset
    BY DEF Faithful, IsSeq
  <2>2. offset \in Nat /\ nodes \in Nat /\ bytes \in Seq(Nat) /\ Len(bytes) \in Nat
    BY DEF Inv, TypeOK
  <2>3. frames[1].count \in Nat
    <3>1. frames[1] \in OpenFrame
      BY <1>1 DEF Inv, TypeOK
    <3>2. QED
      BY <3>1 DEF OpenFrame
  <2>4. c \in Nat /\ c = bytes[offset + 1]
    BY <1>1, <2>2 DEF Has, Remaining, Cell
  <2>5. c \in {0, 1}
    <3> HIDE DEF c
    <3>1. QED
      BY <1>1, <2>4
  <2>6. QED
    BY <2>1, <2>2, <2>3, <2>4, <2>5
<1>3. PICK at, from, cnt : SoundWith(at, from, cnt)
  BY <1>1 DEF Faithful, Sound
<1>4. Preamble(at[1], from[1], cnt[1])
  BY <1>3 DEF SoundWith
<1>5. at[1] = 2 /\ from[1] = 0 /\ cnt[1] = 0 /\ bytes[2] = frames[1].count
  BY <1>1, <1>4 DEF Preamble
<1>6. Innermost(1, at, from, cnt)
  <2>1. 1 \in Nat \ {0} /\ frames[1].left \in Nat
    BY <1>1
  <2>2. QED
    BY <1>1, <1>2, <1>3, <2>1, InnermostKnown
<1>7. /\ Spelled(SubSeq(built, 0 + 1, Len(built)), SubSeq(bytes, 2 + 1, offset), nodes - 0, 1 - 1)
      /\ (Len(built) - 0) + 0 = Room(frames[1]) /\ 2 <= offset
  BY <1>1, <1>5, <1>6 DEF Innermost
<1>8. Spelled(SubSeq(built, 1, Len(built)), SubSeq(bytes, 3, offset), nodes, 0)
  <2>1. nodes - 0 = nodes /\ 0 + 1 = 1 /\ 2 + 1 = 3 /\ 1 - 1 = 0
    BY <1>2
  <2>2. QED
    BY <1>7, <2>1
<1>9. bytes[2] = Len(built)
  <2>1. Room(frames[1]) = frames[1].count
    BY <1>1, <1>2 DEF Room, Width
  <2>2. QED
    BY <1>2, <1>5, <1>7, <2>1
<1>10. /\ frames'[1].kind = (IF c = 1 THEN "result" ELSE "none") /\ frames'[1].count = c
       /\ frames' # <<>>
  BY <1>1 DEF Frame
<1> HIDE DEF c
<1>11. Preamble(offset, Len(built), nodes)'
  <2>1. /\ 3 <= offset' /\ offset' - 1 = offset
    BY <1>1, <1>2, <1>7
  <2>2. bytes'[offset'] = c
    BY <1>1, <1>2
  <2>3. Spelled(SubSeq(built', 1, Len(built')), SubSeq(bytes', 3, offset' - 1), nodes', 0)
    BY <1>1, <1>8, <2>1
  <2>4. bytes'[2] = Len(built') /\ form' = "response"
    BY <1>1, <1>9
  <2>5. QED
    BY <1>2, <1>10, <2>1, <2>2, <2>3, <2>4 DEF Preamble
<1>12. Sound'
  <2>1. offset' \in Nat /\ 2 <= offset' /\ nodes' \in Nat /\ bytes' \in Seq(Nat) /\ IsSeq(built')
    BY <1>1, <1>2, <1>7
  <2>2. k \in {"locals", "result", "none"} /\ c \in Nat
    BY <1>2
  <2> HIDE DEF k
  <2>3. QED
    BY <1>1, <1>11, <2>1, <2>2, ListSound
<1>13. QED
  <2>1. offset > 0 /\ nodes' <= offset' /\ IsSeq(built') /\ outcome' # "ok"
    BY <1>1, <1>2, <1>7
  <2>2. Len(bytes) >= 1 /\ bytes[1] = Magic[form]
    BY <2>1 DEF Faithful
  <2>3. QED
    BY <1>1, <1>10, <1>12, <2>1, <2>2 DEF Faithful

\* Sound depends on nothing but what was read and built.
LEMMA SoundUnchanged ==
    ASSUME UNCHANGED <<form, bytes, offset, nodes, frames, built>>, Sound
    PROVE  Sound'
<1>1. PICK at, from, cnt : SoundWith(at, from, cnt)
  BY DEF Sound
<1>2. \A j : Level(j, at, from, cnt) => Level(j, at, from, cnt)'
  BY DEF Level
<1>3. Preamble(at[1], from[1], cnt[1]) => Preamble(at[1], from[1], cnt[1])'
  BY DEF Preamble
<1>4. SoundWith(at, from, cnt)'
  BY <1>1, <1>2, <1>3 DEF SoundWith
<1>5. QED
  BY <1>4 DEF Sound

\* The decoder stops.
LEMMA StoppedFaithful ==
    ASSUME Faithful, UNCHANGED <<form, bytes, offset, nodes, frames, built>>,
           outcome' = "ok" => frames # <<>> /\ Finished
    PROVE  Faithful'
<1>1. frames # <<>> => Sound'
  BY SoundUnchanged DEF Faithful
<1>2. Finished => Finished'
  BY DEF Finished, Top
<1>3. QED
  BY <1>1, <1>2 DEF Faithful

\* An error.
LEMMA FailFaithful ==
    ASSUME Faithful, NEW error \in Errors, Fail(error)
    PROVE  Faithful'
BY StoppedFaithful DEF Fail, Errors

\* Every step of the decoder keeps to what was written.
LEMMA NextFaithful == Inv /\ Faithful /\ [Next]_vars => Faithful'
<1> SUFFICES ASSUME Inv, Faithful, [Next]_vars PROVE Faithful'
  OBVIOUS
<1>1. CASE RefuseFrame \/ RefuseLocals \/ RefuseValue \/ InvalidTag
            \/ RefuseCollection \/ RefuseResult
  BY <1>1, FailFaithful
     DEF RefuseFrame, RefuseLocals, RefuseValue, InvalidTag, RefuseCollection,
         RefuseResult, RefuseCount, Errors
<1>2. CASE ReadMagic
  <2>1. /\ outcome = "running" /\ offset = 0 /\ Len(bytes) >= 1 /\ bytes[1] = Magic[form]
        /\ offset' = 1 /\ UNCHANGED <<form, bytes, nodes, frames, built, outcome>>
    BY <1>2 DEF ReadMagic, AtMagic, Has, Remaining, Cell, Inv, TypeOK
  <2>2. frames = <<>> /\ frames' = <<>> /\ nodes = 0 /\ built = <<>>
    BY <2>1 DEF Inv, Begun, Faithful
  <2>3. QED
    BY <2>1, <2>2 DEF Faithful
<1>3. CASE ReadLocals
  BY <1>3, LocalsSound
<1>4. CASE DecodeNull
  BY <1>4, FixedSound DEF DecodeNull
<1>5. CASE DecodeNumber
  <2>1. PICK k \in {"int", "float"} : Tag(k) /\ (Fail("UnexpectedEnd") \/ ReadScalar(k, 2, 2))
    BY <1>5 DEF DecodeNumber
  <2>2. QED
    BY <2>1, FixedSound, FailFaithful DEF Errors
<1>6. CASE DecodeBool
  BY <1>6, FixedSound, FailFaithful DEF DecodeBool, Errors
<1>7. CASE DecodeText
  <2>1. PICK k \in {"string", "bytes"} :
           /\ Tag(k)
           /\ \/ Fail("UnexpectedEnd") \/ Fail("InvalidUtf8")
              \/ Has(2) /\ Has(2 + Cell(2)) /\ ReadScalar(k, 3, 2 + Cell(2))
    BY <1>7 DEF DecodeText
  <2>2. QED
    BY <2>1, TextSound, FailFaithful DEF Errors
<1>8. CASE OpenCollection
  BY <1>8, OpenSound
<1>9. CASE CloseCollection
  BY <1>9, CloseSound
<1>10. CASE ReadResult
  BY <1>10, ResultSound
<1>11. CASE Finish
  <2>1. UNCHANGED <<form, bytes, offset, nodes, frames, built>>
    BY <1>11 DEF Finish
  <2>2. outcome' = "ok" => frames # <<>> /\ Finished
    BY <1>11 DEF Finish, AtEnd, AtResult, Finished
  <2>3. QED
    BY <2>1, <2>2, StoppedFaithful
<1>12. CASE UNCHANGED vars
  <2>1. UNCHANGED <<form, bytes, offset, nodes, frames, built>>
    BY <1>12 DEF vars
  <2>2. outcome' = "ok" => frames # <<>> /\ Finished
    BY <1>12 DEF vars, Faithful
  <2>3. QED
    BY <2>1, <2>2, StoppedFaithful
<1>13. QED
  BY <1>1, <1>2, <1>3, <1>4, <1>5, <1>6, <1>7, <1>8, <1>9, <1>10, <1>11, <1>12 DEF Next

\* In the beginning nothing is read.
LEMMA InitFaithful == Init => Faithful
BY EmptyIsUnit DEF Init, Faithful

\* The two cells a frame begins with.
LEMMA FrameCells ==
    ASSUME NEW s \in Seq(Nat), Len(s) >= 2
    PROVE  <<s[1], s[2]>> \o SubSeq(s, 3, Len(s)) = s
<1>1. 0 \in Nat /\ Len(s) \in (0 + 1)..Len(s) /\ Len(s) >= 0 + 2
  OBVIOUS
<1>2. <<s[0 + 1], s[0 + 2]>> \o SubSeq(s, 0 + 3, Len(s)) = SubSeq(s, 0 + 1, Len(s))
  BY <1>1, CellsRead
<1>3. SubSeq(s, 1, Len(s)) = s
  BY SubSeqFull
<1>4. 0 + 1 = 1 /\ 0 + 2 = 2 /\ 0 + 3 = 3
  OBVIOUS
<1>5. QED
  BY <1>2, <1>3, <1>4

\* No values take no cells.
LEMMA NothingWritten == Written(<<>>) = Done(<<>>, 0)
<1>1. Spelled(<<>>, <<>>, 0, 0) /\ 0 <= MaxBytes
  BY SpelledNothing, LimitsAssumption
<1>2. QED
  BY <1>1, SpelledIsWritten

\* At the end the whole frame is what is built, encoded.
LEMMA AcceptedIsEncoding ==
    ASSUME Inv, Faithful, outcome = "ok"
    PROVE  Fits(Decoded) /\ Encode(Decoded) = bytes
<1> DEFINE size == Len(bytes)
           n == Len(built)
<1>1. /\ Len(frames) = 1 /\ frames[1].left = 0 /\ offset = size /\ frames # <<>>
      /\ ~(form = "response" /\ frames[1].kind = "locals")
  BY DEF Faithful, Finished, Top
<1>2. /\ nodes \in Nat /\ nodes <= MaxNodes /\ bytes \in Seq(Nat) /\ size \in Nat
      /\ form \in {"state", "response"} /\ frames[1] \in OpenFrame
      /\ size <= MaxBytes /\ MaxBytes \in Nat /\ MaxNodes \in Nat
      /\ nodes <= MaxBytes /\ bytes[1] = Magic[form]
  <2>1. /\ nodes \in Nat /\ nodes <= MaxNodes /\ bytes \in Seq(Nat) /\ size \in Nat
        /\ form \in {"state", "response"} /\ frames[1] \in OpenFrame
        /\ MaxBytes \in Nat /\ MaxNodes \in Nat /\ offset \in Nat
    BY <1>1, LimitsAssumption DEF Inv, TypeOK
  <2>2. offset > 0 /\ size <= MaxBytes
    BY <1>1, <2>1 DEF Inv, Begun, SizeChecked
  <2>3. nodes <= offset /\ bytes[1] = Magic[form]
    BY <2>2 DEF Faithful
  <2>4. nodes <= MaxBytes
    BY <1>1, <2>1, <2>2, <2>3
  <2>5. QED
    BY <2>1, <2>2, <2>3, <2>4
<1>3. frames[1].count \in Nat /\ IsSeq(built) /\ n \in Nat /\ SubSeq(built, 1, n) = built
      /\ SubSeq(built, n + 1, n) = <<>>
  <2>1. PICK S : built \in Seq(S)
    BY DEF Faithful, IsSeq
  <2>2. n \in Nat /\ SubSeq(built, 1, n) = built /\ SubSeq(built, n + 1, n) = <<>>
    BY <2>1, SubSeqFull, SubSeqEmpty
  <2>3. frames[1].count \in Nat
    BY <1>2 DEF OpenFrame
  <2>4. QED
    BY <2>2, <2>3 DEF Faithful
<1>4. PICK at, from, cnt : SoundWith(at, from, cnt)
  BY <1>1 DEF Faithful, Sound
<1>5. PICK a, m, k : a = at[1] /\ m = from[1] /\ k = cnt[1]
  OBVIOUS
<1>6. Preamble(a, m, k)
  BY <1>4, <1>5 DEF SoundWith
<1>7. Innermost(1, at, from, cnt)
  <2>1. 1 \in Nat \ {0} /\ frames[1].left \in Nat /\ offset \in Nat
    BY <1>1, <1>2
  <2>2. QED
    BY <1>1, <1>2, <1>3, <1>4, <2>1, InnermostKnown
<1>8. /\ Spelled(SubSeq(built, m + 1, n), SubSeq(bytes, a + 1, size), nodes - k, 0)
      /\ (n - m) + 0 = Room(frames[1]) /\ 2 <= a /\ a <= size /\ a \in Nat /\ m \in 0..n /\ k \in Nat
      /\ nodes - k \in Nat
  <2>1. 1 - 1 = 0
    OBVIOUS
  <2>2. QED
    BY <1>1, <1>5, <1>7, <2>1 DEF Innermost
<1>9. Written(SubSeq(built, m + 1, n)) = Done(SubSeq(bytes, a + 1, size), nodes - k)
  <2>1. nodes - k <= MaxBytes
    BY <1>2, <1>8
  <2>2. QED
    BY <1>8, <2>1, SpelledIsWritten
<1>10. CASE frames[1].kind = "locals"
  <2>1. a = 2 /\ m = 0 /\ k = 0 /\ bytes[2] = frames[1].count /\ form = "state"
    BY <1>1, <1>2, <1>6, <1>10 DEF Preamble
  <2>2. frames[1].count = n
    <3>1. Room(frames[1]) = frames[1].count
      BY <1>3, <1>10 DEF Room, Width
    <3>2. QED
      BY <1>3, <1>8, <2>1, <3>1
  <2>3. Decoded = [form |-> "state", locals |-> built, result |-> <<>>]
    <3>1. n - 0 = n
      BY <1>3
    <3>2. QED
      BY <1>3, <1>10, <2>1, <3>1 DEF Decoded
  <2>4. Written(built) = Done(SubSeq(bytes, 3, size), nodes)
    <3>1. 0 + 1 = 1 /\ 2 + 1 = 3 /\ nodes - 0 = nodes
      BY <1>2
    <3>2. QED
      BY <1>3, <1>9, <2>1, <3>1
  <2>5. Encode(Decoded) = bytes
    <3>1. <<bytes[1], bytes[2]>> \o SubSeq(bytes, 3, size) = bytes
      BY <1>2, <1>8, <2>1, FrameCells
    <3>2. Encode(Decoded) = (<<bytes[1], bytes[2]>> \o SubSeq(bytes, 3, size)) \o <<>>
      <4>1. Magic["state"] = bytes[1] /\ n = bytes[2]
        BY <1>2, <2>1, <2>2
      <4>2. Written(built).cells = SubSeq(bytes, 3, size)
        BY <2>4 DEF Done
      <4>3. /\ Decoded.form = "state" /\ Decoded.locals = built
            /\ (IF Decoded.form = "response" THEN <<Len(Decoded.result)>> \o Written(Decoded.result).cells
                ELSE <<>>) = <<>>
        BY <2>3
      <4>4. Len(built) = n
        OBVIOUS
      <4>5. QED
        BY <4>1, <4>2, <4>3, <4>4, Zenon DEF Encode
    <3>3. bytes \o <<>> = bytes
      BY <1>2
    <3>4. QED
      BY <3>1, <3>2, <3>3
  <2>6. Fits(Decoded)
    <3>1. /\ Written(Decoded.locals) = Done(SubSeq(bytes, 3, size), nodes)
          /\ Written(Decoded.result) = Done(<<>>, 0)
      BY <2>3, <2>4, NothingWritten
    <3>2. nodes + 0 <= MaxNodes
      BY <1>2
    <3>3. QED
      BY <1>2, <2>5, <3>1, <3>2 DEF Fits, Encodes, Done
  <2>7. QED
    BY <2>5, <2>6
<1>11. CASE frames[1].kind # "locals"
  <2> DEFINE c == frames[1].count
  <2>1. /\ frames[1].kind = (IF c = 1 THEN "result" ELSE "none")
        /\ form = "response" /\ c \in {0, 1} /\ bytes[a] = c /\ 3 <= a /\ bytes[2] = m
        /\ Spelled(SubSeq(built, 1, m), SubSeq(bytes, 3, a - 1), k, 0)
    BY <1>6, <1>11 DEF Preamble
  <2>2. n - m = c
    <3>1. Room(frames[1]) = c
      BY <1>3, <2>1 DEF Room, Width
    <3> HIDE DEF c
    <3>2. QED
      BY <1>3, <1>8, <3>1
  <2>3. Decoded = [form |-> "response", locals |-> SubSeq(built, 1, m),
                   result |-> SubSeq(built, m + 1, n)]
    <3>1. (IF frames[1].kind = "result" THEN 1 ELSE 0) = c
      BY <2>1
    <3>2. n - c = m
      <4> HIDE DEF c
      <4>1. n \in Nat /\ m \in Nat /\ c \in Nat
        <5>1. c \in {0, 1}
          BY <2>1
        <5>2. QED
          BY <1>3, <1>8, <5>1
      <4>2. QED
        BY <2>2, <4>1
    <3>3. n - (IF frames[1].kind = "result" THEN 1 ELSE 0) = m
      BY <3>1, <3>2, Zenon
    <3>4. QED
      BY <2>1, <3>3 DEF Decoded
  <2>4. Written(SubSeq(built, 1, m)) = Done(SubSeq(bytes, 3, a - 1), k)
    <3>1. k <= MaxBytes
      BY <1>2, <1>8
    <3>2. QED
      BY <2>1, <3>1, SpelledIsWritten
  <2>5. Len(SubSeq(built, 1, m)) = m /\ Len(SubSeq(built, m + 1, n)) = c
    <3>1. PICK S : built \in Seq(S)
      BY <1>3 DEF IsSeq
    <3>2. m \in Nat /\ m <= n
      BY <1>3, <1>8
    <3> HIDE DEF c
    <3>3. /\ \A i \in 1..m : built[i] \in S
          /\ \A i \in (m + 1)..n : built[i] \in S
      BY <1>3, <3>1, <3>2
    <3>4. /\ Len(SubSeq(built, 1, m)) = (IF 1 <= m THEN m - 1 + 1 ELSE 0)
          /\ Len(SubSeq(built, m + 1, n)) = (IF m + 1 <= n THEN n - (m + 1) + 1 ELSE 0)
      BY <1>3, <3>2, <3>3, SubSeqProperties
    <3>5. QED
      BY <1>3, <2>2, <3>2, <3>4
  <2> HIDE DEF c
  <2>6. /\ a - 1 \in Nat /\ a \in Nat /\ (a - 1) + 1 = a
        /\ SubSeq(bytes, 3, a - 1) \in Seq(Nat) /\ SubSeq(bytes, a + 1, size) \in Seq(Nat)
        /\ bytes[1] \in Nat /\ bytes[2] \in Nat /\ c \in Nat
    <3>1. a \in Nat /\ 3 <= a /\ a <= size /\ c \in Nat
      <4>1. \A x \in {0, 1} : x \in Nat
        OBVIOUS
      <4>2. QED
        BY <1>8, <2>1, <4>1, Zenon
    <3>2. \A x, y \in Nat : 3 <= x /\ x <= y =>
             /\ x - 1 \in Nat /\ 1 \in 1..y /\ 2 \in 1..y /\ 3 \in Nat /\ x + 1 \in Nat
             /\ \A i \in 3..(x - 1) : i \in 1..y
             /\ \A i \in (x + 1)..y : i \in 1..y
      OBVIOUS
    <3>3. \A i \in 1..size : bytes[i] \in Nat
      BY <1>2
    <3>a. /\ \A i \in 3..(a - 1) : i \in 1..size
          /\ \A i \in (a + 1)..size : i \in 1..size
          /\ 1 \in 1..size /\ 2 \in 1..size /\ a - 1 \in Nat /\ a + 1 \in Nat
      BY <1>2, <3>1, <3>2, Zenon
    <3>b. /\ \A i \in 3..(a - 1) : bytes[i] \in Nat
          /\ \A i \in (a + 1)..size : bytes[i] \in Nat
          /\ bytes[1] \in Nat /\ bytes[2] \in Nat
      BY <3>3, <3>a, Zenon
    <3>c. SubSeq(bytes, 3, a - 1) \in Seq(Nat) /\ SubSeq(bytes, a + 1, size) \in Seq(Nat)
      <4>1. \A q, p \in Nat : (\A i \in q..p : bytes[i] \in Nat) => SubSeq(bytes, q, p) \in Seq(Nat)
        BY SubSeqProperties
      <4>2. 3 \in Nat
        OBVIOUS
      <4>3. QED
        BY <1>2, <3>a, <3>b, <4>1, <4>2, Zenon
    <3>4. a - 1 \in Nat /\ (a - 1) + 1 = a
      BY <3>1, <3>a
    <3>5. QED
      BY <3>1, <3>4, <3>a, <3>b, <3>c
  <2>7. Encode(Decoded) = bytes
    <3> DEFINE s == SubSeq(bytes, 3, a - 1)
               r == SubSeq(bytes, a + 1, size)
    <3>1. Encode(Decoded) = (<<bytes[1], bytes[2]>> \o s) \o (<<c>> \o r)
      <4>1. /\ Decoded.form = "response" /\ Decoded.locals = SubSeq(built, 1, m)
            /\ Decoded.result = SubSeq(built, m + 1, n)
        BY <2>3
      <4>2. Written(Decoded.locals).cells = s /\ Written(Decoded.result).cells = r
        BY <1>9, <2>4, <4>1 DEF Done
      <4>3. /\ Magic[Decoded.form] = bytes[1] /\ Len(Decoded.locals) = bytes[2]
            /\ Len(Decoded.result) = c
        BY <1>2, <2>1, <2>5, <4>1
      <4> HIDE DEF s, r
      <4>4. QED
        BY <4>1, <4>2, <4>3, Zenon DEF Encode
    <3>2. <<c>> \o r = SubSeq(bytes, a, size)
      <4>1. a \in 1..size /\ size \in a..size
        BY <1>2, <1>8, <2>1
      <4>2. SubSeq(bytes, a, size) = <<bytes[a]>> \o r
        BY <1>2, <4>1, SubSeqRecursiveFirst
      <4>3. QED
        BY <2>1, <4>2
    <3>3. s \o SubSeq(bytes, a, size) = SubSeq(bytes, 3, size)
      <4>1. 3 \in 1..(size + 1) /\ a - 1 \in (3 - 1)..size /\ size \in (a - 1)..size
        <5>1. a \in Nat /\ 3 <= a /\ a <= size /\ size \in Nat
          BY <1>2, <1>8, <2>1, Zenon
        <5>2. \A x, y \in Nat : 3 <= x /\ x <= y =>
                 3 \in 1..(y + 1) /\ x - 1 \in (3 - 1)..y /\ y \in (x - 1)..y
          OBVIOUS
        <5>3. QED
          BY <5>1, <5>2, Zenon
      <4>2. SubSeq(bytes, 3, a - 1) \o SubSeq(bytes, (a - 1) + 1, size) = SubSeq(bytes, 3, size)
        BY <1>2, <4>1, ConcatAdjacentSubSeq
      <4>3. QED
        BY <2>6, <4>2
    <3>4. <<bytes[1], bytes[2]>> \o SubSeq(bytes, 3, size) = bytes
      <4>1. Len(bytes) >= 2
        BY <1>2, <1>8
      <4>2. QED
        BY <1>2, <4>1, FrameCells
    <3>5. (<<bytes[1], bytes[2]>> \o s) \o (<<c>> \o r)
              = <<bytes[1], bytes[2]>> \o (s \o (<<c>> \o r))
      <4>1. <<bytes[1], bytes[2]>> \in Seq(Nat) /\ <<c>> \o r \in Seq(Nat) /\ s \in Seq(Nat)
        BY <2>6
      <4> HIDE DEF s, r
      <4>2. QED
        BY <4>1, NatAssoc
    <3> HIDE DEF s, r
    <3>6. QED
      BY <3>1, <3>2, <3>3, <3>4, <3>5
  <2>8. Fits(Decoded)
    <3>1. /\ Written(Decoded.locals) = Done(SubSeq(bytes, 3, a - 1), k)
          /\ Written(Decoded.result) = Done(SubSeq(bytes, a + 1, size), nodes - k)
      BY <1>9, <2>3, <2>4
    <3>2. k + (nodes - k) <= MaxNodes
      BY <1>2, <1>8
    <3>3. QED
      BY <1>2, <2>7, <3>1, <3>2 DEF Fits, Encodes, Done
  <2>9. QED
    BY <2>7, <2>8
<1>12. QED
  BY <1>10, <1>11

\* Whatever bytes come and whatever the limits, decode_repl_state and
\* decode_repl_response accept only what the encoders write, within all limits,
\* and return what was written.
THEOREM OnlyEncodingsAccepted == Spec => []AcceptsOnlyEncodings
<1>1. Init => Inv /\ Faithful
  BY InitInv, InitFaithful
<1>2. Inv /\ Faithful /\ [Next]_vars => (Inv /\ Faithful)'
  BY NextInv, NextFaithful
<1>3. Inv /\ Faithful => AcceptsOnlyEncodings
  BY AcceptedIsEncoding DEF AcceptsOnlyEncodings
<1>4. QED
  BY <1>1, <1>2, <1>3, PTL DEF Spec

-----------------------------------------------------------------------------
(* All that is written within the limits is accepted *)

\* The states of a writer of the values there are.
TodoItem == [value : Value, depth : Nat]
WriterState == [cells : Seq(Nat), nodes : Nat, todo : Seq(TodoItem)]

\* What is written of a value: at least its tag.
LEMMA ValueHead ==
    ASSUME NEW v \in Value
    PROVE  /\ HeadCells(v) \in Seq(Nat) /\ Len(HeadCells(v)) >= 1
           /\ Items(v) \in Seq(Value)
           /\ HeadCells(v)[1] \in 0..7 /\ Kinds[HeadCells(v)[1] + 1] = v.kind
           /\ v.kind = "null" => Len(HeadCells(v)) = 1
           /\ v.kind \in {"int", "float"} => Len(HeadCells(v)) = 2
           /\ v.kind = "bool" => Len(HeadCells(v)) = 2 /\ HeadCells(v)[2] \in {0, 1}
           /\ v.kind \in {"string", "bytes"} =>
                 /\ Len(HeadCells(v)) >= 2 /\ Len(HeadCells(v)) = 2 + HeadCells(v)[2]
                 /\ v.kind = "string" =>
                       \A i \in 3..Len(HeadCells(v)) : HeadCells(v)[i] # NotText
           /\ v.kind \in {"array", "map"} =>
                 /\ Len(HeadCells(v)) = 2
                 /\ Width(v.kind) * HeadCells(v)[2] = Len(Items(v))
           /\ v.kind \notin {"array", "map"} => Items(v) = <<>>
           /\ v.kind \in {"null", "int", "float", "bool", "string", "bytes", "array", "map"}
<1> DEFINE k == v.kind
           tag == (CHOOSE i \in 1..8 : Kinds[i] = k) - 1
<1>1. /\ k \in {"array", "map"} => v.items \in Seq(Value) /\ Len(v.items) % Width(k) = 0
      /\ k \notin {"array", "map"} =>
            /\ k \in {"null", "int", "float", "bool", "string", "bytes"}
            /\ v.cells \in ScalarCells(k)
  BY ValueAssumption DEF IsCollection
<1> HIDE DEF k
<1>2. k \in {"null", "int", "float", "bool", "string", "bytes", "array", "map"}
  BY <1>1
<1>3. tag \in 0..7 /\ Kinds[tag + 1] = k /\ tag \in Nat
  <2>1. \E i \in 1..8 : Kinds[i] = k
    BY <1>2 DEF Kinds
  <2>2. PICK c \in 1..8 : c = (CHOOSE i \in 1..8 : Kinds[i] = k) /\ Kinds[c] = k
    BY <2>1
  <2>3. tag = c - 1
    BY <2>2
  <2> HIDE DEF tag
  <2>4. tag \in 0..7 /\ tag + 1 = c /\ tag \in Nat
    BY <2>3
  <2>5. QED
    BY <2>2, <2>4
<1>4. /\ k \in {"null", "int", "float", "bool"} => HeadCells(v) = <<tag>> \o v.cells
      /\ k \in {"string", "bytes"} => HeadCells(v) = <<tag, Len(v.cells)>> \o v.cells
      /\ k \in {"array", "map"} => HeadCells(v) = <<tag, Len(v.items) \div Width(k)>>
      /\ Items(v) = IF k \in {"array", "map"} THEN v.items ELSE <<>>
  BY <1>2 DEF HeadCells, Items, IsCollection, k
<1> HIDE DEF tag
<1>5. CASE k \in {"null", "int", "float", "bool"}
  <2>1. v.cells \in Seq(Nat) /\ (k = "null" => Len(v.cells) = 0)
        /\ (k \in {"int", "float", "bool"} => Len(v.cells) = 1)
        /\ (k = "bool" => v.cells[1] \in {0, 1})
    <3>e. Len(<<>>) = 0 /\ <<>> \in Seq(Nat)
      OBVIOUS
    <3>f. \A s \in [1..1 -> Nat] : s \in Seq(Nat) /\ Len(s) = 1
      <4>1. ASSUME NEW n \in Nat, NEW s \in [1..n -> Nat] PROVE s \in Seq(Nat) /\ Len(s) = n
        OBVIOUS
      <4>2. 1 \in Nat
        OBVIOUS
      <4>3. QED
        BY <4>1, <4>2, Zenon
    <3>g. \A c \in {0, 1} : <<c>> \in Seq(Nat) /\ Len(<<c>>) = 1 /\ <<c>>[1] = c
      OBVIOUS
    <3>1. CASE k = "null"
      <4>1. v.cells = <<>>
        BY <1>1, <3>1 DEF ScalarCells
      <4>2. QED
        BY <3>1, <3>e, <4>1
    <3>2. CASE k \in {"int", "float"}
      <4>1. v.cells \in [1..1 -> Nat]
        BY <1>1, <3>2 DEF ScalarCells
      <4>2. v.cells \in Seq(Nat) /\ Len(v.cells) = 1
        BY <3>f, <4>1, Zenon
      <4>3. QED
        BY <3>2, <4>2
    <3>3. CASE k = "bool"
      <4>1. \E c \in {0, 1} : v.cells = <<c>>
        BY <1>1, <3>3 DEF ScalarCells
      <4>2. PICK c \in {0, 1} : v.cells = <<c>>
        BY <4>1
      <4>3. v.cells \in Seq(Nat) /\ Len(v.cells) = 1 /\ v.cells[1] \in {0, 1}
        BY <3>g, <4>2, Zenon
      <4>4. QED
        BY <3>3, <4>3
    <3>4. QED
      BY <1>5, <3>1, <3>2, <3>3
  <2> DEFINE h == <<tag>> \o v.cells
  <2>2. /\ h \in Seq(Nat) /\ Len(h) = 1 + Len(v.cells) /\ h[1] = tag
        /\ Len(v.cells) = 1 => h[2] = v.cells[1]
    <3>1. <<tag>> \in Seq(Nat) /\ Len(<<tag>>) = 1 /\ <<tag>>[1] = tag
      BY <1>3
    <3>2. /\ h \in Seq(Nat) /\ Len(h) = Len(<<tag>>) + Len(v.cells)
          /\ \A i \in 1..(Len(<<tag>>) + Len(v.cells)) :
                h[i] = IF i <= Len(<<tag>>) THEN <<tag>>[i] ELSE v.cells[i - Len(<<tag>>)]
      BY <2>1, <3>1, ConcatProperties
    <3>3. Len(v.cells) \in Nat
      BY <2>1
    <3> HIDE DEF h
    <3>4. QED
      BY <3>1, <3>2, <3>3
  <2>3. HeadCells(v) = h /\ Items(v) = <<>> /\ <<>> \in Seq(Value)
    BY <1>4, <1>5
  <2> HIDE DEF h
  <2>4. /\ Len(h) >= 1 /\ (k = "null" => Len(h) = 1)
        /\ (k \in {"int", "float", "bool"} => Len(h) = 2)
        /\ (k = "bool" => h[2] \in {0, 1})
    <3>1. Len(h) >= 1
      BY <2>1, <2>2
    <3>2. k = "null" => Len(h) = 1
      BY <2>1, <2>2
    <3>3. k \in {"int", "float", "bool"} => Len(h) = 2
      <4>1. k \in {"int", "float", "bool"} => Len(v.cells) = 1
        BY <2>1
      <4>2. Len(v.cells) = 1 => Len(h) = 2
        BY <2>2
      <4>3. QED
        BY <4>1, <4>2
    <3>4. k = "bool" => h[2] \in {0, 1}
      <4>1. k = "bool" => Len(v.cells) = 1
        BY <2>1
      <4>2. QED
        BY <2>1, <2>2, <4>1
    <3>5. QED
      BY <3>1, <3>2, <3>3, <3>4
  <2>5. k \notin {"string", "bytes", "array", "map"}
    BY <1>5
  <2>6. QED
    BY <1>2, <1>3, <2>2, <2>3, <2>4, <2>5 DEF k
<1>6. CASE k \in {"string", "bytes"}
  <2>1. v.cells \in Seq(Nat) /\ (k = "string" => \A i \in 1..Len(v.cells) : v.cells[i] # NotText)
        /\ Len(v.cells) \in Nat
    <3>1. CASE k = "string"
      <4>1. v.cells \in Seq(Nat \ {NotText})
        BY <1>1, <3>1 DEF ScalarCells
      <4>2. QED
        BY <4>1
    <3>2. CASE k = "bytes"
      <4>1. v.cells \in Seq(Nat)
        BY <1>1, <3>2 DEF ScalarCells
      <4>2. QED
        BY <3>2, <4>1
    <3>3. QED
      BY <1>6, <3>1, <3>2
  <2> DEFINE two == <<tag, Len(v.cells)>>
             h == two \o v.cells
  <2>2. /\ h \in Seq(Nat) /\ Len(h) = 2 + Len(v.cells) /\ h[1] = tag /\ h[2] = Len(v.cells)
        /\ \A i \in 3..Len(h) : i - 2 \in 1..Len(v.cells) /\ h[i] = v.cells[i - 2]
    <3>1. two \in Seq(Nat) /\ Len(two) = 2 /\ two[1] = tag /\ two[2] = Len(v.cells)
      BY <1>3, <2>1
    <3> HIDE DEF two
    <3>2. /\ h \in Seq(Nat) /\ Len(h) = Len(two) + Len(v.cells)
          /\ \A i \in 1..(Len(two) + Len(v.cells)) :
                h[i] = IF i <= Len(two) THEN two[i] ELSE v.cells[i - Len(two)]
      BY <2>1, <3>1, ConcatProperties
    <3> HIDE DEF h
    <3>3. /\ h \in Seq(Nat) /\ Len(h) = 2 + Len(v.cells)
          /\ \A i \in 1..(2 + Len(v.cells)) : h[i] = IF i <= 2 THEN two[i] ELSE v.cells[i - 2]
      BY <3>1, <3>2, Zenon
    <3>4. PICK len \in Nat : len = Len(v.cells)
      BY <2>1
    <3>5. /\ 1 \in 1..(2 + len) /\ 2 \in 1..(2 + len)
          /\ \A i \in 3..(2 + len) : i \in 1..(2 + len) /\ ~(i <= 2) /\ i - 2 \in 1..len
      OBVIOUS
    <3>6. h[1] = two[1] /\ h[2] = two[2]
      BY <3>3, <3>4, <3>5
    <3>7. \A i \in 3..(2 + len) : i - 2 \in 1..len /\ h[i] = v.cells[i - 2]
      BY <3>3, <3>4, <3>5, Zenon
    <3>8. QED
      BY <3>1, <3>3, <3>4, <3>6, <3>7, Zenon
  <2>3. HeadCells(v) = h /\ Items(v) = <<>> /\ <<>> \in Seq(Value)
    BY <1>4, <1>6
  <2> HIDE DEF h
  <2>4. k = "string" => \A i \in 3..Len(h) : h[i] # NotText
    BY <2>1, <2>2
  <2>5. Len(h) >= 2 /\ Len(h) >= 1 /\ Len(h) = 2 + h[2]
    BY <2>1, <2>2
  <2>6. QED
    BY <1>2, <1>3, <1>6, <2>2, <2>3, <2>4, <2>5 DEF k
<1>7. CASE k \in {"array", "map"}
  <2>1. v.items \in Seq(Value) /\ Len(v.items) \in Nat /\ Items(v) = v.items
    BY <1>1, <1>4, <1>7
  <2> DEFINE c == Len(v.items) \div Width(k)
  <2>2. c \in Nat /\ Width(k) * c = Len(v.items)
    <3>1. \A x \in Nat : /\ x \div 1 \in Nat /\ 1 * (x \div 1) = x
                         /\ x \div 2 \in Nat /\ (x % 2 = 0 => 2 * (x \div 2) = x)
      OBVIOUS
    <3>2. Width(k) = 1 \/ (Width(k) = 2 /\ Len(v.items) % 2 = 0)
      BY <1>1, <1>7 DEF Width
    <3>3. QED
      BY <2>1, <3>1, <3>2
  <2> HIDE DEF c
  <2>3. HeadCells(v) = <<tag, c>>
    BY <1>4, <1>7 DEF c
  <2>4. /\ <<tag, c>> \in Seq(Nat) /\ Len(<<tag, c>>) = 2
        /\ <<tag, c>>[1] = tag /\ <<tag, c>>[2] = c
    BY <1>3, <2>2
  <2>5. QED
    BY <1>2, <1>3, <1>7, <2>1, <2>2, <2>3, <2>4 DEF k
<1>8. QED
  BY <1>2, <1>5, <1>6, <1>7

\* One step of the writer.
LEMMA WriteNextType ==
    ASSUME NEW w \in WriterState, w.todo # <<>>
    PROVE  LET v == Head(w.todo).value
               x == WriteNext(w)
           IN  /\ v \in Value /\ Head(w.todo).depth \in Nat
               /\ x \in WriterState
               /\ x.cells = w.cells \o HeadCells(v) /\ x.nodes = w.nodes + 1
               /\ Len(x.cells) = Len(w.cells) + Len(HeadCells(v))
               /\ \A i \in 1..Len(w.cells) : x.cells[i] = w.cells[i]
               /\ \A i \in 1..Len(HeadCells(v)) : x.cells[Len(w.cells) + i] = HeadCells(v)[i]
               /\ Len(x.todo) = Len(Items(v)) + (Len(w.todo) - 1)
               /\ \A i \in 1..Len(Items(v)) : x.todo[i].depth = Head(w.todo).depth + 1
               /\ \A i \in 1..(Len(w.todo) - 1) : x.todo[Len(Items(v)) + i] = w.todo[i + 1]
<1> DEFINE v == Head(w.todo).value
           d == Head(w.todo).depth
           H == HeadCells(v)
           opened == Todo(Items(v), d + 1)
           x == WriteNext(w)
<1>1. /\ w.cells \in Seq(Nat) /\ w.nodes \in Nat /\ w.todo \in Seq(TodoItem)
  BY DEF WriterState
<1>2. Head(w.todo) \in TodoItem /\ Tail(w.todo) \in Seq(TodoItem) /\ Len(w.todo) \in Nat \ {0}
      /\ Len(Tail(w.todo)) = Len(w.todo) - 1
      /\ \A i \in 1..(Len(w.todo) - 1) : Tail(w.todo)[i] = w.todo[i + 1]
  BY <1>1
<1>3. v \in Value /\ d \in Nat
  BY <1>2 DEF TodoItem
<1>4. H \in Seq(Nat) /\ Items(v) \in Seq(Value) /\ Len(H) \in Nat /\ Len(Items(v)) \in Nat
  <2>1. HeadCells(v) \in Seq(Nat) /\ Items(v) \in Seq(Value)
    BY <1>3, ValueHead
  <2>2. QED
    BY <2>1
<1> HIDE DEF v, d, H
<1>5. x = [cells |-> w.cells \o H, nodes |-> w.nodes + 1, todo |-> opened \o Tail(w.todo)]
  BY DEF WriteNext, Items, v, d, H
<1>6. /\ opened \in Seq(TodoItem) /\ Len(opened) = Len(Items(v))
      /\ \A i \in 1..Len(Items(v)) : opened[i].depth = d + 1
  <2>1. IsSeq(Items(v))
    BY <1>4 DEF IsSeq
  <2>2. /\ IsSeq(opened) /\ Len(opened) = Len(Items(v)) /\ DOMAIN opened = 1..Len(Items(v))
        /\ \A i \in 1..Len(Items(v)) : opened[i] = [value |-> Items(v)[i], depth |-> d + 1]
    BY <2>1, TodoSeq
  <2>3. \A i \in 1..Len(Items(v)) : Items(v)[i] \in Value
    BY <1>4
  <2>4. d + 1 \in Nat
    BY <1>3
  <2>5. \A i \in 1..Len(Items(v)) : opened[i] \in TodoItem /\ opened[i].depth = d + 1
    <3> HIDE DEF opened
    <3>1. QED
      BY <2>2, <2>3, <2>4 DEF TodoItem
  <2>6. opened = [i \in 1..Len(Items(v)) |-> opened[i]]
    <3>1. PICK S : opened \in Seq(S)
      BY <2>2 DEF IsSeq
    <3> HIDE DEF opened
    <3>2. opened \in [1..Len(opened) -> S]
      BY <3>1
    <3>3. QED
      BY <2>2, <3>2
  <2> HIDE DEF opened
  <2>7. opened \in Seq(TodoItem)
    BY <1>4, <2>5, <2>6
  <2>8. QED
    BY <2>2, <2>5, <2>7
<1> HIDE DEF opened
<1>7. /\ w.cells \o H \in Seq(Nat) /\ Len(w.cells \o H) = Len(w.cells) + Len(H)
      /\ \A i \in 1..(Len(w.cells) + Len(H)) :
            (w.cells \o H)[i] = IF i <= Len(w.cells) THEN w.cells[i] ELSE H[i - Len(w.cells)]
      /\ Len(w.cells) \in Nat
  <2>1. Len(w.cells) \in Nat
    BY <1>1
  <2>2. QED
    BY <1>1, <1>4, <2>1, ConcatProperties
<1>8. /\ opened \o Tail(w.todo) \in Seq(TodoItem)
      /\ Len(opened \o Tail(w.todo)) = Len(Items(v)) + (Len(w.todo) - 1)
      /\ \A i \in 1..(Len(Items(v)) + (Len(w.todo) - 1)) :
            (opened \o Tail(w.todo))[i] = IF i <= Len(Items(v)) THEN opened[i]
                                          ELSE Tail(w.todo)[i - Len(Items(v))]
  <2>1. Len(Tail(w.todo)) = Len(w.todo) - 1
    BY <1>2
  <2>2. \A s, t \in Seq(TodoItem) :
           /\ s \o t \in Seq(TodoItem) /\ Len(s \o t) = Len(s) + Len(t)
           /\ \A i \in 1..(Len(s) + Len(t)) :
                 (s \o t)[i] = IF i <= Len(s) THEN s[i] ELSE t[i - Len(s)]
    BY ConcatProperties
  <2> DEFINE t == Tail(w.todo)
  <2>3. opened \in Seq(TodoItem) /\ t \in Seq(TodoItem)
    BY <1>2, <1>6
  <2>4. Len(opened) = Len(Items(v)) /\ Len(t) = Len(w.todo) - 1
    BY <1>6, <2>1
  <2> HIDE DEF t
  <2>5. /\ opened \o t \in Seq(TodoItem)
        /\ Len(opened \o t) = Len(opened) + Len(t)
        /\ \A i \in 1..(Len(opened) + Len(t)) :
              (opened \o t)[i] = IF i <= Len(opened) THEN opened[i] ELSE t[i - Len(opened)]
    BY <2>2, <2>3, Zenon
  <2>6. /\ opened \o t \in Seq(TodoItem)
        /\ Len(opened \o t) = Len(Items(v)) + (Len(w.todo) - 1)
        /\ \A i \in 1..(Len(Items(v)) + (Len(w.todo) - 1)) :
              (opened \o t)[i] = IF i <= Len(Items(v)) THEN opened[i] ELSE t[i - Len(Items(v))]
    BY <2>4, <2>5
  <2>7. QED
    BY <2>6, Zenon DEF t
<1>9. /\ \A i \in 1..Len(w.cells) : (w.cells \o H)[i] = w.cells[i]
      /\ \A i \in 1..Len(H) : (w.cells \o H)[Len(w.cells) + i] = H[i]
  <2>1. \A p, q \in Nat : /\ \A i \in 1..p : i \in 1..(p + q) /\ i <= p
                          /\ \A i \in 1..q : p + i \in 1..(p + q) /\ ~(p + i <= p) /\ (p + i) - p = i
    OBVIOUS
  <2>2. QED
    BY <1>4, <1>7, <2>1
<1>10. /\ \A i \in 1..Len(Items(v)) : (opened \o Tail(w.todo))[i].depth = d + 1
       /\ \A i \in 1..(Len(w.todo) - 1) :
             (opened \o Tail(w.todo))[Len(Items(v)) + i] = w.todo[i + 1]
  <2>1. \A p, q \in Nat : /\ \A i \in 1..p : i \in 1..(p + q) /\ i <= p
                          /\ \A i \in 1..q : p + i \in 1..(p + q) /\ ~(p + i <= p) /\ (p + i) - p = i
    OBVIOUS
  <2>2. Len(w.todo) - 1 \in Nat
    BY <1>2
  <2>3. /\ \A i \in 1..Len(Items(v)) : (opened \o Tail(w.todo))[i] = opened[i]
        /\ \A i \in 1..(Len(w.todo) - 1) :
              (opened \o Tail(w.todo))[Len(Items(v)) + i] = Tail(w.todo)[i]
    <3> DEFINE t == Tail(w.todo)
               both == opened \o t
    <3>1. PICK p \in Nat : p = Len(Items(v))
      BY <1>4
    <3>2. PICK r \in Nat : r = Len(w.todo) - 1
      BY <2>2
    <3>3. \A i \in 1..(p + r) : both[i] = IF i <= p THEN opened[i] ELSE t[i - p]
      BY <1>8, <3>1, <3>2, Zenon
    <3> HIDE DEF both, t
    <3>4. /\ \A i \in 1..p : both[i] = opened[i]
          /\ \A i \in 1..r : both[p + i] = t[i]
      BY <3>3
    <3>5. QED
      BY <3>1, <3>2, <3>4, Zenon DEF both, t
  <2>4. QED
    BY <1>2, <1>6, <2>3
<1>11. x \in WriterState
  <2>1. w.nodes + 1 \in Nat
    BY <1>1
  <2>2. QED
    BY <1>5, <1>7, <1>8, <2>1 DEF WriterState
<1>12. x.cells = w.cells \o H /\ x.nodes = w.nodes + 1 /\ x.todo = opened \o Tail(w.todo)
  BY <1>5
<1> HIDE DEF x
<1>13. QED
  BY <1>3, <1>7, <1>8, <1>9, <1>10, <1>11, <1>12 DEF v, d, H, x

\* The writer comes to be in this state when it writes the values.
Reaches(vs, w) ==
    \E f : /\ f[0] = Begin(vs, 0)
           /\ \A i \in 1..MaxBytes : f[i] = NextWritten(f[i - 1])
           /\ Written(vs) = f[MaxBytes]
           /\ \E i \in 0..MaxBytes : w = f[i]

\* What is left to be written at w when all is written at end: one cell or more
\* for every value.
Ahead(w, end) ==
    /\ Len(w.cells) + Len(w.todo) <= Len(end.cells)
    /\ \A i \in 1..Len(w.cells) : end.cells[i] = w.cells[i]
    /\ w.nodes <= end.nodes
    /\ w.todo = <<>> => w = end

\* The writer begins in such a state.
LEMMA BeginReached ==
    ASSUME NEW vs \in Seq(Value)
    PROVE  Reaches(vs, Begin(vs, 0)) /\ Begin(vs, 0) \in WriterState
<1>1. 0 \in 0..MaxBytes
  BY LimitsAssumption
<1>2. Reaches(vs, Begin(vs, 0))
  BY <1>1, WrittenSteps DEF Reaches
<1>3. Todo(vs, 0) \in Seq(TodoItem)
  <2>1. \A i \in 1..Len(vs) : [value |-> vs[i], depth |-> 0] \in TodoItem
    BY DEF TodoItem
  <2>2. Todo(vs, 0) = [i \in 1..Len(vs) |-> [value |-> vs[i], depth |-> 0]]
    BY DEF Todo
  <2>3. Len(vs) \in Nat
    OBVIOUS
  <2>4. QED
    BY <2>1, <2>2, <2>3
<1>4. QED
  BY <1>2, <1>3 DEF Begin, WriterState

\* It stays in such states.
LEMMA NextWrittenType ==
    ASSUME NEW w \in WriterState
    PROVE  NextWritten(w) \in WriterState
<1>1. CASE Stops(w)
  BY <1>1 DEF NextWritten
<1>2. CASE ~Stops(w)
  BY <1>2, WriteNextType DEF NextWritten, Stops
<1>3. QED
  BY <1>1, <1>2

\* A step does not overtake the end.
LEMMA AheadBefore ==
    ASSUME NEW w \in WriterState, NEW end \in WriterState, end.todo = <<>>,
           Ahead(NextWritten(w), end)
    PROVE  Ahead(w, end)
<1>1. CASE Stops(w)
  BY <1>1 DEF NextWritten
<1>2. CASE ~Stops(w)
  <2> DEFINE v == Head(w.todo).value
             x == WriteNext(w)
             H == HeadCells(v)
             items == Items(v)
  <2>1. w.todo # <<>> /\ NextWritten(w) = x
    BY <1>2 DEF Stops, NextWritten
  <2>2. /\ v \in Value /\ x \in WriterState /\ x.nodes = w.nodes + 1
        /\ Len(x.cells) = Len(w.cells) + Len(H)
        /\ \A i \in 1..Len(w.cells) : x.cells[i] = w.cells[i]
        /\ Len(x.todo) = Len(items) + (Len(w.todo) - 1)
    BY <2>1, WriteNextType
  <2>3. Len(H) >= 1 /\ H \in Seq(Nat) /\ items \in Seq(Value)
    BY <2>2, ValueHead
  <2>4. /\ Len(H) \in Nat /\ Len(items) \in Nat /\ Len(w.cells) \in Nat /\ Len(end.cells) \in Nat
        /\ Len(w.todo) \in Nat /\ w.nodes \in Nat /\ end.nodes \in Nat
    <3>1. w.cells \in Seq(Nat) /\ end.cells \in Seq(Nat) /\ w.todo \in Seq(TodoItem)
          /\ w.nodes \in Nat /\ end.nodes \in Nat
      BY DEF WriterState
    <3> HIDE DEF H, items
    <3>2. QED
      BY <2>3, <3>1
  <2> HIDE DEF x, H, items
  <2>5. /\ Len(x.cells) + Len(x.todo) <= Len(end.cells)
        /\ \A i \in 1..Len(x.cells) : end.cells[i] = x.cells[i]
        /\ x.nodes <= end.nodes
    BY <2>1 DEF Ahead
  <2>6. Len(w.cells) + Len(w.todo) <= Len(end.cells)
    <3>1. \A a, b, h, t, e \in Nat : h >= 1 /\ (a + h) + (b + (t - 1)) <= e => a + t <= e
      OBVIOUS
    <3>2. (Len(w.cells) + Len(H)) + (Len(items) + (Len(w.todo) - 1)) <= Len(end.cells)
      BY <2>2, <2>5, Zenon
    <3>3. QED
      BY <2>3, <2>4, <3>1, <3>2, Zenon
  <2>7. \A i \in 1..Len(w.cells) : end.cells[i] = w.cells[i]
    <3>1. \A i \in 1..Len(w.cells) : i \in 1..Len(x.cells)
      BY <2>2, <2>4
    <3>2. QED
      BY <2>2, <2>5, <3>1
  <2>8. w.nodes <= end.nodes
    BY <2>2, <2>4, <2>5
  <2>9. QED
    BY <2>1, <2>6, <2>7, <2>8 DEF Ahead
<1>3. QED
  BY <1>1, <1>2

\* All states of a writer that writes all values are of the right type, and
\* before its end.
LEMMA Reached ==
    ASSUME NEW vs \in Seq(Value), Written(vs).todo = <<>>, NEW w, Reaches(vs, w)
    PROVE  /\ w \in WriterState /\ Written(vs) \in WriterState
           /\ Ahead(w, Written(vs))
           /\ w.todo # <<>> => ~Stops(w) /\ Reaches(vs, WriteNext(w))
<1>1. PICK f : /\ f[0] = Begin(vs, 0)
               /\ \A i \in 1..MaxBytes : f[i] = NextWritten(f[i - 1])
               /\ Written(vs) = f[MaxBytes]
               /\ \E i \in 0..MaxBytes : w = f[i]
  BY DEF Reaches
<1>2. PICK n \in 0..MaxBytes : w = f[n]
  BY <1>1
<1>m. MaxBytes \in Nat /\ MaxBytes \in 0..MaxBytes
  BY LimitsAssumption
<1>3. \A i \in 0..MaxBytes : f[i] \in WriterState
  <2> DEFINE Bad == {i \in 0..MaxBytes : f[i] \notin WriterState}
  <2>1. ASSUME Bad # {} PROVE FALSE
    <3>1. PICK i \in Bad : \A j \in Bad : i <= j
      <4>1. Bad \subseteq Nat
        OBVIOUS
      <4> HIDE DEF Bad
      <4>2. QED
        BY <2>1, <4>1, LeastElement
    <3>2. f[0] \in WriterState
      BY <1>1, BeginReached
    <3>3. i \in 1..MaxBytes /\ i - 1 \in 0..MaxBytes /\ i - 1 \notin Bad
      BY <1>m, <3>1, <3>2
    <3>4. f[i - 1] \in WriterState /\ f[i] = NextWritten(f[i - 1])
      BY <1>1, <3>3
    <3>5. QED
      BY <3>1, <3>4, NextWrittenType
  <2>2. QED
    BY <2>1
<1>4. Written(vs) \in WriterState
  BY <1>1, <1>3, <1>m
<1>5. \A i \in 0..MaxBytes : Ahead(f[i], Written(vs))
  <2> DEFINE Bad == {j \in 0..MaxBytes : ~Ahead(f[MaxBytes - j], Written(vs))}
  <2>1. ASSUME Bad # {} PROVE FALSE
    <3>1. PICK j \in Bad : \A k \in Bad : j <= k
      <4>1. Bad \subseteq Nat
        OBVIOUS
      <4> HIDE DEF Bad
      <4>2. QED
        BY <2>1, <4>1, LeastElement
    <3>2. Ahead(Written(vs), Written(vs))
      <4>1. Len(<<>>) = 0 /\ Written(vs).cells \in Seq(Nat) /\ Written(vs).nodes \in Nat
        BY <1>4 DEF WriterState
      <4>2. QED
        BY <4>1 DEF Ahead
    <3>3. Ahead(f[MaxBytes - 0], Written(vs))
      <4>1. MaxBytes - 0 = MaxBytes
        BY <1>m
      <4>2. QED
        BY <1>1, <3>2, <4>1
    <3>4. j \in 1..MaxBytes /\ j - 1 \in 0..MaxBytes /\ j - 1 \notin Bad
      BY <1>m, <3>1, <3>3
    <3>5. /\ MaxBytes - (j - 1) \in 1..MaxBytes /\ (MaxBytes - (j - 1)) - 1 = MaxBytes - j
          /\ MaxBytes - j \in 0..MaxBytes
      BY <1>m, <3>4
    <3>6. Ahead(f[MaxBytes - (j - 1)], Written(vs))
      BY <3>4
    <3>7. f[MaxBytes - (j - 1)] = NextWritten(f[MaxBytes - j])
      BY <1>1, <3>5
    <3>8. Ahead(f[MaxBytes - j], Written(vs))
      BY <1>3, <1>4, <3>5, <3>6, <3>7, AheadBefore
    <3>9. QED
      BY <3>1, <3>8
  <2>2. SUFFICES ASSUME NEW i \in 0..MaxBytes PROVE Ahead(f[i], Written(vs))
    OBVIOUS
  <2>3. MaxBytes - i \in 0..MaxBytes /\ MaxBytes - (MaxBytes - i) = i
    BY <1>m
  <2>4. MaxBytes - i \notin Bad
    BY <2>1
  <2>5. QED
    BY <2>3, <2>4
<1>6. ASSUME w.todo # <<>> PROVE ~Stops(w) /\ Reaches(vs, WriteNext(w))
  <2>1. n # MaxBytes
    BY <1>1, <1>2, <1>6
  <2>2. n + 1 \in 1..MaxBytes /\ (n + 1) - 1 = n /\ n + 1 \in 0..MaxBytes
    BY <1>m, <2>1
  <2>3. f[n + 1] = NextWritten(w)
    BY <1>1, <1>2, <2>2
  <2>4. ~Stops(w)
    <3>1. SUFFICES ASSUME Stops(w) PROVE FALSE
      OBVIOUS
    <3> DEFINE Bad == {i \in 0..MaxBytes : i >= n /\ f[i] # w}
    <3>2. ASSUME Bad # {} PROVE FALSE
      <4>1. PICK i \in Bad : \A j \in Bad : i <= j
        <5>1. Bad \subseteq Nat
          OBVIOUS
        <5> HIDE DEF Bad
        <5>2. QED
          BY <3>2, <5>1, LeastElement
      <4>2. i # n
        BY <1>2, <4>1
      <4>3. i \in 1..MaxBytes /\ i - 1 \in 0..MaxBytes /\ i - 1 >= n /\ i - 1 \notin Bad
        BY <1>m, <4>1, <4>2
      <4>4. f[i - 1] = w /\ f[i] = NextWritten(f[i - 1])
        BY <1>1, <4>3
      <4>5. f[i] = w
        BY <3>1, <4>4 DEF NextWritten
      <4>6. QED
        BY <4>1, <4>5
    <3>3. MaxBytes >= n
      BY <1>m
    <3>4. f[MaxBytes] = w
      BY <1>m, <3>2, <3>3
    <3>5. QED
      BY <1>1, <1>6, <3>4
  <2>5. f[n + 1] = WriteNext(w)
    BY <2>3, <2>4 DEF NextWritten
  <2>6. QED
    BY <1>1, <2>2, <2>4, <2>5 DEF Reaches
<1>7. QED
  BY <1>2, <1>3, <1>4, <1>5, <1>6

Sends(f) == Fits(f) /\ form = f.form /\ bytes = Encode(f)

\* The list that is read, where its values begin in the frame, and how many
\* values were read before it.
ListOf(f, k) == IF k = "locals" THEN f.locals ELSE f.result
StartOf(f, k) == IF k = "locals" THEN 2 ELSE 3 + Len(Written(f.locals).cells)
BaseOf(f, k) == IF k = "locals" THEN 0 ELSE Written(f.locals).nodes

\* The values that are still to be written are those the open lists still have
\* to read, the innermost first.
Due(todo, pos) ==
    LET n == Len(frames)
    IN  /\ pos \in [1..(n + 1) -> Nat]
        /\ pos[n + 1] = 0 /\ pos[1] = Len(todo)
        /\ \A i, j \in 1..(n + 1) : i <= j => pos[j] <= pos[i]
        /\ \A j \in 1..n : pos[j] = pos[j + 1] + frames[j].left
        /\ \A j \in 1..n : \A i \in (pos[j + 1] + 1)..pos[j] : todo[i].depth = j - 1

\* The decoder has read what the writer has written at w.
StepAt(f, w, pos) ==
    LET k == frames[1].kind
    IN  /\ Reaches(ListOf(f, k), w)
        /\ offset = StartOf(f, k) + Len(w.cells)
        /\ nodes = BaseOf(f, k) + w.nodes
        /\ k # "locals" => form = "response"
        /\ Due(w.todo, pos)

Lock(f) ==
    /\ ~Refused
    /\ frames # <<>> => \E w, pos : StepAt(f, w, pos)

InLockstep == \A f \in Sent : Sends(f) => Lock(f)

\* The parts of a frame.
Parts(f, W, R) ==
    /\ f.locals \in Seq(Value) /\ f.result \in Seq(Value)
    /\ W \in WriterState /\ R \in WriterState /\ W.todo = <<>> /\ R.todo = <<>>
    /\ f.form \in {"state", "response"} /\ Len(f.result) \in {0, 1}
    /\ W.nodes + R.nodes <= MaxNodes /\ Len(Encode(f)) <= MaxBytes
    /\ Encode(f)[1] = Magic[f.form] /\ Encode(f)[2] = Len(f.locals)
    /\ \A i \in 1..Len(W.cells) : Encode(f)[2 + i] = W.cells[i]
    /\ f.form = "state" => Len(Encode(f)) = 2 + Len(W.cells)
    /\ f.form = "response" =>
          /\ Len(Encode(f)) = (3 + Len(W.cells)) + Len(R.cells)
          /\ Encode(f)[3 + Len(W.cells)] = Len(f.result)
          /\ \A i \in 1..Len(R.cells) : Encode(f)[(3 + Len(W.cells)) + i] = R.cells[i]

\* A frame within the limits consists of its parts.
LEMMA FrameParts ==
    ASSUME NEW f \in Sent, Fits(f), NEW W, W = Written(f.locals), NEW R, R = Written(f.result)
    PROVE  Parts(f, W, R)
<1>1. /\ f.locals \in Seq(Value) /\ f.result \in Seq(Value) /\ f.form \in {"state", "response"}
      /\ Len(f.result) <= IF f.form = "response" THEN 1 ELSE 0
  BY SentAssumption
<1>2. Len(f.result) \in {0, 1} /\ Len(f.locals) \in Nat
  <2>1. Len(f.result) \in Nat /\ Len(f.locals) \in Nat
    BY <1>1
  <2>2. Len(f.result) <= 1
    BY <1>1, <2>1
  <2>3. \A n \in Nat : n <= 1 => n \in {0, 1}
    OBVIOUS
  <2>4. QED
    BY <2>1, <2>2, <2>3, Zenon
<1>3. W.todo = <<>> /\ R.todo = <<>> /\ W.nodes + R.nodes <= MaxNodes /\ Len(Encode(f)) <= MaxBytes
  BY DEF Fits, Encodes
<1>4. W \in WriterState /\ R \in WriterState
  BY <1>1, <1>3, BeginReached, Reached
<1>5. W.cells \in Seq(Nat) /\ R.cells \in Seq(Nat) /\ Len(W.cells) \in Nat
  BY <1>4 DEF WriterState
<1>6. PICK m \in Nat : m = Magic[f.form]
  <2>1. Magic["state"] = 256 /\ Magic["response"] = 257
    BY DEF Magic
  <2>2. QED
    BY <1>1, <2>1
<1> DEFINE two == <<m, Len(f.locals)>>
           a == two \o W.cells
           one == <<Len(f.result)>>
           b == one \o R.cells
<1>7. two \in Seq(Nat) /\ Len(two) = 2 /\ two[1] = m /\ two[2] = Len(f.locals)
      /\ 1 \in 1..Len(two) /\ 2 \in 1..Len(two)
  BY <1>2, <1>6
<1>8. one \in Seq(Nat) /\ Len(one) = 1 /\ one[1] = Len(f.result) /\ 1 \in 1..Len(one)
  BY <1>2
<1> HIDE DEF two, one
<1>9. /\ a \in Seq(Nat) /\ Len(a) = 2 + Len(W.cells) /\ a[1] = m /\ a[2] = Len(f.locals)
      /\ \A i \in 1..Len(W.cells) : a[2 + i] = W.cells[i]
  <2>1. /\ two \o W.cells \in Seq(Nat) /\ Len(two \o W.cells) = Len(two) + Len(W.cells)
        /\ \A i \in 1..Len(two) : (two \o W.cells)[i] = two[i]
        /\ \A i \in 1..Len(W.cells) : (two \o W.cells)[Len(two) + i] = W.cells[i]
    BY <1>5, <1>7, TwoConcat
  <2>2. QED
    BY <1>7, <2>1, Zenon
<1>10. /\ b \in Seq(Nat) /\ Len(b) = 1 + Len(R.cells) /\ b[1] = Len(f.result)
       /\ \A i \in 1..Len(R.cells) : b[1 + i] = R.cells[i] /\ Len(R.cells) \in Nat
  <2>1. /\ one \o R.cells \in Seq(Nat) /\ Len(one \o R.cells) = Len(one) + Len(R.cells)
        /\ \A i \in 1..Len(one) : (one \o R.cells)[i] = one[i]
        /\ \A i \in 1..Len(R.cells) : (one \o R.cells)[Len(one) + i] = R.cells[i]
        /\ Len(R.cells) \in Nat
    BY <1>5, <1>8, TwoConcat
  <2>2. QED
    BY <1>8, <2>1, Zenon
<1> HIDE DEF a, b
<1>11. CASE f.form = "state"
  <2>1. Encode(f) = a \o <<>>
    BY <1>6, <1>11, Zenon DEF Encode, a, two
  <2>2. Encode(f) = a
    BY <1>9, <2>1
  <2>3. QED
    BY <1>1, <1>2, <1>3, <1>4, <1>6, <1>9, <1>11, <2>2 DEF Parts
<1>12. CASE f.form = "response"
  <2>1. Encode(f) = a \o b
    BY <1>6, <1>12 DEF Encode, a, b, two, one
  <2>2. /\ Len(a \o b) = (2 + Len(W.cells)) + (1 + Len(R.cells))
        /\ \A i \in 1..(2 + Len(W.cells)) : (a \o b)[i] = a[i]
        /\ \A i \in 1..(1 + Len(R.cells)) : (a \o b)[(2 + Len(W.cells)) + i] = b[i]
        /\ Len(R.cells) \in Nat
    <3>1. Len(R.cells) \in Nat
      BY <1>5
    <3>2. /\ Len(a \o b) = Len(a) + Len(b)
          /\ \A i \in 1..Len(a) : (a \o b)[i] = a[i]
          /\ \A i \in 1..Len(b) : (a \o b)[Len(a) + i] = b[i]
      BY <1>9, <1>10, TwoConcat
    <3>3. QED
      BY <1>9, <1>10, <3>1, <3>2, Zenon
  <2>3. \A p, q \in Nat : /\ (2 + p) + (1 + q) = (3 + p) + q /\ 1 \in 1..(2 + p) /\ 2 \in 1..(2 + p)
                          /\ 1 \in 1..(1 + q) /\ (2 + p) + 1 = 3 + p
                          /\ \A i \in 1..p : 2 + i \in 1..(2 + p)
                          /\ \A i \in 1..q : 1 + i \in 1..(1 + q) /\ (2 + p) + (1 + i) = (3 + p) + i
    OBVIOUS
  <2>4. /\ Len(a \o b) = (3 + Len(W.cells)) + Len(R.cells)
        /\ (a \o b)[1] = a[1] /\ (a \o b)[2] = a[2]
        /\ \A i \in 1..Len(W.cells) : (a \o b)[2 + i] = a[2 + i]
        /\ (a \o b)[3 + Len(W.cells)] = b[1]
        /\ \A i \in 1..Len(R.cells) : (a \o b)[(3 + Len(W.cells)) + i] = b[1 + i]
    <3> DEFINE ab == a \o b
    <3>1. PICK p \in Nat : p = Len(W.cells)
      BY <1>5
    <3>2. PICK r \in Nat : r = Len(R.cells)
      BY <2>2
    <3>3. /\ Len(ab) = (2 + p) + (1 + r)
          /\ \A i \in 1..(2 + p) : ab[i] = a[i]
          /\ \A i \in 1..(1 + r) : ab[(2 + p) + i] = b[i]
      BY <2>2, <3>1, <3>2, Zenon
    <3> HIDE DEF ab
    <3>4. /\ Len(ab) = (3 + p) + r /\ ab[1] = a[1] /\ ab[2] = a[2]
          /\ \A i \in 1..p : ab[2 + i] = a[2 + i]
      BY <3>3
    <3>5. /\ ab[3 + p] = b[1]
          /\ \A i \in 1..r : ab[(3 + p) + i] = b[1 + i]
      <4>1. /\ 1 \in 1..(1 + r) /\ (2 + p) + 1 = 3 + p
            /\ \A i \in 1..r : 1 + i \in 1..(1 + r) /\ (2 + p) + (1 + i) = (3 + p) + i
        OBVIOUS
      <4>2. QED
        BY <3>3, <4>1, Zenon
    <3>6. QED
      BY <3>1, <3>2, <3>4, <3>5, Zenon DEF ab
  <2>5. QED
    BY <1>1, <1>2, <1>3, <1>4, <1>6, <1>9, <1>10, <1>12, <2>1, <2>4 DEF Parts
<1>13. QED
  BY <1>1, <1>11, <1>12

\* The list that is read is in the frame, cell by cell.
LEMMA ListParts ==
    ASSUME NEW f \in Sent, Sends(f), NEW k, k # "locals" => form = "response",
           NEW W, W = Written(ListOf(f, k))
    PROVE  /\ ListOf(f, k) \in Seq(Value) /\ W \in WriterState /\ W.todo = <<>>
           /\ StartOf(f, k) \in Nat /\ BaseOf(f, k) \in Nat
           /\ StartOf(f, k) + Len(W.cells) <= Len(bytes)
           /\ \A i \in 1..Len(W.cells) : bytes[StartOf(f, k) + i] = W.cells[i]
           /\ BaseOf(f, k) + W.nodes <= MaxNodes
<1>1. Fits(f) /\ form = f.form /\ bytes = Encode(f)
  BY DEF Sends
<1>a. PICK A : A = Written(f.locals)
  OBVIOUS
<1>b. PICK B : B = Written(f.result)
  OBVIOUS
<1>2. /\ f.locals \in Seq(Value) /\ f.result \in Seq(Value)
      /\ A \in WriterState /\ B \in WriterState /\ A.todo = <<>> /\ B.todo = <<>>
      /\ f.form \in {"state", "response"} /\ A.nodes + B.nodes <= MaxNodes
      /\ \A i \in 1..Len(A.cells) : Encode(f)[2 + i] = A.cells[i]
      /\ f.form = "state" => Len(Encode(f)) = 2 + Len(A.cells)
      /\ f.form = "response" =>
            /\ Len(Encode(f)) = (3 + Len(A.cells)) + Len(B.cells)
            /\ \A i \in 1..Len(B.cells) : Encode(f)[(3 + Len(A.cells)) + i] = B.cells[i]
  <2>1. Fits(f)
    BY <1>1
  <2>2. Parts(f, A, B)
    BY <1>a, <1>b, <2>1, FrameParts
  <2>3. QED
    BY <2>2, Zenon DEF Parts
<1>3. /\ A.nodes \in Nat /\ B.nodes \in Nat /\ Len(A.cells) \in Nat /\ Len(B.cells) \in Nat
  <2>1. A.cells \in Seq(Nat) /\ B.cells \in Seq(Nat) /\ A.nodes \in Nat /\ B.nodes \in Nat
    BY <1>2 DEF WriterState
  <2>2. QED
    BY <2>1
<1>4. MaxNodes \in Nat
  BY LimitsAssumption
<1>5. CASE k = "locals"
  <2>1. ListOf(f, k) = f.locals /\ W = A /\ StartOf(f, k) = 2 /\ BaseOf(f, k) = 0
    BY <1>5, <1>a DEF ListOf, StartOf, BaseOf
  <2>2. 2 + Len(A.cells) <= Len(Encode(f))
    <3>1. CASE f.form = "state"
      BY <1>2, <1>3, <3>1
    <3>2. CASE f.form = "response"
      <4>1. \A p, q \in Nat : 2 + p <= (3 + p) + q
        OBVIOUS
      <4>2. QED
        BY <1>2, <1>3, <3>2, <4>1, Zenon
    <3>3. QED
      BY <1>2, <3>1, <3>2
  <2>3. 0 + A.nodes <= MaxNodes
    BY <1>2, <1>3, <1>4
  <2>4. QED
    BY <1>1, <1>2, <2>1, <2>2, <2>3
<1>6. CASE k # "locals"
  <2>1. ListOf(f, k) = f.result /\ W = B /\ StartOf(f, k) = 3 + Len(A.cells)
        /\ BaseOf(f, k) = A.nodes /\ f.form = "response"
    BY <1>1, <1>6, <1>a, <1>b DEF ListOf, StartOf, BaseOf
  <2>2. 3 + Len(A.cells) \in Nat /\ (3 + Len(A.cells)) + Len(B.cells) <= Len(Encode(f))
    <3>1. \A p, q \in Nat : 3 + p \in Nat /\ (3 + p) + q <= (3 + p) + q
      OBVIOUS
    <3>2. QED
      BY <1>2, <1>3, <2>1, <3>1, Zenon
  <2>3. QED
    BY <1>1, <1>2, <1>3, <2>1, <2>2
<1>7. QED
  BY <1>5, <1>6

\* What is due of the lists that are open when a value has been taken from the
\* innermost one, and m others are to be read before the rest.
Lowered(todo, q, m) ==
    LET L == Len(frames)
    IN  /\ q \in [1..(L + 1) -> Nat]
        /\ q[L + 1] = m /\ q[1] = Len(todo)
        /\ \A i, j \in 1..(L + 1) : i <= j => q[j] <= q[i]
        /\ \A j \in 1..L : q[j] = q[j + 1] + OneLess[j].left
        /\ \A j \in 1..L : \A i \in (q[j + 1] + 1)..q[j] : todo[i].depth = j - 1

\* The next value to be written is the next one to be read, at the same depth; then
\* one less is to be read, and its items.
LEMMA LowerDue ==
    ASSUME frames \in Seq(OpenFrame), frames # <<>>, Top.left > 0,
           NEW w \in WriterState, NEW pos, Due(w.todo, pos)
    PROVE  /\ w.todo # <<>> /\ Head(w.todo).depth = Len(frames) - 1
           /\ \E q : Lowered(WriteNext(w).todo, q, Len(Items(Head(w.todo).value)))
<1>l. PICK L : L = Len(frames)
  OBVIOUS
<1>1. /\ L \in Nat \ {0} /\ \A j \in 1..L : frames[j].left \in Nat
      /\ frames[L].left > 0
  <2>1. \A j \in 1..L : frames[j] \in OpenFrame
    BY <1>l
  <2>2. \A j \in 1..L : frames[j].left \in Nat
    BY <2>1 DEF OpenFrame
  <2>3. L \in Nat \ {0} /\ frames[L].left > 0
    BY <1>l DEF Top
  <2>4. QED
    BY <2>2, <2>3
<1>2. /\ pos \in [1..(L + 1) -> Nat]
      /\ pos[L + 1] = 0 /\ pos[1] = Len(w.todo)
      /\ \A i, j \in 1..(L + 1) : i <= j => pos[j] <= pos[i]
      /\ \A j \in 1..L : pos[j] = pos[j + 1] + frames[j].left
      /\ \A j \in 1..L : \A i \in (pos[j + 1] + 1)..pos[j] : w.todo[i].depth = j - 1
  BY <1>l DEF Due
<1>3. /\ L \in 1..L /\ 1 \in 1..L /\ L \in 1..(L + 1) /\ 1 \in 1..(L + 1) /\ L + 1 \in 1..(L + 1)
      /\ \A j \in 1..L : j \in 1..(L + 1) /\ j + 1 \in 1..(L + 1) /\ j # L + 1 /\ j <= L
                         /\ (j # L => j + 1 \in 1..L)
  BY <1>1
<1>4. \A j \in 1..L : pos[j] \in Nat \ {0} /\ pos[j] <= Len(w.todo) /\ pos[L] <= pos[j]
  <2>1. pos[L] \in Nat \ {0}
    BY <1>1, <1>2, <1>3
  <2>2. ASSUME NEW j \in 1..L
        PROVE  pos[j] \in Nat \ {0} /\ pos[j] <= Len(w.todo) /\ pos[L] <= pos[j]
    <3>1. pos[j] \in Nat /\ pos[L] <= pos[j] /\ pos[j] <= pos[1]
      <4>1. 1 <= j /\ j <= L
        BY <1>1
      <4>2. QED
        BY <1>2, <1>3, <4>1
    <3>2. QED
      BY <1>2, <2>1, <3>1
  <2>3. QED
    BY <2>2
<1>5. w.todo \in Seq(TodoItem) /\ Len(w.todo) \in Nat \ {0} /\ w.todo # <<>>
  <2>1. w.todo \in Seq(TodoItem)
    BY DEF WriterState
  <2>2. Len(w.todo) \in Nat /\ Len(w.todo) # 0
    <3>1. pos[1] \in Nat \ {0}
      BY <1>3, <1>4
    <3>2. QED
      BY <1>2, <3>1
  <2>3. QED
    BY <2>1, <2>2
<1>6. Head(w.todo).depth = L - 1
  <2>1. 1 \in (pos[L + 1] + 1)..pos[L]
    BY <1>2, <1>3, <1>4
  <2>2. w.todo[1].depth = L - 1
    BY <1>2, <1>3, <2>1
  <2>3. Head(w.todo) = w.todo[1]
    BY <1>5
  <2>4. QED
    BY <2>2, <2>3
<1> DEFINE items == Items(Head(w.todo).value)
           x == WriteNext(w)
<1>7. PICK m : m = Len(items)
  OBVIOUS
<1>8. /\ m \in Nat /\ Len(x.todo) = m + (Len(w.todo) - 1)
      /\ \A i \in 1..(Len(w.todo) - 1) : x.todo[m + i] = w.todo[i + 1]
  <2>1. /\ Head(w.todo).value \in Value
        /\ Len(x.todo) = Len(items) + (Len(w.todo) - 1)
        /\ \A i \in 1..(Len(w.todo) - 1) : x.todo[Len(items) + i] = w.todo[i + 1]
    BY <1>5, WriteNextType
  <2>2. items \in Seq(Value)
    BY <2>1, ValueHead
  <2> HIDE DEF items, x
  <2>3. Len(items) \in Nat
    BY <2>2
  <2>4. QED
    BY <1>7, <2>1, <2>3
<1> HIDE DEF items, x
<1>q. PICK q : q = [j \in 1..(L + 1) |-> IF j = L + 1 THEN m ELSE m + (pos[j] - 1)]
  OBVIOUS
<1>9. /\ q[L + 1] = m
      /\ \A j \in 1..L : q[j] = m + (pos[j] - 1) /\ q[j] \in Nat /\ m <= q[j]
  <2>1. q[L + 1] = m
    BY <1>q, <1>3
  <2>2. \A j \in 1..L : q[j] = m + (pos[j] - 1)
    BY <1>q, <1>3
  <2>3. \A a \in Nat : \A b \in Nat \ {0} : a + (b - 1) \in Nat /\ a <= a + (b - 1)
    OBVIOUS
  <2>4. QED
    BY <1>4, <1>8, <2>1, <2>2, <2>3
<1>10. q \in [1..(L + 1) -> Nat]
  <2>1. \A j \in 1..(L + 1) : j \in 1..L \/ j = L + 1
    BY <1>1
  <2>2. \A j \in 1..(L + 1) : q[j] \in Nat
    BY <1>8, <1>9, <2>1
  <2>3. q = [j \in 1..(L + 1) |-> q[j]]
    BY <1>q
  <2>4. QED
    BY <2>2, <2>3
<1>11. q[1] = Len(x.todo)
  BY <1>2, <1>3, <1>8, <1>9
<1>12. ASSUME NEW i \in 1..(L + 1), NEW j \in 1..(L + 1), i <= j
       PROVE  q[j] <= q[i]
  <2>1. \A k \in 1..(L + 1) : k \in 1..L \/ k = L + 1
    BY <1>1
  <2>2. CASE j \in 1..L /\ i \in 1..L
    <3>1. pos[j] <= pos[i] /\ pos[j] \in Nat /\ pos[i] \in Nat
      BY <1>2, <1>3, <1>4, <1>12
    <3>2. \A a, b, c \in Nat : a <= b => c + (a - 1) <= c + (b - 1)
      OBVIOUS
    <3>3. QED
      BY <1>8, <1>9, <2>2, <3>1, <3>2
  <2>3. CASE j = L + 1 /\ i \in 1..L
    BY <1>9, <2>3
  <2>4. CASE j = L + 1 /\ i = L + 1
    BY <1>8, <1>9, <2>4
  <2>5. CASE j \in 1..L /\ i = L + 1
    BY <1>1, <1>12, <2>5
  <2>6. QED
    BY <2>1, <2>2, <2>3, <2>4, <2>5
<1>13. ASSUME NEW j \in 1..L
       PROVE  /\ q[j] = q[j + 1] + OneLess[j].left
              /\ \A i \in (q[j + 1] + 1)..q[j] : x.todo[i].depth = j - 1
  <2>1. CASE j = L
    <3>1. OneLess[L].left = frames[L].left - 1 /\ pos[L] = 0 + frames[L].left
      BY <1>l, <1>2, <1>3, OneLessLeft DEF Top
    <3>2. q[L] = q[L + 1] + OneLess[L].left
      BY <1>1, <1>3, <1>9, <3>1
    <3>3. ASSUME NEW i \in (m + 1)..(m + (pos[L] - 1)) PROVE x.todo[i].depth = L - 1
      <4>1. pos[L] \in Nat \ {0} /\ pos[L] <= Len(w.todo)
        BY <1>3, <1>4
      <4>2. i - m \in 1..(Len(w.todo) - 1) /\ m + (i - m) = i /\ (i - m) + 1 \in (0 + 1)..pos[L]
        <5>1. PICK a \in Nat : a = pos[L]
          BY <4>1
        <5>2. PICK t \in Nat : t = Len(w.todo)
          BY <1>5
        <5>3. m \in Nat
          BY <1>8
        <5>4. a # 0 /\ a <= t /\ i \in (m + 1)..(m + (a - 1))
          BY <4>1, <5>1, <5>2, Zenon
        <5>5. i - m \in 1..(t - 1) /\ m + (i - m) = i /\ (i - m) + 1 \in (0 + 1)..a
          BY <5>3, <5>4
        <5>6. QED
          BY <5>1, <5>2, <5>5, Zenon
      <4>3. x.todo[i] = w.todo[(i - m) + 1]
        BY <1>8, <4>2
      <4>4. w.todo[(i - m) + 1].depth = L - 1
        BY <1>2, <1>3, <4>2
      <4>5. QED
        BY <4>3, <4>4
    <3>4. q[L] = m + (pos[L] - 1)
      BY <1>3, <1>9
    <3>5. QED
      BY <1>9, <2>1, <3>2, <3>3, <3>4
  <2>2. CASE j # L
    <3>1. j + 1 \in 1..L /\ j < L /\ j \in 1..L
      BY <1>1, <2>2
    <3>2. OneLess[j] = frames[j]
      <4>1. j \in 1..(L - 1)
        BY <1>1, <2>2
      <4>2. QED
        BY <1>l, <4>1, OneLessLeft
    <3>3. /\ pos[j] = pos[j + 1] + frames[j].left /\ frames[j].left \in Nat
          /\ pos[j] \in Nat \ {0} /\ pos[j + 1] \in Nat \ {0} /\ pos[j] <= Len(w.todo)
          /\ q[j] = m + (pos[j] - 1) /\ q[j + 1] = m + (pos[j + 1] - 1)
      BY <1>1, <1>2, <1>4, <1>9, <3>1
    <3>4. q[j] = q[j + 1] + OneLess[j].left
      <4>3. q[j] = q[j + 1] + frames[j].left
        <5>1. pos[j] \in Nat /\ pos[j + 1] \in Nat /\ frames[j].left \in Nat /\ m \in Nat
          BY <1>8, <3>3
        <5>2. /\ pos[j] = pos[j + 1] + frames[j].left
              /\ q[j] = m + (pos[j] - 1) /\ q[j + 1] = m + (pos[j + 1] - 1)
          BY <3>3
        <5>3. \A a, b, d \in Nat : d = a + b => m + (d - 1) = (m + (a - 1)) + b
          BY <5>1
        <5>4. m + (pos[j] - 1) = (m + (pos[j + 1] - 1)) + frames[j].left
          BY <5>1, <5>2, <5>3, Zenon
        <5>5. QED
          BY <5>2, <5>4, Zenon
      <4>4. QED
        BY <3>2, <4>3
    <3>5. ASSUME NEW i \in ((m + (pos[j + 1] - 1)) + 1)..(m + (pos[j] - 1))
          PROVE x.todo[i].depth = j - 1
      <4>1. /\ i - m \in 1..(Len(w.todo) - 1) /\ m + (i - m) = i
            /\ (i - m) + 1 \in (pos[j + 1] + 1)..pos[j]
        <5>1. \A a, b, c, t \in Nat : a # 0 /\ b # 0 /\ b <= t =>
                 \A h \in ((c + (a - 1)) + 1)..(c + (b - 1)) :
                    h - c \in 1..(t - 1) /\ c + (h - c) = h /\ (h - c) + 1 \in (a + 1)..b
          OBVIOUS
        <5>2. pos[j] \in Nat /\ pos[j] # 0 /\ pos[j + 1] \in Nat /\ pos[j + 1] # 0
              /\ Len(w.todo) \in Nat /\ m \in Nat
          BY <1>5, <1>8, <3>3
        <5>3. QED
          BY <3>3, <3>5, <5>1, <5>2, Zenon
      <4>2. x.todo[i] = w.todo[(i - m) + 1]
        BY <1>8, <4>1
      <4>3. w.todo[(i - m) + 1].depth = j - 1
        BY <1>2, <4>1
      <4>4. QED
        BY <4>2, <4>3
    <3>6. QED
      BY <3>3, <3>4, <3>5
  <2>3. QED
    BY <2>1, <2>2
<1>14. Lowered(x.todo, q, m)
  BY <1>l, <1>9, <1>10, <1>11, <1>12, <1>13 DEF Lowered
<1>15. QED
  BY <1>l, <1>5, <1>6, <1>7, <1>14 DEF x, items

\* A scalar has been read.
LEMMA DueScalar ==
    ASSUME frames \in Seq(OpenFrame), frames # <<>>, Top.left > 0, frames' = OneLess,
           NEW todo, NEW q, Lowered(todo, q, 0)
    PROVE  Due(todo, q)'
<1>1. Len(frames') = Len(frames)
  BY OneLessType
<1>2. QED
  BY <1>1 DEF Lowered, Due

\* A collection of m values begins.
LEMMA DueOpen ==
    ASSUME frames \in Seq(OpenFrame), frames # <<>>, Top.left > 0,
           NEW new \in OpenFrame, frames' = Append(OneLess, new),
           NEW todo, NEW q, Lowered(todo, q, new.left),
           \A i \in 1..new.left : todo[i].depth = Len(frames)
    PROVE  \E pos : Due(todo, pos)'
<1>l. PICK L : L = Len(frames)
  OBVIOUS
<1>m. PICK m : m = new.left
  OBVIOUS
<1>1. L \in Nat \ {0} /\ m \in Nat
  BY <1>l, <1>m DEF OpenFrame
<1>2. /\ Len(frames') = L + 1 /\ frames'[L + 1] = new
      /\ \A j \in 1..L : frames'[j] = OneLess[j]
  <2>1. OneLess \in Seq(OpenFrame) /\ Len(OneLess) = L
    BY <1>l, OneLessType
  <2>2. QED
    BY <1>1, <2>1, AppendProperties
<1>3. /\ q \in [1..(L + 1) -> Nat]
      /\ q[L + 1] = m /\ q[1] = Len(todo)
      /\ \A i, j \in 1..(L + 1) : i <= j => q[j] <= q[i]
      /\ \A j \in 1..L : q[j] = q[j + 1] + OneLess[j].left
      /\ \A j \in 1..L : \A i \in (q[j + 1] + 1)..q[j] : todo[i].depth = j - 1
  BY <1>l, <1>m DEF Lowered
<1>p. PICK pos : pos = [j \in 1..(L + 2) |-> IF j = L + 2 THEN 0 ELSE q[j]]
  OBVIOUS
<1>4. /\ (L + 1) + 1 = L + 2
      /\ \A j \in 1..(L + 1) : j \in 1..(L + 2) /\ j # L + 2
      /\ \A j \in 1..(L + 2) : j \in 1..(L + 1) \/ j = L + 2
      /\ \A j \in 1..L : j \in 1..(L + 1) /\ j + 1 \in 1..(L + 1)
      /\ \A j \in 1..(L + 1) : j \in 1..L \/ j = L + 1
      /\ L + 2 \in 1..(L + 2) /\ L + 1 \in 1..(L + 1) /\ 1 \in 1..(L + 1) /\ (L + 1) - 1 = L
      /\ \A j \in 1..(L + 1) : ~(L + 2 <= j)
  BY <1>1
<1>5. /\ pos[L + 2] = 0 /\ \A j \in 1..(L + 1) : pos[j] = q[j] /\ pos[j] \in Nat
  BY <1>3, <1>4, <1>p
<1>6. pos \in [1..(L + 2) -> Nat]
  <2>1. \A j \in 1..(L + 2) : pos[j] \in Nat
    BY <1>4, <1>5
  <2>2. pos = [j \in 1..(L + 2) |-> pos[j]]
    BY <1>p
  <2>3. QED
    BY <2>1, <2>2
<1>7. ASSUME NEW i \in 1..(L + 2), NEW j \in 1..(L + 2), i <= j
      PROVE  pos[j] <= pos[i]
  <2>1. CASE j = L + 2
    BY <1>5, <1>6, <2>1
  <2>2. CASE j # L + 2
    <3>1. j \in 1..(L + 1) /\ i \in 1..(L + 1)
      BY <1>4, <1>7, <2>2
    <3>2. QED
      BY <1>3, <1>5, <1>7, <3>1
  <2>3. QED
    BY <2>1, <2>2
<1>8. ASSUME NEW j \in 1..(L + 1)
      PROVE  /\ pos[j] = pos[j + 1] + frames'[j].left
             /\ \A i \in (pos[j + 1] + 1)..pos[j] : todo[i].depth = j - 1
  <2>1. CASE j = L + 1
    <3>1. pos[j] = m /\ pos[j + 1] = 0 /\ frames'[j].left = m /\ j - 1 = L
      BY <1>2, <1>3, <1>4, <1>5, <1>m, <2>1
    <3>2. m = 0 + m /\ 0 + 1 = 1
      BY <1>1
    <3>3. QED
      BY <1>l, <1>m, <3>1, <3>2
  <2>2. CASE j # L + 1
    <3>1. j \in 1..L /\ j + 1 \in 1..(L + 1)
      BY <1>4, <2>2
    <3>2. QED
      BY <1>2, <1>3, <1>5, <3>1
  <2>3. QED
    BY <2>1, <2>2
<1>9. Due(todo, pos)'
  <2>1. Len(frames') + 1 = L + 2 /\ pos[1] = Len(todo)
    BY <1>2, <1>3, <1>4, <1>5
  <2>2. QED
    BY <1>2, <1>5, <1>6, <1>7, <1>8, <2>1 DEF Due
<1>10. QED
  BY <1>9

\* All values of a collection have been read.
LEMMA DueClose ==
    ASSUME frames \in Seq(OpenFrame), Len(frames) > 1, Top.left = 0,
           frames' = SubSeq(frames, 1, Len(frames) - 1),
           NEW todo, NEW pos, Due(todo, pos)
    PROVE  \E p : Due(todo, p)'
<1>l. PICK L : L = Len(frames)
  OBVIOUS
<1>1. /\ L \in Nat /\ L > 1 /\ Len(frames') = L - 1
      /\ \A j \in 1..(L - 1) : frames'[j] = frames[j]
      /\ frames[L].left = 0
  BY <1>l DEF Top
<1>2. /\ pos \in [1..(L + 1) -> Nat]
      /\ pos[L + 1] = 0 /\ pos[1] = Len(todo)
      /\ \A i, j \in 1..(L + 1) : i <= j => pos[j] <= pos[i]
      /\ \A j \in 1..L : pos[j] = pos[j + 1] + frames[j].left
      /\ \A j \in 1..L : \A i \in (pos[j + 1] + 1)..pos[j] : todo[i].depth = j - 1
  BY <1>l DEF Due
<1>3. /\ \A j \in 1..L : j \in 1..(L + 1) /\ L \in 1..L /\ 1 \in 1..L /\ (L - 1) + 1 = L
      /\ \A j \in 1..(L - 1) : j \in 1..L /\ j + 1 \in 1..L
      /\ (L - 1) + 1 = L /\ L \in 1..L /\ 1 \in 1..L
  BY <1>1
<1>p. PICK p : p = [j \in 1..L |-> pos[j]]
  OBVIOUS
<1>4. p \in [1..L -> Nat] /\ \A j \in 1..L : p[j] = pos[j]
  BY <1>2, <1>3, <1>p
<1>5. p[L] = 0
  <2>1. pos[L] = 0 + 0
    BY <1>1, <1>2, <1>3
  <2>2. QED
    BY <1>3, <1>4, <2>1
<1>6. Due(todo, p)'
  <2>1. Len(frames') + 1 = L /\ p[1] = Len(todo)
    BY <1>1, <1>2, <1>3, <1>4
  <2>2. \A i, j \in 1..L : i <= j => p[j] <= p[i]
    BY <1>2, <1>3, <1>4
  <2>3. \A j \in 1..(L - 1) : /\ p[j] = p[j + 1] + frames'[j].left
                              /\ \A i \in (p[j + 1] + 1)..p[j] : todo[i].depth = j - 1
    <3>1. ASSUME NEW j \in 1..(L - 1)
          PROVE  /\ p[j] = p[j + 1] + frames'[j].left
                 /\ \A i \in (p[j + 1] + 1)..p[j] : todo[i].depth = j - 1
      <4>1. p[j] = pos[j] /\ p[j + 1] = pos[j + 1] /\ frames'[j] = frames[j] /\ j \in 1..L
        BY <1>1, <1>3, <1>4
      <4>2. QED
        BY <1>2, <4>1
    <3>2. QED
      BY <3>1
  <2>4. QED
    BY <1>1, <1>4, <1>5, <2>1, <2>2, <2>3 DEF Due
<1>7. QED
  BY <1>6

\* The value that is read next is the one that was written next, in full.
ValueAt(f, w, v, x) ==
    /\ v = Head(w.todo).value /\ v \in Value /\ x = WriteNext(w) /\ x \in WriterState
    /\ Reaches(ListOf(f, frames[1].kind), x)
    /\ Depth <= MaxNesting /\ nodes < MaxNodes
    /\ offset + (Len(HeadCells(v)) + Len(Items(v))) <= Len(bytes)
    /\ \A i \in 1..Len(HeadCells(v)) : bytes[offset + i] = HeadCells(v)[i]
    /\ offset + Len(HeadCells(v)) = StartOf(f, frames[1].kind) + Len(x.cells)
    /\ nodes + 1 = BaseOf(f, frames[1].kind) + x.nodes
    /\ \E q : Lowered(x.todo, q, Len(Items(v)))
    /\ \A i \in 1..Len(Items(v)) : x.todo[i].depth = Len(frames)
    /\ frames[1].kind # "locals" => form = "response"

\* The decoder is at the value that the writer wrote next.
LEMMA NextValue ==
    ASSUME Inv, NEW f \in Sent, Sends(f), NEW w, NEW pos, StepAt(f, w, pos),
           frames # <<>>, Top.left > 0
    PROVE  \E v, x : ValueAt(f, w, v, x)
<1>k. PICK k : k = frames[1].kind
  OBVIOUS
<1>1. /\ Reaches(ListOf(f, k), w) /\ offset = StartOf(f, k) + Len(w.cells)
      /\ nodes = BaseOf(f, k) + w.nodes /\ Due(w.todo, pos)
      /\ k # "locals" => form = "response"
  BY <1>k DEF StepAt
<1>W. PICK W : W = Written(ListOf(f, k))
  OBVIOUS
<1>2. /\ ListOf(f, k) \in Seq(Value) /\ W \in WriterState /\ W.todo = <<>>
      /\ StartOf(f, k) \in Nat /\ BaseOf(f, k) \in Nat
      /\ StartOf(f, k) + Len(W.cells) <= Len(bytes)
      /\ \A i \in 1..Len(W.cells) : bytes[StartOf(f, k) + i] = W.cells[i]
      /\ BaseOf(f, k) + W.nodes <= MaxNodes
  <2>1. k # "locals" => form = "response"
    BY <1>1
  <2>2. QED
    BY <1>W, <2>1, ListParts
<1>3. w \in WriterState
  BY <1>1, <1>2, <1>W, Reached
<1>4. frames \in Seq(OpenFrame) /\ Len(bytes) \in Nat /\ Len(frames) \in Nat
  BY DEF Inv, TypeOK
<1>5. w.todo # <<>> /\ Head(w.todo).depth = Len(frames) - 1
      /\ \E q : Lowered(WriteNext(w).todo, q, Len(Items(Head(w.todo).value)))
  BY <1>1, <1>3, <1>4, LowerDue
<1>v. PICK v : v = Head(w.todo).value
  OBVIOUS
<1>x. PICK x : x = WriteNext(w)
  OBVIOUS
<1>H. PICK H : H = HeadCells(v)
  OBVIOUS
<1>6. ~Stops(w) /\ Reaches(ListOf(f, k), x)
  BY <1>1, <1>2, <1>5, <1>W, <1>x, Reached
<1>7. Depth <= MaxNesting
  BY <1>4, <1>5, <1>6, LimitsAssumption DEF Stops, Depth
<1>8. Ahead(x, W) /\ x \in WriterState
  BY <1>2, <1>6, <1>W, Reached
<1>9. /\ v \in Value /\ x.nodes = w.nodes + 1
      /\ Len(x.cells) = Len(w.cells) + Len(H)
      /\ \A i \in 1..Len(H) : x.cells[Len(w.cells) + i] = H[i]
      /\ Len(x.todo) = Len(Items(v)) + (Len(w.todo) - 1)
      /\ \A i \in 1..Len(Items(v)) : x.todo[i].depth = Head(w.todo).depth + 1
  BY <1>3, <1>5, <1>v, <1>x, <1>H, WriteNextType
<1>n. PICK n : n = Len(Items(v))
  OBVIOUS
<1>10. H \in Seq(Nat) /\ n \in Nat
  <2>1. HeadCells(v) \in Seq(Nat) /\ Items(v) \in Seq(Value)
    BY <1>9, ValueHead
  <2>2. QED
    BY <1>H, <1>n, <2>1
<1>11. /\ Len(H) \in Nat /\ Len(w.cells) \in Nat /\ Len(W.cells) \in Nat /\ w.nodes \in Nat
       /\ Len(w.todo) \in Nat /\ Len(w.todo) # 0 /\ W.nodes \in Nat
  <2>1. /\ w.cells \in Seq(Nat) /\ W.cells \in Seq(Nat) /\ w.todo \in Seq(TodoItem)
        /\ w.nodes \in Nat /\ W.nodes \in Nat
    BY <1>2, <1>3 DEF WriterState
  <2>2. QED
    BY <1>5, <1>10, <2>1
<1>12. /\ Len(x.cells) + Len(x.todo) <= Len(W.cells)
       /\ \A i \in 1..Len(x.cells) : W.cells[i] = x.cells[i]
       /\ x.nodes <= W.nodes
  BY <1>8 DEF Ahead
<1>s. PICK s \in Nat : s = StartOf(f, k)
  BY <1>2
<1>b. PICK b \in Nat : b = BaseOf(f, k)
  BY <1>2
<1>13. nodes < MaxNodes /\ nodes + 1 = b + x.nodes
  <2>1. MaxNodes \in Nat /\ nodes = b + w.nodes /\ b + W.nodes <= MaxNodes
    <3>1. nodes = BaseOf(f, k) + w.nodes /\ BaseOf(f, k) + W.nodes <= MaxNodes
      BY <1>1, <1>2
    <3>2. QED
      BY <1>b, <3>1, LimitsAssumption, Zenon
  <2>2. \A a, c, d, e \in Nat : c + 1 <= d /\ a + d <= e =>
           a + c < e /\ (a + c) + 1 = a + (c + 1)
    OBVIOUS
  <2>3. w.nodes + 1 <= W.nodes
    BY <1>9, <1>12
  <2>4. b + w.nodes < MaxNodes /\ (b + w.nodes) + 1 = b + (w.nodes + 1)
    BY <1>11, <2>1, <2>2, <2>3, Zenon
  <2>5. QED
    BY <1>9, <2>1, <2>4, Zenon
<1>14. offset = s + Len(w.cells) /\ s + Len(W.cells) <= Len(bytes)
       /\ \A i \in 1..Len(W.cells) : bytes[s + i] = W.cells[i]
  BY <1>1, <1>2, <1>s
<1>15. offset + (Len(H) + n) <= Len(bytes)
  <2>1. (Len(w.cells) + Len(H)) + (n + (Len(w.todo) - 1)) <= Len(W.cells)
    BY <1>9, <1>12, <1>n, Zenon
  <2>2. \A a, h, c, t, e, g, z \in Nat :
           t # 0 /\ (a + h) + (c + (t - 1)) <= e /\ g + e <= z => (g + a) + (h + c) <= z
    OBVIOUS
  <2>3. (s + Len(w.cells)) + (Len(H) + n) <= Len(bytes)
    BY <1>4, <1>10, <1>11, <1>14, <2>1, <2>2, Zenon
  <2>4. QED
    BY <1>14, <2>3, Zenon
<1>16. \A i \in 1..Len(H) : bytes[offset + i] = H[i]
  <2>1. ASSUME NEW i \in 1..Len(H) PROVE bytes[offset + i] = H[i]
    <3>0. /\ Len(w.cells) + i \in 1..Len(x.cells) /\ Len(w.cells) + i \in 1..Len(W.cells)
          /\ s + (Len(w.cells) + i) = (s + Len(w.cells)) + i
      <4>1. \A a, h, t, e, g \in Nat : (a + h) + t <= e =>
               \A j \in 1..h : a + j \in 1..(a + h) /\ a + j \in 1..e /\ g + (a + j) = (g + a) + j
        OBVIOUS
      <4>2. (Len(w.cells) + Len(H)) + (n + (Len(w.todo) - 1)) <= Len(W.cells)
        BY <1>9, <1>12, <1>n, Zenon
      <4>3. n + (Len(w.todo) - 1) \in Nat
        BY <1>10, <1>11
      <4>4. /\ Len(w.cells) + i \in 1..(Len(w.cells) + Len(H))
            /\ Len(w.cells) + i \in 1..Len(W.cells)
            /\ s + (Len(w.cells) + i) = (s + Len(w.cells)) + i
        <5>1. PICK a \in Nat : a = Len(w.cells)
          BY <1>11
        <5>2. PICK h \in Nat : h = Len(H)
          BY <1>11
        <5>3. PICK e \in Nat : e = Len(W.cells)
          BY <1>11
        <5>4. PICK t \in Nat : t = n + (Len(w.todo) - 1)
          BY <4>3
        <5>5. (a + h) + t <= e /\ i \in 1..h /\ s \in Nat
          BY <2>1, <4>2, <5>1, <5>2, <5>3, <5>4, Zenon
        <5>6. a + i \in 1..(a + h) /\ a + i \in 1..e /\ s + (a + i) = (s + a) + i
          BY <4>1, <5>5
        <5>7. QED
          BY <5>1, <5>2, <5>3, <5>6, Zenon
      <4>5. QED
        BY <1>9, <4>4
    <3>1. H[i] = x.cells[Len(w.cells) + i] /\ x.cells[Len(w.cells) + i] = W.cells[Len(w.cells) + i]
      BY <1>9, <1>12, <2>1, <3>0, Zenon
    <3>2. W.cells[Len(w.cells) + i] = bytes[s + (Len(w.cells) + i)]
      BY <1>14, <3>0, Zenon
    <3>3. QED
      BY <1>14, <3>0, <3>1, <3>2, Zenon
  <2>2. QED
    BY <2>1
<1>17. offset + Len(H) = s + Len(x.cells)
  <2>1. PICK a \in Nat : a = Len(w.cells)
    BY <1>11
  <2>2. PICK h \in Nat : h = Len(H)
    BY <1>11
  <2>3. (s + a) + h = s + (a + h)
    OBVIOUS
  <2>4. QED
    BY <1>9, <1>14, <2>1, <2>2, <2>3, Zenon
<1>18. \A i \in 1..Len(Items(v)) : x.todo[i].depth = Len(frames)
  <2>1. (Len(frames) - 1) + 1 = Len(frames)
    BY <1>4
  <2>2. QED
    BY <1>5, <1>9, <2>1
<1>19. \E q : Lowered(x.todo, q, Len(Items(v)))
  BY <1>5, <1>v, <1>x, Zenon
<1>20. /\ offset + (Len(HeadCells(v)) + Len(Items(v))) <= Len(bytes)
       /\ \A i \in 1..Len(HeadCells(v)) : bytes[offset + i] = HeadCells(v)[i]
       /\ offset + Len(HeadCells(v)) = StartOf(f, k) + Len(x.cells)
       /\ nodes + 1 = BaseOf(f, k) + x.nodes
  BY <1>15, <1>16, <1>17, <1>13, <1>H, <1>n, <1>s, <1>b
<1>21. ValueAt(f, w, v, x)
  <2>1. k # "locals" => form = "response"
    BY <1>1
  <2>2. v \in Value /\ x \in WriterState /\ Reaches(ListOf(f, k), x)
    BY <1>6, <1>8, <1>9
  <2>3. nodes < MaxNodes
    BY <1>13
  <2>4. QED
    BY <1>k, <1>7, <1>18, <1>19, <1>20, <1>v, <1>x, <2>1, <2>2, <2>3, Zenon DEF ValueAt
<1>22. QED
  BY <1>21, Zenon

\* Nothing in the cells of a value is refused.
Readable(v) ==
    /\ Has(1) /\ Cell(1) \in 0..7 /\ Kinds[Cell(1) + 1] = v.kind
    /\ v.kind = "null" => Len(HeadCells(v)) = 1
    /\ v.kind \in {"int", "float", "bool"} => Len(HeadCells(v)) = 2 /\ Has(2)
    /\ v.kind = "bool" => Cell(2) <= 1
    /\ v.kind \in {"string", "bytes"} =>
          Has(2) /\ Has(2 + Cell(2)) /\ Len(HeadCells(v)) = 2 + Cell(2)
    /\ v.kind = "string" => \A i \in 3..(2 + Cell(2)) : Cell(i) # NotText
    /\ v.kind \in {"array", "map"} =>
          /\ Len(HeadCells(v)) = 2 /\ CountFits(2, Width(v.kind))
          /\ Width(v.kind) * Cell(2) = Len(Items(v))
    /\ v.kind \notin {"array", "map"} => Len(Items(v)) = 0

\* The head of a value has what the decoder checks.
LEMMA ValueReadable ==
    ASSUME Inv, NEW f, NEW w, NEW v, NEW x, ValueAt(f, w, v, x)
    PROVE  Readable(v)
<1>H. PICK H : H = HeadCells(v)
  OBVIOUS
<1>I. PICK I : I = Items(v)
  OBVIOUS
<1>k. PICK k : k = v.kind
  OBVIOUS
<1>1. /\ v \in Value /\ offset + (Len(H) + Len(I)) <= Len(bytes)
      /\ \A i \in 1..Len(H) : bytes[offset + i] = H[i]
  BY <1>H, <1>I DEF ValueAt
<1>2. /\ H \in Seq(Nat) /\ Len(H) >= 1 /\ I \in Seq(Value)
      /\ H[1] \in 0..7 /\ Kinds[H[1] + 1] = k
      /\ k = "null" => Len(H) = 1
      /\ k \in {"int", "float"} => Len(H) = 2
      /\ k = "bool" => Len(H) = 2 /\ H[2] \in {0, 1}
      /\ k \in {"string", "bytes"} =>
            /\ Len(H) >= 2 /\ Len(H) = 2 + H[2]
            /\ k = "string" => \A i \in 3..Len(H) : H[i] # NotText
      /\ k \in {"array", "map"} => Len(H) = 2 /\ Width(k) * H[2] = Len(I)
      /\ k \notin {"array", "map"} => I = <<>>
  BY <1>1, <1>H, <1>I, <1>k, ValueHead
<1>o. PICK o \in Nat : o = offset
  BY DEF Inv, TypeOK
<1>b. PICK b \in Nat : b = Len(bytes)
  BY DEF Inv, TypeOK
<1>h. PICK h \in Nat : h = Len(H)
  BY <1>2
<1>n. PICK n \in Nat : n = Len(I)
  BY <1>2
<1>3. o + (h + n) <= b /\ h >= 1
  BY <1>1, <1>2, <1>o, <1>b, <1>h, <1>n
<1>4. \A j \in Nat : Has(j) <=> j <= b - o
  BY <1>o, <1>b DEF Has, Remaining
<1>5. \A i \in 1..h : Cell(i) = H[i]
  BY <1>1, <1>h DEF Cell
<1>6. Has(h) /\ Has(1) /\ Cell(1) = H[1]
  BY <1>3, <1>4, <1>5
<1>7. h >= 2 => Has(2) /\ Cell(2) = H[2]
  BY <1>3, <1>4, <1>5
<1>8. ASSUME k \in {"string", "bytes"}
      PROVE  /\ Has(2) /\ Has(2 + Cell(2)) /\ h = 2 + Cell(2)
             /\ k = "string" => \A i \in 3..(2 + Cell(2)) : Cell(i) # NotText
  <2>1. h >= 2 /\ h = 2 + H[2] /\ (k = "string" => \A i \in 3..h : H[i] # NotText)
    BY <1>2, <1>8, <1>h
  <2>2. h = 2 + Cell(2)
    BY <1>7, <2>1
  <2>3. \A i \in 3..h : i \in 1..h
    OBVIOUS
  <2>4. k = "string" => \A i \in 3..h : Cell(i) # NotText
    BY <1>5, <2>1, <2>3
  <2>5. Has(2 + Cell(2))
    BY <1>6, <2>2
  <2>6. QED
    BY <1>7, <2>1, <2>2, <2>4, <2>5
<1>9. ASSUME k \in {"array", "map"}
      PROVE  h = 2 /\ CountFits(2, Width(k)) /\ Width(k) * Cell(2) = n
  <2>1. h = 2 /\ Width(k) * H[2] = n
    BY <1>2, <1>9, <1>h, <1>n
  <2>2. Has(2) /\ Cell(2) = H[2] /\ H[2] \in Nat
    <3>1. H \in Seq(Nat) /\ Len(H) = 2
      BY <1>2, <1>h, <2>1
    <3>2. \A s \in Seq(Nat) : Len(s) = 2 => s[2] \in Nat
      OBVIOUS
    <3>2a. H[2] \in Nat
      BY <3>1, <3>2, Zenon
    <3>3. QED
      BY <1>7, <2>1, <3>2a
  <2>c. PICK c \in Nat : c = Cell(2)
    BY <2>2
  <2>3. Width(k) \in {1, 2} /\ Width(k) * c = n
    BY <2>1, <2>2, <2>c DEF Width
  <2>4. c <= ((b - o) - 2) \div Width(k)
    <3>1. \A y, z \in Nat : (1 * y <= z => y <= z \div 1) /\ (2 * y <= z => y <= z \div 2)
      OBVIOUS
    <3>2. n <= (b - o) - 2 /\ (b - o) - 2 \in Nat
      BY <1>3, <2>1
    <3>3. QED
      BY <2>3, <3>1, <3>2
  <2>5. CountFits(2, Width(k))
    BY <1>o, <1>b, <2>2, <2>4, <2>c DEF CountFits, Remaining
  <2>6. QED
    BY <2>1, <2>2, <2>5
<1>10. k \notin {"array", "map"} => n = 0
  <2>1. Len(<<>>) = 0
    OBVIOUS
  <2>2. QED
    BY <1>2, <1>n, <2>1
<1>11. /\ k = "null" => h = 1
       /\ k \in {"int", "float", "bool"} => h = 2 /\ Has(2)
       /\ k = "bool" => Cell(2) <= 1
  <2>1. /\ k = "null" => h = 1
        /\ k \in {"int", "float", "bool"} => h = 2
        /\ k = "bool" => H[2] \in {0, 1}
    BY <1>2, <1>h
  <2>2. h = 2 => Has(2) /\ Cell(2) = H[2]
    BY <1>7
  <2>3. \A y \in {0, 1} : y <= 1
    OBVIOUS
  <2>4. QED
    BY <2>1, <2>2, <2>3
<1>12. Has(1) /\ Cell(1) \in 0..7 /\ Kinds[Cell(1) + 1] = k
  BY <1>2, <1>6
<1>13. QED
  BY <1>8, <1>9, <1>10, <1>11, <1>12, <1>H, <1>I, <1>k, <1>h, <1>n DEF Readable

\* Of what is still being read.
Reading(f) == \E w, v, x : ValueAt(f, w, v, x) /\ Readable(v)

\* The decoder can go on.
LEMMA ReadingIfLocked ==
    ASSUME Inv, NEW f \in Sent, Sends(f), Lock(f), frames # <<>>, Top.left > 0
    PROVE  Reading(f)
<1>1. PICK w, pos : StepAt(f, w, pos)
  BY DEF Lock
<1>2. PICK v, x : ValueAt(f, w, v, x)
  BY <1>1, NextValue
<1>3. QED
  BY <1>2, ValueReadable DEF Reading

\* The tag is that of the value.
LEMMA TagIsKind ==
    ASSUME NEW f, NEW w, NEW v, NEW x, ValueAt(f, w, v, x), Readable(v), NEW k, Tag(k)
    PROVE  k = v.kind
BY DEF Readable, Tag

\* An allocation that fails is no refusal.
LEMMA FailLocked ==
    ASSUME NEW f, Lock(f), Fail("OutOfMemory")
    PROVE  Lock(f)'
<1>1. UNCHANGED <<form, bytes, offset, nodes, frames, built>> /\ outcome' = "OutOfMemory"
  BY DEF Fail
<1>2. ~Refused'
  BY <1>1 DEF Refused
<1>3. \A w, pos : StepAt(f, w, pos) => StepAt(f, w, pos)'
  BY <1>1 DEF StepAt, Due
<1>4. QED
  BY <1>1, <1>2, <1>3 DEF Lock

\* The next value has been read.
LEMMA ValueTaken ==
    ASSUME Inv, NEW f, NEW w, NEW v, NEW x, ValueAt(f, w, v, x), frames # <<>>,
           offset' = offset + Len(HeadCells(v)), nodes' = nodes + 1,
           UNCHANGED <<form, bytes, outcome>>, outcome = "running",
           frames' # <<>>, frames'[1].kind = frames[1].kind,
           \E pos : Due(x.todo, pos)'
    PROVE  Lock(f)'
<1>1. PICK pos : Due(x.todo, pos)'
  OBVIOUS
<1>2. StepAt(f, x, pos)'
  BY <1>1 DEF ValueAt, StepAt
<1>3. ~Refused'
  BY DEF Refused, Errors
<1>4. QED
  BY <1>2, <1>3 DEF Lock

\* A value that is no collection is passed.
LEMMA ScalarLocked ==
    ASSUME Inv, NEW f, NEW w, NEW v, NEW x, ValueAt(f, w, v, x),
           outcome = "running", frames # <<>>, Top.left > 0, Len(Items(v)) = 0,
           NEW a, ReadScalar(v.kind, a, Len(HeadCells(v)))
    PROVE  Lock(f)'
<1>1. /\ frames' = OneLess /\ offset' = offset + Len(HeadCells(v)) /\ nodes' = nodes + 1
      /\ UNCHANGED <<form, bytes, outcome>>
  BY DEF ReadScalar
<1>2. frames \in Seq(OpenFrame)
  BY DEF Inv, TypeOK
<1>3. Len(frames) \in Nat \ {0} /\ 1 \in 1..Len(frames)
  BY <1>2
<1>4. frames' # <<>> /\ frames'[1].kind = frames[1].kind
  <2>1. OneLess \in Seq(OpenFrame) /\ Len(OneLess) = Len(frames) /\ OneLess[1].kind = frames[1].kind
    BY <1>2, <1>3, OneLessType
  <2>2. OneLess # <<>>
    BY <1>3, <2>1
  <2>3. QED
    BY <1>1, <2>1, <2>2
<1>5. PICK q : Lowered(x.todo, q, 0)
  BY DEF ValueAt
<1>6. Due(x.todo, q)'
  BY <1>1, <1>2, <1>5, DueScalar
<1>7. QED
  BY <1>1, <1>4, <1>6, ValueTaken

\* A collection begins on both sides.
LEMMA OpenLocked ==
    ASSUME Inv, NEW f, NEW w, NEW v, NEW x, ValueAt(f, w, v, x), Readable(v),
           v.kind \in {"array", "map"}, outcome = "running", frames # <<>>, Top.left > 0,
           frames' = Append(OneLess, Frame(v.kind, Cell(2), Width(v.kind) * Cell(2))),
           offset' = offset + 2, nodes' = nodes + 1, UNCHANGED <<form, bytes, outcome>>
    PROVE  Lock(f)'
<1>1. /\ Len(HeadCells(v)) = 2 /\ Width(v.kind) * Cell(2) = Len(Items(v))
      /\ CountFits(2, Width(v.kind)) /\ Len(Items(v)) \in Nat
  <2>1. Items(v) \in Seq(Value)
    BY ValueHead DEF ValueAt
  <2>2. QED
    BY <2>1 DEF Readable
<1>2. frames \in Seq(OpenFrame) /\ TypeOK
  BY DEF Inv, TypeOK
<1>3. Len(frames) \in Nat \ {0} /\ 1 \in 1..Len(frames)
  BY <1>2
<1> DEFINE new == Frame(v.kind, Cell(2), Width(v.kind) * Cell(2))
<1>4. new \in OpenFrame /\ new.left = Len(Items(v))
  <2>1. Width(v.kind) \in {1, 2}
    BY DEF Width
  <2>2. Cell(2) \in Nat
    BY <1>1, <1>2, <2>1, CountBounded
  <2>3. QED
    BY <1>1, <2>2 DEF Frame, OpenFrame
<1>5. frames' = Append(OneLess, new)
  OBVIOUS
<1> HIDE DEF new
<1>6. frames' # <<>> /\ frames'[1].kind = frames[1].kind
  <2>1. OneLess \in Seq(OpenFrame) /\ Len(OneLess) = Len(frames) /\ OneLess[1].kind = frames[1].kind
    BY <1>2, <1>3, OneLessType
  <2>2. Append(OneLess, new)[1] = OneLess[1] /\ Append(OneLess, new) # <<>>
    BY <1>3, <1>4, <2>1, AppendProperties
  <2>3. QED
    BY <1>5, <2>1, <2>2
<1>7. PICK q : Lowered(x.todo, q, new.left)
  BY <1>4 DEF ValueAt
<1>8. \A i \in 1..new.left : x.todo[i].depth = Len(frames)
  BY <1>4 DEF ValueAt
<1>9. \E pos : Due(x.todo, pos)'
  BY <1>2, <1>4, <1>5, <1>7, <1>8, DueOpen
<1>10. QED
  BY <1>1, <1>6, <1>9, ValueTaken

\* The decoder at the next value.
LEMMA AtValueLocked ==
    ASSUME Inv, NEW f \in Sent, Sends(f), Lock(f), AtValue, Next
    PROVE  Lock(f)'
<1>1. outcome = "running" /\ frames # <<>> /\ Top.left > 0
  BY DEF AtValue
<1>2. PICK w, v, x : ValueAt(f, w, v, x) /\ Readable(v)
  BY <1>1, ReadingIfLocked DEF Reading
<1>3. nodes < MaxNodes /\ Depth <= MaxNesting /\ Has(1) /\ Cell(1) \in 0..7
      /\ nodes \in Nat /\ MaxNodes \in Nat
  <2>1. nodes \in Nat /\ MaxNodes \in Nat
    BY LimitsAssumption DEF Inv, TypeOK
  <2>2. QED
    BY <1>2, <2>1 DEF ValueAt, Readable
<1>4. CASE RefuseValue
  <2>1. ~(nodes >= MaxNodes)
    BY <1>3
  <2>2. ~(Depth > MaxNesting)
    <3>1. Depth \in Int /\ MaxNesting \in Int
      BY LimitsAssumption DEF Inv, TypeOK, Depth
    <3>2. QED
      BY <1>3, <3>1
  <2>3. QED
    BY <1>3, <1>4, <2>1, <2>2 DEF RefuseValue
<1>5. CASE InvalidTag
  <2>1. ~(Cell(1) > 7)
    BY <1>3
  <2>2. QED
    BY <1>5, <2>1 DEF InvalidTag
<1>6. CASE DecodeNull
  <2>1. Tag("null") /\ ReadScalar("null", 2, 1)
    BY <1>6 DEF DecodeNull
  <2>2. v.kind = "null"
    BY <1>2, <2>1, TagIsKind
  <2>3. Len(HeadCells(v)) = 1 /\ Len(Items(v)) = 0
    BY <1>2, <2>2 DEF Readable
  <2>4. ReadScalar(v.kind, 2, Len(HeadCells(v)))
    BY <2>1, <2>2, <2>3
  <2>5. QED
    BY <1>1, <1>2, <2>3, <2>4, ScalarLocked
<1>7. CASE DecodeNumber
  <2>1. PICK k \in {"int", "float"} :
           Tag(k) /\ (\/ ~Has(2) /\ Fail("UnexpectedEnd")
                      \/ ReadScalar(k, 2, 2))
    BY <1>7 DEF DecodeNumber
  <2>2. v.kind = k
    BY <1>2, <2>1, TagIsKind
  <2>3. Len(HeadCells(v)) = 2 /\ Len(Items(v)) = 0 /\ Has(2)
    BY <1>2, <2>2 DEF Readable
  <2>4. ReadScalar(v.kind, 2, Len(HeadCells(v)))
    BY <2>1, <2>2, <2>3
  <2>5. QED
    BY <1>1, <1>2, <2>3, <2>4, ScalarLocked
<1>8. CASE DecodeBool
  <2>1. /\ Tag("bool")
        /\ \/ ~Has(2)
           \/ Has(2) /\ Cell(2) > 1
           \/ ReadScalar("bool", 2, 2)
    BY <1>8 DEF DecodeBool
  <2>2. v.kind = "bool"
    BY <1>2, <2>1, TagIsKind
  <2>3. Len(HeadCells(v)) = 2 /\ Len(Items(v)) = 0 /\ Has(2) /\ Cell(2) <= 1
    BY <1>2, <2>2 DEF Readable
  <2>4. ~(Cell(2) > 1)
    <3>1. Cell(2) \in Nat
      <4>1. offset + 2 \in 1..Len(bytes) /\ bytes \in Seq(Nat)
        BY <2>3 DEF Has, Remaining, Inv, TypeOK
      <4>2. QED
        BY <4>1 DEF Cell
    <3>2. QED
      BY <2>3, <3>1
  <2>5. ReadScalar(v.kind, 2, Len(HeadCells(v)))
    BY <2>1, <2>2, <2>3, <2>4
  <2>6. QED
    BY <1>1, <1>2, <2>3, <2>5, ScalarLocked
<1>9. CASE DecodeText
  <2>1. PICK k \in {"string", "bytes"} :
           /\ Tag(k)
           /\ \/ ~Has(2)
              \/ Has(2) /\ ~Has(2 + Cell(2))
              \/ IF k = "string" /\ \E i \in 3..(2 + Cell(2)) : Cell(i) = NotText
                 THEN Fail("InvalidUtf8")
                 ELSE ReadScalar(k, 3, 2 + Cell(2))
    BY <1>9 DEF DecodeText
  <2>2. v.kind = k
    BY <1>2, <2>1, TagIsKind
  <2>3. Len(HeadCells(v)) = 2 + Cell(2) /\ Len(Items(v)) = 0 /\ Has(2) /\ Has(2 + Cell(2))
        /\ (k = "string" => \A i \in 3..(2 + Cell(2)) : Cell(i) # NotText)
    BY <1>2, <2>2 DEF Readable
  <2>4. ReadScalar(v.kind, 3, Len(HeadCells(v)))
    BY <2>1, <2>2, <2>3
  <2>5. QED
    BY <1>1, <1>2, <2>3, <2>4, ScalarLocked
<1>10. CASE OpenCollection
  <2>1. PICK k \in {"array", "map"} :
           /\ Tag(k)
           /\ frames' = Append(OneLess, Frame(k, Cell(2), Width(k) * Cell(2)))
           /\ offset' = offset + 2
           /\ nodes' = nodes + 1
           /\ UNCHANGED <<form, bytes, built, outcome>>
    BY <1>10 DEF OpenCollection
  <2>2. v.kind = k
    BY <1>2, <2>1, TagIsKind
  <2>3. v.kind \in {"array", "map"}
    BY <2>2
  <2>4. /\ frames' = Append(OneLess, Frame(v.kind, Cell(2), Width(v.kind) * Cell(2)))
        /\ offset' = offset + 2 /\ nodes' = nodes + 1
        /\ UNCHANGED <<form, bytes, outcome>>
    BY <2>1, <2>2
  <2>5. QED
    BY <1>1, <1>2, <2>3, <2>4, OpenLocked
<1>11. CASE RefuseCollection
  <2>1. PICK k \in {"array", "map"} : Tag(k) /\ RefuseCount(2, Width(k))
    BY <1>11 DEF RefuseCollection
  <2>2. v.kind = k
    BY <1>2, <2>1, TagIsKind
  <2>3. CountFits(2, Width(k))
    BY <1>2, <2>1, <2>2 DEF Readable
  <2>4. Fail("OutOfMemory")
    BY <2>1, <2>3 DEF RefuseCount, CountFits
  <2>5. QED
    BY <2>4, FailLocked
<1>12. Top.left \in Nat
  <2>1. frames \in Seq(OpenFrame)
    BY DEF Inv, TypeOK
  <2>2. Top \in OpenFrame
    BY <1>1, <2>1 DEF Top
  <2>3. QED
    BY <2>2 DEF OpenFrame
<1>13. ~AtEnd /\ ~AtCount /\ ~AtMagic
  <2>1. Top.left # 0
    BY <1>1, <1>12
  <2>2. offset # 0
    <3>1. offset > 0
      BY <1>1 DEF Inv, Begun
    <3>2. QED
      BY <3>1
  <2>3. QED
    BY <1>1, <2>1, <2>2 DEF AtEnd, AtCount, AtMagic
<1>14. QED
  BY <1>4, <1>5, <1>6, <1>7, <1>8, <1>9, <1>10, <1>11, <1>13
     DEF Next, RefuseFrame, ReadMagic, RefuseLocals, ReadLocals, CloseCollection,
         RefuseResult, ReadResult, Finish, AtResult

\* The list of the locals or the result begins.
LEMMA ListLocked ==
    ASSUME NEW f \in Sent, NEW k, NEW c, UNCHANGED <<form, bytes, nodes, outcome>>,
           outcome = "running", k # "locals" => form = "response",
           c = Len(ListOf(f, k)), ListOf(f, k) \in Seq(Value),
           frames' = <<Frame(k, c, c)>>, offset' = StartOf(f, k), nodes = BaseOf(f, k),
           offset' \in Nat, nodes \in Nat
    PROVE  Lock(f)'
<1>v. PICK vs : vs = ListOf(f, k)
  OBVIOUS
<1> DEFINE w == Begin(vs, 0)
<1>1. vs \in Seq(Value) /\ c = Len(vs) /\ c \in Nat
  BY <1>v
<1>2. Reaches(vs, w)
  BY <1>1, BeginReached
<1>3. /\ w.cells = <<>> /\ Len(w.cells) = 0 /\ w.nodes = 0 /\ Len(w.todo) = c
      /\ \A i \in 1..c : w.todo[i].depth = 0
  <2>1. w.cells = <<>> /\ w.nodes = 0 /\ w.todo = Todo(vs, 0)
    BY DEF Begin
  <2>2. Len(Todo(vs, 0)) = c /\ \A i \in 1..c : Todo(vs, 0)[i].depth = 0
    <3>1. Todo(vs, 0) = [i \in 1..c |-> [value |-> vs[i], depth |-> 0]]
      BY <1>1 DEF Todo
    <3>2. QED
      BY <1>1, <3>1
  <2> HIDE DEF w
  <2>3. Len(<<>>) = 0
    OBVIOUS
  <2>4. QED
    BY <2>1, <2>2, <2>3
<1> HIDE DEF w
<1>4. Len(frames') = 1 /\ frames'[1].kind = k /\ frames'[1].left = c /\ frames' # <<>>
  BY DEF Frame
<1>p. PICK pos : pos = [j \in 1..2 |-> IF j = 1 THEN c ELSE 0]
  OBVIOUS
<1>5. pos \in [1..2 -> Nat] /\ pos[1] = c /\ pos[2] = 0
  BY <1>1, <1>p
<1>6. Due(w.todo, pos)'
  <2>1. 1 + 1 = 2 /\ 0 + 1 = 1 /\ 1 - 1 = 0 /\ c = 0 + c /\ \A j \in 1..1 : j = 1
    BY <1>1
  <2>2. Len(frames') + 1 = 2 /\ pos[1] = Len(w.todo)
    BY <1>3, <1>4, <1>5, <2>1
  <2>3. \A i, j \in 1..2 : i <= j => pos[j] <= pos[i]
    BY <1>1, <1>5
  <2>4. \A j \in 1..1 : pos[j] = pos[j + 1] + frames'[j].left
    BY <1>4, <1>5, <2>1
  <2>5. \A j \in 1..1 : \A i \in (pos[j + 1] + 1)..pos[j] : w.todo[i].depth = j - 1
    BY <1>3, <1>5, <2>1
  <2>6. QED
    BY <1>4, <1>5, <2>2, <2>3, <2>4, <2>5 DEF Due
<1>7. StepAt(f, w, pos)'
  <2>1. StartOf(f, k) + 0 = StartOf(f, k) /\ BaseOf(f, k) + 0 = BaseOf(f, k)
    OBVIOUS
  <2>2. offset' = StartOf(f, k) + Len(w.cells) /\ nodes' = BaseOf(f, k) + w.nodes
    BY <1>3, <2>1
  <2>3. QED
    BY <1>2, <1>4, <1>6, <1>v, <2>2 DEF StepAt
<1>8. ~Refused'
  BY DEF Refused, Errors
<1>9. QED
  BY <1>7, <1>8 DEF Lock

\* Before the first value.
LEMMA AtStartLocked ==
    ASSUME Inv, Faithful, NEW f \in Sent, Sends(f), Lock(f), AtMagic \/ AtCount, Next
    PROVE  Lock(f)'
<1>W. PICK W : W = Written(f.locals)
  OBVIOUS
<1>R. PICK R : R = Written(f.result)
  OBVIOUS
<1>1. /\ f.locals \in Seq(Value) /\ W \in WriterState /\ W.todo = <<>>
      /\ Len(bytes) <= MaxBytes /\ bytes[1] = Magic[form] /\ bytes[2] = Len(f.locals)
      /\ \/ Len(bytes) = 2 + Len(W.cells)
         \/ Len(bytes) = (3 + Len(W.cells)) + Len(R.cells)
  <2>1. Fits(f) /\ form = f.form /\ bytes = Encode(f)
    BY DEF Sends
  <2>2. Parts(f, W, R)
    BY <1>W, <1>R, <2>1, FrameParts
  <2>3. QED
    BY <2>1, <2>2 DEF Parts
<1>2. Len(W.cells) \in Nat /\ Len(R.cells) \in Nat /\ Len(f.locals) \in Nat /\ Len(bytes) \in Nat
      /\ MaxBytes \in Nat /\ offset \in Nat
  <2>1. W.cells \in Seq(Nat) /\ R.cells \in Seq(Nat)
    <3>1. Parts(f, W, R)
      BY <1>W, <1>R, FrameParts DEF Sends
    <3>2. R \in WriterState
      BY <3>1 DEF Parts
    <3>3. QED
      BY <1>1, <3>2 DEF WriterState
  <2>2. QED
    BY <1>1, <2>1, LimitsAssumption DEF Inv, TypeOK
<1>3. Len(f.locals) <= Len(W.cells)
  <2>1. Ahead(Begin(f.locals, 0), W)
    BY <1>1, <1>W, BeginReached, Reached
  <2>2. Len(Begin(f.locals, 0).cells) = 0 /\ Len(Begin(f.locals, 0).todo) = Len(f.locals)
    <3>1. Begin(f.locals, 0).cells = <<>> /\ Begin(f.locals, 0).todo = Todo(f.locals, 0)
      BY DEF Begin
    <3>2. Todo(f.locals, 0) = [i \in 1..Len(f.locals) |-> [value |-> f.locals[i], depth |-> 0]]
      BY <1>1 DEF Todo
    <3>3. Len(Todo(f.locals, 0)) = Len(f.locals)
      BY <1>2, <3>2
    <3>4. Len(<<>>) = 0
      OBVIOUS
    <3>5. QED
      BY <3>1, <3>3, <3>4
  <2>3. Len(Begin(f.locals, 0).cells) + Len(Begin(f.locals, 0).todo) <= Len(W.cells)
    BY <2>1, Zenon DEF Ahead
  <2>4. 0 + Len(f.locals) <= Len(W.cells)
    BY <2>2, <2>3, Zenon
  <2>5. 0 + Len(f.locals) = Len(f.locals)
    BY <1>2
  <2>6. QED
    BY <2>4, <2>5, Zenon
<1>4. 2 + Len(f.locals) <= Len(bytes)
  <2>1. \A a, b, c \in Nat : a <= b => 2 + a <= 2 + b /\ 2 + a <= (3 + b) + c
    OBVIOUS
  <2>2. /\ 2 + Len(f.locals) <= 2 + Len(W.cells)
        /\ 2 + Len(f.locals) <= (3 + Len(W.cells)) + Len(R.cells)
    BY <1>2, <1>3, <2>1, Zenon
  <2>3. QED
    BY <1>1, <2>2, Zenon
<1>5. CASE AtMagic
  <2>1. offset = 0 /\ outcome = "running" /\ frames = <<>>
    <3>1. offset = 0 /\ outcome = "running"
      BY <1>5 DEF AtMagic
    <3>2. frames = <<>>
      BY <3>1 DEF Inv, Begun
    <3>3. QED
      BY <3>1, <3>2
  <2>2. Has(1) /\ Cell(1) = Magic[form]
    <3>1. 1 <= Len(bytes) - 0 /\ 0 + 1 = 1
      BY <1>2, <1>4
    <3>2. QED
      BY <1>1, <2>1, <3>1 DEF Has, Remaining, Cell
  <2>3. ~RefuseFrame
    BY <1>1, <1>2, <2>2 DEF RefuseFrame
  <2>4. CASE ReadMagic
    <3>1. frames' = <<>> /\ outcome' = "running"
      BY <2>1, <2>4 DEF ReadMagic
    <3>2. QED
      BY <3>1 DEF Lock, Refused, Errors
  <2>5. ~AtCount /\ ~AtValue /\ ~AtEnd
    BY <2>1 DEF AtCount, AtValue, AtEnd
  <2>6. QED
    BY <2>3, <2>4, <2>5
       DEF Next, RefuseLocals, ReadLocals, RefuseValue, InvalidTag, DecodeNull, DecodeNumber,
           DecodeBool, DecodeText, OpenCollection, RefuseCollection, CloseCollection,
           RefuseResult, ReadResult, Finish, AtResult, Tag
<1>6. CASE AtCount
  <2>1. offset = 1 /\ outcome = "running" /\ frames = <<>> /\ nodes = 0
    BY <1>6 DEF AtCount, Faithful
  <2>2. CountFits(1, 1) /\ Cell(1) = Len(f.locals)
    <3>1. Cell(1) = bytes[2] /\ Remaining = Len(bytes) - 1
      BY <2>1 DEF Cell, Remaining
    <3>2. 1 <= Len(bytes) - 1 /\ Len(f.locals) <= ((Len(bytes) - 1) - 1) \div 1
      <4>1. \A a, b \in Nat : 2 + a <= b => 1 <= b - 1 /\ a <= ((b - 1) - 1) \div 1
        OBVIOUS
      <4>2. QED
        BY <1>2, <1>4, <4>1, Zenon
    <3>3. QED
      BY <1>1, <3>1, <3>2 DEF CountFits, Has
  <2>3. CASE RefuseLocals
    <3>1. Fail("OutOfMemory")
      BY <2>2, <2>3 DEF RefuseLocals, RefuseCount, CountFits
    <3>2. QED
      BY <3>1, FailLocked
  <2>4. CASE ReadLocals
    <3>1. /\ frames' = <<Frame("locals", Cell(1), Cell(1))>> /\ offset' = 2
          /\ UNCHANGED <<form, bytes, nodes, outcome>>
      BY <2>4 DEF ReadLocals
    <3>2. ListOf(f, "locals") = f.locals /\ StartOf(f, "locals") = 2 /\ BaseOf(f, "locals") = 0
      BY DEF ListOf, StartOf, BaseOf
    <3>3. frames' = <<Frame("locals", Len(f.locals), Len(f.locals))>>
      BY <2>2, <3>1
    <3>4. offset' = StartOf(f, "locals") /\ nodes = BaseOf(f, "locals") /\ offset' \in Nat
          /\ nodes \in Nat /\ ListOf(f, "locals") \in Seq(Value)
          /\ Len(f.locals) = Len(ListOf(f, "locals"))
      BY <1>1, <2>1, <3>1, <3>2
    <3>5. QED
      BY <2>1, <3>1, <3>3, <3>4, ListLocked
  <2>5. ~AtMagic /\ ~AtValue /\ ~AtEnd
    BY <2>1 DEF AtMagic, AtValue, AtEnd
  <2>6. QED
    BY <2>3, <2>4, <2>5
       DEF Next, RefuseFrame, ReadMagic, RefuseValue, InvalidTag, DecodeNull, DecodeNumber,
           DecodeBool, DecodeText, OpenCollection, RefuseCollection, CloseCollection,
           RefuseResult, ReadResult, Finish, AtResult, Tag
<1>7. QED
  BY <1>5, <1>6

\* At the end of a list.
LEMMA AtEndLocked ==
    ASSUME Inv, NEW f \in Sent, Sends(f), Lock(f), AtEnd, Next
    PROVE  Lock(f)'
<1>k. PICK k : k = frames[1].kind
  OBVIOUS
<1>1. outcome = "running" /\ frames # <<>> /\ Top.left = 0
  BY DEF AtEnd
<1>2. PICK w, pos : StepAt(f, w, pos)
  BY <1>1 DEF Lock
<1>3. /\ Reaches(ListOf(f, k), w)
      /\ offset = StartOf(f, k) + Len(w.cells)
      /\ nodes = BaseOf(f, k) + w.nodes
      /\ k # "locals" => form = "response"
      /\ Due(w.todo, pos)
  BY <1>2, <1>k DEF StepAt
<1>4. frames \in Seq(OpenFrame) /\ Len(frames) \in Nat \ {0} /\ offset \in Nat /\ nodes \in Nat
      /\ Len(bytes) \in Nat /\ bytes \in Seq(Nat)
  BY <1>1 DEF Inv, TypeOK
<1>5. CASE CloseCollection
  <2>1. /\ Len(frames) > 1 /\ frames' = SubSeq(frames, 1, Len(frames) - 1)
        /\ UNCHANGED <<form, bytes, offset, nodes, outcome>>
    BY <1>5 DEF CloseCollection
  <2>2. PICK p : Due(w.todo, p)'
    BY <1>1, <1>3, <1>4, <2>1, DueClose
  <2>3. frames' # <<>> /\ frames'[1] = frames[1]
    <3>1. Len(frames) - 1 \in 1..Len(frames) /\ 1 \in 1..(Len(frames) - 1)
      BY <1>4, <2>1
    <3>2. Len(frames') = Len(frames) - 1 /\ frames'[1] = frames[1]
      BY <1>4, <2>1, <3>1
    <3>3. QED
      BY <3>1, <3>2
  <2>4. StepAt(f, w, p)'
    BY <1>3, <1>k, <2>1, <2>2, <2>3 DEF StepAt
  <2>5. QED
    BY <1>1, <2>1, <2>4 DEF Lock, Refused, Errors
<1>6. ASSUME Len(frames) = 1
      PROVE  w = Written(ListOf(f, k))
  <2>1. Len(w.todo) = 0
    <3>1. pos[2] = 0 /\ pos[1] = Len(w.todo) /\ pos[1] = pos[2] + frames[1].left
      <4>1. 1 \in 1..1 /\ 1 + 1 = 2
        OBVIOUS
      <4>2. QED
        BY <1>3, <1>6, <4>1 DEF Due
    <3>2. frames[1].left = 0
      BY <1>1, <1>6 DEF Top
    <3>3. QED
      BY <3>1, <3>2
  <2>2. /\ ListOf(f, k) \in Seq(Value) /\ Written(ListOf(f, k)).todo = <<>>
    <3>1. k # "locals" => form = "response"
      BY <1>3
    <3>2. QED
      BY <3>1, ListParts
  <2>3. w \in WriterState /\ Ahead(w, Written(ListOf(f, k)))
    BY <1>3, <2>2, Reached
  <2>4. w.todo = <<>>
    <3>1. w.todo \in Seq(TodoItem)
      BY <2>3 DEF WriterState
    <3>2. QED
      BY <2>1, <3>1
  <2>5. QED
    BY <2>3, <2>4 DEF Ahead
<1>W. PICK W : W = Written(f.locals)
  OBVIOUS
<1>R. PICK R : R = Written(f.result)
  OBVIOUS
<1>7. /\ f.locals \in Seq(Value) /\ f.result \in Seq(Value)
      /\ W \in WriterState /\ R \in WriterState
      /\ Len(f.result) \in {0, 1} /\ form \in {"state", "response"}
      /\ form = "state" => Len(bytes) = 2 + Len(W.cells)
      /\ form = "response" =>
            /\ Len(bytes) = (3 + Len(W.cells)) + Len(R.cells)
            /\ bytes[3 + Len(W.cells)] = Len(f.result)
  <2>1. Fits(f) /\ form = f.form /\ bytes = Encode(f)
    BY DEF Sends
  <2>2. Parts(f, W, R)
    BY <1>W, <1>R, <2>1, FrameParts
  <2>3. QED
    BY <2>1, <2>2 DEF Parts
<1>8. Len(W.cells) \in Nat /\ Len(R.cells) \in Nat /\ W.nodes \in Nat
  <2>1. W.cells \in Seq(Nat) /\ R.cells \in Seq(Nat) /\ W.nodes \in Nat
    BY <1>7 DEF WriterState
  <2>2. QED
    BY <2>1
<1>9. ASSUME AtResult
      PROVE  Has(1) /\ Cell(1) = Len(f.result) /\ offset = 2 + Len(W.cells) /\ nodes = W.nodes
             /\ form = "response" /\ Cell(1) \in {0, 1}
  <2>1. Len(frames) = 1 /\ form = "response" /\ k = "locals"
    BY <1>9, <1>k DEF AtResult, Top
  <2>2. w = W /\ StartOf(f, k) = 2 /\ BaseOf(f, k) = 0
    BY <1>6, <1>W, <2>1 DEF ListOf, StartOf, BaseOf
  <2>3. offset = 2 + Len(W.cells) /\ nodes = W.nodes
    BY <1>3, <1>8, <2>2
  <2>4. offset + 1 = 3 + Len(W.cells) /\ 1 <= Len(bytes) - offset
    <3>1. \A a, b \in Nat : (2 + a) + 1 = 3 + a /\ 1 <= ((3 + a) + b) - (2 + a)
      OBVIOUS
    <3>2. QED
      BY <1>7, <1>8, <2>1, <2>3, <3>1
  <2>5. QED
    BY <1>7, <2>1, <2>3, <2>4 DEF Has, Remaining, Cell
<1>10. CASE RefuseResult
  <2>1. AtResult
    BY <1>10 DEF RefuseResult
  <2>2. Has(1) /\ Cell(1) \in {0, 1}
    BY <1>9, <2>1
  <2>3. ~(Cell(1) > 1)
    BY <2>2
  <2>4. QED
    BY <1>10, <2>2, <2>3 DEF RefuseResult
<1>11. CASE ReadResult
  <2> DEFINE c == Cell(1)
             kind == IF c = 1 THEN "result" ELSE "none"
  <2>1. /\ AtResult /\ frames' = <<Frame(kind, c, c)>> /\ offset' = offset + 1
        /\ UNCHANGED <<form, bytes, nodes, outcome>>
    BY <1>11 DEF ReadResult
  <2>2. c = Len(f.result) /\ offset = 2 + Len(W.cells) /\ nodes = W.nodes /\ form = "response"
    BY <1>9, <2>1
  <2>3. kind # "locals"
    OBVIOUS
  <2> HIDE DEF c, kind
  <2>4. ListOf(f, kind) = f.result /\ StartOf(f, kind) = 3 + Len(W.cells) /\ BaseOf(f, kind) = W.nodes
    BY <1>W, <2>3 DEF ListOf, StartOf, BaseOf
  <2>5. offset' = StartOf(f, kind) /\ offset' \in Nat
    <3>1. \A a \in Nat : (2 + a) + 1 = 3 + a /\ 3 + a \in Nat
      OBVIOUS
    <3>2. QED
      BY <1>8, <2>1, <2>2, <2>4, <3>1
  <2>6. nodes = BaseOf(f, kind) /\ c = Len(ListOf(f, kind)) /\ ListOf(f, kind) \in Seq(Value)
    BY <1>7, <2>2, <2>4
  <2>7. QED
    BY <1>1, <1>4, <2>1, <2>2, <2>5, <2>6, ListLocked
<1>12. CASE Finish
  <2>1. /\ Len(frames) = 1 /\ ~AtResult
        /\ outcome' = IF offset = Len(bytes) THEN "ok" ELSE "TrailingData"
        /\ UNCHANGED <<form, bytes, offset, nodes, frames, built>>
    BY <1>12 DEF Finish
  <2>2. ~(form = "response" /\ k = "locals")
    BY <1>1, <1>k, <2>1 DEF AtResult, AtEnd, Top
  <2>3. offset = Len(bytes)
    <3>1. CASE k = "locals"
      <4>1. form = "state" /\ w = W /\ StartOf(f, k) = 2
        BY <1>6, <1>7, <1>W, <2>1, <2>2, <3>1 DEF ListOf, StartOf
      <4>2. QED
        BY <1>3, <1>7, <4>1
    <3>2. CASE k # "locals"
      <4>1. form = "response" /\ w = R /\ StartOf(f, k) = 3 + Len(W.cells)
        BY <1>3, <1>6, <1>R, <1>W, <2>1, <3>2 DEF ListOf, StartOf
      <4>2. QED
        BY <1>3, <1>7, <4>1
    <3>3. QED
      BY <3>1, <3>2
  <2>4. outcome' = "ok"
    BY <2>1, <2>3
  <2>5. StepAt(f, w, pos)'
    BY <1>2, <2>1 DEF StepAt, Due
  <2>6. QED
    BY <2>4, <2>5 DEF Lock, Refused, Errors
<1>13. ~AtMagic /\ ~AtCount /\ ~AtValue
  <2>1. offset # 0
    <3>1. offset > 0
      BY <1>1 DEF Inv, Begun
    <3>2. QED
      BY <3>1
  <2>2. ~(Top.left > 0)
    BY <1>1
  <2>3. QED
    BY <1>1, <2>1, <2>2 DEF AtMagic, AtCount, AtValue
<1>14. QED
  BY <1>5, <1>10, <1>11, <1>12, <1>13
     DEF Next, RefuseFrame, ReadMagic, RefuseLocals, ReadLocals, RefuseValue, InvalidTag,
         DecodeNull, DecodeNumber, DecodeBool, DecodeText, OpenCollection, RefuseCollection, Tag

\* The decoder stays with the writer.
LEMMA NextInLockstep == Inv /\ Faithful /\ InLockstep /\ [Next]_vars => InLockstep'
<1> SUFFICES ASSUME Inv, Faithful, InLockstep, [Next]_vars, NEW f \in Sent, Sends(f)'
             PROVE  Lock(f)'
  BY DEF InLockstep
<1>1. form' = form /\ bytes' = bytes
  <2>1. CASE UNCHANGED vars
    BY <2>1 DEF vars
  <2>2. CASE Next
    BY <2>2
       DEF Next, RefuseFrame, ReadMagic, RefuseLocals, ReadLocals, RefuseValue, InvalidTag,
           DecodeNull, DecodeNumber, DecodeBool, DecodeText, OpenCollection, RefuseCollection,
           CloseCollection, RefuseResult, ReadResult, Finish, RefuseCount, ReadScalar, Fail
  <2>3. QED
    BY <2>1, <2>2
<1>2. Sends(f) /\ Lock(f)
  <2>1. Sends(f)
    BY <1>1 DEF Sends
  <2>2. QED
    BY <2>1 DEF InLockstep
<1>3. CASE UNCHANGED vars
  <2>1. \A w, pos : StepAt(f, w, pos) => StepAt(f, w, pos)'
    BY <1>3 DEF vars, StepAt, Due
  <2>2. QED
    BY <1>2, <1>3, <2>1 DEF vars, Lock, Refused
<1>4. CASE Next
  <2>1. AtMagic \/ AtCount \/ AtValue \/ AtEnd
    BY <1>4
       DEF Next, RefuseFrame, ReadMagic, RefuseLocals, ReadLocals, RefuseValue, InvalidTag,
           DecodeNull, DecodeNumber, DecodeBool, DecodeText, OpenCollection, RefuseCollection,
           CloseCollection, RefuseResult, ReadResult, Finish, Tag, AtResult
  <2>2. QED
    BY <1>2, <1>4, <2>1, AtStartLocked, AtValueLocked, AtEndLocked
<1>5. QED
  BY <1>3, <1>4

\* They begin together.
LEMMA InitInLockstep == Init => InLockstep
BY DEF Init, InLockstep, Lock, Refused, Errors

\* Whatever the limits and whatever was written within them, the decoder takes
\* it: decode_value and the encoders go through a frame in step, and none of the
\* checks on lengths, tags, text and depth meets a cell it refuses.
THEOREM EverythingThatFitsArrives == Spec => []AcceptsWhatFits
<1>1. Init => Inv /\ Faithful /\ InLockstep
  BY InitInv, InitFaithful, InitInLockstep
<1>2. Inv /\ Faithful /\ InLockstep /\ [Next]_vars => (Inv /\ Faithful /\ InLockstep)'
  BY NextInv, NextFaithful, NextInLockstep
<1>3. InLockstep => AcceptsWhatFits
  <2> SUFFICES ASSUME InLockstep, Refused, [form |-> form, bytes |-> bytes] \in FittingFrames
               PROVE  FALSE
    BY DEF AcceptsWhatFits
  <2>1. PICK f \in Sent : Fits(f) /\ [form |-> form, bytes |-> bytes] = [form |-> f.form, bytes |-> Encode(f)]
    BY DEF FittingFrames
  <2>2. Sends(f)
    <3>1. form = f.form /\ bytes = Encode(f)
      BY <2>1
    <3>2. QED
      BY <2>1, <3>1 DEF Sends
  <2>3. QED
    BY <2>2 DEF InLockstep, Lock
<1>4. QED
  BY <1>1, <1>2, <1>3, PTL DEF Spec

=============================================================================
