------------------------------- MODULE WireCodec -------------------------------
(***************************************************************************)
(* The encoders of src/src/repl_wire.rs, and what they and the decoder     *)
(* promise together: a frame is decoded to what was encoded, or not at     *)
(* all.                                                                    *)
(***************************************************************************)
EXTENDS WireDecoder

CONSTANTS
    Value,  \* the values there are
    Sent    \* what may be encoded: [form, locals, result], where the result is
            \* a sequence of at most one value

IsCollection(v) == v.kind \in {"array", "map"}

\* The cells of a scalar: a number is one, a string has no bytes that are none.
ScalarCells(k) ==
    CASE k = "null" -> {<<>>}
      [] k \in {"int", "float"} -> [1..1 -> Nat]
      [] k = "bool" -> {<<0>>, <<1>>}
      [] k = "string" -> Seq(Nat \ {NotText})
      [] OTHER -> Seq(Nat)

ASSUME ValueAssumption ==
    \A v \in Value :
        IF IsCollection(v)
        THEN /\ v = Collection(v.kind, v.items)
             /\ v.items \in Seq(Value) /\ Len(v.items) % Width(v.kind) = 0
        ELSE /\ v = Scalar(v.kind, v.cells)
             /\ v.kind \in {"null", "int", "float", "bool", "string", "bytes"}
             /\ v.cells \in ScalarCells(v.kind)
ASSUME SentAssumption ==
    \A f \in Sent :
        /\ f.form \in {"state", "response"}
        /\ f.locals \in Seq(Value) /\ f.result \in Seq(Value)
        /\ Len(f.result) <= IF f.form = "response" THEN 1 ELSE 0

\* What is written of a value before its items.
HeadCells(v) ==
    LET tag == (CHOOSE i \in 1..8 : Kinds[i] = v.kind) - 1
    IN  CASE v.kind \in {"null", "int", "float", "bool"} -> <<tag>> \o v.cells
          [] v.kind \in {"string", "bytes"} -> <<tag, Len(v.cells)>> \o v.cells
          [] OTHER -> <<tag, Len(v.items) \div Width(v.kind)>>

\* Values to be written, and how deep they are.
Todo(values, depth) ==
    [i \in DOMAIN values |-> [value |-> values[i], depth |-> depth]]

\* encode_value up to its recursive calls, which come before what is left.
WriteNext(w) ==
    LET v == Head(w.todo).value
        items == IF IsCollection(v) THEN v.items ELSE <<>>
    IN  [cells |-> w.cells \o HeadCells(v),
         nodes |-> w.nodes + 1,
         todo |-> Todo(items, Head(w.todo).depth + 1) \o Tail(w.todo)]

\* All is written, or the next value is too deep.
Stops(w) == w.todo = <<>> \/ Head(w.todo).depth > MaxNesting

\* Values written one after the other, with the recursion of encode_value as the
\* list of what is left.  A value takes a cell or more: if MaxBytes values do not
\* finish it, the frame is too large.
Written(values) ==
    LET written[n \in 0..MaxBytes] ==
            IF n = 0 THEN [cells |-> <<>>, nodes |-> 0, todo |-> Todo(values, 0)]
            ELSE LET w == written[n - 1] IN IF Stops(w) THEN w ELSE WriteNext(w)
    IN  written[MaxBytes]

\* The cells of a frame; not all of them if it is not encoded.
Encode(f) ==
    <<Magic[f.form], Len(f.locals)>> \o Written(f.locals).cells
        \o (IF f.form = "response" THEN <<Len(f.result)>> \o Written(f.result).cells
            ELSE <<>>)

\* The encoder has no error for this.
Encodes(f) ==
    /\ Written(f.locals).todo = <<>> /\ Written(f.result).todo = <<>>
    /\ Len(Encode(f)) <= MaxBytes

\* It is within the decoder's limits as well.
Fits(f) ==
    /\ Encodes(f)
    /\ Written(f.locals).nodes + Written(f.result).nodes <= MaxNodes

EncodedFrames == {[form |-> f.form, bytes |-> Encode(f)] : f \in {g \in Sent : Encodes(g)}}
FittingFrames == {[form |-> f.form, bytes |-> Encode(f)] : f \in {g \in Sent : Fits(g)}}

-----------------------------------------------------------------------------
(* Properties *)

\* What the decoder returns.
Decoded ==
    LET n == Len(built) - IF frames[1].kind = "result" THEN 1 ELSE 0
    IN  [form |-> form, locals |-> SubSeq(built, 1, n),
         result |-> SubSeq(built, n + 1, Len(built))]

Refused == outcome \in Errors \ {"OutOfMemory"}

\* A frame that is accepted is the encoding of what it is decoded to, within
\* all limits: no other bytes are taken for it, so a frame that lost, changed
\* or gained something is never another frame by accident of the decoder.
AcceptsOnlyEncodings ==
    outcome = "ok" => Fits(Decoded) /\ Encode(Decoded) = bytes

\* Everything within the limits arrives: no check of the decoder, on lengths
\* in particular, refuses what an encoder wrote.
AcceptsWhatFits == Refused => [form |-> form, bytes |-> bytes] \notin FittingFrames

\* What an encoder returned is decoded, as in repl_state_round_trips_nested_values
\* (src/src/repl_wire.rs:325).
AcceptsWhatEncodes == Refused => [form |-> form, bytes |-> bytes] \notin EncodedFrames

=============================================================================
