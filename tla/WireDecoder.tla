------------------------------ MODULE WireDecoder ------------------------------
(***************************************************************************)
(* decode_repl_state and decode_repl_response (src/src/repl_wire.rs), one  *)
(* value per step, with the recursion of decode_value as a stack of the    *)
(* collections that are open.                                              *)
(*                                                                         *)
(* The frame is a sequence of cells.  A magic, a length and a number are   *)
(* one cell where they are four or eight bytes in the code; every other    *)
(* cell is a byte.                                                         *)
(***************************************************************************)
EXTENDS Integers, Sequences, SequencesExt

CONSTANTS
    Input,       \* the frames that may come: sequences of cells
    MaxNesting,  \* limits of the code
    MaxBytes,
    MaxNodes

ASSUME InputAssumption == Input \subseteq Seq(Nat)
ASSUME LimitsAssumption == MaxNesting \in Nat /\ MaxBytes \in Nat /\ MaxNodes \in Nat

VARIABLES
    form,     \* "state" or "response"
    bytes,
    offset,
    nodes,    \* values begun
    frames,   \* the list of locals or the result, and in it the collections
              \* that are open: for how many items each has reserved room, and
              \* how many values it still has to read
    built,    \* the values that are complete, in the order they were read
    outcome   \* "running", "ok" or the error

vars == <<form, bytes, offset, nodes, frames, built, outcome>>

Errors == {"InvalidMagic", "InvalidTag", "InvalidBool", "InvalidUtf8",
           "UnexpectedEnd", "TrailingData", "LengthOverflow", "NestingTooDeep",
           "OutOfMemory"}

\* STATE_MAGIC and RESPONSE_MAGIC, and a byte that is in no UTF-8 text.
Magic == [state |-> 256, response |-> 257]
NotText == 255

Kinds == <<"null", "int", "float", "bool", "string", "bytes", "array", "map">>
Scalar(k, cells) == [kind |-> k, cells |-> cells]
Collection(k, items) == [kind |-> k, items |-> items]

Remaining == Len(bytes) - offset
Has(n) == n <= Remaining
Cell(k) == bytes[offset + k]

Top == frames[Len(frames)]
Depth == Len(frames) - 1
Frame(k, count, values) == [kind |-> k, count |-> count, left |-> values]

-----------------------------------------------------------------------------
Init ==
    /\ form \in {"state", "response"}
    /\ bytes \in Input
    /\ offset = 0 /\ nodes = 0
    /\ frames = <<>> /\ built = <<>>
    /\ outcome = "running"

Fail(error) ==
    /\ outcome' = error
    /\ UNCHANGED <<form, bytes, offset, nodes, frames, built>>

-----------------------------------------------------------------------------
(* The frame *)

AtMagic == outcome = "running" /\ offset = 0

RefuseFrame ==
    /\ AtMagic
    /\ \/ Len(bytes) > MaxBytes /\ Fail("LengthOverflow")
       \/ Len(bytes) <= MaxBytes /\ ~Has(1) /\ Fail("UnexpectedEnd")
       \/ Len(bytes) <= MaxBytes /\ Has(1) /\ Cell(1) # Magic[form] /\ Fail("InvalidMagic")

ReadMagic ==
    /\ AtMagic
    /\ Len(bytes) <= MaxBytes /\ Has(1) /\ Cell(1) = Magic[form]
    /\ offset' = 1
    /\ UNCHANGED <<form, bytes, nodes, frames, built, outcome>>

AtCount == outcome = "running" /\ offset = 1 /\ frames = <<>>

\* Mutant: the length is taken for the last index.
CountFitsTight(at, width) == Has(at) /\ Cell(at) < (Remaining - at) \div width

\* The next cell is a length, and so many values of the given width in bytes
\* can still be in the frame: room for them is reserved.
CountFits(at, width) == Has(at) /\ Cell(at) <= (Remaining - at) \div width

\* What is wrong with a length.  An allocation may fail whatever the length;
\* the code calls this a LengthOverflow, too.
RefuseCount(at, width) ==
    \/ ~Has(at) /\ Fail("UnexpectedEnd")
    \/ Has(at) /\ ~CountFits(at, width) /\ Fail("LengthOverflow")
    \/ CountFits(at, width) /\ Fail("OutOfMemory")

RefuseLocals == AtCount /\ RefuseCount(1, 1)

ReadLocals ==
    /\ AtCount
    /\ CountFits(1, 1)
    /\ offset' = 2
    /\ frames' = <<Frame("locals", Cell(1), Cell(1))>>
    /\ UNCHANGED <<form, bytes, nodes, built, outcome>>

-----------------------------------------------------------------------------
(* decode_value *)

AtValue == outcome = "running" /\ frames # <<>> /\ Top.left > 0

RefuseValue ==
    /\ AtValue
    /\ \/ nodes >= MaxNodes /\ Fail("LengthOverflow")
       \/ nodes < MaxNodes /\ Depth > MaxNesting /\ Fail("NestingTooDeep")
       \/ nodes < MaxNodes /\ Depth <= MaxNesting /\ ~Has(1) /\ Fail("UnexpectedEnd")

\* Mutant: values are counted and not limited.
TagUnlimited(k) ==
    /\ AtValue
    /\ Depth <= MaxNesting
    /\ Has(1) /\ Cell(1) \in 0..7 /\ Kinds[Cell(1) + 1] = k

\* A value of kind k begins.
Tag(k) ==
    /\ AtValue
    /\ nodes < MaxNodes /\ Depth <= MaxNesting
    /\ Has(1) /\ Cell(1) \in 0..7 /\ Kinds[Cell(1) + 1] = k

InvalidTag ==
    /\ AtValue
    /\ nodes < MaxNodes /\ Depth <= MaxNesting
    /\ Has(1) /\ Cell(1) > 7
    /\ Fail("InvalidTag")

\* One value less to read in the innermost collection.
OneLess == [frames EXCEPT ![Len(frames)].left = @ - 1]

\* The value is in the next n cells behind the tag, from cell a on.
ReadScalar(k, a, n) ==
    /\ Has(n)
    /\ built' = Append(built, Scalar(k, SubSeq(bytes, offset + a, offset + n)))
    /\ frames' = OneLess
    /\ offset' = offset + n
    /\ nodes' = nodes + 1
    /\ UNCHANGED <<form, bytes, outcome>>

DecodeNull == Tag("null") /\ ReadScalar("null", 2, 1)

DecodeNumber ==
    \E k \in {"int", "float"} :
        /\ Tag(k)
        /\ \/ ~Has(2) /\ Fail("UnexpectedEnd")
           \/ ReadScalar(k, 2, 2)

DecodeBool ==
    /\ Tag("bool")
    /\ \/ ~Has(2) /\ Fail("UnexpectedEnd")
       \/ Has(2) /\ Cell(2) > 1 /\ Fail("InvalidBool")
       \/ Has(2) /\ Cell(2) <= 1 /\ ReadScalar("bool", 2, 2)

\* A string or bytes: the length, and as many bytes.
DecodeText ==
    \E k \in {"string", "bytes"} :
        /\ Tag(k)
        /\ \/ ~Has(2) /\ Fail("UnexpectedEnd")
           \/ Has(2) /\ ~Has(2 + Cell(2)) /\ Fail("UnexpectedEnd")
           \/ /\ Has(2) /\ Has(2 + Cell(2))
              /\ IF k = "string" /\ \E i \in 3..(2 + Cell(2)) : Cell(i) = NotText
                 THEN Fail("InvalidUtf8")
                 ELSE ReadScalar(k, 3, 2 + Cell(2))

Width(k) == IF k = "map" THEN 2 ELSE 1

\* Mutant: the room is reserved before the length is looked at.
OpenCollectionAnyLength ==
    \E k \in {"array", "map"} :
        /\ Tag(k) /\ Has(2)
        /\ frames' = Append(OneLess, Frame(k, Cell(2), Width(k) * Cell(2)))
        /\ offset' = offset + 2
        /\ nodes' = nodes + 1
        /\ UNCHANGED <<form, bytes, built, outcome>>

\* An array or a map begins; its items follow.
OpenCollection ==
    \E k \in {"array", "map"} :
        /\ Tag(k) /\ CountFits(2, Width(k))
        /\ frames' = Append(OneLess, Frame(k, Cell(2), Width(k) * Cell(2)))
        /\ offset' = offset + 2
        /\ nodes' = nodes + 1
        /\ UNCHANGED <<form, bytes, built, outcome>>

RefuseCollection ==
    \E k \in {"array", "map"} : Tag(k) /\ RefuseCount(2, Width(k))

AtEnd == outcome = "running" /\ frames # <<>> /\ Top.left = 0

\* All items of the innermost collection have been read.
CloseCollection ==
    /\ AtEnd /\ Len(frames) > 1
    /\ LET n == Len(built) - Width(Top.kind) * Top.count
       IN  built' = Append(SubSeq(built, 1, n),
                           Collection(Top.kind, SubSeq(built, n + 1, Len(built))))
    /\ frames' = SubSeq(frames, 1, Len(frames) - 1)
    /\ UNCHANGED <<form, bytes, offset, nodes, outcome>>

-----------------------------------------------------------------------------
(* The end of the frame *)

AtResult == AtEnd /\ Len(frames) = 1 /\ form = "response" /\ Top.kind = "locals"

RefuseResult ==
    /\ AtResult
    /\ \/ ~Has(1) /\ Fail("UnexpectedEnd")
       \/ Has(1) /\ Cell(1) > 1 /\ Fail("InvalidBool")

\* A response has a result or none.
ReadResult ==
    /\ AtResult
    /\ Has(1) /\ Cell(1) <= 1
    /\ frames' = <<Frame(IF Cell(1) = 1 THEN "result" ELSE "none", Cell(1), Cell(1))>>
    /\ offset' = offset + 1
    /\ UNCHANGED <<form, bytes, nodes, built, outcome>>

\* Mutant: what follows the frame is ignored.
FinishAnywhere ==
    /\ AtEnd /\ Len(frames) = 1 /\ ~AtResult
    /\ outcome' = "ok"
    /\ UNCHANGED <<form, bytes, offset, nodes, frames, built>>

Finish ==
    /\ AtEnd /\ Len(frames) = 1 /\ ~AtResult
    /\ outcome' = IF offset = Len(bytes) THEN "ok" ELSE "TrailingData"
    /\ UNCHANGED <<form, bytes, offset, nodes, frames, built>>

Next ==
    \/ RefuseFrame \/ ReadMagic \/ RefuseLocals \/ ReadLocals
    \/ RefuseValue \/ InvalidTag \/ DecodeNull \/ DecodeNumber \/ DecodeBool
    \/ DecodeText \/ OpenCollection \/ RefuseCollection \/ CloseCollection
    \/ RefuseResult \/ ReadResult \/ Finish

Spec == Init /\ [][Next]_vars

-----------------------------------------------------------------------------
(* Properties *)

OpenFrame == [kind : {"locals", "result", "none", "array", "map"},
              count : Nat, left : Nat]

\* Every variable stays within its type; what is built is described in
\* WireCodec.
TypeOK ==
    /\ form \in {"state", "response"}
    /\ bytes \in Seq(Nat)
    /\ offset \in 0..Len(bytes)
    /\ nodes \in 0..MaxNodes
    /\ frames \in Seq(OpenFrame)
    /\ outcome \in Errors \union {"running", "ok"}

\* Whatever the frame says, the decoder never reserves room for more items
\* than bytes had come, and no deeper than the nesting it allows: the room is
\* bounded before a single item has been read.
ReservationsBounded ==
    /\ Len(frames) <= MaxNesting + 2
    /\ \A i \in 1..Len(frames) : Width(frames[i].kind) * frames[i].count <= MaxBytes

=============================================================================
