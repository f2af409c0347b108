--------------------------- MODULE ResponseScanner ---------------------------
(***************************************************************************)
(* How SerialReplTransport::execute finds the response in the byte stream  *)
(* (src/src/repl_client.rs): script output, banners and late responses may *)
(* come first, and may look like the beginning of a response header.       *)
(*                                                                         *)
(* The bytes of a header past the magic are abstracted to one that tells   *)
(* whether version and id are right, and the last one, the length of the   *)
(* body.  Whether the body's checksum matches is left open.                *)
(***************************************************************************)
EXTENDS Integers, Sequences, SequencesExt

CONSTANTS
    Byte,       \* what the serial port may deliver
    Magic,      \* REPL_RESPONSE_MAGIC
    HeaderLen,  \* FRAME_HEADER_LEN
    Id,         \* the byte after the magic that version and id must have
    Limit,      \* bytes of device_output past which the call gives up
    MaxBody,    \* MAX_FRAME_BYTES
    MaxRead     \* bound: bytes that come in during the call

ASSUME ByteAssumption == Byte \subseteq Nat
\* The magic does not begin with two equal bytes: "RSSP".
ASSUME MagicAssumption ==
    /\ Magic \in Seq(Byte)
    /\ Len(Magic) >= 2
    /\ Magic[1] # Magic[2]
ASSUME HeaderAssumption ==
    /\ HeaderLen \in Nat
    /\ HeaderLen >= Len(Magic) + 2
ASSUME LimitAssumption == Limit \in Nat /\ MaxBody \in Nat /\ MaxRead \in Nat

VARIABLES
    pc,       \* "magic", "shift", "rest", "body", "done", "error"
    read,     \* every byte that was taken from the port, in order
    pending,  \* bytes pushed back, to be read before the port
    cand,     \* the bytes of candidate that are filled in
    out,      \* device_output
    body      \* bytes of the response

vars == <<pc, read, pending, cand, out, body>>

Init ==
    /\ pc = "magic"
    /\ read = <<>>
    /\ pending = <<>>
    /\ cand = <<>>
    /\ out = <<>>
    /\ body = <<>>

-----------------------------------------------------------------------------
FromPort(b) ==
    /\ Len(read) < MaxRead
    /\ read' = Append(read, b)

\* read_stream_byte
Take(b) ==
    \/ /\ pending # <<>>
       /\ b = Head(pending)
       /\ pending' = Tail(pending)
       /\ UNCHANGED read
    \/ /\ pending = <<>>
       /\ FromPort(b)
       /\ UNCHANGED pending

\* The first bytes of a candidate.
FillMagic ==
    /\ pc = "magic"
    /\ \E b \in Byte : Take(b) /\ cand' = Append(cand, b)
    /\ pc' = IF Len(cand') = Len(Magic) THEN "shift" ELSE "magic"
    /\ UNCHANGED <<out, body>>

\* Mutant: the limit is not checked.
ShiftUnlimited ==
    /\ pc = "shift" /\ cand # Magic
    /\ out' = Append(out, Head(cand))
    /\ \E b \in Byte : Take(b) /\ cand' = Append(Tail(cand), b)
    /\ UNCHANGED <<pc, body>>

\* rotate_left: the oldest byte is output, the window moves on.
Shift ==
    /\ pc = "shift" /\ cand # Magic
    /\ Len(out) < Limit
    /\ out' = Append(out, Head(cand))
    /\ \E b \in Byte : Take(b) /\ cand' = Append(Tail(cand), b)
    /\ UNCHANGED <<pc, body>>

\* The next byte does not come in time: the oldest one has been output.
ShiftFails ==
    /\ pc = "shift" /\ cand # Magic
    /\ Len(out) < Limit
    /\ pending = <<>>
    /\ out' = Append(out, Head(cand))
    /\ cand' = Tail(cand)
    /\ pc' = "error"
    /\ UNCHANGED <<read, pending, body>>

PreludeTooLong ==
    /\ pc = "shift" /\ cand # Magic
    /\ Len(out) >= Limit
    /\ pc' = "error"
    /\ UNCHANGED <<read, pending, cand, out, body>>

MagicFound ==
    /\ pc = "shift" /\ cand = Magic
    /\ pc' = "rest"
    /\ UNCHANGED <<read, pending, cand, out, body>>

\* Mutant: the header is read past the bytes that were pushed back.
FillRestFromPort ==
    /\ pc = "rest" /\ Len(cand) < HeaderLen
    /\ \E b \in Byte : FromPort(b) /\ cand' = Append(cand, b)
    /\ UNCHANGED <<pc, pending, out, body>>

\* Mutant: one byte too many is read.
FillRestTooFar ==
    /\ pc = "rest" /\ Len(cand) <= HeaderLen
    /\ \E b \in Byte : Take(b) /\ cand' = Append(cand, b)
    /\ UNCHANGED <<pc, out, body>>

FillRest ==
    /\ pc = "rest" /\ Len(cand) < HeaderLen
    /\ \E b \in Byte : Take(b) /\ cand' = Append(cand, b)
    /\ UNCHANGED <<pc, out, body>>

Ours(h) == h[Len(Magic) + 1] = Id

BodyLen(h) == h[HeaderLen]

\* Mutant: the bytes are pushed back in the wrong order.
RejectReversed ==
    /\ pc = "rest" /\ Len(cand) = HeaderLen /\ ~Ours(cand)
    /\ out' = Append(out, Head(cand))
    /\ pending' = Reverse(Tail(cand)) \o pending
    /\ cand' = <<>>
    /\ pc' = "magic"
    /\ UNCHANGED <<read, body>>

\* Mutant: the whole header is output.
RejectWhole ==
    /\ pc = "rest" /\ Len(cand) = HeaderLen /\ ~Ours(cand)
    /\ out' = out \o cand
    /\ cand' = <<>>
    /\ pc' = "magic"
    /\ UNCHANGED <<read, pending, body>>

\* Another request's header, or none at all: one byte is output and the
\* others are looked at again.
Reject ==
    /\ pc = "rest" /\ Len(cand) = HeaderLen /\ ~Ours(cand)
    /\ out' = Append(out, Head(cand))
    /\ pending' = Tail(cand) \o pending
    /\ cand' = <<>>
    /\ pc' = "magic"
    /\ UNCHANGED <<read, body>>

BodyTooLong ==
    /\ pc = "rest" /\ Len(cand) = HeaderLen /\ Ours(cand)
    /\ BodyLen(cand) > MaxBody
    /\ pc' = "error"
    /\ UNCHANGED <<read, pending, cand, out, body>>

Accept ==
    /\ pc = "rest" /\ Len(cand) = HeaderLen /\ Ours(cand)
    /\ BodyLen(cand) <= MaxBody
    /\ pc' = "body"
    /\ UNCHANGED <<read, pending, cand, out, body>>

\* read_exact straight from the port.
FillBody ==
    /\ pc = "body" /\ Len(body) < BodyLen(cand)
    /\ \E b \in Byte : FromPort(b) /\ body' = Append(body, b)
    /\ UNCHANGED <<pc, pending, cand, out>>

Return ==
    /\ pc = "body" /\ Len(body) = BodyLen(cand)
    /\ pc' \in {"done", "error"}
    /\ UNCHANGED <<read, pending, cand, out, body>>

\* The port times out anywhere else.
ReadFails ==
    /\ \/ pc = "magic" /\ pending = <<>>
       \/ pc = "rest" /\ Len(cand) < HeaderLen /\ pending = <<>>
       \/ pc = "body" /\ Len(body) < BodyLen(cand)
    /\ pc' = "error"
    /\ UNCHANGED <<read, pending, cand, out, body>>

Next ==
    \/ FillMagic \/ Shift \/ ShiftFails \/ PreludeTooLong \/ MagicFound
    \/ FillRest \/ Reject \/ BodyTooLong \/ Accept
    \/ FillBody \/ Return \/ ReadFails

Spec == Init /\ [][Next]_vars

-----------------------------------------------------------------------------
(* Properties *)

\* Every variable stays within its type; a candidate is never too long.
TypeOK ==
    /\ pc \in {"magic", "shift", "rest", "body", "done", "error"}
    /\ read \in Seq(Byte)
    /\ pending \in Seq(Byte)
    /\ cand \in Seq(Byte)
    /\ Len(cand) <= HeaderLen
    /\ out \in Seq(Byte)
    /\ body \in Seq(Byte)

\* r is a followed by b followed by c.
Split(r, a, b, c) ==
    /\ Len(r) = Len(a) + Len(b) + Len(c)
    /\ \A i \in 1..Len(a) : r[i] = a[i]
    /\ \A i \in 1..Len(b) : r[Len(a) + i] = b[i]
    /\ \A i \in 1..Len(c) : r[Len(a) + Len(b) + i] = c[i]

\* What was read is what was output, followed by the candidate, followed by
\* what was pushed back: no byte is lost, doubled or moved, however often
\* headers are begun and given up.
BytesConserved ==
    pc \in {"magic", "shift", "rest"} => Split(read, out, cand, pending)

\* The body is what follows the accepted header on the wire, although it is
\* read past the bytes that were pushed back.
BodyFollowsHeader ==
    pc \in {"body", "done"} =>
        /\ Len(read) = Len(out) + HeaderLen + Len(body)
        /\ \A i \in 1..Len(body) : read[Len(out) + HeaderLen + i] = body[i]

\* The stream has a header of ours at position i + 1, or may still turn out
\* to have one.
MayStartAt(i) ==
    /\ \A k \in 1..Len(Magic) : i + k <= Len(read) => read[i + k] = Magic[k]
    /\ i + Len(Magic) + 1 <= Len(read) => read[i + Len(Magic) + 1] = Id

\* Nothing that is output could have been the beginning of the response: the
\* first header with the right id is the one that is accepted.
NoResponseMissed ==
    \A i \in 0..(Len(out) - 1) : ~MayStartAt(i)

\* The output before a response exceeds its limit by one byte at most: the
\* byte that is output when a header is given up is not checked against it.
OutputBounded == Len(out) <= Limit + 1

-----------------------------------------------------------------------------
(* The inductive strengthening of the properties above. *)

CandShape ==
    /\ pc = "magic" => Len(cand) < Len(Magic)
    /\ pc = "shift" => Len(cand) = Len(Magic)
    /\ pc = "rest" => /\ Len(cand) >= Len(Magic)
                      /\ \A k \in 1..Len(Magic) : cand[k] = Magic[k]
    /\ pc \in {"body", "done"} => Len(cand) = HeaderLen

\* Bytes that are pushed back are used up by the next full header.
PendingFits ==
    /\ pc \in {"magic", "shift", "rest"} /\ pending # <<>> =>
          Len(cand) + Len(pending) <= HeaderLen
    /\ pc = "body" => pending = <<>>

\* One byte past the limit, the scanner looks at the second byte of a magic.
Overshoot ==
    Len(out) > Limit =>
        /\ Len(out) = Limit + 1
        /\ pc \in {"magic", "shift", "error"}
        /\ cand # <<>> => cand[1] = Magic[2]
        /\ cand = <<>> => pending # <<>> /\ pending[1] = Magic[2]

=============================================================================
