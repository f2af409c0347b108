------------------------------ MODULE ScriptStore ------------------------------
(***************************************************************************)
(* Where the scripts of a board come from and how they are replaced: the   *)
(* boot sequence of src/firmware/main.cpp, and the SD card, the script     *)
(* partition and the serial transfer commands of                           *)
(* src/firmware/script_loader.cpp, under resets, lost bytes and failing    *)
(* calls.  The framed requests of the same command loop are in ReplLink.   *)
(*                                                                         *)
(* An image is a number of parts.  A checksum tells complete images apart  *)
(* from everything else that is ever read.                                 *)
(***************************************************************************)
EXTENDS Integers, Sequences, SequencesExt

CONSTANTS
    Image,       \* the scripts users have
    Size,        \* their number of parts
    Capacity,    \* parts that fit in the partition behind its header
    MaxCommands, \* bound: commands that are sent, cards and images put in
    MaxFaults    \* bound: resets, losses and failing calls

ASSUME SizeAssumption == Size \in [Image -> Nat \ {0}]
\* A board without a script partition has no capacity.
ASSUME CapacityAssumption == Capacity \in Nat
ASSUME BoundsAssumption == MaxCommands \in Nat /\ MaxFaults \in Nat

VARIABLES
    pc,       \* what the board is doing
    ram,      \* the parts in the payload buffer, or in image.data
    source,   \* where they came from: "sd", "flash" or the command
    want,     \* the image whose length and checksum the command gave
    heap,     \* buffers allocated
    header,   \* the partition: length and checksum,
    data,     \* and the parts
    card,     \* the file on the SD card, empty if there is none
    input,    \* bytes on their way to the board: commands and parts
    ready,    \* "rss:ready" is on its way to the sender
    sender,   \* the image the sender has announced and not sent
    acked,    \* the image of the last "rss:installed", or flashed since
    sent,     \* commands sent
    faults    \* faults so far

vars == <<pc, ram, source, want, heap, header, data, card, input, ready,
          sender, acked, sent, faults>>

partition == <<header, data>>
serial == <<input, ready, sender, sent>>

-----------------------------------------------------------------------------
(* Images *)

Part == [kind : {"part"}, img : Image, at : Nat]
Transfer == [kind : {"load", "install"}, img : Image]
RunLine == [kind |-> "run"]
Garbled == [kind |-> "garbled"]
Token == Part \union Transfer \union {RunLine, Garbled}

Nothing == [kind |-> "nothing"]
Erased == [kind |-> "erased"]

ASSUME ImageAssumption == Nothing \notin Image /\ Erased \notin Image
Cell == Token \union {Erased}
Headers == [len : Nat \ {0}, crc : Image \union {Erased}]

Content(m) == [i \in 1..Size[m] |-> [kind |-> "part", img |-> m, at |-> i]]

\* rustscript_crc32: s is exactly what the checksum was made of.
CrcIs(s, m) == m \in Image /\ s = Content(m)

Blank == [i \in 1..Capacity |-> Erased]

\* What rustscript_load_partition returns if the partition holds header h and
\* parts d.
Stored(h, d) ==
    LET len == IF h = Erased THEN 0 ELSE h.len
        s == [i \in 1..len |-> d[i]]
    IN  IF 0 < len /\ len <= Capacity /\ CrcIs(s, h.crc) THEN s ELSE <<>>

FlashImage == Stored(header, data)

-----------------------------------------------------------------------------
Init ==
    /\ pc = "sd"
    /\ ram = <<>> /\ source = "sd" /\ heap = 0
    /\ want = Nothing
    /\ header = Erased /\ data = Blank
    /\ card = <<>>
    /\ input = <<>> /\ ready = FALSE
    /\ sender = Nothing
    /\ acked = Nothing
    /\ sent = 0 /\ faults = 0

\* A call fails, or a byte is lost: as often as the bound allows.
Fault == faults < MaxFaults /\ faults' = faults + 1

\* An image is in memory and is run.
StartWith(s, from) ==
    /\ ram' = s
    /\ source' = from
    /\ heap' = heap + 1
    /\ pc' = "run"

\* The buffer is freed and the command loop goes on.
BackToLoop ==
    /\ ram' = <<>>
    /\ heap' = heap - 1
    /\ pc' = "repl"

-----------------------------------------------------------------------------
(* Booting: setup() *)

BootCard ==
    /\ pc = "sd" /\ card # <<>>
    /\ StartWith(card, "sd")
    /\ UNCHANGED <<want, partition, card, serial, acked, faults>>

NoCard ==
    /\ pc = "sd"
    /\ \/ card = <<>> /\ UNCHANGED faults
       \/ card # <<>> /\ Fault
    /\ pc' = "flash"
    /\ UNCHANGED <<ram, source, want, heap, partition, card, serial, acked>>

BootFlash ==
    /\ pc = "flash" /\ FlashImage # <<>>
    /\ StartWith(FlashImage, "flash")
    /\ UNCHANGED <<want, partition, card, serial, acked, faults>>

NoScript ==
    /\ pc = "flash"
    /\ \/ FlashImage = <<>> /\ UNCHANGED faults
       \/ FlashImage # <<>> /\ Fault
    /\ pc' = "repl"
    /\ UNCHANGED <<ram, source, want, heap, partition, card, serial, acked>>

\* rustscript_run_vmbc returns, whatever its status; the image is freed.
RunDone ==
    /\ pc = "run"
    /\ BackToLoop
    /\ UNCHANGED <<source, want, partition, card, serial, acked, faults>>

-----------------------------------------------------------------------------
(* Commands: rustscript_repl_source and receive_repl_payload *)

\* A line has come in that is the command c.
ReadCommand(kinds) ==
    /\ pc = "repl" /\ input # <<>>
    /\ Head(input).kind \in kinds
    /\ input' = Tail(input)

\* Mutant: install invalidates the partition before the payload is checked.
BeginTransferWipes ==
    /\ ReadCommand({"load", "install"})
    /\ Size[Head(input).img] <= Capacity
    /\ want' = Head(input).img
    /\ source' = Head(input).kind
    /\ heap' = heap + 1
    /\ ready' = TRUE
    /\ pc' = "transfer"
    /\ header' = IF Head(input).kind = "install" THEN Erased ELSE header
    /\ UNCHANGED <<ram, data, card, sender, acked, sent, faults>>

\* load or install of a payload that fits: the buffer is allocated and the
\* sender is told.
BeginTransfer ==
    /\ ReadCommand({"load", "install"})
    /\ Size[Head(input).img] <= Capacity
    /\ want' = Head(input).img
    /\ source' = Head(input).kind
    /\ heap' = heap + 1
    /\ ready' = TRUE
    /\ pc' = "transfer"
    /\ UNCHANGED <<ram, partition, card, sender, acked, sent, faults>>

\* payload-too-large, or allocation-failed.
RefuseTransfer ==
    /\ ReadCommand({"load", "install"})
    /\ \/ Size[Head(input).img] > Capacity /\ UNCHANGED faults
       \/ Size[Head(input).img] <= Capacity /\ Fault
    /\ UNCHANGED <<pc, ram, source, want, heap, partition, card, ready, sender,
                   acked, sent>>

\* read_serial_payload takes whatever comes.
ReadPayload ==
    /\ pc = "transfer" /\ Len(ram) < Size[want] /\ input # <<>>
    /\ ram' = Append(ram, Head(input))
    /\ input' = Tail(input)
    /\ UNCHANGED <<pc, source, want, heap, partition, card, ready, sender,
                   acked, sent, faults>>

\* Mutant: read_serial_payload waits as long as it takes.
TransferNeverTimesOut ==
    /\ pc = "transfer" /\ Len(ram) < Size[want] /\ input = <<>>
    /\ UNCHANGED vars

TransferTimeout ==
    /\ pc = "transfer" /\ Len(ram) < Size[want] /\ input = <<>>
    /\ BackToLoop
    /\ UNCHANGED <<source, want, partition, card, serial, acked, faults>>

\* Mutant: the buffer is not freed.
CrcMismatchLeaks ==
    /\ pc = "transfer" /\ Len(ram) = Size[want] /\ ~CrcIs(ram, want)
    /\ ram' = <<>>
    /\ pc' = "repl"
    /\ UNCHANGED <<source, want, heap, partition, card, serial, acked, faults>>

CrcMismatch ==
    /\ pc = "transfer" /\ Len(ram) = Size[want] /\ ~CrcIs(ram, want)
    /\ BackToLoop
    /\ UNCHANGED <<source, want, partition, card, serial, acked, faults>>

\* Mutant: only the length is compared.
LoadedUnchecked ==
    /\ pc = "transfer" /\ source = "load" /\ Len(ram) = Size[want]
    /\ pc' = "run"
    /\ UNCHANGED <<ram, source, want, heap, partition, card, serial, acked, faults>>

Loaded ==
    /\ pc = "transfer" /\ source = "load" /\ CrcIs(ram, want)
    /\ pc' = "run"
    /\ UNCHANGED <<ram, source, want, heap, partition, card, serial, acked, faults>>

BeginInstall ==
    /\ pc = "transfer" /\ source = "install" /\ CrcIs(ram, want)
    /\ pc' = "erase"
    /\ acked' = Nothing
    /\ UNCHANGED <<ram, source, want, heap, partition, card, serial, faults>>

\* run: a part of a payload that comes late may read as this line, too.
RunCommand ==
    /\ ReadCommand({"run", "part", "garbled"})
    /\ FlashImage # <<>>
    /\ StartWith(FlashImage, "flash")
    /\ UNCHANGED <<want, partition, card, ready, sender, acked, sent, faults>>

\* info, help, unknown-command, and run when there is no script or it cannot
\* be read.
OtherLine ==
    /\ ReadCommand({"run", "part", "garbled"})
    /\ IF Head(input).kind = "run" /\ FlashImage # <<>>
       THEN Fault ELSE UNCHANGED faults
    /\ UNCHANGED <<pc, ram, source, want, heap, partition, card, ready, sender,
                   acked, sent>>

-----------------------------------------------------------------------------
(* rustscript_install_partition *)

\* One sector after the other is erased; in which order is left open.
EraseSector ==
    /\ pc = "erase"
    /\ \/ header # Erased /\ header' = Erased /\ UNCHANGED data
       \/ \E i \in 1..Capacity : /\ data[i] # Erased
                                 /\ data' = [data EXCEPT ![i] = Erased]
                                 /\ UNCHANGED header
    /\ UNCHANGED <<pc, ram, source, want, heap, card, serial, acked, faults>>

\* Mutant: only the sector of the header is erased.
EraseDoneEarly ==
    /\ pc = "erase" /\ header = Erased
    /\ pc' = "header"
    /\ UNCHANGED <<ram, source, want, heap, partition, card, serial, acked, faults>>

EraseDone ==
    /\ pc = "erase" /\ header = Erased /\ data = Blank
    /\ pc' = "header"
    /\ UNCHANGED <<ram, source, want, heap, partition, card, serial, acked, faults>>

\* The header is written, its checksum last.
WriteHeader ==
    /\ pc = "header"
    /\ IF header = Erased
       THEN /\ header' = [len |-> Len(ram), crc |-> Erased]
            /\ UNCHANGED pc
       ELSE /\ header' = [header EXCEPT !.crc = want]
            /\ pc' = "write"
    /\ UNCHANGED <<ram, source, want, heap, data, card, serial, acked, faults>>

\* Flash keeps what it held unless it was erased.
WriteData ==
    /\ pc = "write"
    /\ \E i \in 1..Len(ram) :
          /\ data[i] # ram[i]
          /\ \A j \in 1..(i - 1) : data[j] = ram[j]
          /\ data' = [data EXCEPT ![i] = IF @ = Erased THEN ram[i] ELSE Garbled]
    /\ UNCHANGED <<pc, ram, source, want, heap, header, card, serial, acked, faults>>

Installed ==
    /\ pc = "write"
    /\ \A i \in 1..Len(ram) : data[i] = ram[i]
    /\ acked' = want
    /\ pc' = "run"
    /\ UNCHANGED <<ram, source, want, heap, partition, card, serial, faults>>

\* Mutant: the status of an erase or a write is not looked at.
WriteUnchecked ==
    /\ pc \in {"erase", "header", "write"}
    /\ Fault
    /\ acked' = want
    /\ pc' = "run"
    /\ UNCHANGED <<ram, source, want, heap, partition, card, serial>>

\* An erase or a write fails: partition-write-failed.
WriteFails ==
    /\ pc \in {"erase", "header", "write"}
    /\ Fault
    /\ BackToLoop
    /\ UNCHANGED <<source, want, partition, card, serial, acked>>
-----------------------------------------------------------------------------
(* The user's side: scripts/repl_vmbc.py, scripts/flash_vmbc.py, the card *)

Bounded == sent < MaxCommands /\ sent' = sent + 1

\* A command is written; the payload of a transfer waits for "rss:ready".
SendCommand ==
    /\ Bounded
    /\ sender = Nothing
    /\ ready' = FALSE
    /\ \/ /\ input' = Append(input, RunLine)
          /\ UNCHANGED sender
       \/ \E c \in Transfer :
             /\ input' = Append(input, c)
             /\ sender' = c.img
    /\ UNCHANGED <<pc, ram, source, want, heap, partition, card, acked, faults>>

SendPayload ==
    /\ sender # Nothing /\ ready
    /\ input' = input \o Content(sender)
    /\ sender' = Nothing
    /\ ready' = FALSE
    /\ UNCHANGED <<pc, ram, source, want, heap, partition, card, acked, sent, faults>>

\* wait_for_line raises TimeoutError.
GiveUp ==
    /\ sender # Nothing
    /\ sender' = Nothing
    /\ UNCHANGED <<pc, ram, source, want, heap, partition, card, input, ready,
                   acked, sent, faults>>

\* A file is copied to the card, perhaps not to its end.
ChangeCard ==
    /\ Bounded
    /\ \/ card' = <<>>
       \/ \E m \in Image : \E n \in 1..Size[m] : card' = SubSeq(Content(m), 1, n)
    /\ UNCHANGED <<pc, ram, source, want, heap, partition, input, ready, sender,
                   acked, faults>>

Parts(m, n) == [i \in 1..Capacity |-> IF i <= n THEN Content(m)[i] ELSE Erased]

\* pack_vmbc refuses what does not fit.  esptool stops the script and writes
\* the partition from its start, perhaps not to the end, and resets the board.
FlashTool ==
    /\ Bounded
    /\ \E m \in Image :
          /\ Size[m] <= Capacity
          /\ header' = [len |-> Size[m], crc |-> m]
          /\ \E n \in 0..Size[m] :
                /\ data' = Parts(m, n)
                /\ acked' = IF n = Size[m] THEN m ELSE Nothing
    /\ ram' = <<>> /\ heap' = 0
    /\ pc' = "sd"
    /\ UNCHANGED <<source, want, card, input, ready, sender, faults>>

-----------------------------------------------------------------------------
(* The environment *)

\* Power fails, or a script calls mcu::restart: memory is lost; what was on
\* the wire may be lost as well.
Reset ==
    /\ Fault
    /\ ram' = <<>> /\ heap' = 0
    /\ pc' = "sd"
    /\ input' \in {<<>>, input}
    /\ UNCHANGED <<source, want, partition, card, ready, sender, acked, sent>>

\* What is on the wire is lost or changed.
Lose ==
    /\ Fault
    /\ \E i \in 1..Len(input) :
          input' \in {RemoveAt(input, i), [input EXCEPT ![i] = Garbled]}
    /\ UNCHANGED <<pc, ram, source, want, heap, partition, card, ready, sender,
                   acked, sent>>

-----------------------------------------------------------------------------
Board ==
    \/ BootCard \/ NoCard \/ BootFlash \/ NoScript \/ RunDone
    \/ BeginTransfer \/ RefuseTransfer \/ ReadPayload \/ TransferTimeout
    \/ CrcMismatch \/ Loaded \/ BeginInstall \/ RunCommand \/ OtherLine
    \/ EraseSector \/ EraseDone \/ WriteHeader \/ WriteData \/ Installed
    \/ WriteFails

User == SendCommand \/ SendPayload \/ GiveUp \/ ChangeCard \/ FlashTool

Next == Board \/ User \/ Reset \/ Lose

Spec == Init /\ [][Next]_vars

\* The board runs, and a program it runs ends, as it runs out of fuel.
FairSpec == Spec /\ WF_vars(Board)

-----------------------------------------------------------------------------
(* Properties *)

\* Every variable stays within its type.
TypeOK ==
    /\ pc \in {"sd", "flash", "run", "repl", "transfer", "erase", "header", "write"}
    /\ ram \in Seq(Token)
    /\ source \in {"sd", "flash", "load", "install"}
    /\ want \in Image \union {Nothing}
    /\ heap \in 0..1
    /\ header \in Headers \union {Erased}
    /\ data \in [1..Capacity -> Cell]
    /\ card \in Seq(Part)
    /\ input \in Seq(Token)
    /\ ready \in BOOLEAN
    /\ sender \in Image \union {Nothing}
    /\ acked \in Image \union {Nothing}
    /\ sent \in 0..MaxCommands
    /\ faults \in 0..MaxFaults

\* What is run from the partition or from the serial line is one image from
\* its first part to its last, the one that was asked for if it came by a
\* command: never a mixture of two, or one with the next command in it.
OnlyWholeImagesRun ==
    pc = "run" =>
        CASE source = "sd" -> TRUE
          [] source = "flash" -> \E m \in Image : ram = Content(m)
          [] OTHER -> ram = Content(want)

\* "rss:installed" is a promise: the image is what the partition yields from
\* then on, through resets, failed transfers, and installs that are given up
\* before the partition is touched.
AckedSurvives ==
    acked # Nothing => FlashImage = Content(acked)

\* What the partition yields changes in no other way than from an image to
\* nothing and from nothing to the image being installed, at the last write.
\* Neither a reset nor a failed call leaves it with something else.
InstallIsAllOrNothing ==
    [][FlashImage' # FlashImage /\ ~FlashTool =>
          \/ FlashImage' = <<>> /\ pc = "erase"
          \/ FlashImage = <<>> /\ FlashImage' = ram /\ pc = "write"]_vars

\* Every way out of a command frees the buffer exactly once.
HeapBalanced ==
    heap = IF pc \in {"sd", "flash", "repl"} THEN 0 ELSE 1

\* Whatever is sent or not, the board comes back to its command loop: a
\* transfer that stops half way does not keep it forever.
BoardReturnsToLoop == []<>(pc = "repl")

-----------------------------------------------------------------------------
(* The inductive strengthening of the safety properties. *)

\* What the buffer holds while a command is served.
RamShape ==
    /\ pc \in {"sd", "flash", "repl"} => ram = <<>>
    /\ pc = "transfer" =>
          /\ want \in Image /\ source \in {"load", "install"}
          /\ Size[want] <= Capacity
          /\ Len(ram) <= Size[want]
    /\ pc \in {"erase", "header", "write"} =>
          /\ source = "install"
          /\ CrcIs(ram, want)
          /\ Size[want] <= Capacity

\* What the partition holds while it is being written: nothing is promised.
InstallShape ==
    /\ pc \in {"erase", "header", "write"} => acked = Nothing
    /\ pc = "header" =>
          /\ data = Blank
          /\ header \in {Erased, [len |-> Len(ram), crc |-> Erased]}
    /\ pc = "write" =>
          /\ header = [len |-> Len(ram), crc |-> want]
          /\ \A i \in 1..Capacity :
                data[i] = Erased \/ (i <= Len(ram) /\ data[i] = ram[i])

-----------------------------------------------------------------------------
(* Refinement *)

FromCard == [kind |-> "card"]

Kept == IF FlashImage = <<>> THEN Nothing ELSE header.crc

Running ==
    IF pc # "run" THEN Nothing
    ELSE IF source = "sd" THEN FromCard
    ELSE CHOOSE m \in Image : CrcIs(ram, m)

Abstract == INSTANCE ImageStore WITH
    kept <- Kept, promised <- acked, running <- Running

\* The board keeps one image or none, as its user sees it: sectors that are
\* erased one by one, a header whose checksum comes last, parts that are lost on
\* the line and resets between any two steps do not show.  What is run from the
\* partition is the image that is kept, and a promise is withdrawn before the
\* image it is about is touched.
ImplementsImageStore == Abstract!Spec

================================================================================
