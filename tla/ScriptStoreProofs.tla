-------------------------- MODULE ScriptStoreProofs --------------------------
(***************************************************************************)
(* Theorems about ScriptStore for all images, every size of the partition  *)
(* and any number of commands, resets, losses and failing calls.           *)
(***************************************************************************)
EXTENDS ScriptStore, StreamLemmas

-----------------------------------------------------------------------------
(* Images and tokens *)

LEMMA ImageContent ==
    ASSUME NEW m \in Image
    PROVE  /\ Size[m] \in Nat /\ Size[m] >= 1
           /\ Content(m) \in Seq(Part)
           /\ Len(Content(m)) = Size[m]
           /\ DOMAIN Content(m) = 1..Size[m]
           /\ Content(m) # <<>>
           /\ \A i \in 1..Size[m] : Content(m)[i] \in Part /\ Content(m)[i] # Erased
<1>1. Size[m] \in Nat /\ Size[m] >= 1
  BY SizeAssumption
<1>2. \A i \in 1..Size[m] : /\ [kind |-> "part", img |-> m, at |-> i] \in Part
                            /\ [kind |-> "part", img |-> m, at |-> i].kind = "part"
  BY <1>1 DEF Part
<1>3. \A i \in 1..Size[m] : Content(m)[i] \in Part /\ Content(m)[i] # Erased
  BY <1>2 DEF Content, Erased
<1>4. Content(m) \in [1..Size[m] -> Part]
  BY <1>2 DEF Content
<1>5. Content(m) \in Seq(Part) /\ Len(Content(m)) = Size[m]
  BY <1>1, <1>4
<1>6. DOMAIN Content(m) = 1..Size[m]
  BY <1>4
<1>7. Content(m) # <<>>
  BY <1>1, <1>5
<1> QED
  BY <1>1, <1>3, <1>5, <1>6, <1>7

\* A token with an image is a transfer command.
LEMMA Commands ==
    ASSUME NEW t \in Token
    PROVE  /\ t.kind \in {"load", "install"} => t \in Transfer /\ t.img \in Image
           /\ t # Erased
BY DEF Token, Part, Transfer, RunLine, Garbled, Erased

LEMMA TokenSets == /\ Part \subseteq Token /\ Transfer \subseteq Token
                   /\ RunLine \in Token /\ Garbled \in Token
                   /\ Seq(Part) \subseteq Seq(Token)
<1>1. Part \subseteq Token
  BY DEF Token
<1>2. Seq(Part) \subseteq Seq(Token)
  <2>1. ASSUME NEW s \in Seq(Part)
        PROVE  s \in Seq(Token)
    BY <1>1, Len(s) \in Nat, s \in [1..Len(s) -> Part]
  <2> QED
    BY <2>1
<1> QED
  BY <1>1, <1>2 DEF Token

-----------------------------------------------------------------------------
(* What the partition yields *)

LEMMA StoredCases ==
    ASSUME NEW h \in Headers \union {Erased}, NEW d \in [1..Capacity -> Cell],
           Stored(h, d) # <<>>
    PROVE  /\ h # Erased
           /\ h.crc \in Image
           /\ h.len = Size[h.crc]
           /\ h.len <= Capacity
           /\ Stored(h, d) = Content(h.crc)
           /\ \A i \in 1..h.len : d[i] = Content(h.crc)[i]
<1>1. /\ h # Erased
      /\ h.len <= Capacity
      /\ CrcIs([i \in 1..h.len |-> d[i]], h.crc)
      /\ Stored(h, d) = [i \in 1..h.len |-> d[i]]
  <2>1. h # Erased
    <3>1. ASSUME h = Erased PROVE Stored(h, d) = <<>>
      <4>1. ~(0 < (IF h = Erased THEN 0 ELSE h.len))
        BY <3>1
      <4> QED
        BY ONLY <4>1 DEF Stored
    <3> QED
      BY <3>1
  <2>2. (IF h = Erased THEN 0 ELSE h.len) = h.len
    BY <2>1
  <2> DEFINE s == [i \in 1..h.len |-> d[i]]
  <2>3. Stored(h, d) = IF 0 < h.len /\ h.len <= Capacity /\ CrcIs(s, h.crc) THEN s ELSE <<>>
    BY ONLY <2>2 DEF Stored
  <2> QED
    BY <2>1, <2>3
<1>2. h.crc \in Image /\ Stored(h, d) = Content(h.crc)
  BY <1>1 DEF CrcIs
<1>3. h.len \in Nat
  BY <1>1 DEF Headers
<1>4. DOMAIN Content(h.crc) = 1..h.len
  BY <1>1, <1>2
<1>5. h.len = Size[h.crc]
  <2>1. 1..h.len = 1..Size[h.crc] /\ Size[h.crc] \in Nat /\ Size[h.crc] >= 1
    BY <1>2, <1>4, ImageContent
  <2>2. \A a, b \in Nat : b >= 1 /\ 1..a = 1..b => a = b
    OBVIOUS
  <2> QED
    BY <1>3, <2>1, <2>2
<1> QED
  BY <1>1, <1>2, <1>5

LEMMA StoredImage ==
    ASSUME NEW m \in Image, NEW d \in [1..Capacity -> Cell],
           Size[m] <= Capacity,
           \A i \in 1..Size[m] : d[i] = Content(m)[i]
    PROVE  Stored([len |-> Size[m], crc |-> m], d) = Content(m)
<1> DEFINE h == [len |-> Size[m], crc |-> m]
           s == [i \in 1..Size[m] |-> d[i]]
<1>1. Size[m] \in Nat /\ Size[m] >= 1 /\ DOMAIN Content(m) = 1..Size[m]
  BY ImageContent
<1>2. s = Content(m)
  BY DEF Content
<1>3. h # Erased /\ h.len = Size[m] /\ h.crc = m
  BY DEF Erased
<1>4. CrcIs(s, h.crc)
  BY <1>2, <1>3 DEF CrcIs
<1>5. Stored(h, d) = s
  BY <1>1, <1>3, <1>4 DEF Stored
<1> QED
  BY <1>2, <1>5

\* Without a header, or with one whose checksum is not written, or with a part
\* that is erased, the partition yields nothing.
LEMMA StoredNothing ==
    ASSUME NEW h \in Headers \union {Erased}, NEW d \in [1..Capacity -> Cell],
           \/ h = Erased
           \/ h # Erased /\ h.crc = Erased
           \/ h # Erased /\ \E i \in 1..h.len : i \in 1..Capacity /\ d[i] = Erased
    PROVE  Stored(h, d) = <<>>
<1>1. SUFFICES ASSUME Stored(h, d) # <<>> PROVE FALSE
  OBVIOUS
<1>2. /\ h # Erased
      /\ h.crc \in Image
      /\ h.len = Size[h.crc]
      /\ \A i \in 1..h.len : d[i] = Content(h.crc)[i]
  BY <1>1, StoredCases
<1>3. h.crc # Erased
  BY <1>2, ImageAssumption
<1>4. \A i \in 1..h.len : d[i] # Erased
  BY <1>2, ImageContent
<1> QED
  BY <1>2, <1>3, <1>4

\* What esptool has written when it was stopped after n parts.
LEMMA PartsType ==
    ASSUME NEW m \in Image, NEW n \in 0..Size[m], Size[m] <= Capacity
    PROVE  /\ Parts(m, n) \in [1..Capacity -> Cell]
           /\ \A i \in 1..n : Parts(m, n)[i] = Content(m)[i]
<1>1. Size[m] \in Nat /\ \A i \in 1..Size[m] : Content(m)[i] \in Cell
  BY ImageContent, TokenSets DEF Cell
<1>2. \A i \in 1..Capacity : (IF i <= n THEN Content(m)[i] ELSE Erased) \in Cell
  BY <1>1, CapacityAssumption DEF Cell
<1>3. \A i \in 1..n : i \in 1..Capacity
  BY <1>1, CapacityAssumption
<1> QED
  BY <1>2, <1>3 DEF Parts

-----------------------------------------------------------------------------
(* Invariance *)

Inv ==
    /\ TypeOK
    /\ HeapBalanced
    /\ RamShape
    /\ InstallShape
    /\ OnlyWholeImagesRun
    /\ AckedSurvives

\* What is read or loaded is well typed, and so are the counters of a step.
LEMMA StepTypes ==
    ASSUME TypeOK
    PROVE  /\ FlashImage \in Seq(Token)
           /\ FlashImage # <<>> => \E m \in Image : FlashImage = Content(m)
           /\ card \in Seq(Token)
           /\ <<>> \in Seq(Token)
           /\ input # <<>> => /\ Head(input) \in Token
                              /\ Tail(input) \in Seq(Token)
                              /\ Len(input) >= 1
           /\ Fault => faults' \in 0..MaxFaults
           /\ Bounded => sent' \in 0..MaxCommands
           /\ HeapBalanced' => heap' \in 0..1
<1>1. /\ FlashImage \in Seq(Token)
      /\ FlashImage # <<>> => \E m \in Image : FlashImage = Content(m)
  <2>1. header \in Headers \union {Erased} /\ data \in [1..Capacity -> Cell]
    BY DEF TypeOK
  <2>2. CASE FlashImage = <<>>
    BY <2>2
  <2>3. CASE FlashImage # <<>>
    <3>1. header.crc \in Image /\ FlashImage = Content(header.crc)
      BY <2>1, <2>3, StoredCases DEF FlashImage
    <3> QED
      BY <3>1, ImageContent, TokenSets
  <2> QED
    BY <2>2, <2>3
<1>2. card \in Seq(Token) /\ <<>> \in Seq(Token)
  BY TokenSets DEF TypeOK
<1>3. input # <<>> => /\ Head(input) \in Token
                      /\ Tail(input) \in Seq(Token)
                      /\ Len(input) >= 1
  BY ReadStream, NotEmpty DEF TypeOK
<1>4. Fault => faults' \in 0..MaxFaults
  BY BoundsAssumption DEF TypeOK, Fault
<1>5. Bounded => sent' \in 0..MaxCommands
  BY BoundsAssumption DEF TypeOK, Bounded
<1>6. HeapBalanced' => heap' \in 0..1
  BY DEF HeapBalanced
<1> QED
  BY <1>1, <1>2, <1>3, <1>4, <1>5, <1>6

LEMMA NextInv == Inv /\ [Next]_vars => Inv'
<1> SUFFICES ASSUME TypeOK, HeapBalanced, RamShape, InstallShape,
                    OnlyWholeImagesRun, AckedSurvives, [Next]_vars
             PROVE  TypeOK' /\ HeapBalanced' /\ RamShape' /\ InstallShape'
                    /\ OnlyWholeImagesRun' /\ AckedSurvives'
  BY DEF Inv
<1>1. CASE BootCard
  <2>1. HeapBalanced' /\ RamShape' /\ InstallShape'
    BY <1>1 DEF HeapBalanced, RamShape, InstallShape, BootCard, StartWith, partition, serial
  <2>2. TypeOK'
    BY <1>1, <2>1, StepTypes DEF TypeOK, BootCard, StartWith, partition, serial
  <2>3. OnlyWholeImagesRun'
    BY <1>1 DEF OnlyWholeImagesRun, BootCard, StartWith, partition, serial
  <2>4. AckedSurvives'
    BY <1>1 DEF AckedSurvives, FlashImage, BootCard, StartWith, partition, serial
  <2> QED
    BY <2>1, <2>2, <2>3, <2>4
<1>2. CASE NoCard
  <2>1. HeapBalanced' /\ RamShape' /\ InstallShape'
    BY <1>2 DEF HeapBalanced, RamShape, InstallShape, NoCard, partition, serial
  <2>2. TypeOK'
    BY <1>2, <2>1, StepTypes DEF TypeOK, NoCard, partition, serial
  <2>3. OnlyWholeImagesRun'
    BY <1>2 DEF OnlyWholeImagesRun, NoCard, partition, serial
  <2>4. AckedSurvives'
    BY <1>2 DEF AckedSurvives, FlashImage, NoCard, partition, serial
  <2> QED
    BY <2>1, <2>2, <2>3, <2>4
<1>3. CASE BootFlash
  <2>1. HeapBalanced' /\ RamShape' /\ InstallShape'
    BY <1>3 DEF HeapBalanced, RamShape, InstallShape, BootFlash, StartWith, partition, serial
  <2>2. TypeOK'
    BY <1>3, <2>1, StepTypes DEF TypeOK, BootFlash, StartWith, partition, serial
  <2>3. OnlyWholeImagesRun'
    BY <1>3, StepTypes DEF OnlyWholeImagesRun, BootFlash, StartWith, partition, serial
  <2>4. AckedSurvives'
    BY <1>3 DEF AckedSurvives, FlashImage, BootFlash, StartWith, partition, serial
  <2> QED
    BY <2>1, <2>2, <2>3, <2>4
<1>4. CASE NoScript
  <2>1. HeapBalanced' /\ RamShape' /\ InstallShape'
    BY <1>4 DEF HeapBalanced, RamShape, InstallShape, NoScript, partition, serial
  <2>2. TypeOK'
    BY <1>4, <2>1, StepTypes DEF TypeOK, NoScript, partition, serial
  <2>3. OnlyWholeImagesRun'
    BY <1>4 DEF OnlyWholeImagesRun, NoScript, partition, serial
  <2>4. AckedSurvives'
    BY <1>4 DEF AckedSurvives, FlashImage, NoScript, partition, serial
  <2> QED
    BY <2>1, <2>2, <2>3, <2>4
<1>5. CASE RunDone
  <2>1. HeapBalanced' /\ RamShape' /\ InstallShape'
    BY <1>5 DEF HeapBalanced, RamShape, InstallShape, RunDone, BackToLoop, partition, serial
  <2>2. TypeOK'
    BY <1>5, <2>1, StepTypes DEF TypeOK, RunDone, BackToLoop, partition, serial
  <2>3. OnlyWholeImagesRun'
    BY <1>5 DEF OnlyWholeImagesRun, RunDone, BackToLoop, partition, serial
  <2>4. AckedSurvives'
    BY <1>5 DEF AckedSurvives, FlashImage, RunDone, BackToLoop, partition, serial
  <2> QED
    BY <2>1, <2>2, <2>3, <2>4
<1>6. CASE BeginTransfer
  <2>1. HeapBalanced' /\ RamShape' /\ InstallShape'
    <3>1. Head(input) \in Transfer /\ Head(input).img \in Image
      BY <1>6, StepTypes, Commands DEF BeginTransfer, ReadCommand
    <3>2. Len(<<>>) = 0 /\ Size[Head(input).img] \in Nat
      BY <3>1, ImageContent
    <3>3. Head(input).kind \in {"load", "install"}
      BY <3>1 DEF Transfer
    <3> QED
      BY <1>6, <3>1, <3>2, <3>3 DEF HeapBalanced, RamShape, InstallShape, BeginTransfer, ReadCommand, partition
  <2>2. TypeOK'
    <3>1. Head(input) \in Transfer /\ Head(input).img \in Image
      BY <1>6, StepTypes, Commands DEF BeginTransfer, ReadCommand
    <3>2. Head(input).kind \in {"load", "install"}
      BY <3>1 DEF Transfer
    <3> QED
      BY <1>6, <2>1, <3>1, <3>2, StepTypes DEF TypeOK, BeginTransfer, ReadCommand, partition
  <2>3. OnlyWholeImagesRun'
    BY <1>6 DEF OnlyWholeImagesRun, BeginTransfer, ReadCommand, partition
  <2>4. AckedSurvives'
    BY <1>6 DEF AckedSurvives, FlashImage, BeginTransfer, ReadCommand, partition
  <2> QED
    BY <2>1, <2>2, <2>3, <2>4
<1>7. CASE RefuseTransfer
  <2>1. HeapBalanced' /\ RamShape' /\ InstallShape'
    BY <1>7 DEF HeapBalanced, RamShape, InstallShape, RefuseTransfer, ReadCommand, partition
  <2>2. TypeOK'
    BY <1>7, <2>1, StepTypes DEF TypeOK, RefuseTransfer, ReadCommand, partition
  <2>3. OnlyWholeImagesRun'
    BY <1>7 DEF OnlyWholeImagesRun, RefuseTransfer, ReadCommand, partition
  <2>4. AckedSurvives'
    BY <1>7 DEF AckedSurvives, FlashImage, RefuseTransfer, ReadCommand, partition
  <2> QED
    BY <2>1, <2>2, <2>3, <2>4
<1>8. CASE ReadPayload
  <2>1. HeapBalanced' /\ RamShape' /\ InstallShape'
    <3>1. ram \in Seq(Token) /\ Head(input) \in Token
      BY <1>8, StepTypes DEF TypeOK, ReadPayload
    <3>2. Len(ram') = Len(ram) + 1
      BY <1>8, <3>1, WriteStream DEF ReadPayload
    <3>3. want \in Image /\ Size[want] \in Nat /\ Len(ram) \in Nat
      BY <1>8, <3>1, ImageContent DEF RamShape, ReadPayload
    <3>4. Len(ram') <= Size[want]
      BY <1>8, <3>2, <3>3 DEF ReadPayload
    <3> QED
      BY <1>8, <3>4 DEF HeapBalanced, RamShape, InstallShape, ReadPayload, partition
  <2>2. TypeOK'
    BY <1>8, <2>1, StepTypes DEF TypeOK, ReadPayload, partition
  <2>3. OnlyWholeImagesRun'
    BY <1>8 DEF OnlyWholeImagesRun, ReadPayload, partition
  <2>4. AckedSurvives'
    BY <1>8 DEF AckedSurvives, FlashImage, ReadPayload, partition
  <2> QED
    BY <2>1, <2>2, <2>3, <2>4
<1>9. CASE TransferTimeout
  <2>1. HeapBalanced' /\ RamShape' /\ InstallShape'
    BY <1>9 DEF HeapBalanced, RamShape, InstallShape, TransferTimeout, BackToLoop, partition, serial
  <2>2. TypeOK'
    BY <1>9, <2>1, StepTypes DEF TypeOK, TransferTimeout, BackToLoop, partition, serial
  <2>3. OnlyWholeImagesRun'
    BY <1>9 DEF OnlyWholeImagesRun, TransferTimeout, BackToLoop, partition, serial
  <2>4. AckedSurvives'
    BY <1>9 DEF AckedSurvives, FlashImage, TransferTimeout, BackToLoop, partition, serial
  <2> QED
    BY <2>1, <2>2, <2>3, <2>4
<1>10. CASE CrcMismatch
  <2>1. HeapBalanced' /\ RamShape' /\ InstallShape'
    BY <1>10 DEF HeapBalanced, RamShape, InstallShape, CrcMismatch, BackToLoop, partition, serial
  <2>2. TypeOK'
    BY <1>10, <2>1, StepTypes DEF TypeOK, CrcMismatch, BackToLoop, partition, serial
  <2>3. OnlyWholeImagesRun'
    BY <1>10 DEF OnlyWholeImagesRun, CrcMismatch, BackToLoop, partition, serial
  <2>4. AckedSurvives'
    BY <1>10 DEF AckedSurvives, FlashImage, CrcMismatch, BackToLoop, partition, serial
  <2> QED
    BY <2>1, <2>2, <2>3, <2>4
<1>11. CASE Loaded
  <2>1. HeapBalanced' /\ RamShape' /\ InstallShape'
    BY <1>11 DEF HeapBalanced, RamShape, InstallShape, Loaded, partition, serial
  <2>2. TypeOK'
    BY <1>11, <2>1, StepTypes DEF TypeOK, Loaded, partition, serial
  <2>3. OnlyWholeImagesRun'
    BY <1>11 DEF OnlyWholeImagesRun, CrcIs, Loaded, partition, serial
  <2>4. AckedSurvives'
    BY <1>11 DEF AckedSurvives, FlashImage, Loaded, partition, serial
  <2> QED
    BY <2>1, <2>2, <2>3, <2>4
<1>12. CASE BeginInstall
  <2>1. HeapBalanced' /\ RamShape' /\ InstallShape'
    BY <1>12 DEF HeapBalanced, RamShape, InstallShape, BeginInstall, partition, serial
  <2>2. TypeOK'
    BY <1>12, <2>1, StepTypes DEF TypeOK, BeginInstall, partition, serial
  <2>3. OnlyWholeImagesRun'
    BY <1>12 DEF OnlyWholeImagesRun, BeginInstall, partition, serial
  <2>4. AckedSurvives'
    BY <1>12 DEF AckedSurvives, FlashImage, BeginInstall, partition, serial
  <2> QED
    BY <2>1, <2>2, <2>3, <2>4
<1>13. CASE RunCommand
  <2>1. HeapBalanced' /\ RamShape' /\ InstallShape'
    BY <1>13 DEF HeapBalanced, RamShape, InstallShape, RunCommand, ReadCommand, StartWith, partition
  <2>2. TypeOK'
    BY <1>13, <2>1, StepTypes DEF TypeOK, RunCommand, ReadCommand, StartWith, partition
  <2>3. OnlyWholeImagesRun'
    BY <1>13, StepTypes DEF OnlyWholeImagesRun, RunCommand, ReadCommand, StartWith, partition
  <2>4. AckedSurvives'
    BY <1>13 DEF AckedSurvives, FlashImage, RunCommand, ReadCommand, StartWith, partition
  <2> QED
    BY <2>1, <2>2, <2>3, <2>4
<1>14. CASE OtherLine
  <2>1. HeapBalanced' /\ RamShape' /\ InstallShape'
    BY <1>14 DEF HeapBalanced, RamShape, InstallShape, OtherLine, ReadCommand, partition
  <2>2. TypeOK'
    BY <1>14, <2>1, StepTypes DEF TypeOK, OtherLine, ReadCommand, partition
  <2>3. OnlyWholeImagesRun'
    BY <1>14 DEF OnlyWholeImagesRun, OtherLine, ReadCommand, partition
  <2>4. AckedSurvives'
    BY <1>14 DEF AckedSurvives, FlashImage, OtherLine, ReadCommand, partition
  <2> QED
    BY <2>1, <2>2, <2>3, <2>4
<1>15. CASE EraseSector
  <2>1. HeapBalanced' /\ RamShape' /\ InstallShape'
    BY <1>15 DEF HeapBalanced, RamShape, InstallShape, EraseSector, serial
  <2>2. TypeOK'
    <3>1. header' \in Headers \union {Erased}
      BY <1>15 DEF TypeOK, EraseSector
    <3>2. data' \in [1..Capacity -> Cell]
      BY <1>15 DEF TypeOK, EraseSector, Cell
    <3> QED
      BY <1>15, <2>1, <3>1, <3>2, StepTypes DEF TypeOK, EraseSector, serial
  <2>3. OnlyWholeImagesRun'
    BY <1>15 DEF OnlyWholeImagesRun, EraseSector, serial
  <2>4. AckedSurvives'
    BY <1>15 DEF AckedSurvives, InstallShape, EraseSector, serial
  <2> QED
    BY <2>1, <2>2, <2>3, <2>4
<1>16. CASE EraseDone
  <2>1. HeapBalanced' /\ RamShape' /\ InstallShape'
    BY <1>16 DEF HeapBalanced, RamShape, InstallShape, EraseDone, partition, serial
  <2>2. TypeOK'
    BY <1>16, <2>1, StepTypes DEF TypeOK, EraseDone, partition, serial
  <2>3. OnlyWholeImagesRun'
    BY <1>16 DEF OnlyWholeImagesRun, EraseDone, partition, serial
  <2>4. AckedSurvives'
    BY <1>16 DEF AckedSurvives, FlashImage, EraseDone, partition, serial
  <2> QED
    BY <2>1, <2>2, <2>3, <2>4
<1>17. CASE WriteHeader
  <2>1. HeapBalanced' /\ RamShape' /\ InstallShape'
    <3>1. CASE header = Erased
      BY <1>17, <3>1 DEF HeapBalanced, RamShape, InstallShape, WriteHeader, serial
    <3>2. CASE header # Erased
      <4>1. header' = [len |-> Len(ram), crc |-> want]
        BY <1>17, <3>2 DEF InstallShape, WriteHeader
      <4>2. \A i \in 1..Capacity : data'[i] = Erased
        BY <1>17 DEF InstallShape, WriteHeader, Blank
      <4> QED
        BY <1>17, <3>2, <4>1, <4>2 DEF HeapBalanced, RamShape, InstallShape, WriteHeader, serial
    <3> QED
      BY <3>1, <3>2
  <2>2. TypeOK'
    <3>1. want \in Image /\ Len(ram) \in Nat \ {0}
      BY <1>17, ImageContent DEF RamShape, CrcIs, WriteHeader
    <3>2. header' \in {[len |-> Len(ram), crc |-> Erased], [len |-> Len(ram), crc |-> want]}
      BY <1>17 DEF InstallShape, WriteHeader
    <3>3. header' \in Headers
      BY <3>1, <3>2 DEF Headers
    <3> QED
      BY <1>17, <2>1, <3>3, StepTypes DEF TypeOK, WriteHeader, serial
  <2>3. OnlyWholeImagesRun'
    BY <1>17 DEF OnlyWholeImagesRun, WriteHeader, serial
  <2>4. AckedSurvives'
    BY <1>17 DEF AckedSurvives, InstallShape, WriteHeader, serial
  <2> QED
    BY <2>1, <2>2, <2>3, <2>4
<1>18. CASE WriteData
  <2>1. HeapBalanced' /\ RamShape' /\ InstallShape'
    BY <1>18 DEF HeapBalanced, RamShape, InstallShape, WriteData, serial
  <2>2. TypeOK'
    <3>1. \A i \in 1..Len(ram) : ram[i] \in Cell
      BY DEF TypeOK, Cell
    <3>2. Garbled \in Cell
      BY TokenSets DEF Cell
    <3>3. data' \in [1..Capacity -> Cell]
      BY <1>18, <3>1, <3>2 DEF TypeOK, WriteData
    <3> QED
      BY <1>18, <2>1, <3>3, StepTypes DEF TypeOK, WriteData, serial
  <2>3. OnlyWholeImagesRun'
    BY <1>18 DEF OnlyWholeImagesRun, WriteData, serial
  <2>4. AckedSurvives'
    BY <1>18 DEF AckedSurvives, InstallShape, WriteData, serial
  <2> QED
    BY <2>1, <2>2, <2>3, <2>4
<1>19. CASE Installed
  <2>1. HeapBalanced' /\ RamShape' /\ InstallShape'
    BY <1>19 DEF HeapBalanced, RamShape, InstallShape, Installed, partition, serial
  <2>2. TypeOK'
    BY <1>19, <2>1, StepTypes DEF TypeOK, Installed, partition, serial
  <2>3. OnlyWholeImagesRun'
    BY <1>19 DEF OnlyWholeImagesRun, RamShape, CrcIs, Installed, partition, serial
  <2>4. AckedSurvives'
    <3>1. /\ want \in Image /\ ram = Content(want) /\ Size[want] <= Capacity
          /\ header = [len |-> Len(ram), crc |-> want]
      BY <1>19 DEF RamShape, InstallShape, CrcIs, Installed
    <3>2. Len(ram) = Size[want]
      BY <3>1, ImageContent
    <3>3. \A i \in 1..Size[want] : data[i] = Content(want)[i]
      BY <1>19, <3>1, <3>2 DEF Installed
    <3>4. data \in [1..Capacity -> Cell]
      BY DEF TypeOK
    <3>5. Stored(header, data) = Content(want)
      BY <3>1, <3>2, <3>3, <3>4, StoredImage
    <3> QED
      BY <1>19, <3>5 DEF AckedSurvives, FlashImage, Installed, partition, serial
  <2> QED
    BY <2>1, <2>2, <2>3, <2>4
<1>20. CASE WriteFails
  <2>1. HeapBalanced' /\ RamShape' /\ InstallShape'
    BY <1>20 DEF HeapBalanced, RamShape, InstallShape, WriteFails, BackToLoop, partition, serial
  <2>2. TypeOK'
    BY <1>20, <2>1, StepTypes DEF TypeOK, WriteFails, BackToLoop, partition, serial
  <2>3. OnlyWholeImagesRun'
    BY <1>20 DEF OnlyWholeImagesRun, WriteFails, BackToLoop, partition, serial
  <2>4. AckedSurvives'
    BY <1>20 DEF AckedSurvives, FlashImage, WriteFails, BackToLoop, partition, serial
  <2> QED
    BY <2>1, <2>2, <2>3, <2>4
<1>21. CASE SendCommand
  <2>1. HeapBalanced' /\ RamShape' /\ InstallShape'
    BY <1>21 DEF HeapBalanced, RamShape, InstallShape, SendCommand, partition
  <2>2. TypeOK'
    <3>1. input' \in Seq(Token) /\ sender' \in Image \union {Nothing}
      <4>1. CASE input' = Append(input, RunLine) /\ UNCHANGED sender
        BY <4>1, TokenSets, WriteStream DEF TypeOK
      <4>2. ASSUME NEW c \in Transfer, input' = Append(input, c), sender' = c.img
            PROVE  input' \in Seq(Token) /\ sender' \in Image \union {Nothing}
        <5>1. c \in Token /\ c.img \in Image
          BY TokenSets DEF Transfer
        <5>2. Append(input, c) \in Seq(Token)
          BY <5>1, WriteStream DEF TypeOK
        <5> QED
          BY <4>2, <5>1, <5>2
      <4> QED
        BY <1>21, <4>1, <4>2 DEF SendCommand
    <3> QED
      BY <1>21, <2>1, <3>1, StepTypes DEF TypeOK, SendCommand, partition
  <2>3. OnlyWholeImagesRun'
    BY <1>21 DEF OnlyWholeImagesRun, SendCommand, partition
  <2>4. AckedSurvives'
    BY <1>21 DEF AckedSurvives, FlashImage, SendCommand, partition
  <2> QED
    BY <2>1, <2>2, <2>3, <2>4
<1>22. CASE SendPayload
  <2>1. HeapBalanced' /\ RamShape' /\ InstallShape'
    BY <1>22 DEF HeapBalanced, RamShape, InstallShape, SendPayload, partition
  <2>2. TypeOK'
    <3>1. sender \in Image
      BY <1>22 DEF TypeOK, SendPayload
    <3>2. Content(sender) \in Seq(Token)
      BY <3>1, ImageContent, TokenSets
    <3>3. input' \in Seq(Token)
      BY <1>22, <3>2, WriteAll DEF TypeOK, SendPayload
    <3> QED
      BY <1>22, <2>1, <3>3, StepTypes DEF TypeOK, SendPayload, partition
  <2>3. OnlyWholeImagesRun'
    BY <1>22 DEF OnlyWholeImagesRun, SendPayload, partition
  <2>4. AckedSurvives'
    BY <1>22 DEF AckedSurvives, FlashImage, SendPayload, partition
  <2> QED
    BY <2>1, <2>2, <2>3, <2>4
<1>23. CASE GiveUp
  <2>1. HeapBalanced' /\ RamShape' /\ InstallShape'
    BY <1>23 DEF HeapBalanced, RamShape, InstallShape, GiveUp, partition
  <2>2. TypeOK'
    BY <1>23, <2>1, StepTypes DEF TypeOK, GiveUp, partition
  <2>3. OnlyWholeImagesRun'
    BY <1>23 DEF OnlyWholeImagesRun, GiveUp, partition
  <2>4. AckedSurvives'
    BY <1>23 DEF AckedSurvives, FlashImage, GiveUp, partition
  <2> QED
    BY <2>1, <2>2, <2>3, <2>4
<1>24. CASE ChangeCard
  <2>1. HeapBalanced' /\ RamShape' /\ InstallShape'
    BY <1>24 DEF HeapBalanced, RamShape, InstallShape, ChangeCard, partition
  <2>2. TypeOK'
    <3>1. card' \in Seq(Part)
      <4>1. ASSUME NEW m \in Image, NEW n \in 1..Size[m]
            PROVE  SubSeq(Content(m), 1, n) \in Seq(Part)
        <5>1. Content(m) \in Seq(Part) /\ Len(Content(m)) = Size[m] /\ Size[m] \in Nat
          BY ImageContent
        <5>2. n \in Nat /\ n <= Len(Content(m))
          BY <5>1
        <5> QED
          BY <5>1, <5>2
      <4>2. <<>> \in Seq(Part)
        OBVIOUS
      <4>3. CASE card' = <<>>
        BY <4>2, <4>3
      <4>4. CASE \E m \in Image : \E n \in 1..Size[m] : card' = SubSeq(Content(m), 1, n)
        BY <4>1, <4>4
      <4> QED
        BY <1>24, <4>3, <4>4 DEF ChangeCard
    <3> QED
      BY <1>24, <2>1, <3>1, StepTypes DEF TypeOK, ChangeCard, partition
  <2>3. OnlyWholeImagesRun'
    BY <1>24 DEF OnlyWholeImagesRun, ChangeCard, partition
  <2>4. AckedSurvives'
    BY <1>24 DEF AckedSurvives, FlashImage, ChangeCard, partition
  <2> QED
    BY <2>1, <2>2, <2>3, <2>4
<1>25. CASE FlashTool
  <2>1. HeapBalanced' /\ RamShape' /\ InstallShape'
    BY <1>25 DEF HeapBalanced, RamShape, InstallShape, FlashTool
  <2>2. TypeOK'
    <3>1. PICK m \in Image :
            /\ Size[m] <= Capacity
            /\ header' = [len |-> Size[m], crc |-> m]
            /\ \E n \in 0..Size[m] :
                  /\ data' = Parts(m, n)
                  /\ acked' = IF n = Size[m] THEN m ELSE Nothing
      BY <1>25 DEF FlashTool
    <3>2. header' \in Headers
      BY <3>1, ImageContent DEF Headers
    <3>3. data' \in [1..Capacity -> Cell]
      BY <3>1, PartsType
    <3> QED
      BY <1>25, <2>1, <3>1, <3>2, <3>3, StepTypes DEF TypeOK, FlashTool
  <2>3. OnlyWholeImagesRun'
    BY <1>25 DEF OnlyWholeImagesRun, FlashTool
  <2>4. AckedSurvives'
    <3>1. SUFFICES ASSUME acked' # Nothing
                   PROVE  Stored(header', data') = Content(acked')
      BY DEF AckedSurvives, FlashImage
    <3>2. PICK m \in Image :
            /\ Size[m] <= Capacity
            /\ header' = [len |-> Size[m], crc |-> m]
            /\ \E n \in 0..Size[m] :
                  /\ data' = Parts(m, n)
                  /\ acked' = IF n = Size[m] THEN m ELSE Nothing
      BY <1>25 DEF FlashTool
    <3>3. data' = Parts(m, Size[m]) /\ acked' = m
      BY <3>1, <3>2
    <3>4. \A i \in 1..Size[m] : Parts(m, Size[m])[i] = Content(m)[i]
      <4>1. Size[m] \in 0..Size[m]
        BY <3>2, ImageContent
      <4> QED
        BY <3>2, <4>1, PartsType
    <3>5. Parts(m, Size[m]) \in [1..Capacity -> Cell]
      BY <3>2, ImageContent, PartsType
    <3> QED
      BY <3>2, <3>3, <3>4, <3>5, StoredImage
  <2> QED
    BY <2>1, <2>2, <2>3, <2>4
<1>26. CASE Reset
  <2>1. HeapBalanced' /\ RamShape' /\ InstallShape'
    BY <1>26 DEF HeapBalanced, RamShape, InstallShape, Reset, partition
  <2>2. TypeOK'
    BY <1>26, <2>1, StepTypes DEF TypeOK, Reset, partition
  <2>3. OnlyWholeImagesRun'
    BY <1>26 DEF OnlyWholeImagesRun, Reset, partition
  <2>4. AckedSurvives'
    BY <1>26 DEF AckedSurvives, FlashImage, Reset, partition
  <2> QED
    BY <2>1, <2>2, <2>3, <2>4
<1>27. CASE Lose
  <2>1. HeapBalanced' /\ RamShape' /\ InstallShape'
    BY <1>27 DEF HeapBalanced, RamShape, InstallShape, Lose, partition
  <2>2. TypeOK'
    <3>1. ASSUME NEW i \in 1..Len(input)
          PROVE  /\ RemoveAt(input, i) \in Seq(Token)
                 /\ [input EXCEPT ![i] = Garbled] \in Seq(Token)
      <4>1. input \in Seq(Token) /\ Garbled \in Token
        BY TokenSets DEF TypeOK
      <4>2. RemoveAt(input, i) \in Seq(Token)
        BY <4>1, LoseFromStream
      <4> QED
        BY <4>1, <4>2
    <3>2. input' \in Seq(Token)
      BY <1>27, <3>1 DEF Lose
    <3> QED
      BY <1>27, <2>1, <3>2, StepTypes DEF TypeOK, Lose, partition
  <2>3. OnlyWholeImagesRun'
    BY <1>27 DEF OnlyWholeImagesRun, Lose, partition
  <2>4. AckedSurvives'
    BY <1>27 DEF AckedSurvives, FlashImage, Lose, partition
  <2> QED
    BY <2>1, <2>2, <2>3, <2>4
<1>28. CASE UNCHANGED vars
  BY <1>28 DEF vars, TypeOK, HeapBalanced, RamShape, InstallShape,
               OnlyWholeImagesRun, AckedSurvives, FlashImage
<1> QED
  BY <1>1, <1>2, <1>3, <1>4, <1>5, <1>6, <1>7, <1>8, <1>9, <1>10, <1>11, <1>12, <1>13, <1>14, <1>15, <1>16, <1>17, <1>18, <1>19, <1>20, <1>21, <1>22, <1>23, <1>24, <1>25, <1>26, <1>27, <1>28 DEF Next, Board, User

LEMMA InitInv == Init => Inv
<1> SUFFICES ASSUME Init PROVE Inv
  OBVIOUS
<1>1. Blank \in [1..Capacity -> Cell]
  BY CapacityAssumption DEF Blank, Cell
<1>2. <<>> \in Seq(Part) /\ <<>> \in Seq(Token)
  OBVIOUS
<1>3. sent \in 0..MaxCommands /\ faults \in 0..MaxFaults /\ heap \in 0..1
  BY BoundsAssumption DEF Init
<1>4. TypeOK
  BY <1>1, <1>2, <1>3 DEF Init, TypeOK
<1> QED
  BY <1>4 DEF Init, Inv, HeapBalanced, RamShape, InstallShape,
              OnlyWholeImagesRun, AckedSurvives

THEOREM InvHolds == Spec => []Inv
BY InitInv, NextInv, PTL DEF Spec

\* Every variable stays within its type, whatever is sent, lost or reset.
THEOREM TypeCorrect == Spec => []TypeOK
<1>1. Inv => TypeOK
  BY DEF Inv
<1> QED
  BY <1>1, InvHolds, PTL

\* Every way out of a command of script_loader.cpp frees the payload buffer
\* exactly once: there is one while a command uses it, and none in the loop.
THEOREM BufferFreedOnce == Spec => []HeapBalanced
<1>1. Inv => HeapBalanced
  BY DEF Inv
<1> QED
  BY <1>1, InvHolds, PTL

\* What setup() and the commands run, the SD card aside, is one whole image.
THEOREM WholeImages == Spec => []OnlyWholeImagesRun
<1>1. Inv => OnlyWholeImagesRun
  BY DEF Inv
<1> QED
  BY <1>1, InvHolds, PTL

\* The image of "rss:installed" is what the partition yields from then on.
THEOREM InstalledStays == Spec => []AckedSurvives
<1>1. Inv => AckedSurvives
  BY DEF Inv
<1> QED
  BY <1>1, InvHolds, PTL

-----------------------------------------------------------------------------
(* How the partition changes *)

\* What one step may do to the content of the partition.
AllOrNothing ==
    FlashImage' # FlashImage /\ ~FlashTool =>
        \/ FlashImage' = <<>> /\ pc = "erase"
        \/ FlashImage = <<>> /\ FlashImage' = ram /\ pc = "write"

\* Erasing a part leaves the image behind, or nothing.
LEMMA ErasedPart ==
    ASSUME NEW h \in Headers \union {Erased}, NEW d \in [1..Capacity -> Cell],
           NEW i \in 1..Capacity
    PROVE  LET e == [d EXCEPT ![i] = Erased]
           IN  Stored(h, e) = Stored(h, d) \/ Stored(h, e) = <<>>
<1> DEFINE e == [d EXCEPT ![i] = Erased]
<1>1. e \in [1..Capacity -> Cell]
  BY DEF Cell
<1>2. SUFFICES ASSUME Stored(h, e) # <<>> PROVE Stored(h, e) = Stored(h, d)
  OBVIOUS
<1>3. /\ h # Erased /\ h.crc \in Image
      /\ h.len = Size[h.crc] /\ h.len <= Capacity
      /\ Stored(h, e) = Content(h.crc)
      /\ \A j \in 1..h.len : e[j] = Content(h.crc)[j]
  BY <1>1, <1>2, StoredCases
<1>4. \A j \in 1..h.len : j # i
  <2>1. ASSUME NEW j \in 1..h.len, j = i PROVE FALSE
    <3>1. e[j] = Erased
      BY <2>1
    <3>2. e[j] # Erased
      BY <1>3, <2>1, ImageContent
    <3> QED
      BY <3>1, <3>2
  <2> QED
    BY <2>1
<1>5. \A j \in 1..h.len : j \in 1..Capacity
  BY <1>3, CapacityAssumption, ImageContent
<1>6. \A j \in 1..h.len : d[j] = Content(h.crc)[j]
  BY <1>3, <1>4, <1>5
<1>7. h = [len |-> Size[h.crc], crc |-> h.crc]
  BY <1>3 DEF Headers
<1>8. Stored(h, d) = Content(h.crc)
  <2>1. Stored([len |-> Size[h.crc], crc |-> h.crc], d) = Content(h.crc)
    BY <1>3, <1>6, StoredImage
  <2> QED
    BY <1>7, <2>1
<1> QED
  BY <1>3, <1>8

LEMMA StepAllOrNothing == Inv /\ Inv' /\ [Next]_vars => AllOrNothing
<1> SUFFICES ASSUME Inv, Inv', [Next]_vars,
                    FlashImage' # FlashImage, ~FlashTool
             PROVE  \/ FlashImage' = <<>> /\ pc = "erase"
                    \/ FlashImage = <<>> /\ FlashImage' = ram /\ pc = "write"
  BY DEF AllOrNothing
<1>1. /\ header \in Headers \union {Erased}
      /\ data \in [1..Capacity -> Cell]
      /\ header' \in Headers \union {Erased}
      /\ data' \in [1..Capacity -> Cell]
      /\ RamShape /\ InstallShape
  BY DEF Inv, TypeOK
<1>2. /\ FlashImage = Stored(header, data)
      /\ FlashImage' = Stored(header', data')
  BY DEF FlashImage
<1>3. ~UNCHANGED partition
  BY <1>2 DEF partition
<1>4. CASE EraseSector
  <2>1. pc = "erase"
    BY <1>4 DEF EraseSector
  <2>2. CASE header' = Erased
    BY <1>1, <1>2, <2>1, <2>2, StoredNothing
  <2>3. CASE /\ header' = header
             /\ \E i \in 1..Capacity : data' = [data EXCEPT ![i] = Erased]
    BY <1>1, <1>2, <2>1, <2>3, ErasedPart
  <2> QED
    BY <1>4, <2>2, <2>3 DEF EraseSector
<1>5. CASE WriteHeader
  <2>1. FlashImage = <<>>
    <3>1. header = Erased \/ (header # Erased /\ header.crc = Erased)
      BY <1>1, <1>5 DEF WriteHeader, InstallShape
    <3> QED
      BY <1>1, <1>2, <3>1, StoredNothing
  <2>2. FlashImage' = <<>>
    <3>1. data' = Blank /\ header' # Erased
      BY <1>1, <1>5, <1>3 DEF WriteHeader, InstallShape, Erased
    <3>2. CASE header'.crc = Erased
      BY <1>1, <1>2, <3>1, <3>2, StoredNothing
    <3>3. CASE header'.crc # Erased
      <4>1. header'.len = Len(ram) /\ ram = Content(want) /\ want \in Image
            /\ Size[want] <= Capacity
        BY <1>1, <1>5, <3>3 DEF WriteHeader, InstallShape, RamShape, CrcIs
      <4>2. 1 \in 1..header'.len /\ 1 \in 1..Capacity
        BY <4>1, ImageContent, CapacityAssumption
      <4>3. data'[1] = Erased
        BY <3>1, <4>2 DEF Blank
      <4> QED
        BY <1>1, <1>2, <3>1, <4>2, <4>3, StoredNothing
    <3> QED
      BY <3>2, <3>3
  <2> QED
    BY <2>1, <2>2
<1>6. CASE WriteData
  <2>1. /\ pc = "write" /\ header' = header /\ ram' = ram /\ pc' = "write" /\ want' = want
        /\ header = [len |-> Len(ram), crc |-> want]
        /\ ram = Content(want) /\ want \in Image /\ Size[want] <= Capacity
    BY <1>1, <1>6 DEF WriteData, InstallShape, RamShape, CrcIs
  <2>2. header # Erased /\ header.len = Len(ram) /\ header.crc = want
    BY <2>1 DEF Erased
  <2>3. PICK i \in 1..Len(ram) : data[i] # ram[i]
    BY <1>6 DEF WriteData
  <2>4. i \in 1..Capacity /\ i \in 1..header.len
    BY <2>1, <2>2, <2>3, ImageContent, CapacityAssumption
  <2>5. data[i] = Erased
    BY <1>1, <2>1, <2>3, <2>4 DEF InstallShape
  <2>6. FlashImage = <<>>
    BY <1>1, <1>2, <2>2, <2>4, <2>5, StoredNothing
  <2>7. FlashImage' = <<>> \/ FlashImage' = ram
    BY <1>1, <1>2, <2>1, <2>2, StoredCases
  <2> QED
    BY <2>1, <2>6, <2>7
<1>7. UNCHANGED partition \/ EraseSector \/ WriteHeader \/ WriteData
  <2> SUFFICES ASSUME [Next]_vars, ~FlashTool
               PROVE  UNCHANGED partition \/ EraseSector \/ WriteHeader \/ WriteData
    OBVIOUS
  <2>1. CASE Board
    BY <2>1 DEF Board, BootCard, NoCard, BootFlash, NoScript, RunDone,
         BeginTransfer, RefuseTransfer, ReadPayload, TransferTimeout,
         CrcMismatch, Loaded, BeginInstall, RunCommand, OtherLine,
         EraseDone, Installed, WriteFails, partition
  <2>2. CASE User
    BY <2>2 DEF User, SendCommand, SendPayload, GiveUp, ChangeCard, partition
  <2>3. CASE Reset \/ Lose \/ UNCHANGED vars
    BY <2>3 DEF Reset, Lose, vars, partition
  <2> QED
    BY <2>1, <2>2, <2>3 DEF Next
<1> QED
  BY <1>3, <1>4, <1>5, <1>6, <1>7

\* What the partition yields changes only from an image to nothing while it is
\* erased, and from nothing to the image being installed at the last write of
\* rustscript_install_partition: no reset and no failing call leaves another.
THEOREM InstallAtomic == Spec => InstallIsAllOrNothing
<1>1. Inv /\ Inv' /\ [Next]_vars => [AllOrNothing]_vars
  BY StepAllOrNothing
<1>2. Spec => [][AllOrNothing]_vars
  BY <1>1, InvHolds, PTL DEF Spec
<1> QED
  BY <1>2 DEF InstallIsAllOrNothing, AllOrNothing

-----------------------------------------------------------------------------
(* The store implements ImageStore *)

\* Two images differ in their parts.
LEMMA OneContent ==
    ASSUME NEW m \in Image, NEW n \in Image, Content(m) = Content(n)
    PROVE  m = n
<1>1. 1 \in 1..Size[m] /\ 1 \in 1..Size[n]
  BY ImageContent
<1>2. Content(m)[1] = [kind |-> "part", img |-> m, at |-> 1]
  BY <1>1 DEF Content
<1>3. Content(n)[1] = [kind |-> "part", img |-> n, at |-> 1]
  BY <1>1 DEF Content
<1>4. Content(m)[1].img = m
  BY <1>2
<1>5. Content(n)[1].img = n
  BY <1>3
<1> QED
  BY <1>4, <1>5

LEMMA TheImage ==
    ASSUME NEW m \in Image
    PROVE  (CHOOSE n \in Image : CrcIs(Content(m), n)) = m
<1>1. CrcIs(Content(m), m)
  BY DEF CrcIs
<1>2. ASSUME NEW n \in Image, CrcIs(Content(m), n)
      PROVE  n = m
  <2>1. Content(m) = Content(n)
    BY <1>2 DEF CrcIs
  <2> QED
    BY <2>1, OneContent
<1> QED
  BY <1>1, <1>2

\* What a header and parts keep, as ImageStore sees it.
KeptBy(h, d) == IF Stored(h, d) = <<>> THEN Nothing ELSE h.crc

LEMMA KeptCases ==
    ASSUME NEW h \in Headers \union {Erased}, NEW d \in [1..Capacity -> Cell]
    PROVE  \/ /\ Stored(h, d) = <<>>
              /\ KeptBy(h, d) = Nothing
           \/ /\ KeptBy(h, d) \in Image
              /\ KeptBy(h, d) # Nothing
              /\ Stored(h, d) = Content(KeptBy(h, d))
<1>1. CASE Stored(h, d) = <<>>
  BY <1>1 DEF KeptBy
<1>2. CASE Stored(h, d) # <<>>
  <2>1. KeptBy(h, d) = h.crc
    BY <1>2 DEF KeptBy
  <2>2. h.crc \in Image /\ Stored(h, d) = Content(h.crc)
    BY <1>2, StoredCases
  <2> QED
    BY <2>1, <2>2, ImageAssumption
<1> QED
  BY <1>1, <1>2

\* The facts of KeptCases in the state before a step and in the one after it.
LEMMA KeptImage ==
    ASSUME TypeOK, TypeOK'
    PROVE  /\ \/ FlashImage = <<>> /\ Kept = Nothing
              \/ Kept \in Image /\ Kept # Nothing /\ FlashImage = Content(Kept)
           /\ \/ FlashImage' = <<>> /\ Kept' = Nothing
              \/ Kept' \in Image /\ Kept' # Nothing /\ FlashImage' = Content(Kept')
<1>1. /\ header \in Headers \union {Erased} /\ data \in [1..Capacity -> Cell]
      /\ header' \in Headers \union {Erased} /\ data' \in [1..Capacity -> Cell]
  BY DEF TypeOK
<1>2. /\ FlashImage = Stored(header, data) /\ Kept = KeptBy(header, data)
      /\ FlashImage' = Stored(header', data') /\ Kept' = KeptBy(header', data')
  BY DEF FlashImage, Kept, KeptBy
<1>3. \/ FlashImage = <<>> /\ Kept = Nothing
      \/ Kept \in Image /\ Kept # Nothing /\ FlashImage = Content(Kept)
  <2>1. \/ /\ Stored(header, data) = <<>>
           /\ KeptBy(header, data) = Nothing
        \/ /\ KeptBy(header, data) \in Image
           /\ KeptBy(header, data) # Nothing
           /\ Stored(header, data) = Content(KeptBy(header, data))
    BY <1>1, KeptCases
  <2> QED
    BY <1>2, <2>1
<1>4. \/ FlashImage' = <<>> /\ Kept' = Nothing
      \/ Kept' \in Image /\ Kept' # Nothing /\ FlashImage' = Content(Kept')
  <2>1. \/ /\ Stored(header', data') = <<>>
           /\ KeptBy(header', data') = Nothing
        \/ /\ KeptBy(header', data') \in Image
           /\ KeptBy(header', data') # Nothing
           /\ Stored(header', data') = Content(KeptBy(header', data'))
    BY <1>1, KeptCases
  <2> QED
    BY <1>2, <2>1
<1> QED
  BY <1>3, <1>4

LEMMA KeptStays == UNCHANGED partition => Kept' = Kept
BY DEF partition, Kept, FlashImage

\* setup() or the command run starts what the partition yields.
LEMMA KeptRuns ==
    ASSUME TypeOK, TypeOK', pc # "run", FlashImage # <<>>, StartWith(FlashImage, "flash"),
           UNCHANGED <<header, data, acked>>
    PROVE  Abstract!RunKept
<1>1. Kept \in Image /\ Kept # Nothing /\ FlashImage = Content(Kept)
  BY KeptImage
<1>2. Running = Nothing
  BY DEF Running
<1>3. Running' = (CHOOSE m \in Image : CrcIs(ram', m))
  BY DEF StartWith, Running
<1>4. Running' = Kept
  <2>1. ram' = Content(Kept)
    BY <1>1 DEF StartWith
  <2> QED
    BY <1>1, <1>3, <2>1, TheImage
<1>5. Kept' = Kept
  BY KeptStays DEF partition
<1> QED
  BY <1>1, <1>2, <1>4, <1>5 DEF Abstract!RunKept, Abstract!Idle

\* An image that came over the line is run.
LEMMA SentRuns ==
    ASSUME NEW m \in Image, ram = Content(m), pc' = "run", ram' = ram, source' # "sd"
    PROVE  Running' = m
<1>1. Running' = (CHOOSE n \in Image : CrcIs(ram', n))
  BY DEF Running
<1> QED
  BY <1>1, TheImage

LEMMA LoadedImplements ==
    ASSUME Inv, Loaded
    PROVE  Abstract!Next
<1>1. want \in Image /\ ram = Content(want)
  BY DEF Loaded, CrcIs
<1>2. Running' = want
  BY <1>1, SentRuns DEF Loaded
<1>3. Running = Nothing
  BY DEF Loaded, Running
<1>4. Kept' = Kept
  BY KeptStays DEF Loaded
<1>5. Abstract!RunSent(want)
  BY <1>2, <1>3, <1>4 DEF Loaded, Abstract!RunSent, Abstract!Idle
<1> QED
  BY <1>1, <1>5 DEF Abstract!Next

LEMMA InstalledImplements ==
    ASSUME Inv, Inv', Installed
    PROVE  Abstract!Next
<1>1. want \in Image /\ ram = Content(want) /\ source = "install"
  BY DEF Inv, RamShape, Installed, CrcIs
<1>2. Running' = want
  BY <1>1, SentRuns DEF Installed
<1>3. Running = Nothing
  BY DEF Installed, Running
<1>4. Kept' = Kept
  BY KeptStays DEF Installed
<1>5. FlashImage' = Content(want)
  BY <1>1, ImageAssumption DEF Inv, AckedSurvives, Installed
<1>6. Kept' = want
  <2>1. Kept' \in Image /\ FlashImage' = Content(Kept')
    BY <1>1, <1>5, KeptImage, ImageContent DEF Inv
  <2> QED
    BY <1>1, <1>5, <2>1, OneContent
<1>7. want # Nothing
  BY <1>1, ImageAssumption
<1>8. Abstract!Promise
  BY <1>2, <1>3, <1>4, <1>6, <1>7 DEF Installed, Abstract!Promise, Abstract!Idle
<1> QED
  BY <1>8 DEF Abstract!Next

\* Each step that erases or writes drops what is kept, keeps what is installed,
\* or does not show.
LEMMA WriteImplements ==
    ASSUME Inv, Inv', [Next]_vars, EraseSector \/ WriteHeader \/ WriteData
    PROVE  Abstract!Next \/ UNCHANGED Abstract!vars
<1>1. /\ pc \in {"erase", "header", "write"} /\ pc' # "run"
      /\ acked' = acked
  BY DEF EraseSector, WriteHeader, WriteData
<1>2. Running = Nothing /\ Running' = Nothing /\ acked = Nothing
  BY <1>1 DEF Running, Inv, InstallShape
<1>3. /\ \/ FlashImage = <<>> /\ Kept = Nothing
         \/ Kept \in Image /\ Kept # Nothing /\ FlashImage = Content(Kept)
      /\ \/ FlashImage' = <<>> /\ Kept' = Nothing
         \/ Kept' \in Image /\ Kept' # Nothing /\ FlashImage' = Content(Kept')
  BY KeptImage DEF Inv
<1>4. \/ FlashImage' = FlashImage
      \/ FlashImage' = <<>>
      \/ FlashImage = <<>> /\ FlashImage' = ram
  <2>1. ~FlashTool
    BY <1>1 DEF FlashTool, EraseSector, WriteHeader, WriteData, Bounded
  <2> QED
    BY <2>1, StepAllOrNothing DEF AllOrNothing
<1>5. CASE FlashImage' = <<>>
  <2>1. Kept' = Nothing
    BY <1>3, <1>5, ImageContent
  <2>2. Abstract!Drop
    BY <1>1, <1>2, <2>1 DEF Abstract!Drop, Abstract!Idle
  <2> QED
    BY <2>2 DEF Abstract!Next
<1>6. CASE FlashImage' # <<>> /\ FlashImage' = FlashImage
  <2>1. Kept \in Image /\ Kept' \in Image /\ Content(Kept) = Content(Kept')
    BY <1>3, <1>6
  <2>2. Kept' = Kept
    BY <2>1, OneContent
  <2> QED
    BY <1>1, <1>2, <2>2 DEF Abstract!vars
<1>7. CASE FlashImage' # <<>> /\ FlashImage = <<>>
  <2>1. Kept' \in Image /\ Kept = Nothing
    BY <1>3, <1>7, ImageContent
  <2>2. Abstract!Keep(Kept')
    BY <1>1, <1>2, <2>1 DEF Abstract!Keep, Abstract!Idle
  <2> QED
    BY <2>1, <2>2 DEF Abstract!Next
<1> QED
  BY <1>4, <1>5, <1>6, <1>7

\* The flash tool writes a whole image, or one that lacks its last parts.
LEMMA FlashImplements ==
    ASSUME Inv, Inv', FlashTool
    PROVE  Abstract!Next
<1>0. PICK m \in Image :
        /\ Size[m] <= Capacity
        /\ header' = [len |-> Size[m], crc |-> m]
        /\ \E n \in 0..Size[m] :
              /\ data' = Parts(m, n)
              /\ acked' = IF n = Size[m] THEN m ELSE Nothing
  BY DEF FlashTool
<1>1. PICK n \in 0..Size[m] :
        /\ data' = Parts(m, n)
        /\ acked' = IF n = Size[m] THEN m ELSE Nothing
  BY <1>0
<1>2. Running' = Nothing
  BY DEF FlashTool, Running
<1>3. Kept' = acked' /\ Kept' \in Image \union {Nothing}
  <2>1. \/ FlashImage' = <<>> /\ Kept' = Nothing
        \/ Kept' \in Image /\ Kept' # Nothing /\ FlashImage' = Content(Kept')
    BY KeptImage DEF Inv
  <2>2. CASE n = Size[m]
    <3>1. acked' = m /\ m # Nothing
      BY <1>0, <1>1, <2>2, ImageAssumption
    <3>2. FlashImage' = Content(m)
      BY <3>1 DEF Inv, AckedSurvives
    <3>3. Kept' \in Image /\ FlashImage' = Content(Kept')
      BY <2>1, <3>2, ImageContent
    <3> QED
      BY <3>1, <3>2, <3>3, OneContent
  <2>3. CASE n # Size[m]
    <3>1. acked' = Nothing
      BY <1>1, <2>3
    <3>2. n + 1 \in 1..Size[m] /\ n + 1 \in 1..Capacity /\ ~(n + 1 <= n)
      BY <1>0, <1>1, <2>3, ImageContent, CapacityAssumption
    <3>3. data'[n + 1] = Erased
      BY <1>1, <3>2 DEF Parts
    <3>4. header' # Erased /\ header'.len = Size[m]
      BY <1>0 DEF Erased
    <3>5. header' \in Headers \union {Erased} /\ data' \in [1..Capacity -> Cell]
      BY DEF Inv, TypeOK
    <3>6. Stored(header', data') = <<>>
      BY <3>2, <3>3, <3>4, <3>5, StoredNothing
    <3>7. Kept' = Nothing
      BY <3>6 DEF Kept, FlashImage
    <3> QED
      BY <3>1, <3>7
  <2> QED
    BY <2>2, <2>3
<1>4. Abstract!Flash
  BY <1>2, <1>3 DEF Abstract!Flash
<1> QED
  BY <1>4 DEF Abstract!Next

LEMMA BoardImplements ==
    ASSUME Inv, Inv', [Next]_vars, Board
    PROVE  Abstract!Next \/ UNCHANGED Abstract!vars
<1>1. CASE BootCard
  <2>1. Running = Nothing /\ Running' = FromCard
    BY <1>1 DEF BootCard, StartWith, Running
  <2>2. Kept' = Kept
    BY <1>1, KeptStays DEF BootCard
  <2>3. Abstract!RunCard
    BY <1>1, <2>1, <2>2 DEF BootCard, Abstract!RunCard, Abstract!Idle
  <2> QED
    BY <2>3 DEF Abstract!Next
<1>2. CASE BootFlash \/ RunCommand
  <2>1. /\ pc # "run" /\ FlashImage # <<>> /\ StartWith(FlashImage, "flash")
        /\ UNCHANGED <<header, data, acked>>
    BY <1>2 DEF BootFlash, RunCommand, ReadCommand, partition
  <2>2. Abstract!RunKept
    BY <2>1, KeptRuns DEF Inv
  <2> QED
    BY <2>2 DEF Abstract!Next
<1>3. CASE RunDone
  <2>1. Running' = Nothing
    BY <1>3 DEF RunDone, BackToLoop, Running
  <2>2. Kept' = Kept
    BY <1>3, KeptStays DEF RunDone
  <2>3. Abstract!Stop
    BY <1>3, <2>1, <2>2 DEF RunDone, Abstract!Stop
  <2> QED
    BY <2>3 DEF Abstract!Next
<1>4. CASE BeginInstall
  <2>1. Running = Nothing /\ Running' = Nothing
    BY <1>4 DEF BeginInstall, Running
  <2>2. Kept' = Kept
    BY <1>4, KeptStays DEF BeginInstall
  <2>3. Abstract!Withdraw
    BY <1>4, <2>1, <2>2 DEF BeginInstall, Abstract!Withdraw, Abstract!Idle
  <2> QED
    BY <2>3 DEF Abstract!Next
<1>5. CASE \/ NoCard \/ NoScript \/ BeginTransfer \/ RefuseTransfer \/ ReadPayload
           \/ TransferTimeout \/ CrcMismatch \/ OtherLine \/ EraseDone \/ WriteFails
  <2>1. pc # "run" /\ pc' # "run" /\ UNCHANGED partition /\ acked' = acked
    BY <1>5 DEF NoCard, NoScript, BeginTransfer, RefuseTransfer, ReadPayload,
         TransferTimeout, CrcMismatch, OtherLine, EraseDone, WriteFails,
         ReadCommand, BackToLoop
  <2>2. Running = Nothing /\ Running' = Nothing
    BY <2>1 DEF Running
  <2> QED
    BY <2>1, <2>2, KeptStays DEF Abstract!vars
<1> QED
  BY <1>1, <1>2, <1>3, <1>4, <1>5, LoadedImplements, InstalledImplements,
     WriteImplements DEF Board

\* What the user does, other than flashing, and what is lost on the line does
\* not show; a reset stops what runs.
LEMMA OthersImplement ==
    ASSUME Inv, SendCommand \/ SendPayload \/ GiveUp \/ ChangeCard \/ Reset \/ Lose
    PROVE  Abstract!Next \/ UNCHANGED Abstract!vars
<1>1. UNCHANGED partition /\ acked' = acked
  BY DEF SendCommand, SendPayload, GiveUp, ChangeCard, Reset, Lose
<1>2. Kept' = Kept
  BY <1>1, KeptStays
<1>3. CASE Reset
  <2>1. Abstract!Stop
    BY <1>1, <1>2, <1>3 DEF Reset, Running, Abstract!Stop
  <2> QED
    BY <2>1 DEF Abstract!Next
<1>4. CASE ~Reset
  <2>1. UNCHANGED <<pc, source, ram>>
    BY <1>4 DEF SendCommand, SendPayload, GiveUp, ChangeCard, Lose
  <2> QED
    BY <1>1, <1>2, <2>1 DEF Running, Abstract!vars
<1> QED
  BY <1>3, <1>4

\* The board implements ImageStore: it keeps one image or none, replaces it in
\* one step that happens or does not, and runs what it keeps, through every
\* sector that is erased, part that is lost and reset in between.
THEOREM StoreImplements == Spec => ImplementsImageStore
<1>1. Init => Abstract!Init
  <2> SUFFICES ASSUME Init PROVE Abstract!Init
    OBVIOUS
  <2>1. Inv /\ header = Erased
    BY InitInv DEF Init
  <2>2. FlashImage = <<>>
    BY <2>1, StoredNothing DEF FlashImage, Inv, TypeOK
  <2> QED
    BY <2>2 DEF Init, Kept, Running, Abstract!Init
<1>2. Inv /\ Inv' /\ [Next]_vars => [Abstract!Next]_Abstract!vars
  <2> SUFFICES ASSUME Inv, Inv', [Next]_vars
               PROVE  Abstract!Next \/ UNCHANGED Abstract!vars
    OBVIOUS
  <2>1. CASE UNCHANGED vars
    BY <2>1 DEF vars, Kept, FlashImage, Running, Abstract!vars
  <2> QED
    BY <2>1, BoardImplements, FlashImplements, OthersImplement DEF Next, User
<1> QED
  BY <1>1, <1>2, InvHolds, PTL DEF Spec, ImplementsImageStore, Abstract!Spec

=============================================================================
