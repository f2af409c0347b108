--------------------------- MODULE ReplLinkProofs ---------------------------
(***************************************************************************)
(* Theorems about ReplLink for every id space, every limit and any number  *)
(* of requests and faults.                                                 *)
(***************************************************************************)
EXTENDS ReplLink, StreamLemmas

-----------------------------------------------------------------------------
(* Cells and frames are well typed. *)

LEMMA UpCells ==
    ASSUME NEW n \in Nat, NEW i \in 0..IdMax, NEW l \in Seq(Nat)
    PROVE  /\ RequestFrame(n, i, l) \in Seq(UpCell)
           /\ NoUp \in UpCell
<1>1. <<>> \in Seq(Nat) /\ 0 \in 0..IdMax
  BY IdMaxAssumption
<1>2. \A p \in Parts : ToBoard(p, n, i, <<>>) \in UpCell /\ ToBoard(p, n, i, l) \in UpCell
  BY <1>1 DEF ToBoard, UpCell
<1>3. NoUp \in UpCell
  BY <1>1 DEF NoUp, ToBoard, UpCell, Parts
<1> QED
  BY <1>2, <1>3 DEF RequestFrame, Parts

LEMMA DownCells ==
    ASSUME NEW n \in Nat, NEW i \in 0..IdMax, NEW s \in Statuses,
           NEW r \in BOOLEAN, NEW l \in Seq(Nat)
    PROVE  /\ Text \in DownCell
           /\ Refusal(n, i, s, r) \in Seq(DownCell)
           /\ Answer(n, i, s, l) \in Seq(DownCell)
<1>1. <<>> \in Seq(Nat) /\ 0 \in 0..IdMax
  BY IdMaxAssumption
<1>2. \A k \in {"text", "head", "body"}, b \in BOOLEAN :
         /\ ToHost(k, n, i, s, r, b, <<>>) \in DownCell
         /\ ToHost(k, n, i, s, TRUE, b, <<>>) \in DownCell
         /\ ToHost(k, n, i, s, TRUE, b, l) \in DownCell
  BY <1>1 DEF ToHost, DownCell
<1>3. Text \in DownCell
  BY <1>1 DEF Text, ToHost, DownCell, Statuses
<1>4. Refusal(n, i, s, r) \in Seq(DownCell)
  <2>1. ToHost("head", n, i, s, r, FALSE, <<>>) \in DownCell
    BY <1>2
  <2> QED
    BY <2>1, Singleton DEF Refusal
<1>5. Answer(n, i, s, l) \in Seq(DownCell)
  <2>1. /\ ToHost("head", n, i, s, TRUE, TRUE, <<>>) \in DownCell
        /\ ToHost("body", n, i, s, TRUE, TRUE, l) \in DownCell
    BY <1>2
  <2> QED
    BY <2>1, Pair DEF Answer
<1> QED
  BY <1>3, <1>4, <1>5

\* Corrupting the cell at i changes nothing but its ok.
LEMMA CorruptCell ==
    ASSUME NEW s, NEW i \in 1..Len(s),
           \/ s \in Seq(UpCell)
           \/ s \in Seq(DownCell)
    PROVE  LET t == [s EXCEPT ![i].ok = FALSE] IN
           /\ s \in Seq(UpCell) => t \in Seq(UpCell)
           /\ s \in Seq(DownCell) => t \in Seq(DownCell)
           /\ Len(t) = Len(s)
           /\ \A j \in 1..Len(s) :
                 /\ t[j] = IF j = i THEN [s[i] EXCEPT !.ok = FALSE] ELSE s[j]
<1> DEFINE t == [s EXCEPT ![i].ok = FALSE]
<1>1. ASSUME s \in Seq(UpCell)
      PROVE  t \in Seq(UpCell) /\ Len(t) = Len(s)
  <2>1. s[i] \in UpCell
    BY <1>1
  <2>2. [s[i] EXCEPT !.ok = FALSE] \in UpCell
    BY <2>1 DEF UpCell
  <2>3. t = [s EXCEPT ![i] = [s[i] EXCEPT !.ok = FALSE]]
    OBVIOUS
  <2> QED
    BY <1>1, <2>2, <2>3
<1>2. ASSUME s \in Seq(DownCell)
      PROVE  t \in Seq(DownCell) /\ Len(t) = Len(s)
  <2>1. s[i] \in DownCell
    BY <1>2
  <2>2. [s[i] EXCEPT !.ok = FALSE] \in DownCell
    BY <2>1 DEF DownCell
  <2>3. t = [s EXCEPT ![i] = [s[i] EXCEPT !.ok = FALSE]]
    OBVIOUS
  <2> QED
    BY <1>2, <2>2, <2>3
<1>3. \A j \in 1..Len(s) : t[j] = IF j = i THEN [s[i] EXCEPT !.ok = FALSE] ELSE s[j]
  <2>1. DOMAIN s = 1..Len(s)
    OBVIOUS
  <2> QED
    BY <2>1
<1> QED
  BY <1>1, <1>2, <1>3

\* A damaged cell is still of its request, and as well formed.
LEMMA CorruptKeeps ==
    ASSUME NEW s, NEW i \in 1..Len(s)
    PROVE  LET t == [s EXCEPT ![i].ok = FALSE] IN
           /\ s \in Seq(UpCell) =>
                 \A c \in ToSet(t) : \E d \in ToSet(s) :
                    c.part = d.part /\ c.req = d.req /\ c.locals = d.locals
           /\ s \in Seq(DownCell) =>
                 \A c \in ToSet(t) : \E d \in ToSet(s) :
                    /\ c.kind = d.kind /\ c.req = d.req /\ c.locals = d.locals
                    /\ c.ran = d.ran /\ c.body = d.body /\ c.status = d.status
<1> DEFINE t == [s EXCEPT ![i].ok = FALSE]
           Damaged(j) == t[j] = IF j = i THEN [s[i] EXCEPT !.ok = FALSE] ELSE s[j]
<1>1. ASSUME s \in Seq(UpCell)
      PROVE  \A c \in ToSet(t) : \E d \in ToSet(s) :
                c.part = d.part /\ c.req = d.req /\ c.locals = d.locals
  <2>1. t \in Seq(UpCell) /\ Len(t) = Len(s) /\ \A j \in 1..Len(s) : Damaged(j)
    BY <1>1, CorruptCell
  <2> HIDE DEF t
  <2>2. DOMAIN s = 1..Len(s) /\ DOMAIN t = 1..Len(s)
    BY <1>1, <2>1, LenProperties
  <2>3. ASSUME NEW j \in 1..Len(s)
        PROVE  t[j].part = s[j].part /\ t[j].req = s[j].req /\ t[j].locals = s[j].locals
    <3>1. s[i] \in UpCell
      BY <1>1, ElementOfSeq
    <3>2. LET c == [s[i] EXCEPT !.ok = FALSE]
          IN  c.part = s[i].part /\ c.req = s[i].req /\ c.locals = s[i].locals
      BY <3>1 DEF UpCell
    <3> QED
      BY <2>1, <3>2
  <2> QED
    BY <2>2, <2>3 DEF ToSet
<1>2. ASSUME s \in Seq(DownCell)
      PROVE  \A c \in ToSet(t) : \E d \in ToSet(s) :
                /\ c.kind = d.kind /\ c.req = d.req /\ c.locals = d.locals
                /\ c.ran = d.ran /\ c.body = d.body /\ c.status = d.status
  <2>1. t \in Seq(DownCell) /\ Len(t) = Len(s) /\ \A j \in 1..Len(s) : Damaged(j)
    BY <1>2, CorruptCell
  <2> HIDE DEF t
  <2>2. DOMAIN s = 1..Len(s) /\ DOMAIN t = 1..Len(s)
    BY <1>2, <2>1, LenProperties
  <2>3. ASSUME NEW j \in 1..Len(s)
        PROVE  /\ t[j].kind = s[j].kind /\ t[j].req = s[j].req
               /\ t[j].locals = s[j].locals
               /\ t[j].ran = s[j].ran /\ t[j].body = s[j].body
               /\ t[j].status = s[j].status
    <3>1. s[i] \in DownCell
      BY <1>2, ElementOfSeq
    <3>2. LET c == [s[i] EXCEPT !.ok = FALSE]
          IN  /\ c.kind = s[i].kind /\ c.req = s[i].req
              /\ c.locals = s[i].locals
              /\ c.ran = s[i].ran /\ c.body = s[i].body
              /\ c.status = s[i].status
      BY <3>1 DEF DownCell
    <3> QED
      BY <2>1, <3>2
  <2> QED
    BY <2>2, <2>3 DEF ToSet
<1> QED
  BY <1>1, <1>2

-----------------------------------------------------------------------------
(* Type correctness *)

LEMMA InitTypeOK == Init => TypeOK
<1>1. /\ <<>> \in Seq(Nat) /\ <<>> \in Seq(UpCell) /\ <<>> \in Seq(DownCell)
      /\ <<>> \in Seq([req : Nat, prog : Nat, state : Nat])
      /\ 0 \in 0..IdMax /\ 1 \in 1..IdMax
  BY IdMaxAssumption
<1>2. NoUp \in UpCell
  BY <1>1, UpCells
<1>3. Text \in DownCell
  BY <1>1, DownCells DEF Statuses
<1> QED
  BY <1>1, <1>2, <1>3 DEF Init, TypeOK, NoHead, Results

\* A call of eval that returns leaves the host's working state typed.
LEMMA FinishTypeOK ==
    ASSUME NEW r \in Results, Finish(r)
    PROVE  /\ cpc' \in {"idle", "write", "wait", "body"}
           /\ result' \in Results
           /\ out' \in Seq(UpCell)
           /\ prelude' \in Nat
           /\ head' \in DownCell
<1>1. <<>> \in Seq(Nat) /\ 0 \in 0..IdMax
  BY IdMaxAssumption
<1>2. Text \in DownCell
  BY <1>1, DownCells DEF Statuses
<1> QED
  BY <1>2 DEF Finish, NoHead

LEMMA HostTypeOK == TypeOK /\ HostStep => TypeOK'
<1> SUFFICES ASSUME TypeOK, HostStep PROVE TypeOK'
  OBVIOUS
<1> USE IdMaxAssumption
<1>1. CASE StartEval
  <2>1. cur + 1 \in Nat /\ nextId \in 0..IdMax
    BY DEF TypeOK
  <2>2. RequestFrame(cur + 1, nextId, locals) \in Seq(UpCell)
    BY <2>1, UpCells DEF TypeOK
  <2>3. NextRequestId(nextId) \in 1..IdMax
    BY DEF TypeOK, NextRequestId
  <2> QED
    BY <1>1, <2>1, <2>2, <2>3 DEF StartEval, TypeOK, Results, boardVars
<1>2. CASE WriteCell
  <2>1. Head(out) \in UpCell /\ Tail(out) \in Seq(UpCell)
    BY <1>2, ReadStream DEF TypeOK, WriteCell
  <2>2. Append(up, Head(out)) \in Seq(UpCell)
    BY <2>1, WriteStream DEF TypeOK
  <2> QED
    BY <1>2, <2>1, <2>2 DEF WriteCell, TypeOK, boardVars
<1>3. CASE Flush
  BY <1>3 DEF Flush, TypeOK, boardVars
<1>4. CASE WriteFails
  <2>1. Finish("io_error") /\ "io_error" \in Results
    BY <1>4 DEF WriteFails, Results
  <2> QED
    BY <1>4, <2>1, FinishTypeOK DEF WriteFails, TypeOK, boardVars
<1>5. CASE SkipOutput
  <2>1. down' \in Seq(DownCell)
    BY <1>5, ReadStream DEF TypeOK, SkipOutput
  <2>2. CASE prelude >= PreludeLimit
    <3>1. Finish("prelude_limit") /\ "prelude_limit" \in Results
      BY <1>5, <2>2 DEF SkipOutput, Results
    <3> QED
      BY <1>5, <2>1, <3>1, FinishTypeOK DEF SkipOutput, TypeOK, boardVars
  <2>3. CASE ~(prelude >= PreludeLimit)
    BY <1>5, <2>1, <2>3 DEF SkipOutput, TypeOK, boardVars
  <2> QED
    BY <2>2, <2>3
<1>6. CASE AcceptHeader
  BY <1>6, ReadStream DEF AcceptHeader, TypeOK, boardVars
<1>7. CASE ReturnEmpty
  <2>1. PICK r \in Results : Finish(r)
    BY <1>7 DEF ReturnEmpty, Results
  <2> QED
    BY <1>7, <2>1, FinishTypeOK DEF ReturnEmpty, TypeOK, boardVars
<1>8. CASE BodyCorrupt
  <2>1. PICK r \in Results : Finish(r)
    BY <1>8 DEF BodyCorrupt, Results
  <2>2. down' \in Seq(DownCell)
    BY <1>8, ReadStream DEF TypeOK, BodyCorrupt
  <2> QED
    BY <1>8, <2>1, <2>2, FinishTypeOK DEF BodyCorrupt, TypeOK, boardVars
<1>9. CASE BodyUndecodable
  <2>1. PICK r \in Results : Finish(r)
    BY <1>9 DEF BodyUndecodable, Results
  <2>2. down' \in Seq(DownCell)
    BY <1>9, ReadStream DEF TypeOK, BodyUndecodable
  <2> QED
    BY <1>9, <2>1, <2>2, FinishTypeOK DEF BodyUndecodable, TypeOK, boardVars
<1>10. CASE AdoptBody
  <2>1. PICK r \in Results : Finish(r)
    BY <1>10 DEF AdoptBody, Results
  <2>2. down' \in Seq(DownCell) /\ Head(down) \in DownCell
    BY <1>10, ReadStream DEF TypeOK, AdoptBody
  <2>3. locals' \in Seq(Nat)
    BY <1>10, <2>2 DEF AdoptBody, DownCell
  <2> QED
    BY <1>10, <2>1, <2>2, <2>3, FinishTypeOK DEF AdoptBody, TypeOK, boardVars
<1>11. CASE ReadTimeout
  <2>1. Finish("timeout") /\ "timeout" \in Results
    BY <1>11 DEF ReadTimeout, Results
  <2> QED
    BY <1>11, <2>1, FinishTypeOK DEF ReadTimeout, TypeOK, boardVars
<1>12. CASE ClearSession
  BY <1>12 DEF ClearSession, TypeOK, boardVars
<1>13. CASE RestartHost
  <2>1. Finish("none") /\ "none" \in Results
    BY <1>13 DEF RestartHost, Results
  <2> QED
    BY <1>13, <2>1, FinishTypeOK DEF RestartHost, TypeOK, boardVars
<1> QED
  BY <1>1, <1>2, <1>3, <1>4, <1>5, <1>6, <1>7, <1>8, <1>9, <1>10, <1>11,
     <1>12, <1>13 DEF HostStep

\* A board that goes back to its loop.
LEMMA ToLoopTypeOK ==
    ASSUME ToLoop
    PROVE  /\ dpc' \in {"loop", "program", "state", "run", "discard"}
           /\ frame' \in UpCell
           /\ prog' \in UpCell
           /\ heap' \in SUBSET {"program", "state"}
<1>1. <<>> \in Seq(Nat) /\ 0 \in 0..IdMax
  BY IdMaxAssumption
<1>2. NoUp \in UpCell
  BY <1>1, UpCells
<1> QED
  BY <1>2 DEF ToLoop, Release

LEMMA BoardTypeOK == TypeOK /\ BoardStep => TypeOK'
<1> SUFFICES ASSUME TypeOK, BoardStep PROVE TypeOK'
  OBVIOUS
<1>0. /\ <<>> \in Seq(Nat) /\ 0 \in 0..IdMax
      /\ NoUp \in UpCell /\ Text \in DownCell
  <2>1. <<>> \in Seq(Nat) /\ 0 \in 0..IdMax
    BY IdMaxAssumption
  <2> QED
    BY <2>1, UpCells, DownCells DEF Statuses
<1>t. Append(down, Text) \in Seq(DownCell)
  BY <1>0, WriteStream DEF TypeOK
<1>f. frame.req \in Nat /\ frame.id \in 0..IdMax /\ frame.locals \in Seq(Nat)
  BY DEF TypeOK, UpCell
<1>1. CASE ReadHeader
  <2>1. up[2] \in UpCell /\ Tail(Tail(up)) \in Seq(UpCell)
    BY <1>1, ReadTwo DEF ReadHeader, FrameReady, TypeOK
  <2> QED
    BY <1>1, <2>1 DEF ReadHeader, TypeOK, hostVars
<1>2. CASE RejectHeader
  <2>1. up' \in Seq(UpCell)
    BY <1>2, ReadStream DEF RejectHeader, TypeOK
  <2>2. frame' \in UpCell
    BY <1>0, <1>2 DEF RejectHeader, UpCell
  <2> QED
    BY <1>2, <2>1, <2>2 DEF RejectHeader, TypeOK, hostVars
<1>3. CASE HeaderTimeout
  BY <1>3 DEF HeaderTimeout, TypeOK, hostVars, boardVars
<1>4. CASE ReadLine
  <2>1. up' \in Seq(UpCell)
    <3>1. PICK k \in 1..Len(up) : up' = SubSeq(up, k + 1, Len(up))
      BY <1>4 DEF ReadLine
    <3>2. k \in 0..Len(up)
      BY <3>1 DEF TypeOK
    <3> QED
      BY <3>1, <3>2, CutStream DEF TypeOK
  <2>2. down' \in Seq(DownCell)
    <3>1. <<>> \in Seq(DownCell) /\ <<Text>> \in Seq(DownCell)
      BY <1>0
    <3>2. PICK t \in Seq(DownCell) : down' = down \o t
      BY <1>4, <3>1 DEF ReadLine
    <3> QED
      BY <3>2, WriteAll DEF TypeOK
  <2> QED
    BY <1>4, <2>1, <2>2 DEF ReadLine, TypeOK, hostVars, boardVars
<1>5. CASE ReadProgram
  BY <1>5, ReadStream DEF ReadProgram, TypeOK, hostVars
<1>6. CASE PayloadTimeout
  BY <1>0, <1>6, <1>t DEF PayloadTimeout, Release, TypeOK, hostVars
<1>7. CASE OutOfMemory
  BY <1>0, <1>7 DEF OutOfMemory, Release, TypeOK, hostVars
<1>8. CASE CrcMismatch
  <2>1. up' \in Seq(UpCell)
    BY <1>8, ReadStream DEF CrcMismatch, TypeOK
  <2>2. Refusal(frame.req, frame.id, "invalid_repl_state", FALSE) \in Seq(DownCell)
    BY <1>0, <1>f, DownCells DEF Statuses
  <2>3. down' \in Seq(DownCell)
    BY <1>8, <2>2, WriteAll DEF CrcMismatch, TypeOK
  <2> QED
    BY <1>8, <2>1, <2>3, ToLoopTypeOK DEF CrcMismatch, TypeOK, hostVars
<1>9. CASE RefusePayload
  <2>1. up' \in Seq(UpCell)
    BY <1>9, ReadStream DEF RefusePayload, TypeOK
  <2>2. PICK s \in {"invalid_vmbc", "invalid_repl_state"} :
           down' = down \o Refusal(frame.req, frame.id, s, FALSE)
    BY <1>9 DEF RefusePayload
  <2>3. Refusal(frame.req, frame.id, s, FALSE) \in Seq(DownCell)
    BY <1>0, <1>f, <2>2, DownCells DEF Statuses
  <2>4. down' \in Seq(DownCell)
    BY <2>2, <2>3, WriteAll DEF TypeOK
  <2> QED
    BY <1>9, <2>1, <2>4, ToLoopTypeOK DEF RefusePayload, TypeOK, hostVars
<1>10. CASE StartRun
  <2>0. up' \in Seq(UpCell) /\ Head(up) \in UpCell
    BY <1>10, ReadStream DEF StartRun, TypeOK
  <2>1. Head(up).locals \in Seq(Nat) /\ Head(up).req \in Nat
    BY <2>0 DEF UpCell
  <2>2. frame' \in UpCell
    BY <1>10, <2>1 DEF StartRun, TypeOK, UpCell
  <2>3. prog.req \in Nat
    BY DEF TypeOK, UpCell
  <2>4. executed' \in Seq([req : Nat, prog : Nat, state : Nat])
    BY <1>10, <1>f, <2>1, <2>3 DEF StartRun, TypeOK
  <2> QED
    BY <1>10, <2>0, <2>2, <2>4 DEF StartRun, TypeOK, hostVars
<1>11. CASE ScriptPrints
  BY <1>11, <1>t DEF ScriptPrints, TypeOK, hostVars, boardVars
<1>12. CASE ScriptReads
  BY <1>12, ReadStream DEF ScriptReads, TypeOK, hostVars, boardVars
<1>13. CASE RunDone
  <2>1. Append(frame.locals, frame.req) \in Seq(Nat)
    BY <1>f
  <2>2. PICK s \in {"ok", "run_error"} :
           down' = down \o Answer(frame.req, frame.id, s,
                                  Append(frame.locals, frame.req))
    BY <1>13 DEF RunDone
  <2>3. s \in Statuses /\ TRUE \in BOOLEAN
    BY <2>2 DEF Statuses
  <2>4. Answer(frame.req, frame.id, s, Append(frame.locals, frame.req)) \in Seq(DownCell)
    BY <1>f, <2>1, <2>3, DownCells
  <2>5. down' \in Seq(DownCell)
    BY <2>2, <2>4, WriteAll DEF TypeOK
  <2> QED
    BY <1>13, <2>5, ToLoopTypeOK DEF RunDone, TypeOK, hostVars
<1>14. CASE RunUnencodable
  <2>1. Refusal(frame.req, frame.id, "invalid_repl_state", TRUE) \in Seq(DownCell)
    BY <1>0, <1>f, DownCells DEF Statuses
  <2>2. down' \in Seq(DownCell)
    BY <1>14, <2>1, WriteAll DEF RunUnencodable, TypeOK
  <2> QED
    BY <1>14, <2>2, ToLoopTypeOK DEF RunUnencodable, TypeOK, hostVars
<1>15. CASE Discard
  BY <1>15, ReadStream DEF Discard, TypeOK, hostVars, boardVars
<1>16. CASE DiscardQuiet
  <2>1. Refusal(frame.req, frame.id, "invalid_argument", FALSE) \in Seq(DownCell)
    BY <1>0, <1>f, DownCells DEF Statuses
  <2>2. down' \in Seq(DownCell)
    BY <1>16, <2>1, WriteAll DEF DiscardQuiet, TypeOK
  <2> QED
    BY <1>16, <2>2, ToLoopTypeOK DEF DiscardQuiet, TypeOK, hostVars
<1>17. CASE ResetBoard
  <2>1. PICK k \in 0..Len(up) : up' = SubSeq(up, k + 1, Len(up))
    BY <1>17 DEF ResetBoard
  <2>2. up' \in Seq(UpCell)
    BY <2>1, CutStream DEF TypeOK
  <2> QED
    BY <1>17, <1>t, <2>2, ToLoopTypeOK DEF ResetBoard, TypeOK, hostVars
<1> QED
  BY <1>1, <1>2, <1>3, <1>4, <1>5, <1>6, <1>7, <1>8, <1>9, <1>10, <1>11,
     <1>12, <1>13, <1>14, <1>15, <1>16, <1>17 DEF BoardStep

LEMMA WireTypeOK == TypeOK /\ WireFault => TypeOK'
<1> SUFFICES ASSUME TypeOK, WireFault PROVE TypeOK'
  OBVIOUS
<1>1. CASE LoseUp
  BY <1>1, LoseFromStream DEF LoseUp, TypeOK, hostVars, boardVars
<1>2. CASE LoseDown
  BY <1>2, LoseFromStream DEF LoseDown, TypeOK, hostVars, boardVars
<1>3. CASE CorruptUp
  <2>1. PICK i \in 1..Len(up) : up' = [up EXCEPT ![i].ok = FALSE]
    BY <1>3 DEF CorruptUp
  <2>2. up' \in Seq(UpCell)
    BY <2>1, CorruptCell DEF TypeOK
  <2> QED
    BY <1>3, <2>2 DEF CorruptUp, TypeOK, hostVars, boardVars
<1>4. CASE CorruptDown
  <2>1. PICK i \in 1..Len(down) : down' = [down EXCEPT ![i].ok = FALSE]
    BY <1>4 DEF CorruptDown
  <2>2. down' \in Seq(DownCell)
    BY <2>1, CorruptCell DEF TypeOK
  <2>3. UNCHANGED <<hostVars, up, boardVars>> /\ faults < MaxFaults /\ faults' = faults + 1
    BY <1>4 DEF CorruptDown
  <2> QED
    BY <2>2, <2>3 DEF TypeOK, hostVars, boardVars
<1> QED
  BY <1>1, <1>2, <1>3, <1>4 DEF WireFault

\* Every variable of the link keeps its type, whatever is lost or corrupted
\* and however often either side restarts.
THEOREM TypeCorrect == Spec => []TypeOK
<1>1. Init => TypeOK
  BY InitTypeOK
<1>2. TypeOK /\ [Next]_vars => TypeOK'
  <2> SUFFICES ASSUME TypeOK, [Next]_vars PROVE TypeOK'
    OBVIOUS
  <2>1. CASE HostStep
    BY <2>1, HostTypeOK
  <2>2. CASE BoardStep
    BY <2>2, BoardTypeOK
  <2>3. CASE WireFault
    BY <2>3, WireTypeOK
  <2>4. CASE UNCHANGED vars
    BY <2>4 DEF TypeOK, vars, hostVars, boardVars
  <2> QED
    BY <2>1, <2>2, <2>3, <2>4 DEF Next
<1> QED
  BY <1>1, <1>2, PTL DEF Spec

-----------------------------------------------------------------------------
(* Responses are those of the current request. *)

LEMMA InitIdsNamed == Init => IdsNamed
<1> SUFFICES ASSUME Init PROVE IdsNamed
  OBVIOUS
<1>1. \A c \in ToSet(out) \union ToSet(up) \union ToSet(down) : Named(c)
  BY DEF Init, ToSet
<1>2. Named(NoUp) /\ Named(Text)
  BY DEF Init, Named, NoUp, ToBoard, Text, ToHost
<1> QED
  BY <1>1, <1>2 DEF Init, IdsNamed, NoHead

\* A step that leaves the counters alone and puts only named cells in flight.
LEMMA NamedStep ==
    ASSUME IdsNamed,
           UNCHANGED <<nextId, reqId, cur, born>>,
           \A c \in ToSet(out') \union ToSet(up') \union ToSet(down') : Named(c),
           Named(frame'), Named(head'),
           cpc' = "body" => head'.id = reqId
    PROVE  IdsNamed'
<1>1. \A c : Named(c) <=> /\ c.req <= cur'
                           /\ \/ c.req <= born'
                              \/ c.req + IdMax <= cur'
                              \/ c.id = GivenId(c.req)'
  BY DEF Named, GivenId
<1>2. GivenId(cur)' = GivenId(cur)
  BY DEF GivenId
<1> QED
  BY <1>1, <1>2 DEF IdsNamed, Named

LEMMA BlankNamed ==
    ASSUME TypeOK, IdsNamed
    PROVE  /\ Named(Text) /\ Named(NoUp)
           /\ \A k, s, r, b, l : Named(ToHost(k, frame.req, frame.id, s, r, b, l))
<1>1. Named(Text) /\ Named(NoUp)
  BY DEF TypeOK, Named, NoUp, ToBoard, Text, ToHost
<1>2. ASSUME NEW k, NEW s, NEW r, NEW b, NEW l
      PROVE  Named(ToHost(k, frame.req, frame.id, s, r, b, l))
  BY DEF IdsNamed, Named, ToHost
<1> QED
  BY <1>1, <1>2

LEMMA FinishNamed ==
    ASSUME TypeOK, IdsNamed, NEW r, Finish(r),
           UNCHANGED <<nextId, reqId, cur, born, frame>>,
           ToSet(up') \union ToSet(down') \subseteq ToSet(up) \union ToSet(down)
    PROVE  IdsNamed'
<1>1. ToSet(out') = {} /\ head' = Text /\ cpc' = "idle"
  BY DEF Finish, NoHead, ToSet
<1>2. \A c \in ToSet(out') \union ToSet(up') \union ToSet(down') : Named(c)
  BY <1>1 DEF IdsNamed
<1>3. Named(head') /\ Named(frame')
  BY <1>1, BlankNamed DEF IdsNamed
<1> QED
  BY <1>1, <1>2, <1>3, NamedStep

\* The counter moves on: earlier requests keep their ids until it has come
\* round to them.
LEMMA NextIdNamed ==
    ASSUME TypeOK, cur' = cur + 1, nextId' = NextRequestId(nextId), born' = born
    PROVE  /\ \A n \in Nat : n <= cur /\ n + IdMax > cur + 1 => GivenId(n)' = GivenId(n)
           /\ GivenId(cur)' = nextId
           /\ \A c \in UpCell \union DownCell : Named(c) => Named(c)'
<1> USE IdMaxAssumption
<1>1. nextId \in 1..IdMax /\ cur \in Nat /\ born \in Nat
  BY DEF TypeOK
<1>2. nextId' = IF nextId = IdMax THEN 1 ELSE nextId + 1
  BY DEF NextRequestId
<1>3. ASSUME NEW n \in Nat, n <= cur, n + IdMax > cur + 1
      PROVE  GivenId(n)' = GivenId(n)
  BY <1>1, <1>2, <1>3 DEF GivenId
<1>4. GivenId(cur)' = nextId
  BY <1>1, <1>2 DEF GivenId
<1>5. ASSUME NEW c \in UpCell \union DownCell, Named(c)
      PROVE  Named(c)'
  <2>1. c.req \in Nat
    BY <1>5 DEF UpCell, DownCell
  <2>2. CASE c.req <= born
    BY <1>1, <1>5, <2>1, <2>2 DEF Named
  <2>3. CASE c.req + IdMax <= cur + 1
    BY <1>1, <1>5, <2>1, <2>3 DEF Named
  <2>4. CASE ~(c.req <= born) /\ ~(c.req + IdMax <= cur + 1)
    <3>1. c.req <= cur /\ c.id = GivenId(c.req)
      BY <1>1, <1>5, <2>1, <2>4 DEF Named
    <3>2. GivenId(c.req)' = GivenId(c.req)
      BY <1>1, <1>3, <2>1, <2>4, <3>1
    <3> QED
      BY <1>1, <2>1, <3>1, <3>2 DEF Named
  <2> QED
    BY <2>2, <2>3, <2>4
<1> QED
  BY <1>3, <1>4, <1>5

LEMMA HostIdsNamed == TypeOK /\ IdsNamed /\ HostStep => IdsNamed'
<1> SUFFICES ASSUME TypeOK, IdsNamed, HostStep PROVE IdsNamed'
  OBVIOUS
<1> USE IdMaxAssumption
<1>0. /\ \A c \in ToSet(out) \union ToSet(up) \union ToSet(down) : Named(c)
      /\ Named(frame) /\ Named(head)
      /\ cpc = "body" => head.id = reqId
  BY DEF IdsNamed
<1>r. down # <<>> => /\ Head(down) \in ToSet(down)
                     /\ ToSet(Tail(down)) \subseteq ToSet(down)
  BY ReadStream DEF TypeOK
<1>1. CASE StartEval
  <2>1. cur + 1 \in Nat /\ nextId \in 0..IdMax /\ locals \in Seq(Nat)
    BY DEF TypeOK
  <2>2. /\ cur' = cur + 1 /\ nextId' = NextRequestId(nextId) /\ born' = born
        /\ reqId' = nextId /\ cpc' = "write"
        /\ up' = up /\ down' = down /\ frame' = frame /\ head' = head
        /\ out' = RequestFrame(cur + 1, nextId, locals)
    BY <1>1 DEF StartEval, boardVars
  <2>3. GivenId(cur)' = nextId
    BY <2>2, NextIdNamed
  <2>4. \A c \in ToSet(up) \union ToSet(down) : c \in UpCell \union DownCell
    BY DEF TypeOK, ToSet
  <2>5. \A c \in ToSet(up') \union ToSet(down') : Named(c)'
    BY <1>0, <2>2, <2>4, NextIdNamed
  <2>6. Named(frame)' /\ Named(head)'
    <3>1. /\ frame \in UpCell \union DownCell
          /\ head \in UpCell \union DownCell
      BY DEF TypeOK
    <3>2. \A c \in UpCell \union DownCell : Named(c) => Named(c)'
      BY <2>2, NextIdNamed
    <3>3. \A c : c = frame /\ Named(c)' => Named(frame)'
      BY <2>2
    <3>4. \A c : c = head /\ Named(c)' => Named(head)'
      BY <2>2
    <3> QED
      BY <1>0, <3>1, <3>2, <3>3, <3>4
  <2>7. \A c \in ToSet(out') : c.req = cur' /\ c.id = nextId
    BY <2>2 DEF RequestFrame, ToBoard, ToSet
  <2>8. \A c \in ToSet(out') : Named(c)'
    BY <2>1, <2>2, <2>3, <2>7 DEF Named
  <2>9. born' <= cur'
    BY <2>2 DEF TypeOK, IdsNamed
  <2> QED
    BY <2>2, <2>3, <2>5, <2>6, <2>8, <2>9 DEF IdsNamed
<1>2. CASE WriteCell
  <2>1. /\ ToSet(out') \subseteq ToSet(out)
        /\ ToSet(up') = ToSet(up) \union {Head(out)}
        /\ Head(out) \in ToSet(out)
    <3>1. out # <<>> /\ out \in Seq(UpCell) /\ up \in Seq(UpCell)
      BY <1>2 DEF WriteCell, TypeOK
    <3>2. Head(out) \in UpCell
      BY <3>1, ReadStream
    <3> QED
      BY <1>2, <3>1, <3>2, ReadStream, WriteStream DEF WriteCell
  <2> QED
    BY <1>0, <1>2, <2>1, NamedStep DEF WriteCell, boardVars
<1>3. CASE Flush
  BY <1>0, <1>3, NamedStep DEF Flush, boardVars
<1>4. CASE WriteFails
  BY <1>4, FinishNamed DEF WriteFails, boardVars
<1>5. CASE SkipOutput
  <2>1. ToSet(down') \subseteq ToSet(down)
    BY <1>5, <1>r DEF SkipOutput
  <2>2. CASE prelude >= PreludeLimit
    BY <1>5, <2>1, <2>2, FinishNamed DEF SkipOutput, boardVars
  <2>3. CASE ~(prelude >= PreludeLimit)
    BY <1>0, <1>5, <2>1, <2>3, NamedStep DEF SkipOutput, boardVars
  <2> QED
    BY <2>2, <2>3
<1>6. CASE AcceptHeader
  <2>1. Named(head') /\ head'.id = reqId /\ ToSet(down') \subseteq ToSet(down)
    BY <1>0, <1>6, <1>r DEF AcceptHeader, Matches
  <2> QED
    BY <1>0, <1>6, <2>1, NamedStep DEF AcceptHeader, boardVars
<1>7. CASE ReturnEmpty
  BY <1>7, FinishNamed DEF ReturnEmpty, boardVars
<1>8. CASE BodyCorrupt
  BY <1>8, <1>r, FinishNamed DEF BodyCorrupt, boardVars
<1>9. CASE BodyUndecodable
  BY <1>9, <1>r, FinishNamed DEF BodyUndecodable, boardVars
<1>10. CASE AdoptBody
  BY <1>10, <1>r, FinishNamed DEF AdoptBody, boardVars
<1>11. CASE ReadTimeout
  BY <1>11, FinishNamed DEF ReadTimeout, boardVars
<1>12. CASE ClearSession
  BY <1>0, <1>12, NamedStep DEF ClearSession, boardVars
<1>13. CASE RestartHost
  \* Everything in flight now belongs to an earlier process.
  <2>1. /\ born' = cur /\ cur' = cur /\ cpc' = "idle"
        /\ out' = <<>> /\ down' = <<>> /\ up' = up
        /\ frame' = frame /\ head' = Text
    BY <1>13 DEF RestartHost, Finish, NoHead, boardVars
  <2>2. \A c : c.req <= cur => Named(c)'
    BY <2>1 DEF Named
  <2>3. \A c \in ToSet(out') \union ToSet(up') \union ToSet(down') : Named(c)'
    BY <1>0, <2>1, <2>2 DEF Named, ToSet
  <2>4. Named(frame)' /\ Named(head)'
    BY <1>0, <2>1 DEF Named, TypeOK, Text, ToHost
  <2> QED
    BY <2>1, <2>3, <2>4 DEF IdsNamed, TypeOK
<1> QED
  BY <1>1, <1>2, <1>3, <1>4, <1>5, <1>6, <1>7, <1>8, <1>9, <1>10, <1>11,
     <1>12, <1>13 DEF HostStep

LEMMA BoardIdsNamed == TypeOK /\ IdsNamed /\ BoardStep => IdsNamed'
<1> SUFFICES ASSUME TypeOK, IdsNamed, BoardStep PROVE IdsNamed'
  OBVIOUS
<1>0. /\ \A c \in ToSet(out) \union ToSet(up) \union ToSet(down) : Named(c)
      /\ Named(frame) /\ Named(head)
      /\ cpc = "body" => head.id = reqId
  BY DEF IdsNamed
<1>b. /\ Named(Text) /\ Named(NoUp)
      /\ \A k, s, r, b, l : Named(ToHost(k, frame.req, frame.id, s, r, b, l))
  BY BlankNamed
<1>r. up # <<>> => /\ Head(up) \in ToSet(up)
                   /\ ToSet(Tail(up)) \subseteq ToSet(up)
  BY ReadStream DEF TypeOK
<1>c. \A k \in 0..Len(up) : ToSet(SubSeq(up, k + 1, Len(up))) \subseteq ToSet(up)
  BY CutStream DEF TypeOK
<1>t. ToSet(Append(down, Text)) = ToSet(down) \union {Text}
  <2>1. Text \in DownCell
    BY IdMaxAssumption DEF Text, ToHost, DownCell, Statuses
  <2> QED
    BY <2>1, WriteStream DEF TypeOK
<1>s. ASSUME NEW s \in Statuses, NEW r \in BOOLEAN
      PROVE  \A c \in ToSet(down \o Refusal(frame.req, frame.id, s, r)) : Named(c)
  <2> DEFINE h == ToHost("head", frame.req, frame.id, s, r, FALSE, <<>>)
  <2>1. h \in DownCell
    BY IdMaxAssumption DEF TypeOK, UpCell, ToHost, DownCell
  <2>2. Refusal(frame.req, frame.id, s, r) = <<h>>
    BY DEF Refusal
  <2>3. Named(h)
    BY <1>b
  <2> HIDE DEF h
  <2>4. <<h>> \in Seq(DownCell) /\ ToSet(<<h>>) = {h}
    BY <2>1, Singleton
  <2>5. ToSet(down \o <<h>>) \subseteq ToSet(down) \union {h}
    BY <2>4, WriteAll DEF TypeOK
  <2> QED
    BY <1>0, <2>2, <2>3, <2>5
<1>1. CASE ReadHeader
  <2>1. up[2] \in ToSet(up) /\ ToSet(up') \subseteq ToSet(up)
    BY <1>1, ReadTwo DEF ReadHeader, FrameReady, TypeOK
  <2> QED
    BY <1>0, <1>1, <2>1, NamedStep DEF ReadHeader, hostVars
<1>2. CASE RejectHeader
  <2>1. PICK i \in 0..IdMax : frame' = [NoUp EXCEPT !.id = i]
    BY <1>2 DEF RejectHeader
  <2>2. Named(frame')
    BY <2>1 DEF Named, NoUp, ToBoard, TypeOK
  <2> QED
    BY <1>0, <1>2, <1>r, <2>2, NamedStep DEF RejectHeader, hostVars
<1>3. CASE HeaderTimeout
  <2>1. ToSet(up') = {}
    BY <1>3 DEF HeaderTimeout, ToSet
  <2> QED
    BY <1>0, <1>3, <2>1, NamedStep DEF HeaderTimeout, hostVars, boardVars
<1>4. CASE ReadLine
  <2>1. ToSet(up') \subseteq ToSet(up)
    <3>1. PICK k \in 1..Len(up) : up' = SubSeq(up, k + 1, Len(up))
      BY <1>4 DEF ReadLine
    <3>2. k \in 0..Len(up)
      BY <3>1 DEF TypeOK
    <3> QED
      BY <1>c, <3>1, <3>2
  <2>2. ToSet(down') \subseteq ToSet(down) \union {Text}
    <3>1. Text \in DownCell
      BY IdMaxAssumption DEF Text, ToHost, DownCell, Statuses
    <3>2. <<>> \in Seq(DownCell) /\ ToSet(<<>>) = {}
      BY DEF ToSet
    <3>3. <<Text>> \in Seq(DownCell) /\ ToSet(<<Text>>) = {Text}
      BY <3>1, Singleton
    <3>4. PICK t \in {<<>>, <<Text>>} : down' = down \o t
      BY <1>4 DEF ReadLine
    <3>5. ToSet(down \o t) \subseteq ToSet(down) \union ToSet(t)
      BY <3>2, <3>3, <3>4, WriteAll DEF TypeOK
    <3> QED
      BY <3>2, <3>3, <3>4, <3>5
  <2> QED
    BY <1>0, <1>4, <1>b, <2>1, <2>2, NamedStep DEF ReadLine, hostVars, boardVars
<1>5. CASE ReadProgram
  BY <1>0, <1>5, <1>r, NamedStep DEF ReadProgram, hostVars
<1>6. CASE PayloadTimeout
  BY <1>0, <1>6, <1>b, <1>t, NamedStep DEF PayloadTimeout, hostVars
<1>7. CASE OutOfMemory
  BY <1>0, <1>7, NamedStep DEF OutOfMemory, hostVars
<1>8. CASE CrcMismatch
  <2>1. \A c \in ToSet(down') : Named(c)
    BY <1>8, <1>s DEF CrcMismatch, Statuses
  <2> QED
    BY <1>0, <1>8, <1>b, <1>r, <2>1, NamedStep DEF CrcMismatch, ToLoop, hostVars
<1>9. CASE RefusePayload
  <2>1. \A c \in ToSet(down') : Named(c)
    BY <1>9, <1>s DEF RefusePayload, Statuses
  <2> QED
    BY <1>0, <1>9, <1>b, <1>r, <2>1, NamedStep DEF RefusePayload, ToLoop, hostVars
<1>10. CASE StartRun
  <2>1. Named(frame')
    <3>1. frame'.req = frame.req /\ frame'.id = frame.id
      BY <1>10 DEF StartRun, TypeOK, UpCell
    <3> QED
      BY <1>0, <3>1 DEF Named
  <2> QED
    BY <1>0, <1>10, <1>r, <2>1, NamedStep DEF StartRun, hostVars
<1>11. CASE ScriptPrints
  BY <1>0, <1>11, <1>b, <1>t, NamedStep DEF ScriptPrints, hostVars, boardVars
<1>12. CASE ScriptReads
  BY <1>0, <1>12, <1>r, NamedStep DEF ScriptReads, hostVars, boardVars
<1>13. CASE RunDone
  <2>1. PICK s \in {"ok", "run_error"} :
           down' = down \o Answer(frame.req, frame.id, s,
                                  Append(frame.locals, frame.req))
    BY <1>13 DEF RunDone
  <2> DEFINE h == ToHost("head", frame.req, frame.id, s, TRUE, TRUE, <<>>)
             b == ToHost("body", frame.req, frame.id, s, TRUE, TRUE,
                         Append(frame.locals, frame.req))
  <2>2. h \in DownCell /\ b \in DownCell
    <3>1. /\ frame.req \in Nat /\ frame.id \in 0..IdMax
          /\ Append(frame.locals, frame.req) \in Seq(Nat)
      BY DEF TypeOK, UpCell
    <3>2. s \in Statuses
      BY <2>1 DEF Statuses
    <3> QED
      BY <3>1, <3>2 DEF ToHost, DownCell
  <2>3. down' = down \o <<h, b>>
    BY <2>1 DEF Answer
  <2>4. Named(h) /\ Named(b)
    BY <1>b
  <2> HIDE DEF h, b
  <2>5. <<h, b>> \in Seq(DownCell) /\ ToSet(<<h, b>>) = {h, b}
    BY <2>2, Pair
  <2>6. ToSet(down') \subseteq ToSet(down) \union {h, b}
    BY <2>3, <2>5, WriteAll DEF TypeOK
  <2> QED
    BY <1>0, <1>13, <1>b, <2>4, <2>6, NamedStep DEF RunDone, ToLoop, hostVars
<1>14. CASE RunUnencodable
  <2>1. \A c \in ToSet(down') : Named(c)
    BY <1>14, <1>s DEF RunUnencodable, Statuses
  <2> QED
    BY <1>0, <1>14, <1>b, <2>1, NamedStep DEF RunUnencodable, ToLoop, hostVars
<1>15. CASE Discard
  BY <1>0, <1>15, <1>r, NamedStep DEF Discard, hostVars, boardVars
<1>16. CASE DiscardQuiet
  <2>1. \A c \in ToSet(down') : Named(c)
    BY <1>16, <1>s DEF DiscardQuiet, Statuses
  <2> QED
    BY <1>0, <1>16, <1>b, <2>1, NamedStep DEF DiscardQuiet, ToLoop, hostVars
<1>17. CASE ResetBoard
  <2>1. ToSet(up') \subseteq ToSet(up)
    BY <1>17, <1>c DEF ResetBoard
  <2> QED
    BY <1>0, <1>17, <1>b, <1>t, <2>1, NamedStep DEF ResetBoard, ToLoop, hostVars
<1> QED
  BY <1>1, <1>2, <1>3, <1>4, <1>5, <1>6, <1>7, <1>8, <1>9, <1>10, <1>11,
     <1>12, <1>13, <1>14, <1>15, <1>16, <1>17 DEF BoardStep

\* Corruption leaves a cell's request and id alone.
LEMMA CorruptNamed ==
    ASSUME NEW s, NEW i \in 1..Len(s),
           \/ s \in Seq(UpCell)
           \/ s \in Seq(DownCell),
           \A c \in ToSet(s) : Named(c)
    PROVE  \A c \in ToSet([s EXCEPT ![i].ok = FALSE]) : Named(c)
<1> DEFINE t == [s EXCEPT ![i].ok = FALSE]
<1>1. /\ Len(t) = Len(s)
      /\ t \in Seq(UpCell) \/ t \in Seq(DownCell)
      /\ \A j \in 1..Len(s) : t[j] = IF j = i THEN [s[i] EXCEPT !.ok = FALSE] ELSE s[j]
  BY CorruptCell
<1>2. DOMAIN s = 1..Len(s)
  BY LenProperties
<1> HIDE DEF t
<1>3. DOMAIN t = 1..Len(s)
  BY <1>1, LenProperties
<1>4. ASSUME NEW j \in 1..Len(s)
      PROVE  t[j].req = s[j].req /\ t[j].id = s[j].id
  <2>1. s[i] \in UpCell \/ s[i] \in DownCell
    BY ElementOfSeq
  <2>2. LET c == [s[i] EXCEPT !.ok = FALSE] IN c.req = s[i].req /\ c.id = s[i].id
    BY <2>1 DEF UpCell, DownCell
  <2> QED
    BY <1>1, <2>2
<1>5. ASSUME NEW c \in ToSet(t)
      PROVE  Named(c)
  <2>1. PICK j \in 1..Len(s) : c = t[j]
    BY <1>3 DEF ToSet
  <2>2. Named(s[j])
    BY <1>2 DEF ToSet
  <2> QED
    BY <1>4, <2>1, <2>2 DEF Named
<1> QED
  BY <1>5 DEF t

LEMMA WireIdsNamed == TypeOK /\ IdsNamed /\ WireFault => IdsNamed'
<1> SUFFICES ASSUME TypeOK, IdsNamed, WireFault PROVE IdsNamed'
  OBVIOUS
<1>0. /\ \A c \in ToSet(out) \union ToSet(up) \union ToSet(down) : Named(c)
      /\ Named(frame) /\ Named(head)
      /\ cpc = "body" => head.id = reqId
  BY DEF IdsNamed
<1>1. CASE LoseUp
  <2>1. ToSet(up') \subseteq ToSet(up)
    BY <1>1, LoseFromStream DEF LoseUp, TypeOK
  <2> QED
    BY <1>0, <1>1, <2>1, NamedStep DEF LoseUp, hostVars, boardVars
<1>2. CASE LoseDown
  <2>1. ToSet(down') \subseteq ToSet(down)
    BY <1>2, LoseFromStream DEF LoseDown, TypeOK
  <2> QED
    BY <1>0, <1>2, <2>1, NamedStep DEF LoseDown, hostVars, boardVars
<1>3. CASE CorruptUp
  <2>1. \A c \in ToSet(up') : Named(c)
    BY <1>0, <1>3, CorruptNamed DEF CorruptUp, TypeOK
  <2> QED
    BY <1>0, <1>3, <2>1, NamedStep DEF CorruptUp, hostVars, boardVars
<1>4. CASE CorruptDown
  <2>1. \A c \in ToSet(down') : Named(c)
    BY <1>0, <1>4, CorruptNamed DEF CorruptDown, TypeOK
  <2> QED
    BY <1>0, <1>4, <2>1, NamedStep DEF CorruptDown, hostVars, boardVars
<1> QED
  BY <1>1, <1>2, <1>3, <1>4 DEF WireFault

\* A step that leaves everything that belongs to no request text or a refusal.
LEMMA UnaskedStep ==
    ASSUME RestUnasked,
           \A c \in ToSet(out') \union ToSet(up') : c.req > 0,
           dpc' \in {"program", "state", "run"} => frame'.req > 0,
           \A c \in ToSet(down') \union {head'} : AskedOrRefused(c),
           cpc' = "body" => head'.kind = "head"
    PROVE  RestUnasked'
  BY DEF RestUnasked, AskedOrRefused, UnaskedRefusal

\* A step of the host that neither begins nor ends a call of eval.
LEMMA UnaskedHost ==
    ASSUME RestUnasked,
           \A c \in ToSet(out') \union ToSet(up') : c.req > 0,
           UNCHANGED <<dpc, frame>>,
           ToSet(down') \subseteq ToSet(down),
           head' = head, cpc' = "body" => cpc = "body"
    PROVE  RestUnasked'
  BY UnaskedStep DEF RestUnasked

LEMMA UnaskedFinish ==
    ASSUME RestUnasked, NEW r, Finish(r), UNCHANGED <<dpc, frame, up>>,
           ToSet(down') \subseteq ToSet(down)
    PROVE  RestUnasked'
<1>1. ToSet(out') = {} /\ cpc' = "idle" /\ AskedOrRefused(head')
  BY DEF Finish, NoHead, ToSet, AskedOrRefused, Text, ToHost
<1> QED
  BY <1>1, UnaskedStep DEF RestUnasked

\* A step of the board or of a wire.
LEMMA UnaskedBoard ==
    ASSUME RestUnasked, UNCHANGED hostVars,
           ToSet(up') \subseteq ToSet(up),
           dpc' \in {"program", "state", "run"} => frame'.req > 0,
           \A c \in ToSet(down') : AskedOrRefused(c)
    PROVE  RestUnasked'
  BY UnaskedStep DEF RestUnasked, hostVars

LEMMA InitUnasked == Init => RestUnasked
<1> SUFFICES ASSUME Init PROVE RestUnasked
  OBVIOUS
<1>1. ToSet(out) = {} /\ ToSet(up) = {} /\ ToSet(down) = {}
  BY DEF Init, ToSet
<1>2. AskedOrRefused(head)
  BY DEF Init, NoHead, AskedOrRefused, Text, ToHost
<1> QED
  BY <1>1, <1>2 DEF Init, RestUnasked

LEMMA HostUnasked == TypeOK /\ RestUnasked /\ HostStep => RestUnasked'
<1> SUFFICES ASSUME TypeOK, RestUnasked, HostStep PROVE RestUnasked'
  OBVIOUS
<1>0. /\ \A c \in ToSet(out) \union ToSet(up) : c.req > 0
      /\ \A c \in ToSet(down) \union {head} : AskedOrRefused(c)
  BY DEF RestUnasked
<1>r. down # <<>> => /\ Head(down) \in ToSet(down)
                     /\ ToSet(Tail(down)) \subseteq ToSet(down)
  BY ReadStream DEF TypeOK
<1>1. CASE StartEval
  <2>1. \A c \in ToSet(out') : c.req = cur + 1
    BY <1>1 DEF StartEval, RequestFrame, ToBoard, ToSet
  <2>2. \A c \in ToSet(out') \union ToSet(up') : c.req > 0
    BY <1>0, <1>1, <2>1 DEF StartEval, TypeOK
  <2> QED
    BY <1>1, <2>2, UnaskedHost DEF StartEval, boardVars
<1>2. CASE WriteCell
  <2>1. /\ ToSet(out') \subseteq ToSet(out)
        /\ ToSet(up') = ToSet(up) \union {Head(out)}
        /\ Head(out) \in ToSet(out)
    <3>1. out # <<>> /\ out \in Seq(UpCell) /\ up \in Seq(UpCell)
      BY <1>2 DEF WriteCell, TypeOK
    <3>2. Head(out) \in UpCell
      BY <3>1, ReadStream
    <3> QED
      BY <1>2, <3>1, <3>2, ReadStream, WriteStream DEF WriteCell
  <2> QED
    BY <1>0, <1>2, <2>1, UnaskedHost DEF WriteCell, boardVars
<1>3. CASE Flush
  BY <1>0, <1>3, UnaskedHost DEF Flush, boardVars
<1>4. CASE WriteFails
  BY <1>4, UnaskedFinish DEF WriteFails, boardVars
<1>5. CASE SkipOutput
  <2>1. ToSet(down') \subseteq ToSet(down)
    BY <1>5, <1>r DEF SkipOutput
  <2>2. CASE prelude >= PreludeLimit
    BY <1>5, <2>1, <2>2, UnaskedFinish DEF SkipOutput, boardVars
  <2>3. CASE ~(prelude >= PreludeLimit)
    BY <1>0, <1>5, <2>1, <2>3, UnaskedHost DEF SkipOutput, boardVars
  <2> QED
    BY <2>2, <2>3
<1>6. CASE AcceptHeader
  <2>1. AskedOrRefused(head') /\ head'.kind = "head" /\ ToSet(down') \subseteq ToSet(down)
    BY <1>0, <1>6, <1>r DEF AcceptHeader, Matches
  <2> QED
    BY <1>0, <1>6, <2>1, UnaskedStep DEF AcceptHeader, boardVars, RestUnasked
<1>7. CASE ReturnEmpty
  BY <1>7, UnaskedFinish DEF ReturnEmpty, boardVars
<1>8. CASE BodyCorrupt
  BY <1>8, <1>r, UnaskedFinish DEF BodyCorrupt, boardVars
<1>9. CASE BodyUndecodable
  BY <1>9, <1>r, UnaskedFinish DEF BodyUndecodable, boardVars
<1>10. CASE AdoptBody
  BY <1>10, <1>r, UnaskedFinish DEF AdoptBody, boardVars
<1>11. CASE ReadTimeout
  BY <1>11, UnaskedFinish DEF ReadTimeout, boardVars
<1>12. CASE ClearSession
  BY <1>0, <1>12, UnaskedHost DEF ClearSession, boardVars
<1>13. CASE RestartHost
  BY <1>13, UnaskedFinish DEF RestartHost, boardVars, ToSet
<1> QED
  BY <1>1, <1>2, <1>3, <1>4, <1>5, <1>6, <1>7, <1>8, <1>9, <1>10, <1>11,
     <1>12, <1>13 DEF HostStep

\* What the board says when it may not know whose the bytes were.
LEMMA RefusalUnasked ==
    ASSUME TypeOK, RestUnasked
    PROVE  \A c \in ToSet(down \o Refusal(frame.req, frame.id, "invalid_argument", FALSE)) :
              AskedOrRefused(c)
<1> DEFINE h == ToHost("head", frame.req, frame.id, "invalid_argument", FALSE, FALSE, <<>>)
<1>1. h \in DownCell
  BY IdMaxAssumption DEF TypeOK, UpCell, ToHost, DownCell, Statuses
<1>2. Refusal(frame.req, frame.id, "invalid_argument", FALSE) = <<h>>
  BY DEF Refusal
<1>3. AskedOrRefused(h)
  BY DEF AskedOrRefused, UnaskedRefusal, ToHost, TypeOK, UpCell
<1> HIDE DEF h
<1>4. <<h>> \in Seq(DownCell) /\ ToSet(<<h>>) = {h}
  BY <1>1, Singleton
<1>5. ToSet(down \o <<h>>) \subseteq ToSet(down) \union {h}
  BY <1>4, WriteAll DEF TypeOK
<1>6. \A c \in ToSet(down \o <<h>>) : AskedOrRefused(c)
  BY <1>3, <1>5 DEF RestUnasked
<1> QED
  BY <1>2, <1>6, Zenon

LEMMA BoardUnasked == TypeOK /\ RestUnasked /\ BoardStep => RestUnasked'
<1> SUFFICES ASSUME TypeOK, RestUnasked, BoardStep PROVE RestUnasked'
  OBVIOUS
<1>0. /\ \A c \in ToSet(out) \union ToSet(up) : c.req > 0
      /\ \A c \in ToSet(down) \union {head} : AskedOrRefused(c)
      /\ dpc \in {"program", "state", "run"} => frame.req > 0
  BY DEF RestUnasked
<1>b. Text \in DownCell /\ AskedOrRefused(Text)
  BY IdMaxAssumption DEF Text, ToHost, DownCell, Statuses, AskedOrRefused
<1>r. up # <<>> => ToSet(Tail(up)) \subseteq ToSet(up)
  BY ReadStream DEF TypeOK
<1>c. \A k \in 0..Len(up) : ToSet(SubSeq(up, k + 1, Len(up))) \subseteq ToSet(up)
  BY CutStream DEF TypeOK
<1>t. ToSet(Append(down, Text)) = ToSet(down) \union {Text}
  BY <1>b, WriteStream DEF TypeOK
<1>s. ASSUME frame.req > 0, NEW s \in Statuses, NEW r \in BOOLEAN
      PROVE  \A c \in ToSet(down \o Refusal(frame.req, frame.id, s, r)) : AskedOrRefused(c)
  <2> DEFINE h == ToHost("head", frame.req, frame.id, s, r, FALSE, <<>>)
  <2>1. h \in DownCell
    BY IdMaxAssumption DEF TypeOK, UpCell, ToHost, DownCell
  <2>2. Refusal(frame.req, frame.id, s, r) = <<h>>
    BY DEF Refusal
  <2>3. AskedOrRefused(h)
    BY <1>s DEF AskedOrRefused, ToHost
  <2> HIDE DEF h
  <2>4. <<h>> \in Seq(DownCell) /\ ToSet(<<h>>) = {h}
    BY <2>1, Singleton
  <2>5. ToSet(down \o <<h>>) \subseteq ToSet(down) \union {h}
    BY <2>4, WriteAll DEF TypeOK
  <2> QED
    BY <1>0, <2>2, <2>3, <2>5
<1>1. CASE ReadHeader
  <2>1. up[2] \in ToSet(up) /\ ToSet(up') \subseteq ToSet(up)
    BY <1>1, ReadTwo DEF ReadHeader, FrameReady, TypeOK
  <2> QED
    BY <1>0, <1>1, <2>1, UnaskedBoard DEF ReadHeader
<1>2. CASE RejectHeader
  BY <1>0, <1>2, <1>r, UnaskedBoard DEF RejectHeader
<1>3. CASE HeaderTimeout
  <2>1. ToSet(up') = {}
    BY <1>3 DEF HeaderTimeout, ToSet
  <2> QED
    BY <1>0, <1>3, <2>1, UnaskedBoard DEF HeaderTimeout, boardVars
<1>4. CASE ReadLine
  <2>1. ToSet(up') \subseteq ToSet(up)
    <3>1. PICK k \in 1..Len(up) : up' = SubSeq(up, k + 1, Len(up))
      BY <1>4 DEF ReadLine
    <3>2. k \in 0..Len(up)
      BY <3>1 DEF TypeOK
    <3> QED
      BY <1>c, <3>1, <3>2
  <2>2. ToSet(down') \subseteq ToSet(down) \union {Text}
    <3>1. <<>> \in Seq(DownCell) /\ ToSet(<<>>) = {}
      BY DEF ToSet
    <3>2. <<Text>> \in Seq(DownCell) /\ ToSet(<<Text>>) = {Text}
      BY <1>b, Singleton
    <3>3. PICK t \in {<<>>, <<Text>>} : down' = down \o t
      BY <1>4 DEF ReadLine
    <3>4. ToSet(down \o t) \subseteq ToSet(down) \union ToSet(t)
      BY <3>1, <3>2, <3>3, WriteAll DEF TypeOK
    <3> QED
      BY <3>1, <3>2, <3>3, <3>4
  <2> QED
    BY <1>0, <1>4, <1>b, <2>1, <2>2, UnaskedBoard DEF ReadLine, boardVars
<1>5. CASE ReadProgram
  BY <1>0, <1>5, <1>r, UnaskedBoard DEF ReadProgram
<1>6. CASE PayloadTimeout
  BY <1>0, <1>6, <1>b, <1>t, UnaskedBoard DEF PayloadTimeout
<1>7. CASE OutOfMemory
  BY <1>0, <1>7, UnaskedBoard DEF OutOfMemory
<1>8. CASE CrcMismatch
  <2>1. \A c \in ToSet(down') : AskedOrRefused(c)
    BY <1>0, <1>8, <1>s DEF CrcMismatch, Statuses
  <2> QED
    BY <1>8, <1>r, <2>1, UnaskedBoard DEF CrcMismatch, ToLoop
<1>9. CASE RefusePayload
  <2>1. \A c \in ToSet(down') : AskedOrRefused(c)
    BY <1>0, <1>9, <1>s DEF RefusePayload, Statuses
  <2> QED
    BY <1>9, <1>r, <2>1, UnaskedBoard DEF RefusePayload, ToLoop
<1>10. CASE StartRun
  <2>1. frame'.req = frame.req
    BY <1>10 DEF StartRun, TypeOK, UpCell
  <2> QED
    BY <1>0, <1>10, <1>r, <2>1, UnaskedBoard DEF StartRun
<1>11. CASE ScriptPrints
  BY <1>0, <1>11, <1>b, <1>t, UnaskedBoard DEF ScriptPrints, boardVars
<1>12. CASE ScriptReads
  BY <1>0, <1>12, <1>r, UnaskedBoard DEF ScriptReads, boardVars
<1>13. CASE RunDone
  <2>1. PICK s \in {"ok", "run_error"} :
           down' = down \o Answer(frame.req, frame.id, s,
                                  Append(frame.locals, frame.req))
    BY <1>13 DEF RunDone
  <2> DEFINE h == ToHost("head", frame.req, frame.id, s, TRUE, TRUE, <<>>)
             b == ToHost("body", frame.req, frame.id, s, TRUE, TRUE,
                         Append(frame.locals, frame.req))
  <2>2. h \in DownCell /\ b \in DownCell
    <3>1. /\ frame.req \in Nat /\ frame.id \in 0..IdMax
          /\ Append(frame.locals, frame.req) \in Seq(Nat)
      BY DEF TypeOK, UpCell
    <3>2. s \in Statuses
      BY <2>1 DEF Statuses
    <3> QED
      BY <3>1, <3>2 DEF ToHost, DownCell
  <2>3. down' = down \o <<h, b>>
    BY <2>1 DEF Answer
  <2>4. AskedOrRefused(h) /\ AskedOrRefused(b)
    BY <1>0, <1>13 DEF AskedOrRefused, ToHost, RunDone
  <2> HIDE DEF h, b
  <2>5. <<h, b>> \in Seq(DownCell) /\ ToSet(<<h, b>>) = {h, b}
    BY <2>2, Pair
  <2>6. ToSet(down') \subseteq ToSet(down) \union {h, b}
    BY <2>3, <2>5, WriteAll DEF TypeOK
  <2> QED
    BY <1>0, <1>13, <2>4, <2>6, UnaskedBoard DEF RunDone, ToLoop
<1>14. CASE RunUnencodable
  <2>1. \A c \in ToSet(down') : AskedOrRefused(c)
    BY <1>0, <1>14, <1>s DEF RunUnencodable, Statuses
  <2> QED
    BY <1>14, <2>1, UnaskedBoard DEF RunUnencodable, ToLoop
<1>15. CASE Discard
  BY <1>0, <1>15, <1>r, UnaskedBoard DEF Discard, boardVars
<1>16. CASE DiscardQuiet
  <2>1. \A c \in ToSet(down') : AskedOrRefused(c)
    BY <1>16, RefusalUnasked DEF DiscardQuiet
  <2> QED
    BY <1>16, <2>1, UnaskedBoard DEF DiscardQuiet, ToLoop
<1>17. CASE ResetBoard
  <2>1. ToSet(up') \subseteq ToSet(up)
    BY <1>17, <1>c DEF ResetBoard
  <2> QED
    BY <1>0, <1>17, <1>b, <1>t, <2>1, UnaskedBoard DEF ResetBoard, ToLoop
<1> QED
  BY <1>1, <1>2, <1>3, <1>4, <1>5, <1>6, <1>7, <1>8, <1>9, <1>10, <1>11,
     <1>12, <1>13, <1>14, <1>15, <1>16, <1>17 DEF BoardStep

LEMMA WireUnasked == TypeOK /\ RestUnasked /\ WireFault => RestUnasked'
<1> SUFFICES ASSUME TypeOK, RestUnasked, WireFault PROVE RestUnasked'
  OBVIOUS
<1>0. /\ \A c \in ToSet(out) \union ToSet(up) : c.req > 0
      /\ \A c \in ToSet(down) \union {head} : AskedOrRefused(c)
      /\ dpc \in {"program", "state", "run"} => frame.req > 0
      /\ cpc = "body" => head.kind = "head"
  BY DEF RestUnasked
<1>1. CASE LoseUp
  <2>1. ToSet(up') \subseteq ToSet(up)
    BY <1>1, LoseFromStream DEF LoseUp, TypeOK
  <2> QED
    BY <1>0, <1>1, <2>1, UnaskedBoard DEF LoseUp, boardVars
<1>2. CASE LoseDown
  <2>1. ToSet(down') \subseteq ToSet(down)
    BY <1>2, LoseFromStream DEF LoseDown, TypeOK
  <2> QED
    BY <1>0, <1>2, <2>1, UnaskedBoard DEF LoseDown, boardVars
<1>3. CASE CorruptUp
  <2>1. PICK i \in 1..Len(up) : up' = [up EXCEPT ![i].ok = FALSE]
    BY <1>3 DEF CorruptUp
  <2>2. \A c \in ToSet(up') : \E d \in ToSet(up) :
           c.part = d.part /\ c.req = d.req /\ c.locals = d.locals
    <3>1. up \in Seq(UpCell)
      BY DEF TypeOK
    <3> QED
      BY <2>1, <3>1, CorruptKeeps
  <2> QED
    BY <1>0, <1>3, <2>2, UnaskedStep DEF CorruptUp, hostVars, boardVars
<1>4. CASE CorruptDown
  <2>1. PICK i \in 1..Len(down) : down' = [down EXCEPT ![i].ok = FALSE]
    BY <1>4 DEF CorruptDown
  <2>2. \A c \in ToSet(down') : \E d \in ToSet(down) :
           /\ c.kind = d.kind /\ c.req = d.req /\ c.locals = d.locals
           /\ c.ran = d.ran /\ c.body = d.body /\ c.status = d.status
    <3>1. down \in Seq(DownCell)
      BY DEF TypeOK
    <3> QED
      BY <2>1, <3>1, CorruptKeeps
  <2>3. \A c \in ToSet(down') : AskedOrRefused(c)
    BY <1>0, <2>2 DEF AskedOrRefused, UnaskedRefusal
  <2> QED
    BY <1>0, <1>4, <2>3, UnaskedBoard DEF CorruptDown, boardVars
<1> QED
  BY <1>1, <1>2, <1>3, <1>4 DEF WireFault

\* What is accepted carries the current id; what a request was given under that
\* id is the current one's, but for the exceptions.
LEMMA IdsNameOwner ==
    ASSUME TypeOK, IdsNamed, cpc = "body", head.req > 0
    PROVE  head.req = cur \/ head.req <= born \/ head.req + IdMax <= cur
<1> SUFFICES ASSUME ~(head.req <= born), ~(head.req + IdMax <= cur)
             PROVE  head.req = cur
  OBVIOUS
<1>1. head.req \in Nat /\ cur \in Nat /\ born \in Nat /\ nextId \in 1..IdMax
  BY DEF TypeOK, DownCell
<1>2. head.req <= cur /\ born < cur
  BY <1>1 DEF IdsNamed, Named
<1>3. GivenId(head.req) = GivenId(cur)
  BY <1>2 DEF IdsNamed, Named
<1> QED
  BY <1>1, <1>2, <1>3, IdMaxAssumption DEF GivenId

\* Whatever is in flight carries the id its request was given.
LEMMA IdsStayNamed == Spec => []IdsNamed
<1>1. Init => IdsNamed
  BY InitIdsNamed
<1>2. TypeOK /\ IdsNamed /\ [Next]_vars => IdsNamed'
  <2> SUFFICES ASSUME TypeOK, IdsNamed, [Next]_vars PROVE IdsNamed'
    OBVIOUS
  <2>1. CASE HostStep
    BY <2>1, HostIdsNamed
  <2>2. CASE BoardStep
    BY <2>2, BoardIdsNamed
  <2>3. CASE WireFault
    BY <2>3, WireIdsNamed
  <2>4. CASE UNCHANGED vars
    BY <2>4, NamedStep DEF IdsNamed, vars, hostVars, boardVars
  <2> QED
    BY <2>1, <2>2, <2>3, <2>4 DEF Next
<1> QED
  BY <1>1, <1>2, TypeCorrect, PTL DEF Spec

\* Whatever belongs to no request is text or a refusal without a payload.
LEMMA RestStaysUnasked == Spec => []RestUnasked
<1>1. Init => RestUnasked
  BY InitUnasked
<1>2. TypeOK /\ RestUnasked /\ [Next]_vars => RestUnasked'
  <2> SUFFICES ASSUME TypeOK, RestUnasked, [Next]_vars PROVE RestUnasked'
    OBVIOUS
  <2>1. CASE HostStep
    BY <2>1, HostUnasked
  <2>2. CASE BoardStep
    BY <2>2, BoardUnasked
  <2>3. CASE WireFault
    BY <2>3, WireUnasked
  <2>4. CASE UNCHANGED vars
    BY <2>4, UnaskedStep DEF RestUnasked, vars, hostVars, boardVars
  <2> QED
    BY <2>1, <2>2, <2>3, <2>4 DEF Next
<1> QED
  BY <1>1, <1>2, TypeCorrect, PTL DEF Spec

\* An accepted response, a refusal as well as an answer, is the current
\* request's, or an earlier process's, or at least IdMax requests old, or the
\* refusal of bytes that were no request: for any limits, bounds and faults.
THEOREM AnswersAreOwn == Spec => []OwnAnswer
<1>1. TypeOK /\ IdsNamed /\ RestUnasked => OwnAnswer
  <2> SUFFICES ASSUME TypeOK, IdsNamed, RestUnasked, cpc = "body", ~UnaskedRefusal(head)
               PROVE  \/ head.req = cur
                      \/ head.req \in 1..born
                      \/ head.req > 0 /\ head.req + IdMax <= cur
    BY DEF OwnAnswer
  <2>1. head.req \in Nat /\ born \in Nat /\ head.req > 0
    BY DEF TypeOK, DownCell, RestUnasked, AskedOrRefused
  <2> QED
    BY <2>1, IdsNameOwner
<1> QED
  BY <1>1, TypeCorrect, IdsStayNamed, RestStaysUnasked, PTL

-----------------------------------------------------------------------------
(* Buffers *)

\* No sequence of requests, timeouts, refusals, allocation failures and
\* resets makes the request loop leak or lose a buffer.
THEOREM BuffersBalanced == Spec => []HeapBalanced
<1>1. Init => HeapBalanced
  BY DEF Init, HeapBalanced
<1>2. HeapBalanced /\ [Next]_vars => HeapBalanced'
  <2> SUFFICES ASSUME HeapBalanced, [Next]_vars PROVE HeapBalanced'
    OBVIOUS
  <2>1. CASE HostStep
    <3>1. dpc' = dpc /\ heap' = heap
      BY <2>1 DEF HostStep, StartEval, WriteCell, Flush, WriteFails, SkipOutput,
         AcceptHeader, ReturnEmpty, BodyCorrupt, BodyUndecodable, AdoptBody,
         ReadTimeout, ClearSession, RestartHost, boardVars
    <3> QED
      BY <3>1 DEF HeapBalanced
  <2>2. CASE ReadHeader \/ RejectHeader
    BY <2>2 DEF ReadHeader, RejectHeader, HeapBalanced
  <2>3. CASE HeaderTimeout \/ ReadLine \/ ScriptPrints \/ ScriptReads \/ Discard
    <3>1. dpc' = dpc /\ heap' = heap
      BY <2>3 DEF HeaderTimeout, ReadLine, ScriptPrints, ScriptReads, Discard, boardVars
    <3> QED
      BY <3>1 DEF HeapBalanced
  <2>4. CASE ReadProgram
    BY <2>4 DEF ReadProgram, HeapBalanced
  <2>5. CASE PayloadTimeout \/ OutOfMemory
    BY <2>5 DEF PayloadTimeout, OutOfMemory, Release, HeapBalanced
  <2>6. CASE \/ CrcMismatch \/ RefusePayload \/ RunDone \/ RunUnencodable
             \/ DiscardQuiet \/ ResetBoard
    <3>1. dpc' = "loop" /\ heap' = {}
      BY <2>6 DEF CrcMismatch, RefusePayload, RunDone, RunUnencodable,
         DiscardQuiet, ResetBoard, ToLoop, Release
    <3> QED
      BY <3>1 DEF HeapBalanced
  <2>7. CASE StartRun
    BY <2>7 DEF StartRun, HeapBalanced
  <2>8. CASE WireFault \/ UNCHANGED vars
    <3>1. dpc' = dpc /\ heap' = heap
      BY <2>8 DEF WireFault, LoseUp, LoseDown, CorruptUp, CorruptDown, vars, boardVars
    <3> QED
      BY <3>1 DEF HeapBalanced
  <2> QED
    BY <2>1, <2>2, <2>3, <2>4, <2>5, <2>6, <2>7, <2>8 DEF Next, BoardStep
<1> QED
  BY <1>1, <1>2, PTL DEF Spec

-----------------------------------------------------------------------------
(* Runs *)

LEMMA InOrderTail ==
    ASSUME NEW s \in Seq(UpCell), s # <<>>, InOrder(s)
    PROVE  /\ InOrder(Tail(s))
           /\ Head(s).part = "state" =>
                 \A c \in ToSet(Tail(s)) : c.part = "state" => Head(s).req < c.req
<1>1. Len(s) \in Nat /\ Len(Tail(s)) = Len(s) - 1
  BY ReadStream
<1>2. \A i \in 1..Len(Tail(s)) : Tail(s)[i] = s[i + 1] /\ i + 1 \in 1..Len(s)
  BY <1>1, ReadStream
<1>3. Tail(s) \in Seq(UpCell) /\ Head(s) = s[1]
  BY ReadStream
<1> DEFINE t == Tail(s)
<1>4. DOMAIN t = 1..Len(t)
  BY <1>3, LenProperties
<1> HIDE DEF t
<1>5. ASSUME NEW j \in 1..Len(t), NEW i \in 1..(j - 1),
             t[i].part = "state", t[j].part = "state"
      PROVE  t[i].req < t[j].req
  <2>1. i \in 1..Len(t) /\ j + 1 \in 1..Len(s) /\ i + 1 \in 1..((j + 1) - 1)
    BY <1>1, <1>2 DEF t
  <2>2. t[i] = s[i + 1] /\ t[j] = s[j + 1]
    BY <1>2, <2>1 DEF t
  <2> QED
    BY <1>5, <2>1, <2>2 DEF InOrder
<1>6. InOrder(t)
  BY <1>5 DEF InOrder
<1>7. ASSUME NEW c \in ToSet(t), s[1].part = "state", c.part = "state"
      PROVE  s[1].req < c.req
  <2>1. PICK i \in 1..Len(t) : c = t[i]
    BY <1>4 DEF ToSet
  <2>2. c = s[i + 1] /\ i + 1 \in 1..Len(s) /\ 1 \in 1..((i + 1) - 1)
    BY <1>2, <2>1 DEF t
  <2> QED
    BY <1>7, <2>2 DEF InOrder
<1> QED
  BY <1>3, <1>6, <1>7 DEF t

LEMMA InOrderCut ==
    ASSUME NEW s \in Seq(UpCell), NEW k \in 0..Len(s), InOrder(s)
    PROVE  InOrder(SubSeq(s, k + 1, Len(s)))
<1> DEFINE t == SubSeq(s, k + 1, Len(s))
<1>1. /\ Len(t) = Len(s) - k
      /\ \A i \in 1..(Len(s) - k) : t[i] = s[i + k]
  BY CutStream
<1>2. Len(s) \in Nat /\ k \in Nat /\ k <= Len(s)
  OBVIOUS
<1> HIDE DEF t
<1>3. ASSUME NEW j \in 1..Len(t), NEW i \in 1..(j - 1),
             t[i].part = "state", t[j].part = "state"
      PROVE  t[i].req < t[j].req
  <2>1. /\ i \in 1..(Len(s) - k) /\ j \in 1..(Len(s) - k)
        /\ j + k \in 1..Len(s) /\ i + k \in 1..((j + k) - 1)
    BY <1>1, <1>2
  <2>2. t[i] = s[i + k] /\ t[j] = s[j + k]
    BY <1>1, <2>1
  <2> QED
    BY <1>3, <2>1, <2>2 DEF InOrder
<1> QED
  BY <1>3 DEF InOrder, t

LEMMA InOrderLose ==
    ASSUME NEW s \in Seq(UpCell), NEW k \in 1..Len(s), InOrder(s)
    PROVE  InOrder(RemoveAt(s, k))
<1> DEFINE t == RemoveAt(s, k)
<1>1. /\ Len(t) = Len(s) - 1
      /\ \A i \in 1..(Len(s) - 1) : t[i] = IF i < k THEN s[i] ELSE s[i + 1]
  BY LoseFromStream
<1>2. Len(s) \in Nat /\ k \in Nat
  OBVIOUS
<1> HIDE DEF t
<1>3. ASSUME NEW j \in 1..Len(t), NEW i \in 1..(j - 1),
             t[i].part = "state", t[j].part = "state"
      PROVE  t[i].req < t[j].req
  <2>1. i \in 1..(Len(s) - 1) /\ j \in 1..(Len(s) - 1) /\ i < j
    BY <1>1, <1>2
  <2>2. PICK x \in 1..Len(s), y \in 1..Len(s) : t[i] = s[x] /\ t[j] = s[y] /\ x \in 1..(y - 1)
    <3>1. CASE i < k /\ j < k
      <4>1. t[i] = s[i] /\ t[j] = s[j]
        BY <1>1, <2>1, <3>1
      <4>2. i \in 1..Len(s) /\ j \in 1..Len(s) /\ i \in 1..(j - 1)
        BY <1>2, <2>1
      <4> QED
        BY <4>1, <4>2
    <3>2. CASE i < k /\ ~(j < k)
      <4>1. t[i] = s[i] /\ t[j] = s[j + 1]
        BY <1>1, <2>1, <3>2
      <4>2. i \in 1..Len(s) /\ j + 1 \in 1..Len(s) /\ i \in 1..((j + 1) - 1)
        BY <1>2, <2>1
      <4> QED
        BY <4>1, <4>2
    <3>3. CASE ~(i < k)
      <4>1. t[i] = s[i + 1] /\ t[j] = s[j + 1]
        BY <1>1, <1>2, <2>1, <3>3
      <4>2. i + 1 \in 1..Len(s) /\ j + 1 \in 1..Len(s) /\ i + 1 \in 1..((j + 1) - 1)
        BY <1>2, <2>1
      <4> QED
        BY <4>1, <4>2
    <3> QED
      BY <3>1, <3>2, <3>3
  <2> QED
    BY <1>3, <2>2 DEF InOrder
<1> QED
  BY <1>3 DEF InOrder, t

\* A state that is later than all those before it may follow them.
LEMMA InOrderWrite ==
    ASSUME NEW s \in Seq(UpCell), NEW e \in UpCell, InOrder(s),
           e.part = "state" => \A c \in ToSet(s) : c.part = "state" => c.req < e.req
    PROVE  InOrder(Append(s, e))
<1> DEFINE t == Append(s, e)
<1>1. /\ Len(t) = Len(s) + 1
      /\ \A i \in 1..Len(s) : t[i] = s[i]
      /\ t[Len(s) + 1] = e
  BY WriteStream
<1>2. Len(s) \in Nat
  OBVIOUS
<1>3. \A i \in 1..Len(s) : s[i] \in ToSet(s)
  BY LenProperties DEF ToSet
<1> HIDE DEF t
<1>4. ASSUME NEW j \in 1..Len(t), NEW i \in 1..(j - 1),
             t[i].part = "state", t[j].part = "state"
      PROVE  t[i].req < t[j].req
  <2>1. i \in 1..Len(s) /\ t[i] = s[i]
    BY <1>1, <1>2
  <2>2. CASE j = Len(s) + 1
    BY <1>1, <1>3, <1>4, <2>1, <2>2
  <2>3. CASE j # Len(s) + 1
    <3>1. j \in 1..Len(s) /\ t[j] = s[j]
      BY <1>1, <1>2, <2>3
    <3> QED
      BY <1>4, <2>1, <3>1 DEF InOrder
  <2> QED
    BY <2>2, <2>3
<1> QED
  BY <1>4 DEF InOrder, t

LEMMA InOrderCorrupt ==
    ASSUME NEW s \in Seq(UpCell), NEW i \in 1..Len(s), InOrder(s)
    PROVE  LET t == [s EXCEPT ![i].ok = FALSE] IN
           /\ InOrder(t)
           /\ \A c \in ToSet(t) : \E d \in ToSet(s) : c.part = d.part /\ c.req = d.req
<1> DEFINE t == [s EXCEPT ![i].ok = FALSE]
<1>1. /\ Len(t) = Len(s)
      /\ t \in Seq(UpCell)
      /\ \A j \in 1..Len(s) : t[j] = IF j = i THEN [s[i] EXCEPT !.ok = FALSE] ELSE s[j]
  BY CorruptCell
<1> HIDE DEF t
<1>2. DOMAIN s = 1..Len(s) /\ DOMAIN t = 1..Len(s)
  BY <1>1, LenProperties
<1>3. ASSUME NEW j \in 1..Len(s)
      PROVE  t[j].part = s[j].part /\ t[j].req = s[j].req
  <2>1. s[i] \in UpCell
    BY ElementOfSeq
  <2>2. LET c == [s[i] EXCEPT !.ok = FALSE] IN c.part = s[i].part /\ c.req = s[i].req
    BY <2>1 DEF UpCell
  <2> QED
    BY <1>1, <2>2
<1>4. InOrder(t)
  <2>1. ASSUME NEW j \in 1..Len(t), NEW k \in 1..(j - 1),
               t[k].part = "state", t[j].part = "state"
        PROVE  t[k].req < t[j].req
    <3>1. j \in 1..Len(s) /\ k \in 1..Len(s)
      BY <1>1
    <3>2. s[k].part = "state" /\ s[j].part = "state" => s[k].req < s[j].req
      BY <3>1 DEF InOrder
    <3> QED
      BY <1>3, <2>1, <3>1, <3>2
  <2> QED
    BY <2>1 DEF InOrder
<1>5. \A c \in ToSet(t) : \E d \in ToSet(s) : c.part = d.part /\ c.req = d.req
  BY <1>2, <1>3 DEF ToSet
<1> QED
  BY <1>4, <1>5 DEF t

\* A step that runs nothing and writes nothing: states only leave the wire.
LEMMA OrderStep ==
    ASSUME TypeOK, StatesInOrder,
           UNCHANGED <<cur, executed>>,
           out' = out \/ out' = <<>>,
           InOrder(up'),
           \A c \in ToSet(up') : \E d \in ToSet(up) : c.part = d.part /\ c.req = d.req
    PROVE  StatesInOrder'
<1>1. InOrder(out') /\ ToSet(out') \subseteq ToSet(out)
  <2>1. InOrder(<<>>) /\ ToSet(<<>>) = {}
    BY DEF InOrder, ToSet
  <2> QED
    BY <2>1 DEF StatesInOrder
<1>2. \A c \in ToSet(up') : c.req <= cur
  BY DEF StatesInOrder
<1>3. \A c \in ToSet(out') :
         /\ c.req = cur
         /\ c.part = "state" => \A d \in ToSet(up') : d.part = "state" => d.req < cur
  BY <1>1 DEF StatesInOrder
<1>4. \A i \in DOMAIN executed :
         /\ executed[i].req <= cur
         /\ \A c \in ToSet(up') \union ToSet(out') :
               c.part = "state" => executed[i].req < c.req
  BY <1>1 DEF StatesInOrder
<1> QED
  BY <1>1, <1>2, <1>3, <1>4 DEF StatesInOrder

\* A step that leaves the request wire alone.
LEMMA OrderQuiet ==
    ASSUME TypeOK, StatesInOrder, UNCHANGED <<cur, executed, up>>,
           out' = out \/ out' = <<>>
    PROVE  StatesInOrder'
<1>1. InOrder(up') /\ ToSet(up') = ToSet(up)
  BY DEF StatesInOrder
<1> QED
  BY <1>1, OrderStep

\* A step that takes the head of the request wire.
LEMMA OrderRead ==
    ASSUME TypeOK, StatesInOrder, UNCHANGED <<cur, executed, out>>,
           up # <<>>, up' = Tail(up)
    PROVE  StatesInOrder'
<1>1. InOrder(up') /\ ToSet(up') \subseteq ToSet(up)
  BY InOrderTail, ReadStream DEF StatesInOrder, TypeOK
<1> QED
  BY <1>1, OrderStep

LEMMA HostOrder == TypeOK /\ StatesInOrder /\ HostStep => StatesInOrder'
<1> SUFFICES ASSUME TypeOK, StatesInOrder, HostStep PROVE StatesInOrder'
  OBVIOUS
<1>1. CASE StartEval
  <2> DEFINE f == RequestFrame(cur + 1, nextId, locals)
  <2>1. /\ cur' = cur + 1 /\ out' = f /\ up' = up /\ executed' = executed
        /\ cur \in Nat
    BY <1>1 DEF StartEval, boardVars, TypeOK
  <2>2. /\ InOrder(f)
        /\ \A c \in ToSet(f) : c.req = cur + 1
    BY DEF RequestFrame, ToBoard, InOrder, ToSet
  <2> HIDE DEF f
  <2>3. \A c \in ToSet(up) : c.req <= cur /\ c.req \in Nat
    <3>1. \A c \in ToSet(up) : c \in UpCell
      BY ElementOfSeq, LenProperties DEF TypeOK, ToSet
    <3> QED
      BY <3>1 DEF StatesInOrder, UpCell
  <2>4. \A i \in DOMAIN executed : executed[i].req <= cur /\ executed[i].req \in Nat
    <3>1. \A i \in DOMAIN executed : executed[i].req <= cur
      BY DEF StatesInOrder
    <3>2. \A i \in DOMAIN executed : executed[i] \in [req : Nat, prog : Nat, state : Nat]
      <4> DEFINE R == [req : Nat, prog : Nat, state : Nat]
      <4>1. executed \in Seq(R)
        BY DEF TypeOK
      <4> HIDE DEF R
      <4>2. \A i \in DOMAIN executed : executed[i] \in R
        BY <4>1
      <4> QED
        BY <4>2 DEF R
    <3> QED
      BY <3>1, <3>2
  <2>5. \A c \in ToSet(up') : c.req <= cur' /\ c.req < cur'
    BY <2>1, <2>3
  <2>6. \A i \in DOMAIN executed' : executed'[i].req <= cur' /\ executed'[i].req < cur'
    BY <2>1, <2>4
  <2>7. \A i \in DOMAIN executed' : \A c \in ToSet(up') :
           c.part = "state" => executed'[i].req < c.req
    BY <2>1 DEF StatesInOrder
  <2>8. \A c \in ToSet(out') : c.req = cur'
    BY <2>1, <2>2
  <2>9. InOrder(up') /\ InOrder(out')
    BY <2>1, <2>2 DEF StatesInOrder
  <2> QED
    BY <2>5, <2>6, <2>7, <2>8, <2>9 DEF StatesInOrder
<1>2. CASE WriteCell
  <2>1. /\ out # <<>> /\ out \in Seq(UpCell) /\ up \in Seq(UpCell)
        /\ up' = Append(up, Head(out)) /\ out' = Tail(out)
        /\ cur' = cur /\ executed' = executed /\ cur \in Nat
    BY <1>2 DEF WriteCell, boardVars, TypeOK
  <2>2. /\ Head(out) \in UpCell /\ Head(out) \in ToSet(out)
        /\ ToSet(Tail(out)) \subseteq ToSet(out)
    BY <2>1, ReadStream
  <2>3. ToSet(up') = ToSet(up) \union {Head(out)}
    BY <2>1, <2>2, WriteStream
  <2>4. Head(out).req = cur
    BY <2>2 DEF StatesInOrder
  <2>5. Head(out).part = "state" =>
           /\ \A d \in ToSet(up) : d.part = "state" => d.req < cur
           /\ \A c \in ToSet(out') : c.part # "state"
    <3>1. \A c \in ToSet(out') : c.req = cur
      BY <2>1, <2>2 DEF StatesInOrder
    <3>2. Head(out).part = "state" =>
             \A c \in ToSet(out') : c.part = "state" => Head(out).req < c.req
      BY <2>1, InOrderTail DEF StatesInOrder
    <3> QED
      BY <2>1, <2>2, <2>4, <3>1, <3>2 DEF StatesInOrder
  <2>6. InOrder(up')
    BY <2>1, <2>2, <2>4, <2>5, InOrderWrite DEF StatesInOrder
  <2>7. InOrder(out')
    BY <2>1, InOrderTail DEF StatesInOrder
  <2>8. \A c \in ToSet(up') : c.req <= cur'
    BY <2>1, <2>3, <2>4 DEF StatesInOrder
  <2>9. \A c \in ToSet(out') :
           /\ c.req = cur'
           /\ c.part = "state" => \A d \in ToSet(up') : d.part = "state" => d.req < cur'
    BY <2>1, <2>2, <2>3, <2>5 DEF StatesInOrder
  <2>10. \A i \in DOMAIN executed' :
           /\ executed'[i].req <= cur'
           /\ \A c \in ToSet(up') \union ToSet(out') :
                 c.part = "state" => executed'[i].req < c.req
    BY <2>1, <2>2, <2>3 DEF StatesInOrder
  <2> QED
    BY <2>6, <2>7, <2>8, <2>9, <2>10 DEF StatesInOrder
<1>3. CASE Flush \/ AcceptHeader \/ ClearSession
  <2>1. UNCHANGED <<cur, executed, up, out>>
    BY <1>3 DEF Flush, AcceptHeader, ClearSession, boardVars
  <2> QED
    BY <2>1, OrderQuiet
<1>4. CASE \/ WriteFails \/ SkipOutput \/ ReturnEmpty \/ BodyCorrupt
           \/ BodyUndecodable \/ AdoptBody \/ ReadTimeout \/ RestartHost
  <2>1. UNCHANGED <<cur, executed, up>> /\ (out' = out \/ out' = <<>>)
    BY <1>4 DEF WriteFails, SkipOutput, ReturnEmpty, BodyCorrupt, BodyUndecodable,
       AdoptBody, ReadTimeout, RestartHost, Finish, boardVars
  <2> QED
    BY <2>1, OrderQuiet
<1> QED
  BY <1>1, <1>2, <1>3, <1>4 DEF HostStep

LEMMA BoardOrder == TypeOK /\ StatesInOrder /\ BoardStep => StatesInOrder'
<1> SUFFICES ASSUME TypeOK, StatesInOrder, BoardStep PROVE StatesInOrder'
  OBVIOUS
<1>1. CASE ReadHeader
  <2>1. /\ up # <<>> /\ Len(up) >= 2 /\ up' = Tail(Tail(up)) /\ up \in Seq(UpCell)
        /\ UNCHANGED <<cur, executed, out>>
    BY <1>1 DEF ReadHeader, FrameReady, hostVars, TypeOK
  <2>2. Tail(up) \in Seq(UpCell) /\ InOrder(Tail(up)) /\ Len(Tail(up)) = Len(up) - 1
    BY <2>1, InOrderTail, ReadStream DEF StatesInOrder
  <2>3. Tail(up) # <<>>
    <3>1. Len(Tail(up)) >= 1
      BY <2>1, <2>2
    <3> QED
      BY <2>2, <3>1, NotEmpty
  <2>4. InOrder(up')
    BY <2>1, <2>2, <2>3, InOrderTail
  <2>5. ToSet(up') \subseteq ToSet(up)
    BY <2>1, ReadTwo
  <2> QED
    BY <2>1, <2>4, <2>5, OrderStep
<1>2. CASE \/ RejectHeader \/ ReadProgram \/ CrcMismatch \/ RefusePayload
           \/ ScriptReads \/ Discard
  <2>1. up # <<>> /\ up' = Tail(up) /\ UNCHANGED <<cur, executed, out>>
    BY <1>2 DEF RejectHeader, ReadProgram, CrcMismatch, RefusePayload,
       ScriptReads, Discard, hostVars, boardVars
  <2> QED
    BY <2>1, OrderRead
<1>3. CASE HeaderTimeout
  <2>1. up' = <<>> /\ UNCHANGED <<cur, executed, out>>
    BY <1>3 DEF HeaderTimeout, hostVars, boardVars
  <2>2. InOrder(<<>>) /\ ToSet(<<>>) = {}
    BY DEF InOrder, ToSet
  <2> QED
    BY <2>1, <2>2, OrderStep
<1>4. CASE ReadLine \/ ResetBoard
  <2>1. PICK k \in 0..Len(up) : up' = SubSeq(up, k + 1, Len(up))
    BY <1>4 DEF ReadLine, ResetBoard, TypeOK
  <2>2. UNCHANGED <<cur, executed, out>>
    BY <1>4 DEF ReadLine, ResetBoard, hostVars, boardVars
  <2>3. InOrder(up') /\ ToSet(up') \subseteq ToSet(up)
    BY <2>1, InOrderCut, CutStream DEF StatesInOrder, TypeOK
  <2> QED
    BY <2>2, <2>3, OrderStep
<1>5. CASE \/ PayloadTimeout \/ OutOfMemory \/ ScriptPrints
           \/ RunDone \/ RunUnencodable \/ DiscardQuiet
  <2>1. UNCHANGED <<cur, executed, up, out>>
    BY <1>5 DEF PayloadTimeout, OutOfMemory, ScriptPrints, RunDone,
       RunUnencodable, DiscardQuiet, hostVars, boardVars
  <2> QED
    BY <2>1, OrderQuiet
<1>6. CASE StartRun
  \* The state that is taken is later than all runs and before all other
  \* states on the wire.
  <2> DEFINE e == [req |-> frame.req, prog |-> prog.req, state |-> Head(up).req]
             R == [req : Nat, prog : Nat, state : Nat]
  <2>1. /\ up # <<>> /\ up \in Seq(UpCell) /\ up' = Tail(up)
        /\ cur' = cur /\ out' = out /\ executed \in Seq(R)
        /\ executed' = Append(executed, e)
        /\ Head(up).part = "state" /\ Head(up).req = frame.req
    BY <1>6 DEF StartRun, RequestIntact, hostVars, TypeOK
  <2>2. Head(up) \in UpCell /\ Head(up) \in ToSet(up) /\ ToSet(up') \subseteq ToSet(up)
    BY <2>1, ReadStream
  <2>3. /\ InOrder(up')
        /\ \A c \in ToSet(up') : c.part = "state" => Head(up).req < c.req
    BY <2>1, InOrderTail DEF StatesInOrder
  <2>4. e.req = Head(up).req /\ e.req <= cur
    BY <2>1, <2>2 DEF StatesInOrder
  <2>5. e \in R
    BY <2>1 DEF TypeOK, UpCell, StartRun
  <2>6. \A c \in ToSet(out) : c.part = "state" => e.req < c.req
    BY <2>1, <2>2, <2>4 DEF StatesInOrder
  <2> HIDE DEF e, R
  <2>7. /\ DOMAIN executed = 1..Len(executed) /\ Len(executed) \in Nat
        /\ DOMAIN executed' = 1..(Len(executed) + 1)
        /\ \A i \in 1..Len(executed) : executed'[i] = executed[i]
        /\ executed'[Len(executed) + 1] = e
    <3>1. /\ Append(executed, e) \in Seq(R)
          /\ Len(Append(executed, e)) = Len(executed) + 1
      BY <2>1, <2>5, WriteStream
    <3> QED
      BY <2>1, <2>5, <3>1, WriteStream, LenProperties
  <2>8. ASSUME NEW i \in DOMAIN executed'
        PROVE  /\ executed'[i].req <= cur
               /\ \A c \in ToSet(up') \union ToSet(out) :
                     c.part = "state" => executed'[i].req < c.req
    <3>1. CASE i \in DOMAIN executed
      BY <2>2, <2>7, <3>1 DEF StatesInOrder
    <3>2. CASE i = Len(executed) + 1
      BY <2>3, <2>4, <2>6, <2>7, <3>2
    <3> QED
      BY <2>7, <3>1, <3>2
  <2>9. /\ InOrder(out')
        /\ \A c \in ToSet(up') : c.req <= cur'
        /\ \A c \in ToSet(out') :
              /\ c.req = cur'
              /\ c.part = "state" => \A d \in ToSet(up') : d.part = "state" => d.req < cur'
    BY <2>1, <2>2 DEF StatesInOrder
  <2> QED
    BY <2>1, <2>3, <2>8, <2>9 DEF StatesInOrder
<1> QED
  BY <1>1, <1>2, <1>3, <1>4, <1>5, <1>6 DEF BoardStep

LEMMA WireOrder == TypeOK /\ StatesInOrder /\ WireFault => StatesInOrder'
<1> SUFFICES ASSUME TypeOK, StatesInOrder, WireFault PROVE StatesInOrder'
  OBVIOUS
<1>1. CASE LoseUp
  <2>1. InOrder(up') /\ ToSet(up') \subseteq ToSet(up)
    BY <1>1, InOrderLose, LoseFromStream DEF LoseUp, StatesInOrder, TypeOK
  <2> QED
    BY <1>1, <2>1, OrderStep DEF LoseUp, hostVars, boardVars
<1>2. CASE LoseDown \/ CorruptDown
  BY <1>2, OrderQuiet DEF LoseDown, CorruptDown, hostVars, boardVars
<1>3. CASE CorruptUp
  <2>1. PICK i \in 1..Len(up) : up' = [up EXCEPT ![i].ok = FALSE]
    BY <1>3 DEF CorruptUp
  <2>2. /\ InOrder(up')
        /\ \A c \in ToSet(up') : \E d \in ToSet(up) : c.part = d.part /\ c.req = d.req
    BY <2>1, InOrderCorrupt DEF StatesInOrder, TypeOK
  <2> QED
    BY <1>3, <2>2, OrderStep DEF CorruptUp, hostVars, boardVars
<1> QED
  BY <1>1, <1>2, <1>3 DEF WireFault

LEMMA RunStep ==
    TypeOK /\ StatesInOrder /\ RunsOnceInOrder /\ [Next]_vars => RunsOnceInOrder'
<1> SUFFICES ASSUME TypeOK, StatesInOrder, RunsOnceInOrder, [Next]_vars
             PROVE  RunsOnceInOrder'
  OBVIOUS
<1>1. CASE StartRun
  <2> DEFINE e == [req |-> frame.req, prog |-> prog.req, state |-> Head(up).req]
             R == [req : Nat, prog : Nat, state : Nat]
  <2>1. /\ up # <<>> /\ up \in Seq(UpCell) /\ executed \in Seq(R)
        /\ executed' = Append(executed, e)
        /\ Head(up).part = "state" /\ Head(up).req = frame.req
        /\ prog.req = frame.req
    BY <1>1 DEF StartRun, RequestIntact, TypeOK
  <2>2. Head(up) \in ToSet(up)
    BY <2>1, ReadStream
  <2>3. e.prog = e.req /\ e.state = e.req /\ \A i \in DOMAIN executed : executed[i].req < e.req
    BY <2>1, <2>2 DEF StatesInOrder
  <2>4. e \in R
    <3>1. Head(up) \in UpCell
      BY <2>1, ReadStream
    <3> QED
      BY <3>1 DEF TypeOK, UpCell
  <2> HIDE DEF e, R
  <2>5. /\ DOMAIN executed = 1..Len(executed) /\ Len(executed) \in Nat
        /\ DOMAIN executed' = 1..(Len(executed) + 1)
        /\ \A i \in 1..Len(executed) : executed'[i] = executed[i]
        /\ executed'[Len(executed) + 1] = e
    <3>1. /\ Append(executed, e) \in Seq(R)
          /\ Len(Append(executed, e)) = Len(executed) + 1
      BY <2>1, <2>4, WriteStream
    <3> QED
      BY <2>1, <2>4, <3>1, WriteStream, LenProperties
  <2>6. ASSUME NEW i \in DOMAIN executed'
        PROVE  /\ executed'[i].prog = executed'[i].req
               /\ executed'[i].state = executed'[i].req
               /\ \A j \in 1..(i - 1) : executed'[j].req < executed'[i].req
    <3>1. CASE i \in DOMAIN executed
      <4>1. \A j \in 1..(i - 1) : j \in 1..Len(executed)
        BY <2>5, <3>1
      <4> QED
        BY <2>5, <3>1, <4>1 DEF RunsOnceInOrder
    <3>2. CASE i = Len(executed) + 1
      <4>1. \A j \in 1..(i - 1) : j \in 1..Len(executed)
        BY <2>5, <3>2
      <4> QED
        BY <2>3, <2>5, <3>2, <4>1
    <3> QED
      BY <2>5, <3>1, <3>2
  <2> QED
    BY <2>6 DEF RunsOnceInOrder
<1>2. CASE ~StartRun
  <2>1. executed' = executed
    BY <1>2 DEF Next, HostStep, StartEval, WriteCell, Flush, WriteFails, SkipOutput,
       AcceptHeader, ReturnEmpty, BodyCorrupt, BodyUndecodable, AdoptBody,
       ReadTimeout, ClearSession, RestartHost, BoardStep, ReadHeader, RejectHeader,
       HeaderTimeout, ReadLine, ReadProgram, PayloadTimeout, OutOfMemory,
       CrcMismatch, RefusePayload, ScriptPrints, ScriptReads, RunDone,
       RunUnencodable, Discard, DiscardQuiet, ResetBoard, WireFault, LoseUp,
       LoseDown, CorruptUp, CorruptDown, vars, boardVars
  <2> QED
    BY <2>1 DEF RunsOnceInOrder
<1> QED
  BY <1>1, <1>2

\* The states in flight are in the order of their requests, and later than
\* what has run.
LEMMA StatesStayInOrder == Spec => []StatesInOrder
<1>1. Init => StatesInOrder
  BY DEF Init, StatesInOrder, InOrder, ToSet
<1>2. TypeOK /\ StatesInOrder /\ [Next]_vars => StatesInOrder'
  <2> SUFFICES ASSUME TypeOK, StatesInOrder, [Next]_vars PROVE StatesInOrder'
    OBVIOUS
  <2>1. CASE HostStep
    BY <2>1, HostOrder
  <2>2. CASE BoardStep
    BY <2>2, BoardOrder
  <2>3. CASE WireFault
    BY <2>3, WireOrder
  <2>4. CASE UNCHANGED vars
    BY <2>4, OrderQuiet DEF vars, hostVars, boardVars
  <2> QED
    BY <2>1, <2>2, <2>3, <2>4 DEF Next
<1> QED
  BY <1>1, <1>2, TypeCorrect, PTL DEF Spec

\* The board runs each request at most once, in the order they were made, and
\* never one request's program on another's state.
THEOREM RunsAreOwn == Spec => []RunsOnceInOrder
<1>1. Init => RunsOnceInOrder
  BY DEF Init, RunsOnceInOrder
<1>2. TypeOK /\ StatesInOrder /\ RunsOnceInOrder /\ [Next]_vars => RunsOnceInOrder'
  BY RunStep
<1> QED
  BY <1>1, <1>2, TypeCorrect, StatesStayInOrder, PTL DEF Spec

-----------------------------------------------------------------------------
(* What is in flight for the current request belongs to the session's        *)
(* locals.                                                                   *)

LEMMA InitEffects == Init => EffectsInFlight
<1> SUFFICES ASSUME Init PROVE EffectsInFlight
  OBVIOUS
<1>1. ToSet(out) = {} /\ ToSet(up) = {} /\ ToSet(down) = {}
  BY DEF Init, ToSet
<1>2. OutcomeOfRun(head)
  BY DEF Init, NoHead, OutcomeOfRun, Text, ToHost
<1> QED
  BY <1>1, <1>2 DEF Init, EffectsInFlight

\* A step that begins no call of eval.
LEMMA EffectsStep ==
    ASSUME cur' = cur,
           cpc' # "idle" => cpc # "idle" /\ locals' = locals,
           \A n : HasRun(n) => HasRun(n)',
           \A c \in ToSet(out') \union ToSet(up') : StateOfSession(c),
           \A c \in ToSet(down') \union {head'} : OutcomeOfRun(c),
           dpc' = "run" => /\ frame'.req > 0
                           /\ \E i \in DOMAIN executed' : executed'[i].req = frame'.req
                           /\ Pending(frame'.req) => frame'.locals = locals
    PROVE  EffectsInFlight'
<1>1. \A n : Pending(n)' => Pending(n) /\ locals' = locals
  BY DEF Pending
<1>2. \A c \in ToSet(out') \union ToSet(up') : StateOfSession(c)'
  BY <1>1 DEF StateOfSession
<1>3. \A c \in ToSet(down') \union {head'} : OutcomeOfRun(c)'
  BY <1>1 DEF OutcomeOfRun
<1>4. dpc' = "run" => /\ frame'.req > 0
                      /\ HasRun(frame.req)'
                      /\ Pending(frame.req)' => frame'.locals = locals'
  BY DEF HasRun, Pending
<1> QED
  BY <1>2, <1>3, <1>4 DEF EffectsInFlight

\* A step of the host, or of a wire: the board goes on as it was.
LEMMA EffectsHost ==
    ASSUME EffectsInFlight,
           UNCHANGED <<cur, executed, dpc, frame>>,
           cpc' # "idle" => cpc # "idle" /\ locals' = locals,
           \A c \in ToSet(out') \union ToSet(up') : StateOfSession(c),
           \A c \in ToSet(down') \union {head'} : OutcomeOfRun(c)
    PROVE  EffectsInFlight'
<1>1. \A n : HasRun(n) => HasRun(n)'
  BY DEF HasRun
<1>2. dpc' = "run" => /\ frame'.req > 0
                      /\ \E i \in DOMAIN executed' : executed'[i].req = frame'.req
                      /\ Pending(frame'.req) => frame'.locals = locals
  BY DEF EffectsInFlight, HasRun
<1> QED
  BY <1>1, <1>2, EffectsStep

\* A step of the board that runs nothing.
LEMMA EffectsBoard ==
    ASSUME EffectsInFlight, UNCHANGED <<hostVars, executed>>,
           \A c \in ToSet(up') : StateOfSession(c),
           \A c \in ToSet(down') : OutcomeOfRun(c),
           dpc' = "run" => dpc = "run" /\ frame' = frame
    PROVE  EffectsInFlight'
<1>1. \A n : HasRun(n) => HasRun(n)'
  BY DEF HasRun
<1>2. dpc' = "run" => /\ frame'.req > 0
                      /\ \E i \in DOMAIN executed' : executed'[i].req = frame'.req
                      /\ Pending(frame'.req) => frame'.locals = locals
  BY DEF EffectsInFlight, HasRun
<1>3. \A c \in ToSet(out') \union ToSet(up') : StateOfSession(c)
  BY DEF EffectsInFlight, hostVars
<1>4. \A c \in ToSet(down') \union {head'} : OutcomeOfRun(c)
  BY DEF EffectsInFlight, hostVars
<1>5. cpc' # "idle" => cpc # "idle" /\ locals' = locals
  BY DEF hostVars
<1> QED
  BY <1>1, <1>2, <1>3, <1>4, <1>5, EffectsStep DEF hostVars

\* A call of eval that returns.
LEMMA EffectsFinish ==
    ASSUME TypeOK, EffectsInFlight, NEW r, Finish(r),
           UNCHANGED <<cur, up, dpc, frame, executed>>,
           ToSet(down') \subseteq ToSet(down)
    PROVE  EffectsInFlight'
<1>1. ToSet(out') = {} /\ cpc' = "idle" /\ OutcomeOfRun(head')
  BY DEF Finish, NoHead, ToSet, OutcomeOfRun, Text, ToHost
<1>2. \A c \in ToSet(out') \union ToSet(up') : StateOfSession(c)
  BY <1>1 DEF EffectsInFlight
<1>3. \A c \in ToSet(down') \union {head'} : OutcomeOfRun(c)
  BY <1>1 DEF EffectsInFlight
<1> QED
  BY <1>1, <1>2, <1>3, EffectsHost

LEMMA HostEffects ==
    TypeOK /\ IdsNamed /\ StatesInOrder /\ EffectsInFlight /\ HostStep => EffectsInFlight'
<1> SUFFICES ASSUME TypeOK, IdsNamed, StatesInOrder, EffectsInFlight, HostStep
             PROVE  EffectsInFlight'
  OBVIOUS
<1>0. /\ \A c \in ToSet(out) \union ToSet(up) : StateOfSession(c)
      /\ \A c \in ToSet(down) \union {head} : OutcomeOfRun(c)
  BY DEF EffectsInFlight
<1>r. down # <<>> => /\ Head(down) \in ToSet(down)
                     /\ ToSet(Tail(down)) \subseteq ToSet(down)
  BY ReadStream DEF TypeOK
<1>1. CASE StartEval
  \* Nothing in flight is of the new request but its own state.
  <2> DEFINE f == RequestFrame(cur + 1, nextId, locals)
  <2>1. /\ cur' = cur + 1 /\ out' = f /\ locals' = locals
        /\ up' = up /\ down' = down /\ head' = head
        /\ dpc' = dpc /\ frame' = frame /\ executed' = executed
        /\ cur \in Nat
    BY <1>1 DEF StartEval, boardVars, TypeOK
  <2>2. \A c \in ToSet(f) : c.req = cur + 1 /\ (c.part = "state" => c.locals = locals)
    BY DEF RequestFrame, ToBoard, ToSet
  <2> HIDE DEF f
  <2>3. /\ \A c \in ToSet(up) : c.req \in Nat
        /\ \A c \in ToSet(down) \union {head} : c.req \in Nat
        /\ frame.req \in Nat
    <3>1. /\ \A c \in ToSet(up) : c \in UpCell
          /\ \A c \in ToSet(down) \union {head} : c \in DownCell
          /\ frame \in UpCell
      BY ElementOfSeq, LenProperties DEF TypeOK, ToSet
    <3> QED
      BY <3>1 DEF UpCell, DownCell
  <2>4. /\ \A c \in ToSet(up) \union ToSet(down) : c.req <= cur
        /\ head.req <= cur /\ frame.req <= cur
    BY DEF IdsNamed, Named
  <2>5. \A n \in Nat : n <= cur => ~ Pending(n)'
    BY <2>1 DEF Pending
  <2>6. \A n : HasRun(n) => HasRun(n)'
    BY <2>1 DEF HasRun
  <2>7. \A c \in ToSet(up') : StateOfSession(c)'
    BY <1>0, <2>1, <2>3, <2>4, <2>5 DEF StateOfSession
  <2>8. \A c \in ToSet(out') : StateOfSession(c)'
    BY <2>1, <2>2 DEF StateOfSession
  <2>9. \A c \in ToSet(down') \union {head'} : OutcomeOfRun(c)'
    BY <1>0, <2>1, <2>3, <2>4, <2>5, <2>6 DEF OutcomeOfRun
  <2>10. dpc' = "run" => /\ frame'.req > 0
                         /\ HasRun(frame.req)'
                         /\ Pending(frame.req)' => frame'.locals = locals'
    BY <2>1, <2>3, <2>4, <2>5 DEF EffectsInFlight, HasRun, Pending
  <2> QED
    BY <2>7, <2>8, <2>9, <2>10 DEF EffectsInFlight
<1>2. CASE WriteCell
  <2>1. /\ out # <<>> /\ out \in Seq(UpCell) /\ up \in Seq(UpCell)
        /\ up' = Append(up, Head(out)) /\ out' = Tail(out)
    BY <1>2 DEF WriteCell, TypeOK
  <2>2. /\ Head(out) \in UpCell /\ Head(out) \in ToSet(out)
        /\ ToSet(out') \subseteq ToSet(out)
    BY <2>1, ReadStream
  <2>3. ToSet(up') = ToSet(up) \union {Head(out)}
    BY <2>1, <2>2, WriteStream
  <2> QED
    BY <1>0, <1>2, <2>2, <2>3, EffectsHost DEF WriteCell, boardVars
<1>3. CASE Flush
  BY <1>0, <1>3, EffectsHost DEF Flush, boardVars
<1>4. CASE WriteFails
  BY <1>4, EffectsFinish DEF WriteFails, boardVars
<1>5. CASE SkipOutput
  <2>1. ToSet(down') \subseteq ToSet(down)
    BY <1>5, <1>r DEF SkipOutput
  <2>2. CASE prelude >= PreludeLimit
    BY <1>5, <2>1, <2>2, EffectsFinish DEF SkipOutput, boardVars
  <2>3. CASE ~(prelude >= PreludeLimit)
    BY <1>0, <1>5, <2>1, <2>3, EffectsHost DEF SkipOutput, boardVars
  <2> QED
    BY <2>2, <2>3
<1>6. CASE AcceptHeader
  <2>1. head' \in ToSet(down) /\ ToSet(down') \subseteq ToSet(down)
    BY <1>6, <1>r DEF AcceptHeader
  <2> QED
    BY <1>0, <1>6, <2>1, EffectsHost DEF AcceptHeader, boardVars
<1>7. CASE ReturnEmpty
  BY <1>7, EffectsFinish DEF ReturnEmpty, boardVars
<1>8. CASE BodyCorrupt
  BY <1>8, <1>r, EffectsFinish DEF BodyCorrupt, boardVars
<1>9. CASE BodyUndecodable
  BY <1>9, <1>r, EffectsFinish DEF BodyUndecodable, boardVars
<1>10. CASE AdoptBody
  BY <1>10, <1>r, EffectsFinish DEF AdoptBody, boardVars
<1>11. CASE ReadTimeout
  BY <1>11, EffectsFinish DEF ReadTimeout, boardVars
<1>12. CASE ClearSession
  BY <1>0, <1>12, EffectsHost DEF ClearSession, boardVars
<1>13. CASE RestartHost
  <2>1. ToSet(down') \subseteq ToSet(down)
    BY <1>13 DEF RestartHost, ToSet
  <2> QED
    BY <1>13, <2>1, EffectsFinish DEF RestartHost, boardVars
<1> QED
  BY <1>1, <1>2, <1>3, <1>4, <1>5, <1>6, <1>7, <1>8, <1>9, <1>10, <1>11,
     <1>12, <1>13 DEF HostStep

LEMMA BoardEffects ==
    TypeOK /\ StatesInOrder /\ EffectsInFlight /\ BoardStep => EffectsInFlight'
<1> SUFFICES ASSUME TypeOK, StatesInOrder, EffectsInFlight, BoardStep
             PROVE  EffectsInFlight'
  OBVIOUS
<1>0. /\ \A c \in ToSet(out) \union ToSet(up) : StateOfSession(c)
      /\ \A c \in ToSet(down) \union {head} : OutcomeOfRun(c)
  BY DEF EffectsInFlight
<1>u. up # <<>> => ToSet(Tail(up)) \subseteq ToSet(up)
  BY ReadStream DEF TypeOK
<1>x. Text \in DownCell /\ OutcomeOfRun(Text)
  BY IdMaxAssumption DEF Text, ToHost, DownCell, Statuses, OutcomeOfRun
<1>t. \A c \in ToSet(Append(down, Text)) : OutcomeOfRun(c)
  <2>1. ToSet(Append(down, Text)) = ToSet(down) \union {Text}
    BY <1>x, WriteStream DEF TypeOK
  <2> QED
    BY <1>0, <1>x, <2>1
<1>s. ASSUME NEW s \in Statuses, NEW r \in BOOLEAN
      PROVE  \A c \in ToSet(down \o Refusal(frame.req, frame.id, s, r)) : OutcomeOfRun(c)
  <2> DEFINE h == ToHost("head", frame.req, frame.id, s, r, FALSE, <<>>)
  <2>1. h \in DownCell
    BY IdMaxAssumption DEF TypeOK, UpCell, ToHost, DownCell
  <2>2. Refusal(frame.req, frame.id, s, r) = <<h>>
    BY DEF Refusal
  <2>3. OutcomeOfRun(h)
    BY DEF OutcomeOfRun, ToHost
  <2> HIDE DEF h
  <2>4. <<h>> \in Seq(DownCell) /\ ToSet(<<h>>) = {h}
    BY <2>1, Singleton
  <2>5. ToSet(down \o <<h>>) \subseteq ToSet(down) \union {h}
    BY <2>4, WriteAll DEF TypeOK
  <2> QED
    BY <1>0, <2>2, <2>3, <2>5
<1>1. CASE ReadHeader
  <2>1. ToSet(up') \subseteq ToSet(up)
    BY <1>1, ReadTwo DEF ReadHeader, FrameReady, TypeOK
  <2> QED
    BY <1>0, <1>1, <2>1, EffectsBoard DEF ReadHeader
<1>2. CASE RejectHeader
  BY <1>0, <1>2, <1>u, EffectsBoard DEF RejectHeader
<1>3. CASE HeaderTimeout
  <2>1. ToSet(up') = {}
    BY <1>3 DEF HeaderTimeout, ToSet
  <2> QED
    BY <1>0, <1>3, <2>1, EffectsBoard DEF HeaderTimeout, boardVars
<1>4. CASE ReadLine
  <2>1. ToSet(up') \subseteq ToSet(up)
    <3>1. PICK k \in 0..Len(up) : up' = SubSeq(up, k + 1, Len(up))
      BY <1>4 DEF ReadLine, TypeOK
    <3> QED
      BY <3>1, CutStream DEF TypeOK
  <2>2. \A c \in ToSet(down') : OutcomeOfRun(c)
    <3>1. <<>> \in Seq(DownCell) /\ ToSet(<<>>) = {}
      BY DEF ToSet
    <3>2. <<Text>> \in Seq(DownCell) /\ ToSet(<<Text>>) = {Text}
      BY <1>x, Singleton
    <3>3. PICK t \in {<<>>, <<Text>>} : down' = down \o t
      BY <1>4 DEF ReadLine
    <3>4. ToSet(down \o t) \subseteq ToSet(down) \union ToSet(t)
      BY <3>1, <3>2, <3>3, WriteAll DEF TypeOK
    <3> QED
      BY <1>0, <1>x, <3>1, <3>2, <3>3, <3>4
  <2> QED
    BY <1>0, <1>4, <2>1, <2>2, EffectsBoard DEF ReadLine, boardVars
<1>5. CASE ReadProgram
  BY <1>0, <1>5, <1>u, EffectsBoard DEF ReadProgram
<1>6. CASE PayloadTimeout
  BY <1>0, <1>6, <1>t, EffectsBoard DEF PayloadTimeout
<1>7. CASE OutOfMemory
  BY <1>0, <1>7, EffectsBoard DEF OutOfMemory
<1>8. CASE CrcMismatch
  <2>1. \A c \in ToSet(down') : OutcomeOfRun(c)
    BY <1>8, <1>s DEF CrcMismatch, Statuses
  <2> QED
    BY <1>0, <1>8, <1>u, <2>1, EffectsBoard DEF CrcMismatch, ToLoop
<1>9. CASE RefusePayload
  <2>1. \A c \in ToSet(down') : OutcomeOfRun(c)
    BY <1>9, <1>s DEF RefusePayload, Statuses
  <2> QED
    BY <1>0, <1>9, <1>u, <2>1, EffectsBoard DEF RefusePayload, ToLoop
<1>10. CASE StartRun
  \* The state taken is the session's, if the run is for the current request.
  <2> DEFINE e == [req |-> frame.req, prog |-> prog.req, state |-> Head(up).req]
             R == [req : Nat, prog : Nat, state : Nat]
  <2>1. /\ up # <<>> /\ up \in Seq(UpCell) /\ up' = Tail(up)
        /\ executed \in Seq(R) /\ executed' = Append(executed, e)
        /\ frame' = [frame EXCEPT !.locals = Head(up).locals]
        /\ Head(up).part = "state" /\ Head(up).req = frame.req
        /\ UNCHANGED <<hostVars, down>>
    BY <1>10 DEF StartRun, RequestIntact, TypeOK
  <2>2. Head(up) \in UpCell /\ Head(up) \in ToSet(up) /\ ToSet(up') \subseteq ToSet(up)
    BY <2>1, ReadStream
  <2>3. frame'.req = frame.req /\ frame'.locals = Head(up).locals
    BY <2>1 DEF TypeOK, UpCell
  <2>4. frame'.req > 0 /\ (Pending(frame'.req) => frame'.locals = locals)
    BY <1>0, <2>1, <2>2, <2>3 DEF StateOfSession
  <2>5. e \in R /\ e.req = frame.req
    BY <2>2 DEF TypeOK, UpCell
  <2> HIDE DEF e, R
  <2>6. /\ DOMAIN executed = 1..Len(executed) /\ Len(executed) \in Nat
        /\ DOMAIN executed' = 1..(Len(executed) + 1)
        /\ \A i \in 1..Len(executed) : executed'[i] = executed[i]
        /\ executed'[Len(executed) + 1] = e
    <3>1. /\ Append(executed, e) \in Seq(R)
          /\ Len(Append(executed, e)) = Len(executed) + 1
      BY <2>1, <2>5, WriteStream
    <3> QED
      BY <2>1, <2>5, <3>1, WriteStream, LenProperties
  <2>7. \A n : HasRun(n) => HasRun(n)'
    BY <2>6 DEF HasRun
  <2>8. \E i \in DOMAIN executed' : executed'[i].req = frame'.req
    BY <2>3, <2>5, <2>6
  <2>9. \A c \in ToSet(out') \union ToSet(up') : StateOfSession(c)
    BY <1>0, <2>1, <2>2 DEF hostVars
  <2>10. \A c \in ToSet(down') \union {head'} : OutcomeOfRun(c)
    BY <1>0, <2>1 DEF hostVars
  <2> QED
    BY <2>1, <2>4, <2>7, <2>8, <2>9, <2>10, EffectsStep DEF hostVars
<1>11. CASE ScriptPrints
  BY <1>0, <1>11, <1>t, EffectsBoard DEF ScriptPrints, boardVars
<1>12. CASE ScriptReads
  BY <1>0, <1>12, <1>u, EffectsBoard DEF ScriptReads, boardVars
<1>13. CASE RunDone
  <2>1. PICK s \in {"ok", "run_error"} :
           down' = down \o Answer(frame.req, frame.id, s,
                                  Append(frame.locals, frame.req))
    BY <1>13 DEF RunDone
  <2> DEFINE h == ToHost("head", frame.req, frame.id, s, TRUE, TRUE, <<>>)
             b == ToHost("body", frame.req, frame.id, s, TRUE, TRUE,
                         Append(frame.locals, frame.req))
  <2>2. h \in DownCell /\ b \in DownCell
    <3>1. /\ frame.req \in Nat /\ frame.id \in 0..IdMax
          /\ Append(frame.locals, frame.req) \in Seq(Nat)
      BY DEF TypeOK, UpCell
    <3>2. s \in Statuses
      BY <2>1 DEF Statuses
    <3> QED
      BY <3>1, <3>2 DEF ToHost, DownCell
  <2>3. down' = down \o <<h, b>>
    BY <2>1 DEF Answer
  <2>4. OutcomeOfRun(h) /\ OutcomeOfRun(b)
    BY <1>13 DEF RunDone, EffectsInFlight, OutcomeOfRun, Pending, ToHost
  <2> HIDE DEF h, b
  <2>5. <<h, b>> \in Seq(DownCell) /\ ToSet(<<h, b>>) = {h, b}
    BY <2>2, Pair
  <2>6. ToSet(down') \subseteq ToSet(down) \union {h, b}
    BY <2>3, <2>5, WriteAll DEF TypeOK
  <2> QED
    BY <1>0, <1>13, <2>4, <2>6, EffectsBoard DEF RunDone, ToLoop
<1>14. CASE RunUnencodable
  <2>1. \A c \in ToSet(down') : OutcomeOfRun(c)
    BY <1>14, <1>s DEF RunUnencodable, Statuses
  <2> QED
    BY <1>0, <1>14, <2>1, EffectsBoard DEF RunUnencodable, ToLoop
<1>15. CASE Discard
  BY <1>0, <1>15, <1>u, EffectsBoard DEF Discard, boardVars
<1>16. CASE DiscardQuiet
  <2>1. \A c \in ToSet(down') : OutcomeOfRun(c)
    BY <1>16, <1>s DEF DiscardQuiet, Statuses
  <2> QED
    BY <1>0, <1>16, <2>1, EffectsBoard DEF DiscardQuiet, ToLoop
<1>17. CASE ResetBoard
  <2>1. ToSet(up') \subseteq ToSet(up)
    BY <1>17, CutStream DEF ResetBoard, TypeOK
  <2> QED
    BY <1>0, <1>17, <1>t, <2>1, EffectsBoard DEF ResetBoard, ToLoop
<1> QED
  BY <1>1, <1>2, <1>3, <1>4, <1>5, <1>6, <1>7, <1>8, <1>9, <1>10, <1>11,
     <1>12, <1>13, <1>14, <1>15, <1>16, <1>17 DEF BoardStep

LEMMA WireEffects == TypeOK /\ EffectsInFlight /\ WireFault => EffectsInFlight'
<1> SUFFICES ASSUME TypeOK, EffectsInFlight, WireFault PROVE EffectsInFlight'
  OBVIOUS
<1>0. /\ \A c \in ToSet(out) \union ToSet(up) : StateOfSession(c)
      /\ \A c \in ToSet(down) \union {head} : OutcomeOfRun(c)
  BY DEF EffectsInFlight
<1>1. CASE LoseUp
  <2>1. ToSet(up') \subseteq ToSet(up)
    BY <1>1, LoseFromStream DEF LoseUp, TypeOK
  <2> QED
    BY <1>0, <1>1, <2>1, EffectsBoard DEF LoseUp, boardVars
<1>2. CASE LoseDown
  <2>1. ToSet(down') \subseteq ToSet(down)
    BY <1>2, LoseFromStream DEF LoseDown, TypeOK
  <2> QED
    BY <1>0, <1>2, <2>1, EffectsBoard DEF LoseDown, boardVars
<1>3. CASE CorruptUp
  <2>1. PICK i \in 1..Len(up) : up' = [up EXCEPT ![i].ok = FALSE]
    BY <1>3 DEF CorruptUp
  <2>2. \A c \in ToSet(up') : \E d \in ToSet(up) :
           c.part = d.part /\ c.req = d.req /\ c.locals = d.locals
    <3>1. up \in Seq(UpCell)
      BY DEF TypeOK
    <3> QED
      BY <2>1, <3>1, CorruptKeeps
  <2>3. \A c \in ToSet(up') : StateOfSession(c)
    BY <1>0, <2>2 DEF StateOfSession
  <2> QED
    BY <1>0, <1>3, <2>3, EffectsBoard DEF CorruptUp, boardVars
<1>4. CASE CorruptDown
  <2>1. PICK i \in 1..Len(down) : down' = [down EXCEPT ![i].ok = FALSE]
    BY <1>4 DEF CorruptDown
  <2>2. \A c \in ToSet(down') : \E d \in ToSet(down) :
           /\ c.kind = d.kind /\ c.req = d.req /\ c.locals = d.locals
           /\ c.ran = d.ran /\ c.body = d.body /\ c.status = d.status
    <3>1. down \in Seq(DownCell)
      BY DEF TypeOK
    <3> QED
      BY <2>1, <3>1, CorruptKeeps
  <2>3. \A c \in ToSet(down') : OutcomeOfRun(c)
    BY <1>0, <2>2 DEF OutcomeOfRun
  <2> QED
    BY <1>0, <1>4, <2>3, EffectsBoard DEF CorruptDown, boardVars
<1> QED
  BY <1>1, <1>2, <1>3, <1>4 DEF WireFault

-----------------------------------------------------------------------------
(* The link implements RemoteEval, within one host process and as long as    *)
(* ids have not come round.                                                  *)

\* The scope of the refinement: nobody restarts the host, and the counter of
\* ids has not wrapped around.
Scope == ~Restarts /\ MaxRequests <= IdMax

OneProcess == born = 0 /\ cur <= MaxRequests

LEMMA ProcessStep ==
    ASSUME Scope, TypeOK, OneProcess, [Next]_vars
    PROVE  OneProcess'
<1>1. CASE StartEval
  BY <1>1, BoundsAssumption DEF StartEval, OneProcess, TypeOK
<1>2. CASE ~StartEval
  <2>1. UNCHANGED <<born, cur>>
    BY <1>2 DEF Scope, Next, HostStep, WriteCell, Flush, WriteFails, SkipOutput,
       AcceptHeader, ReturnEmpty, BodyCorrupt, BodyUndecodable, AdoptBody,
       ReadTimeout, ClearSession, RestartHost, BoardStep, ReadHeader, RejectHeader,
       HeaderTimeout, ReadLine, ReadProgram, PayloadTimeout, OutOfMemory,
       CrcMismatch, RefusePayload, StartRun, ScriptPrints, ScriptReads, RunDone,
       RunUnencodable, Discard, DiscardQuiet, ResetBoard, WireFault, LoseUp,
       LoseDown, CorruptUp, CorruptDown, vars, hostVars
  <2> QED
    BY <2>1 DEF OneProcess
<1> QED
  BY <1>1, <1>2

\* Within that scope the payload that is adopted is the current request's.
LEMMA OwnBody ==
    ASSUME Scope, TypeOK, OneProcess, IdsNamed, EffectsInFlight,
           cpc = "body", head.body
    PROVE  head.req = cur
<1>1. head.ran /\ head.req > 0
  BY DEF EffectsInFlight, OutcomeOfRun
<1>2. head.req = cur \/ head.req <= born \/ head.req + IdMax <= cur
  BY <1>1, IdsNameOwner
<1> QED
  BY <1>1, <1>2, IdMaxAssumption, BoundsAssumption
  DEF Scope, OneProcess, TypeOK, DownCell

\* The runs that count, as the abstract specification sees them.
Runs == [i \in DOMAIN executed |-> RanRequest(executed[i])]

LEMMA RunsAreRequests ==
    ASSUME TypeOK, RunsOnceInOrder
    PROVE  /\ Runs \in Seq(Nat)
           /\ Len(Runs) = Len(executed)
           /\ \A i \in DOMAIN executed : Runs[i] = executed[i].req
           /\ \A n : n \in ToSet(Runs) <=> HasRun(n)
<1> DEFINE R == [req : Nat, prog : Nat, state : Nat]
<1>1. executed \in Seq(R)
  BY DEF TypeOK
<1>2. /\ DOMAIN executed = 1..Len(executed) /\ Len(executed) \in Nat
      /\ \A i \in DOMAIN executed : executed[i] \in R
  <2> HIDE DEF R
  <2> QED
    BY <1>1
<1>3. \A i \in DOMAIN executed : executed[i].req \in Nat
  BY <1>2
<1>4. \A i \in DOMAIN executed : RanRequest(executed[i]) = executed[i].req
  BY DEF RunsOnceInOrder, RanRequest
<1>5. /\ DOMAIN Runs = 1..Len(executed)
      /\ \A i \in DOMAIN executed : Runs[i] = executed[i].req
  BY <1>2, <1>4 DEF Runs
<1>6. Runs \in [1..Len(executed) -> Nat]
  BY <1>2, <1>3, <1>4 DEF Runs
<1>7. Runs \in Seq(Nat) /\ Len(Runs) = Len(executed)
  BY <1>2, <1>6
<1>8. \A n : n \in ToSet(Runs) <=> HasRun(n)
  BY <1>2, <1>5 DEF ToSet, HasRun
<1> QED
  BY <1>5, <1>7, <1>8

LEMMA InitAbstract == Init => Abstract!Init
<1> SUFFICES ASSUME Init PROVE Abstract!Init
  OBVIOUS
<1>1. DOMAIN executed = {}
  BY DEF Init
<1>2. [i \in DOMAIN executed |-> RanRequest(executed[i])] = <<>>
  BY <1>1
<1> QED
  BY <1>2 DEF Init, Abstract!Init

LEMMA RunAbstract ==
    ASSUME TypeOK, StatesInOrder, RunsOnceInOrder, RunsOnceInOrder', EffectsInFlight, StartRun
    PROVE  \E n \in 1..cur : Abstract!Execute(n)
<1> DEFINE e == [req |-> frame.req, prog |-> prog.req, state |-> Head(up).req]
           R == [req : Nat, prog : Nat, state : Nat]
           n == frame.req
<1>1. /\ up # <<>> /\ up \in Seq(UpCell)
      /\ executed \in Seq(R) /\ executed' = Append(executed, e)
      /\ Head(up).part = "state" /\ Head(up).req = n
      /\ prog.req = n
      /\ UNCHANGED <<cpc, cur, locals>>
  BY DEF StartRun, RequestIntact, TypeOK, hostVars
<1>2. Head(up) \in UpCell /\ Head(up) \in ToSet(up)
  BY <1>1, ReadStream
<1>3. n \in 1..cur
  <2>1. n \in Nat /\ cur \in Nat
    BY <1>1, <1>2 DEF UpCell, TypeOK
  <2>2. n > 0
    BY <1>1, <1>2 DEF EffectsInFlight, StateOfSession
  <2>3. n <= cur
    BY <1>1, <1>2 DEF StatesInOrder
  <2> QED
    BY <2>1, <2>2, <2>3
<1>4. e \in R /\ RanRequest(e) = n
  BY <1>1, <1>2 DEF TypeOK, UpCell, RanRequest
<1>5. \A m \in ToSet(Runs) : m < n
  <2>1. \A i \in DOMAIN executed : executed[i].req < n
    BY <1>1, <1>2 DEF StatesInOrder
  <2> QED
    BY <2>1, RunsAreRequests DEF HasRun
<1> HIDE DEF e, R, n
<1>6. /\ DOMAIN executed = 1..Len(executed) /\ Len(executed) \in Nat
      /\ DOMAIN executed' = 1..(Len(executed) + 1)
      /\ \A i \in 1..Len(executed) : executed'[i] = executed[i]
      /\ executed'[Len(executed) + 1] = e
  <2>1. /\ Append(executed, e) \in Seq(R)
        /\ Len(Append(executed, e)) = Len(executed) + 1
    BY <1>1, <1>4, WriteStream
  <2> QED
    BY <1>1, <1>4, <2>1, WriteStream, LenProperties
<1>7. /\ Runs \in Seq(Nat) /\ Len(Runs) = Len(executed)
      /\ n \in Nat
  BY <1>3, RunsAreRequests DEF TypeOK
<1>8. /\ Append(Runs, n) \in Seq(Nat)
      /\ Len(Append(Runs, n)) = Len(executed) + 1
      /\ \A i \in 1..Len(executed) : Append(Runs, n)[i] = Runs[i]
      /\ Append(Runs, n)[Len(executed) + 1] = n
  BY <1>7, WriteStream
<1>9. /\ Runs' \in Seq(Nat) /\ Len(Runs') = Len(executed) + 1
      /\ \A i \in 1..(Len(executed) + 1) : Runs'[i] = RanRequest(executed'[i])
  <2>1. /\ DOMAIN Runs' = 1..(Len(executed) + 1)
        /\ \A i \in 1..(Len(executed) + 1) : Runs'[i] = RanRequest(executed'[i])
    BY <1>6 DEF Runs
  <2>2. \A i \in 1..(Len(executed) + 1) : Runs'[i] = Append(Runs, n)[i]
    <3>1. \A i \in 1..Len(executed) : RanRequest(executed'[i]) = Runs[i]
      BY <1>6 DEF Runs
    <3>2. RanRequest(executed'[Len(executed) + 1]) = n
      BY <1>4, <1>6
    <3>3. \A i \in 1..(Len(executed) + 1) : i \in 1..Len(executed) \/ i = Len(executed) + 1
      BY <1>6
    <3> QED
      BY <1>8, <2>1, <3>1, <3>2, <3>3
  <2>3. \A i \in 1..(Len(executed) + 1) : Append(Runs, n)[i] \in Nat
    BY <1>6, <1>7, <1>8, ElementOfSeq
  <2>4. Runs' = [i \in 1..(Len(executed) + 1) |-> Runs'[i]]
    BY <1>6 DEF Runs
  <2>5. Runs' \in [1..(Len(executed) + 1) -> Nat]
    BY <2>2, <2>3, <2>4
  <2>6. Len(executed) + 1 \in Nat
    BY <1>6
  <2>7. Runs' \in Seq(Nat) /\ Len(Runs') = Len(executed) + 1
    BY <2>1, <2>5, <2>6
  <2> QED
    BY <2>1, <2>7
<1>10. \A i \in 1..(Len(executed) + 1) : Runs'[i] = Append(Runs, n)[i]
  <2>1. \A i \in 1..Len(executed) : RanRequest(executed'[i]) = Runs[i]
    BY <1>6 DEF Runs
  <2>2. RanRequest(executed'[Len(executed) + 1]) = n
    BY <1>4, <1>6
  <2>3. \A i \in 1..(Len(executed) + 1) : i \in 1..Len(executed) \/ i = Len(executed) + 1
    BY <1>6
  <2> QED
    BY <1>8, <1>9, <2>1, <2>2, <2>3
<1>11. Runs' = Append(Runs, n)
  BY <1>8, <1>9, <1>10, SeqEqual
<1>12. Abstract!Execute(n)
  BY <1>1, <1>3, <1>5, <1>11 DEF Abstract!Execute, Abstract!ToSet, ToSet, Runs
<1> QED
  BY <1>3, <1>12

LEMMA SubmitAbstract == StartEval => Abstract!Submit
<1> SUFFICES ASSUME StartEval PROVE Abstract!Submit
  OBVIOUS
<1>1. /\ cpc = "idle" /\ cpc' = "write" /\ cur' = cur + 1
      /\ UNCHANGED <<executed, locals>>
  BY DEF StartEval, boardVars
<1> QED
  BY <1>1 DEF Abstract!Submit

LEMMA ClearAbstract == ClearSession => Abstract!Clear
<1> SUFFICES ASSUME ClearSession PROVE Abstract!Clear
  OBVIOUS
<1>1. cpc = "idle" /\ locals' = <<>> /\ UNCHANGED <<cpc, cur, executed>>
  BY DEF ClearSession, boardVars
<1> QED
  BY <1>1 DEF Abstract!Clear

\* A call of eval that ends without a response.
LEMMA FailAbstract ==
    ASSUME cpc # "idle", NEW r, Finish(r), UNCHANGED <<cur, executed, locals>>
    PROVE  Abstract!Fail
BY DEF Finish, Abstract!Fail

LEMMA AdoptAbstract ==
    ASSUME Scope, TypeOK, OneProcess, IdsNamed, RunsOnceInOrder, EffectsInFlight,
           AdoptBody
    PROVE  Abstract!Adopt
<1>1. /\ cpc = "body" /\ head.body /\ down # <<>> /\ BodyIntact(Head(down))
      /\ locals' = Head(down).locals /\ cpc' = "idle"
      /\ UNCHANGED <<cur, executed>>
  BY DEF AdoptBody, Finish, boardVars
<1>2. head.req = cur
  BY <1>1, OwnBody
<1>3. Head(down) \in ToSet(down)
  BY <1>1, ReadStream DEF TypeOK
<1>4. Head(down).kind = "body" /\ Head(down).req = cur
  BY <1>1, <1>2 DEF BodyIntact
<1>5. HasRun(cur) /\ locals' = Append(locals, cur)
  BY <1>1, <1>3, <1>4 DEF EffectsInFlight, OutcomeOfRun, Pending
<1>6. cur \in ToSet(Runs)
  BY <1>5, RunsAreRequests
<1> QED
  BY <1>1, <1>5, <1>6 DEF Abstract!Adopt, Abstract!ToSet, ToSet, Runs

\* Reading, writing, skipping and everything on the board but the start of a
\* run show nothing to the user.
LEMMA StutterAbstract ==
    ASSUME UNCHANGED <<cur, executed, locals>>, (cpc' = "idle") <=> (cpc = "idle")
    PROVE  UNCHANGED Abstract!vars
BY DEF Abstract!vars

LEMMA StepAbstract ==
    ASSUME Scope, TypeOK, OneProcess, IdsNamed, StatesInOrder,
           RunsOnceInOrder, RunsOnceInOrder', EffectsInFlight, [Next]_vars
    PROVE  [Abstract!Next]_Abstract!vars
<1>1. CASE StartEval
  BY <1>1, SubmitAbstract DEF Abstract!Next
<1>2. CASE WriteCell \/ Flush \/ AcceptHeader
  <2>1. UNCHANGED <<cur, executed, locals>> /\ cpc # "idle" /\ cpc' # "idle"
    BY <1>2 DEF WriteCell, Flush, AcceptHeader, boardVars
  <2> QED
    BY <2>1, StutterAbstract
<1>3. CASE WriteFails \/ ReturnEmpty \/ BodyCorrupt \/ BodyUndecodable \/ ReadTimeout
  <2>1. /\ cpc # "idle" /\ UNCHANGED <<cur, executed, locals>>
        /\ \E r \in Results : Finish(r)
    BY <1>3 DEF WriteFails, ReturnEmpty, BodyCorrupt, BodyUndecodable, ReadTimeout,
       boardVars, Results
  <2> QED
    BY <2>1, FailAbstract DEF Abstract!Next
<1>4. CASE SkipOutput
  <2>1. cpc = "wait" /\ UNCHANGED <<cur, executed, locals>>
    BY <1>4 DEF SkipOutput, boardVars
  <2>2. Finish("prelude_limit") \/ cpc' = cpc
    BY <1>4 DEF SkipOutput
  <2> QED
    BY <2>1, <2>2, FailAbstract, StutterAbstract DEF Abstract!Next
<1>5. CASE AdoptBody
  BY <1>5, AdoptAbstract DEF Abstract!Next
<1>6. CASE ClearSession
  BY <1>6, ClearAbstract DEF Abstract!Next
<1>7. CASE RestartHost
  BY <1>7 DEF RestartHost, Scope
<1>8. CASE StartRun
  BY <1>8, RunAbstract DEF Abstract!Next
<1>9. CASE BoardStep /\ ~StartRun
  <2>1. UNCHANGED <<cpc, cur, executed, locals>>
    BY <1>9 DEF BoardStep, ReadHeader, RejectHeader, HeaderTimeout, ReadLine,
       ReadProgram, PayloadTimeout, OutOfMemory, CrcMismatch, RefusePayload,
       ScriptPrints, ScriptReads, RunDone, RunUnencodable, Discard, DiscardQuiet,
       ResetBoard, hostVars, boardVars
  <2> QED
    BY <2>1, StutterAbstract
<1>10. CASE WireFault \/ UNCHANGED vars
  <2>1. UNCHANGED <<cpc, cur, executed, locals>>
    BY <1>10 DEF WireFault, LoseUp, LoseDown, CorruptUp, CorruptDown, vars,
       hostVars, boardVars
  <2> QED
    BY <2>1, StutterAbstract
<1> QED
  BY <1>1, <1>2, <1>3, <1>4, <1>5, <1>6, <1>7, <1>8, <1>9, <1>10 DEF Next, HostStep

\* What is in flight for the current request was made from the locals that
\* the session still has, and every payload is the outcome of a run.
THEOREM EffectsAreOwn == Spec => []EffectsInFlight
<1>1. Init => EffectsInFlight /\ IdsNamed /\ StatesInOrder
  BY InitEffects, InitIdsNamed DEF Init, StatesInOrder, InOrder, ToSet
<1>2. TypeOK /\ IdsNamed /\ StatesInOrder /\ EffectsInFlight /\ [Next]_vars
         => EffectsInFlight'
  <2> SUFFICES ASSUME TypeOK, IdsNamed, StatesInOrder, EffectsInFlight, [Next]_vars
               PROVE  EffectsInFlight'
    OBVIOUS
  <2>1. CASE HostStep
    BY <2>1, HostEffects
  <2>2. CASE BoardStep
    BY <2>2, BoardEffects
  <2>3. CASE WireFault
    BY <2>3, WireEffects
  <2>4. CASE UNCHANGED vars
    BY <2>4, EffectsBoard DEF EffectsInFlight, vars, boardVars
  <2> QED
    BY <2>1, <2>2, <2>3, <2>4 DEF Next
<1> QED
  BY <1>1, <1>2, TypeCorrect, IdsStayNamed, StatesStayInOrder, PTL DEF Spec

\* Within one host process, until ids come round, what the user sees of the
\* link is RemoteEval: whatever is lost, late, corrupted or reset, the session
\* takes over a snippet's effects only if that snippet ran on the locals the
\* session held.
THEOREM LinkImplementsRemoteEval ==
    ASSUME Scope
    PROVE  Spec => ImplementsRemoteEval
<1>1. Init => Abstract!Init /\ OneProcess
  BY InitAbstract, BoundsAssumption DEF Init, OneProcess
<1>2. TypeOK /\ OneProcess /\ [Next]_vars => OneProcess'
  BY ProcessStep
<1>3. TypeOK /\ OneProcess /\ IdsNamed /\ StatesInOrder /\ EffectsInFlight
         /\ RunsOnceInOrder /\ RunsOnceInOrder' /\ [Next]_vars
         => [Abstract!Next]_Abstract!vars
  <2> SUFFICES ASSUME TypeOK, OneProcess, IdsNamed, StatesInOrder,
                      RunsOnceInOrder, RunsOnceInOrder', EffectsInFlight, [Next]_vars
               PROVE  [Abstract!Next]_Abstract!vars
    OBVIOUS
  <2> QED
    BY StepAbstract
<1> QED
  BY <1>1, <1>2, <1>3, TypeCorrect, IdsStayNamed, StatesStayInOrder, RunsAreOwn,
     EffectsAreOwn, PTL DEF Spec, ImplementsRemoteEval, Abstract!Spec

=============================================================================
