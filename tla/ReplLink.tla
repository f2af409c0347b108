------------------------------ MODULE ReplLink ------------------------------
(***************************************************************************)
(* The framed serial REPL: the host session and its transport              *)
(* (src/src/repl_client.rs), the board's request loop                      *)
(* (src/firmware/script_loader.cpp) and the two byte streams between them. *)
(*                                                                         *)
(* A stream is a FIFO of cells.  A request is four cells, the pieces the   *)
(* two sides read and write as units: the magic, the rest of the 24-byte   *)
(* header, the program, the state.  A response is a header cell and, when  *)
(* its length is not zero, a body cell; any other output of the board      *)
(* (script output, rss: lines, the boot banner) is a text cell.  A cell    *)
(* may be lost, and a payload corrupted.  Both headers carry no checksum   *)
(* of their own, so corrupted header fields are left out.  ResponseScanner *)
(* models how the host finds a response header byte by byte.               *)
(*                                                                         *)
(* Requests are numbered by the ghost counter cur.  A set of locals is     *)
(* abstracted to its lineage: the requests whose effects it holds.         *)
(***************************************************************************)
EXTENDS Integers, Sequences, SequencesExt

CONSTANTS
    IdMax,         \* largest request id: u32::MAX in the code
    PreludeLimit,  \* cells of other output the host skips per response
    MaxRequests,   \* bound: requests over the whole run
    MaxFaults,     \* bound: losses, corruptions, resets, restarts, write errors
    MaxDown,       \* bound: cells on the way down while a script prints
    Restarts       \* TRUE: the host process may be restarted

ASSUME IdMaxAssumption == IdMax \in Nat \ {0}
ASSUME BoundsAssumption ==
    /\ PreludeLimit \in Nat
    /\ MaxRequests \in Nat
    /\ MaxFaults \in Nat
    /\ MaxDown \in Nat
    /\ Restarts \in BOOLEAN

VARIABLES
    \* host
    cpc,       \* where eval stands: "idle", "write", "wait", "body"
    nextId,    \* SerialReplTransport.next_request_id
    reqId,     \* request_id of the latest call of execute
    cur,       \* ghost: number of the latest request
    born,      \* ghost: the requests up to this one are of earlier processes
    out,       \* cells of the request still to be written
    prelude,   \* cells in device_output
    head,      \* response header accepted for the current request
    locals,    \* lineage of SerialReplSession.locals
    result,    \* how the latest eval returned
    \* wires
    up, down,
    \* board
    dpc,       \* "loop", "program", "state", "run", "discard"
    frame,     \* request header being served
    prog,      \* program cell read for it
    heap,      \* buffers the request loop has allocated
    executed,  \* ghost: runs so far: request, program's and state's request
    \* environment
    faults     \* faults so far, of the MaxFaults that there may be

hostVars  == <<cpc, nextId, reqId, cur, born, out, prelude, head, locals, result>>
boardVars == <<dpc, frame, prog, heap, executed>>
vars == <<hostVars, up, down, boardVars, faults>>

-----------------------------------------------------------------------------
(* Cells *)

Parts    == {"magic", "meta", "prog", "state"}
Statuses == {"ok", "run_error", "invalid_argument", "invalid_vmbc",
             "invalid_repl_state"}
Results  == {"none", "value", "device_error", "io_error", "timeout",
             "prelude_limit", "crc_mismatch", "wire_error"}

UpCell ==
    [part : Parts, req : Nat, id : 0..IdMax, locals : Seq(Nat), ok : BOOLEAN]

\* ran: the status was reached after running req's script;
\* body: the payload length is not zero.
DownCell ==
    [kind : {"text", "head", "body"}, req : Nat, id : 0..IdMax,
     status : Statuses, ran : BOOLEAN, body : BOOLEAN,
     locals : Seq(Nat), ok : BOOLEAN]

ToBoard(p, n, i, l) == [part |-> p, req |-> n, id |-> i, locals |-> l, ok |-> TRUE]

\* The request that execute writes: header, program, state.
RequestFrame(n, i, l) ==
    <<ToBoard("magic", n, i, <<>>), ToBoard("meta", n, i, <<>>),
      ToBoard("prog", n, i, <<>>), ToBoard("state", n, i, l)>>

ToHost(k, n, i, s, r, b, l) ==
    [kind |-> k, req |-> n, id |-> i, status |-> s, ran |-> r, body |-> b,
     locals |-> l, ok |-> TRUE]

Text == ToHost("text", 0, 0, "ok", FALSE, FALSE, <<>>)

\* A response with no payload.
Refusal(n, i, s, r) == <<ToHost("head", n, i, s, r, FALSE, <<>>)>>

\* A response with the locals after the run.
Answer(n, i, s, l) ==
    <<ToHost("head", n, i, s, TRUE, TRUE, <<>>),
      ToHost("body", n, i, s, TRUE, TRUE, l)>>

NoUp   == ToBoard("magic", 0, 0, <<>>)
NoHead == Text

-----------------------------------------------------------------------------
Init ==
    /\ cpc = "idle" /\ nextId = 1 /\ reqId = 0 /\ cur = 0 /\ born = 0
    /\ out = <<>> /\ prelude = 0 /\ head = NoHead
    /\ locals = <<>> /\ result = "none"
    /\ up = <<>> /\ down = <<>>
    /\ dpc = "loop" /\ frame = NoUp /\ prog = NoUp
    /\ heap = {} /\ executed = <<>>
    /\ faults \in 0..MaxFaults

-----------------------------------------------------------------------------
(* Host *)

\* Mutant: the counter does not wrap.
NextRequestIdNoWrap(i) == i + 1

\* wrapping_add(1).max(1): zero is never an id.
NextRequestId(i) == IF i = IdMax THEN 1 ELSE i + 1

Finish(r) ==
    /\ cpc' = "idle"
    /\ result' = r
    /\ out' = <<>>
    /\ prelude' = 0
    /\ head' = NoHead

\* eval: seed the state from the session and call execute, which takes the
\* id before it writes the first byte.
StartEval ==
    /\ cpc = "idle"
    /\ cur < MaxRequests
    /\ cpc' = "write"
    /\ cur' = cur + 1
    /\ reqId' = nextId
    /\ nextId' = NextRequestId(nextId)
    /\ out' = RequestFrame(cur + 1, nextId, locals)
    /\ result' = "none"
    /\ UNCHANGED <<born, prelude, head, locals, up, down, boardVars, faults>>

WriteCell ==
    /\ cpc = "write" /\ out # <<>>
    /\ up' = Append(up, Head(out))
    /\ out' = Tail(out)
    /\ UNCHANGED <<cpc, nextId, reqId, cur, born, prelude, head, locals,
                   result, down, boardVars, faults>>

Flush ==
    /\ cpc = "write" /\ out = <<>>
    /\ cpc' = "wait"
    /\ UNCHANGED <<nextId, reqId, cur, born, out, prelude, head, locals,
                   result, up, down, boardVars, faults>>

\* write_all or flush fails: what was written may still reach the board.
WriteFails ==
    /\ cpc = "write"
    /\ faults < MaxFaults
    /\ faults' = faults + 1
    /\ Finish("io_error")
    /\ UNCHANGED <<nextId, reqId, cur, born, locals, up, down, boardVars>>

\* Mutant: any response header will do.
MatchesAnyId(c) == c.kind = "head"

Matches(c) == c.kind = "head" /\ c.id = reqId

\* Mutant: no limit on the output before a response.
SkipOutputUnlimited ==
    /\ cpc = "wait" /\ down # <<>> /\ ~Matches(Head(down))
    /\ down' = Tail(down)
    /\ prelude' = 1
    /\ UNCHANGED <<cpc, nextId, reqId, cur, born, out, head, locals, result,
                   up, boardVars, faults>>

\* Anything but a response header with the right id is device output.
SkipOutput ==
    /\ cpc = "wait" /\ down # <<>> /\ ~Matches(Head(down))
    /\ down' = Tail(down)
    /\ IF prelude >= PreludeLimit
       THEN Finish("prelude_limit")
       ELSE /\ prelude' = prelude + 1
            /\ UNCHANGED <<cpc, out, head, result>>
    /\ UNCHANGED <<nextId, reqId, cur, born, locals, up, boardVars, faults>>

AcceptHeader ==
    /\ cpc = "wait" /\ down # <<>> /\ Matches(Head(down))
    /\ cpc' = "body"
    /\ head' = Head(down)
    /\ down' = Tail(down)
    /\ UNCHANGED <<nextId, reqId, cur, born, out, prelude, locals, result,
                   up, boardVars, faults>>

\* status != 0 and an empty payload: the session is left alone.
ReturnEmpty ==
    /\ cpc = "body" /\ ~head.body
    /\ Finish(IF head.status = "ok" THEN "wire_error" ELSE "device_error")
    /\ UNCHANGED <<nextId, reqId, cur, born, locals, up, down, boardVars, faults>>

BodyIntact(c) == c.kind = "body" /\ c.req = head.req /\ c.ok

BodyCorrupt ==
    /\ cpc = "body" /\ head.body /\ down # <<>> /\ ~BodyIntact(Head(down))
    /\ down' = Tail(down)
    /\ Finish("crc_mismatch")
    /\ UNCHANGED <<nextId, reqId, cur, born, locals, up, boardVars, faults>>

\* decode_repl_response refuses the payload, or it does not have the program's
\* number of locals: the session is left alone.
BodyUndecodable ==
    /\ cpc = "body" /\ head.body /\ down # <<>> /\ BodyIntact(Head(down))
    /\ down' = Tail(down)
    /\ Finish("wire_error")
    /\ UNCHANGED <<nextId, reqId, cur, born, locals, up, boardVars, faults>>

\* sync: the session's locals become the response's, after a runtime error
\* as well as after success.
AdoptBody ==
    /\ cpc = "body" /\ head.body /\ down # <<>> /\ BodyIntact(Head(down))
    /\ down' = Tail(down)
    /\ locals' = Head(down).locals
    /\ Finish(IF head.status = "ok" THEN "value" ELSE "device_error")
    /\ UNCHANGED <<nextId, reqId, cur, born, up, boardVars, faults>>

\* Until the last fault, a peer may stay silent past the other's timeout.
Slow == faults < MaxFaults

\* Otherwise the board makes the host wait for ten seconds only when it is
\* itself waiting for the host, or when a script runs: mcu::delay_ms alone may
\* take a minute.
BoardSilent ==
    \/ Slow
    \/ dpc = "run"
    \/ up = <<>> /\ dpc \in {"loop", "program", "state"}

ReadTimeout ==
    /\ \/ cpc = "wait"
       \/ cpc = "body" /\ head.body
    /\ down = <<>>
    /\ BoardSilent
    /\ Finish("timeout")
    /\ UNCHANGED <<nextId, reqId, cur, born, locals, up, down, boardVars, faults>>

\* SerialReplSession::clear
ClearSession ==
    /\ cpc = "idle" /\ locals # <<>>
    /\ locals' = <<>>
    /\ UNCHANGED <<cpc, nextId, reqId, cur, born, out, prelude, head, result,
                   up, down, boardVars, faults>>

\* The host program is killed and started again: the input that has arrived
\* is cleared, ids start at 1 and the session is empty.
RestartHost ==
    /\ Restarts
    /\ faults < MaxFaults
    /\ faults' = faults + 1
    /\ Finish("none")
    /\ nextId' = 1
    /\ reqId' = 0
    /\ born' = cur
    /\ locals' = <<>>
    /\ down' = <<>>
    /\ UNCHANGED <<cur, up, boardVars>>

HostStep ==
    \/ StartEval \/ WriteCell \/ Flush \/ WriteFails
    \/ SkipOutput \/ AcceptHeader \/ ReturnEmpty \/ BodyCorrupt
    \/ BodyUndecodable \/ AdoptBody \/ ReadTimeout
    \/ ClearSession \/ RestartHost

-----------------------------------------------------------------------------
(* Board *)

HostSilent == Slow \/ cpc # "write"

FrameReady == Len(up) >= 2 /\ up[1].part = "magic" /\ up[2].part = "meta"

\* A well-formed header: the host only sends sizes within the limits.
ReadHeader ==
    /\ dpc = "loop" /\ FrameReady
    /\ dpc' = "program"
    /\ frame' = up[2]
    /\ up' = Tail(Tail(up))
    /\ UNCHANGED <<hostVars, down, prog, heap, executed, faults>>

\* The next byte is an 'R', but the 24 bytes read are not a request header:
\* pieces of a damaged frame, with an id made of whatever they hold.  The
\* rest of those bytes goes the way of the input that Discard throws away.
RejectHeader ==
    /\ dpc = "loop" /\ up # <<>> /\ ~FrameReady
    /\ up[1].part = "magic" => Len(up) >= 2
    /\ up' = Tail(up)
    /\ \E i \in 0..IdMax : frame' = [NoUp EXCEPT !.id = i]
    /\ dpc' = "discard"
    /\ UNCHANGED <<hostVars, down, prog, heap, executed, faults>>

\* read_serial_payload gives up on the header: no answer at all.
HeaderTimeout ==
    /\ dpc = "loop" /\ Len(up) = 1 /\ up[1].part = "magic"
    /\ HostSilent
    /\ up' = <<>>
    /\ UNCHANGED <<hostVars, down, boardVars, faults>>

\* The next byte is no 'R': readStringUntil takes a line, or what comes
\* within a second, and an unknown command is reported.
ReadLine ==
    /\ dpc = "loop" /\ up # <<>> /\ up[1].part # "magic"
    /\ \E k \in 1..Len(up) : up' = SubSeq(up, k + 1, Len(up))
    /\ \E t \in {<<>>, <<Text>>} : down' = down \o t
    /\ UNCHANGED <<hostVars, boardVars, faults>>

\* read_serial_binary for the program.
ReadProgram ==
    /\ dpc = "program" /\ up # <<>>
    /\ dpc' = "state"
    /\ prog' = Head(up)
    /\ heap' = heap \union {"program"}
    /\ up' = Tail(up)
    /\ UNCHANGED <<hostVars, down, frame, executed, faults>>

Release == heap' = {} /\ prog' = NoUp

\* Mutant: the program's buffer is not freed when the state does not come.
PayloadTimeoutLeaks ==
    /\ dpc \in {"program", "state"} /\ up = <<>>
    /\ HostSilent
    /\ dpc' = "discard"
    /\ down' = Append(down, Text)
    /\ prog' = NoUp
    /\ UNCHANGED <<hostVars, up, frame, heap, executed, faults>>

\* Mutant: the program is read without a timeout.
PayloadTimeoutStateOnly ==
    /\ dpc = "state" /\ up = <<>>
    /\ HostSilent
    /\ dpc' = "discard"
    /\ down' = Append(down, Text)
    /\ Release
    /\ UNCHANGED <<hostVars, up, frame, executed, faults>>

\* read_serial_binary returns nullptr: the transfer times out, or malloc
\* fails before a byte is read.  The other buffer is freed.
PayloadTimeout ==
    /\ dpc \in {"program", "state"} /\ up = <<>>
    /\ HostSilent
    /\ dpc' = "discard"
    /\ down' = Append(down, Text)
    /\ Release
    /\ UNCHANGED <<hostVars, up, frame, executed, faults>>

OutOfMemory ==
    /\ dpc \in {"program", "state"}
    /\ faults < MaxFaults
    /\ faults' = faults + 1
    /\ dpc' = "discard"
    /\ Release
    /\ UNCHANGED <<hostVars, up, down, frame, executed>>

\* Mutant: the checksum is not compared.
RequestIntactUnchecked(p, s) == TRUE

\* repl_request_crc over the two payloads as they were received.
RequestIntact(p, s) ==
    /\ p.part = "prog" /\ p.req = frame.req /\ p.ok
    /\ s.part = "state" /\ s.req = frame.req /\ s.ok

ToLoop == dpc' = "loop" /\ frame' = NoUp /\ Release

\* The one refusal that does not discard the rest of the input.
CrcMismatch ==
    /\ dpc = "state" /\ up # <<>> /\ ~RequestIntact(prog, Head(up))
    /\ up' = Tail(up)
    /\ down' = down \o Refusal(frame.req, frame.id, "invalid_repl_state", FALSE)
    /\ ToLoop
    /\ UNCHANGED <<hostVars, executed, faults>>

\* Mutant: a refused payload is not answered.
RefusePayloadSilently ==
    /\ dpc = "state" /\ up # <<>> /\ RequestIntact(prog, Head(up))
    /\ up' = Tail(up)
    /\ ToLoop
    /\ UNCHANGED <<hostVars, down, executed, faults>>

\* rustscript_repl_run_vmbc refuses the program or the state before it runs.
RefusePayload ==
    /\ dpc = "state" /\ up # <<>> /\ RequestIntact(prog, Head(up))
    /\ up' = Tail(up)
    /\ \E s \in {"invalid_vmbc", "invalid_repl_state"} :
          down' = down \o Refusal(frame.req, frame.id, s, FALSE)
    /\ ToLoop
    /\ UNCHANGED <<hostVars, executed, faults>>

StartRun ==
    /\ dpc = "state" /\ up # <<>> /\ RequestIntact(prog, Head(up))
    /\ up' = Tail(up)
    /\ dpc' = "run"
    /\ frame' = [frame EXCEPT !.locals = Head(up).locals]
    /\ heap' = heap \union {"state"}
    /\ executed' = Append(executed, [req |-> frame.req, prog |-> prog.req,
                                     state |-> Head(up).req])
    /\ UNCHANGED <<hostVars, down, prog, faults>>

\* serial::write and the other host functions that print.
ScriptPrints ==
    /\ dpc = "run" /\ Len(down) < MaxDown
    /\ down' = Append(down, Text)
    /\ UNCHANGED <<hostVars, up, boardVars, faults>>

\* serial::read_bytes takes what the host has sent meanwhile.
ScriptReads ==
    /\ dpc = "run" /\ up # <<>>
    /\ up' = Tail(up)
    /\ UNCHANGED <<hostVars, down, boardVars, faults>>

\* The script stopped: the locals go back, whatever its status.
RunDone ==
    /\ dpc = "run"
    /\ \E s \in {"ok", "run_error"} :
          down' = down \o Answer(frame.req, frame.id, s,
                                 Append(frame.locals, frame.req))
    /\ ToLoop
    /\ UNCHANGED <<hostVars, up, executed, faults>>

\* The script ran, but its locals or its result cannot be encoded.
RunUnencodable ==
    /\ dpc = "run"
    /\ down' = down \o Refusal(frame.req, frame.id, "invalid_repl_state", TRUE)
    /\ ToLoop
    /\ UNCHANGED <<hostVars, up, executed, faults>>

\* discard_serial_until_quiet, then the refusal.
Discard ==
    /\ dpc = "discard" /\ up # <<>>
    /\ up' = Tail(up)
    /\ UNCHANGED <<hostVars, down, boardVars, faults>>

DiscardQuiet ==
    /\ dpc = "discard" /\ up = <<>>
    /\ down' = down \o Refusal(frame.req, frame.id, "invalid_argument", FALSE)
    /\ ToLoop
    /\ UNCHANGED <<hostVars, up, executed, faults>>

\* mcu::restart, a brownout or a watchdog: the board boots into the loop
\* again; what its receive buffer held is gone.
ResetBoard ==
    /\ faults < MaxFaults
    /\ faults' = faults + 1
    /\ \E k \in 0..Len(up) : up' = SubSeq(up, k + 1, Len(up))
    /\ down' = Append(down, Text)
    /\ ToLoop
    /\ UNCHANGED <<hostVars, executed>>

BoardStep ==
    \/ ReadHeader \/ RejectHeader \/ HeaderTimeout \/ ReadLine
    \/ ReadProgram \/ PayloadTimeout \/ OutOfMemory
    \/ CrcMismatch \/ RefusePayload \/ StartRun
    \/ ScriptPrints \/ ScriptReads \/ RunDone \/ RunUnencodable
    \/ Discard \/ DiscardQuiet \/ ResetBoard

-----------------------------------------------------------------------------
(* Wires *)

LoseUp ==
    /\ faults < MaxFaults
    /\ faults' = faults + 1
    /\ \E i \in 1..Len(up) : up' = RemoveAt(up, i)
    /\ UNCHANGED <<hostVars, down, boardVars>>

LoseDown ==
    /\ faults < MaxFaults
    /\ faults' = faults + 1
    /\ \E i \in 1..Len(down) : down' = RemoveAt(down, i)
    /\ UNCHANGED <<hostVars, up, boardVars>>

CorruptUp ==
    /\ faults < MaxFaults
    /\ faults' = faults + 1
    /\ \E i \in 1..Len(up) :
          /\ up[i].part \in {"prog", "state"}
          /\ up' = [up EXCEPT ![i].ok = FALSE]
    /\ UNCHANGED <<hostVars, down, boardVars>>

CorruptDown ==
    /\ faults < MaxFaults
    /\ faults' = faults + 1
    /\ \E i \in 1..Len(down) :
          /\ down[i].kind = "body"
          /\ down' = [down EXCEPT ![i].ok = FALSE]
    /\ UNCHANGED <<hostVars, up, boardVars>>

WireFault == LoseUp \/ LoseDown \/ CorruptUp \/ CorruptDown

Next == HostStep \/ BoardStep \/ WireFault

Spec == Init /\ [][Next]_vars

-----------------------------------------------------------------------------
(* Fairness.  The operating system returns from every read and write within *)
(* the port's timeout; eval itself never waits for anything else.           *)
HostFairness ==
    WF_vars(WriteCell \/ Flush \/ SkipOutput \/ AcceptHeader \/ ReturnEmpty
            \/ BodyCorrupt \/ BodyUndecodable \/ AdoptBody \/ ReadTimeout)

\* The request loop polls for ever, its reads end within ten seconds, and
\* fuel bounds the run of a script: once nothing is wrong with it any more,
\* the board goes on.  Until then nothing is assumed of it.
BoardFairness ==
    /\ WF_vars(~Slow /\ (ReadHeader \/ RejectHeader \/ HeaderTimeout \/ ReadLine
                          \/ ReadProgram \/ PayloadTimeout
                          \/ CrcMismatch \/ RefusePayload \/ StartRun
                          \/ Discard \/ DiscardQuiet))
    /\ WF_vars(~Slow /\ (RunDone \/ RunUnencodable))

FairSpec == Spec /\ HostFairness /\ BoardFairness

-----------------------------------------------------------------------------
(* Safety *)

\* Every variable stays within its type.
TypeOK ==
    /\ cpc \in {"idle", "write", "wait", "body"}
    /\ nextId \in 1..IdMax
    /\ reqId \in 0..IdMax
    /\ cur \in Nat
    /\ born \in Nat
    /\ out \in Seq(UpCell)
    /\ prelude \in Nat
    /\ head \in DownCell
    /\ locals \in Seq(Nat)
    /\ result \in Results
    /\ up \in Seq(UpCell)
    /\ down \in Seq(DownCell)
    /\ dpc \in {"loop", "program", "state", "run", "discard"}
    /\ frame \in UpCell
    /\ prog \in UpCell
    /\ heap \in SUBSET {"program", "state"}
    /\ executed \in Seq([req : Nat, prog : Nat, state : Nat])
    /\ faults \in Nat

\* The refusal of bytes that were no request header carries the id they
\* happened to hold.
UnaskedRefusal(c) ==
    c.req = 0 /\ c.status = "invalid_argument" /\ ~c.ran /\ ~c.body

\* The header that execute accepts, a refusal as well as an answer, belongs to
\* the request it has just sent, whatever was lost, refused or answered too
\* late before.  The exceptions are exact: ids say nothing across processes
\* (each starts at 1), within one they repeat after IdMax requests, and bytes
\* that were no header may be refused under any id; such a refusal never brings
\* a result or locals with it.
OwnAnswer ==
    cpc = "body" =>
        \/ head.req = cur
        \/ head.req \in 1..born
        \/ head.req > 0 /\ head.req + IdMax <= cur
        \/ UnaskedRefusal(head)

\* The board runs no request twice and none after a later one, and never the
\* program of one request on the state of another, although it may read its
\* input from the middle of a damaged frame.
RunsOnceInOrder ==
    \A i \in DOMAIN executed :
        /\ executed[i].prog = executed[i].req
        /\ executed[i].state = executed[i].req
        /\ \A j \in 1..(i - 1) : executed[j].req < executed[i].req

\* The buffers of a request are allocated exactly as long as it is served:
\* no refusal, timeout or answer leaves one behind in the loop.
HeapBalanced ==
    heap = CASE dpc = "state" -> {"program"}
             [] dpc = "run"   -> {"program", "state"}
             [] OTHER         -> {}

-----------------------------------------------------------------------------
(* The inductive strengthenings of OwnAnswer and RunsOnceInOrder. *)

\* The id that request n of this process got, as long as the counter has not
\* come round to it again.
GivenId(n) ==
    LET i == nextId - 1 - (cur - n)
    IN  IF i >= 1 THEN i ELSE i + IdMax

Named(c) ==
    /\ c.req <= cur
    /\ \/ c.req <= born
       \/ c.req + IdMax <= cur
       \/ c.id = GivenId(c.req)

\* Everything in flight carries the id its request was given.
IdsNamed ==
    /\ born <= cur
    /\ born < cur => reqId = GivenId(cur)
    /\ \A c \in ToSet(out) \union ToSet(up) \union ToSet(down) : Named(c)
    /\ Named(frame)
    /\ Named(head)
    /\ cpc = "body" => head.id = reqId

\* A response header is a request's or an unasked refusal's.
AskedOrRefused(c) == c.kind = "head" => c.req > 0 \/ UnaskedRefusal(c)

\* Only a frame whose header was read whole gets as far as its payloads.
RestUnasked ==
    /\ \A c \in ToSet(out) \union ToSet(up) : c.req > 0
    /\ dpc \in {"program", "state", "run"} => frame.req > 0
    /\ \A c \in ToSet(down) \union {head} : AskedOrRefused(c)
    /\ cpc = "body" => head.kind = "head"

InOrder(s) ==
    \A j \in 1..Len(s) : \A i \in 1..(j - 1) :
        s[i].part = "state" /\ s[j].part = "state" => s[i].req < s[j].req

\* The states on their way up are those of ever later requests, all of them
\* later than what has run.
StatesInOrder ==
    /\ InOrder(up)
    /\ InOrder(out)
    /\ \A c \in ToSet(up) : c.req <= cur
    /\ \A c \in ToSet(out) :
          /\ c.req = cur
          /\ c.part = "state" => \A d \in ToSet(up) : d.part = "state" => d.req < cur
    /\ \A i \in DOMAIN executed :
          /\ executed[i].req <= cur
          /\ \A c \in ToSet(up) \union ToSet(out) :
                c.part = "state" => executed[i].req < c.req

-----------------------------------------------------------------------------
(* The inductive strengthening of the refinement of RemoteEval below: what  *)
(* is in flight for the current request belongs to the locals it was made   *)
(* with.                                                                    *)

HasRun(n) == \E i \in DOMAIN executed : executed[i].req = n

Pending(n) == cpc # "idle" /\ n = cur

\* A state on its way up is the session's, as it still is.
StateOfSession(c) ==
    c.part = "state" => /\ c.req > 0
                        /\ Pending(c.req) => c.locals = locals

\* A payload on its way down is the outcome of a run on the session's locals.
OutcomeOfRun(c) ==
    /\ c.body => c.ran /\ c.req > 0
    /\ c.kind = "body" => /\ HasRun(c.req)
                          /\ Pending(c.req) => c.locals = Append(locals, cur)

EffectsInFlight ==
    /\ \A c \in ToSet(out) \union ToSet(up) : StateOfSession(c)
    /\ \A c \in ToSet(down) \union {head} : OutcomeOfRun(c)
    /\ dpc = "run" => /\ frame.req > 0
                      /\ HasRun(frame.req)
                      /\ Pending(frame.req) => frame.locals = locals

-----------------------------------------------------------------------------
(* What the user sees: RemoteEval.  An execution counts only if it used the *)
(* request's own program and state.                                         *)
RanRequest(e) == IF e.prog = e.req /\ e.state = e.req THEN e.req ELSE 0

Abstract == INSTANCE RemoteEval WITH
    phase <- IF cpc = "idle" THEN "idle" ELSE "pending",
    ran   <- [i \in DOMAIN executed |-> RanRequest(executed[i])]

\* Within one host process the link implements RemoteEval: in particular the
\* session adopts a response only if it is the outcome of its own snippet,
\* run on the locals the session still has.
ImplementsRemoteEval == Abstract!Spec

-----------------------------------------------------------------------------
(* Liveness *)

\* A call of eval returns, even if the board never answers or never stops
\* printing: where the board is slow, the fairness of the host is enough.
EvalReturns == (cpc # "idle") ~> (cpc = "idle")

Delivered ==
    /\ ~Slow
    /\ cpc = "wait"
    /\ dpc = "loop"
    /\ up = RequestFrame(cur, reqId, locals)

\* How an eval may end that is not left unanswered: with an answer or a refusal
\* under its id, with more output than the host will skip, or because its own
\* script still runs when the host gives up.
Answered ==
    \/ result \in {"value", "device_error", "wire_error", "prelude_limit"}
    \/ result = "timeout" /\ dpc = "run" /\ frame.req = cur

\* Once faults have stopped, a request that reaches a board in its loop whole
\* is answered: its eval does not end in a checksum error, nor in a timeout
\* unless its script takes that long, whatever earlier requests have left on
\* the wires.
DeliveredIsAnswered == Delivered ~> (cpc = "idle" /\ Answered)

\* The board never waits for ever in the middle of a request.
BoardReturnsToLoop == (dpc # "loop" /\ ~Slow) ~> (dpc = "loop")

=============================================================================
