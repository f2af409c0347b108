# Verification of micro-rustscript

micro-rustscript runs compiled RustScript programs (VMBC) on microcontrollers.
The VM and the compiler are external crates. What this repository adds is how
programs get to a board and back: a serial REPL that evaluates snippets
remotely, a script store in flash with an installer, a C interface to the VM,
and the host functions that scripts call. This directory holds TLA+ models of
those parts, the TLC runs that check them and TLAPS proofs about them.

Paths below are relative to the repository; `PROJECT.json` maps every modelled
definition to its source lines.

## 1. Inventory

| Part | Source | State it keeps | Operations | Status |
| --- | --- | --- | --- | --- |
| Serial transport | `src/repl_client.rs` 11-151 | `next_request_id`, `device_output`, `pending` | `execute` | `ReplLink`, `ResponseScanner` |
| REPL session | `src/repl_client.rs` 153-486 | `locals`: value, schema, optional, moved | `eval`, `sync`, `clear` | `ReplSession`, `SessionOverFfi`, `ReplLink` |
| Input completeness | `src/repl_client.rs` 488-576 | none | `is_repl_input_complete` | `ReplInput`, `InputReference` |
| REPL driver | `src/bin/rustscript-serial-repl.rs` | pending input | read line, commands, eval | `ReplInput`, `ReplLink` |
| Wire codec | `src/repl_wire.rs` | decoder offset, nodes | encode and decode of state and response | `WireDecoder`, `WireCodec` |
| C interface | `src/ffi.rs` | the output buffer, the VM's locals, the callback | `rustscript_run_vmbc`, `rustscript_repl_run_vmbc`, `rustscript_buffer_free` | `FfiBoundary`, `SessionOverFfi`; outcomes in `ReplLink` |
| Allocator | `src/allocator.rs`, `firmware/main.cpp` 12-41 | the word before an aligned block | alloc, dealloc | `PlatformAlloc` |
| Boot | `firmware/main.cpp` 43-70 | none | `setup` | `ScriptStore` |
| Request loop | `firmware/script_loader.cpp` 257-377 | buffers of the request being served | framed requests | `ReplLink` |
| Script store | `firmware/script_loader.cpp` 38-250, 379-414 | the partition, the payload buffer | load, install, run, info, help | `ScriptStore`, `ImageStore` |
| Host framework | `firmware/host_framework.cpp` | PWM channels, Wi-Fi station, Bluetooth | 32 host functions | those with state: `HostFramework` |
| S31 bridge | `esp32s31/main/main.cpp` | Wi-Fi, Bluetooth | as above, fewer | not modelled |
| Arduino demo, simulator | `firmware/arduino`, `firmware/simulator` | none | one program | not modelled |
| Host runner, compiler | `src/host.rs`, `src/bin/rustscript-compile-vmbc.rs` | the VM's | run | not modelled |
| Scripts | `scripts/*.py` | none | pack, flash, transfer, build | what they do to the board: `ScriptStore` |

How they interact: the driver calls `eval`, which compiles a snippet against
the session's locals and calls the transport's `execute`. That writes a request
(header, program, state) to the serial line. The firmware's request loop reads
it, calls `rustscript_repl_run_vmbc`, whose VM calls back into the host
framework, and writes a response. The same loop serves the line commands of
`scripts/repl_vmbc.py`, which go to the script store. Script output, `rss:`
lines and responses share one byte stream.

What is hard:

- Nothing is acknowledged or retransmitted, both sides give up after ten
  seconds, and answers that come after that stay on the line for the next call.
- Headers have no checksum; a lost piece of a request makes the board read the
  next one as payload; a script may itself read what the host has sent.
- The host may be restarted (ids start at 1 again), the board may be reset (by
  a script too) at any point, also between the erase and the two writes of an
  install.
- That a string was moved out of a local is not sent back by the board; the
  session reconstructs it from bytecode and from nulls.
- Host functions run several platform calls; each may fail and what was done
  before stays done.
- Memory and pointers cross the C interface: Rust allocates what the C caller
  frees, and host functions return pointers into one static buffer.
- The compiler assigns slots anew for every snippet, so that values travel by
  slot and stay known by name only in the session.

What makes each part correct:

- Transport and request loop: an answer is taken for its own request only; a
  request runs at most once, in order, with its own program and state; eval
  returns; buffers do not leak; the loop comes back.
- Scanner: no byte is lost or reordered; no response is missed among output
  that looks like one.
- Session: effects of a snippet are adopted exactly if it ran; a non-optional
  local is never read as null.
- C interface: nothing allocated is lost or freed twice, no value refers to
  memory that is used again, and both ends agree on what is too large.
- Script store: only complete images run; an acknowledged install survives.
- Host framework: channels are exclusive; reported and real state agree.

`PROJECT.json` lists the hazards at their lines with the properties on guard.

## 2. Plan

Modules, most important behaviour first:

1. `RemoteEval` (abstract), `ReplLink` (detailed) and `ReplLinkProofs`, with the
   refinement step by step: done.
2. `ResponseScanner`, `ResponseScannerProofs`: done.
3. `ImageStore` (abstract), `ScriptStore`, which implements it, and
   `ScriptStoreProofs`: done.
4. `HostFramework`, `ReplSession`: done.
5. `WireDecoder` (the decoder as a machine over a stack of open collections),
   `WireCodec` (the encoders, and what both promise together),
   `WireProofs`, with both promises for all values and limits: done.
6. `PlatformAlloc`: alignment and overflow arithmetic, the pointer in front of a
   block: done.
7. `ReplInput` (the driver's loop and `is_repl_input_complete`) and
   `InputReference` (completeness token by token); `ReplProofs`, with the theorem
   that both agree on every text, and the proofs about `ReplSession`: done.
8. `SessionStore` (abstract), `FfiBoundary` (ownership of the output buffer, host
   calls, statuses), `SessionOverFfi` (a session whose snippets run behind it,
   which implements `SessionStore`), `SessionOverFfiProofs`: done.
9. `FirmwareProofs` (the host framework and the allocator): done.
10. Left: the S31 bridge's own bring-up, headers that are corrupted.

## 3. Modules

### RemoteEval and ReplLink

`RemoteEval` is what the user is promised: one snippet at a time; the board
runs it at most once and never after a later one; the session takes over its
effects only if that very snippet ran on top of the session's own locals; every
other call fails and leaves the session alone.

`ReplLink` is both programs and the two streams between them. The host's
control is `cpc` (idle, write, wait, body: the phases of `execute`), the
board's is `dpc` (loop, program, state, run, discard: the phases of the request
loop). A stream is a sequence of cells, the pieces one side writes and the
other reads with one call: magic, rest of header, program, state; response
header, response body, text. `heap` is the set of buffers the loop holds,
`executed` records what ran. Requests are numbered by the ghost `cur`, and a
set of locals is abstracted to its lineage, the requests whose effects it
holds; that is what refinement compares. Faults are losing or corrupting a
cell, a failing write, a reset board, a restarted host and a failing `malloc`.
Until the last fault (`Slow`) a peer may also be silent past the other's timeout
although it is not stuck; runs begin with any number of faults already behind
them, so that this covers a line on which nothing else goes wrong.

An `eval` that fails before an id is taken (the snippet does not compile, the
frame is too large: lines 47-57 and 231-252) changes nothing here; it is a
stuttering step. A corrupted header is not modelled, nor are flow control
and byte boundaries: a cell arrives whole or not at all, except that a rejected
header may have any id. A reset ends when the board is back in its request loop;
the script that it may run first is in `ScriptStore`.

`OwnAnswer` speaks of every header that `execute` accepts, refusals included: it
belongs to the request just sent. The exceptions are exact: a header from before
a host restart, one that is a whole cycle of ids old, and an `UnaskedRefusal`, the
board's answer to bytes that were no header, under whatever id they held; that
one carries neither a result nor locals, so eval ends with an error that was
another's and the session stays as it was.

`BoardSilent` is when the host's ten seconds may run out although the board is
well: while it waits for the host itself, and while a script runs, since
`mcu::delay_ms` alone takes up to a minute (`host_framework.cpp` 302).
`DeliveredIsAnswered` therefore allows a snippet whose whole request has arrived
one way to end in a timeout: its own script still runs when the host gives up.

The other properties are `RunsOnceInOrder`, `HeapBalanced`,
`ImplementsRemoteEval` (refinement), `EvalReturns` and `BoardReturnsToLoop`.

### ResponseScanner

`execute`'s search for a response header, byte by byte: the rolling four-byte
window, the candidate, the bytes pushed back after a rejected header and the
body read straight from the port. `read` records what came from the port;
`Split` relates it to output, candidate and pushed-back bytes. The properties
say that this is a lossless parse that accepts the first header with the right
id. `OutputBounded` is exact: the limit can be exceeded by the one byte that is
output when a header is rejected. A read that fails after `rotate_left` has
already output its byte (`ShiftFails`); anywhere else it changes nothing.

### SessionStore, FfiBoundary and SessionOverFfi

`FfiBoundary` is the C interface: the checks of `rustscript_repl_run_vmbc` and
`rustscript_run_vmbc` in their order, the VM's run as the steps that touch what
the interface shares (stores, moves, host calls), the status, the response and
`rustscript_buffer_free`. `mem` is what is allocated for callers, `out` the
caller's one variable, which keeps its old pointer after the free, as in C.
`iobuf` is the host framework's static buffer; a host function that returns
bytes returns a pointer to it, and `to_embedded` decides whether the VM keeps the
pointer or the bytes. The VM is external and may do anything else.

`SessionOverFfi` adds `SerialReplSession`: values by name, sent by slot and taken
back by slot, with a new assignment for every snippet and with slots that
belong to no name; the size checks of both ends; stored scripts and refused calls of
other users in between. Sizes are part of the model, since a response may be
too large for a snippet that ran. So is the number of values (`Nodes`): the
decoders stop at `MaxNodes`, which the encoders do not count, so that the board
may refuse a state that the session could encode (`Arrives`) and the session a
response that the board could (`Decodes`), after the snippet has run. `SizesAgree`
is about bytes only; finding 2 is about the number of values. One `Limit` stands for three
constants of 128 KiB: `MAX_FRAME_BYTES`, `REPL_MAX_FRAME_SIZE` and
`MAX_WIRE_BYTES`. A faultless line joins the two ends here;
faults on it are `ReplLink`'s subject.

`SessionStore` is what the user is promised: one environment of names; a snippet
works on a copy, which is taken over as a whole or not at all. It is taken over
also for a snippet that stopped with an error, as in the code, but success is
reported only for one that ran to its end and was taken over. `SessionOverFfi`
implements it: the copy is what the VM's locals refer to at the slots of the
names (`AbstractWork`).

### ImageStore and ScriptStore

`ImageStore` is what the user is promised: the board keeps one image or none and
runs one image at a time. A promise is withdrawn before the image it is about is
touched, a new image appears in one step and only where there is none, what is
run from the partition is what is kept, and none of this happens while a script
runs. The flash tool is the exception: it stops the script and writes a whole image,
or, given up half way, leaves none.


The board (`pc`) from `setup` to the command loop, transfers, and the
partition as header and data cells. Installing is the sequence of flash
operations of `rustscript_install_partition`: sectors are erased one by one,
the header is written with its checksum last, then the payload part by part;
flash can be written only where it is erased, otherwise it ends up garbled. A
reset may come between any two steps. `FlashImage` is what
`rustscript_load_partition` would return in a state. The user's side sends
commands and payloads, exchanges cards and uses esptool. `ScriptStore` implements
`ImageStore`: kept is what `FlashImage` yields, promised is `acked`, and what runs is
the image in the buffer, or the card's, which nobody vouches for.

### HostFramework

The stateful host functions: PWM channel assignment, Wi-Fi bring-up, the
Bluetooth controller's states, and restarts. Any platform call may fail. GPIO,
I2C, the clock and system queries keep no state and are left out, as is the
validation of arguments. A setup that fails keeps its channel (lines 184 and
202); the model does the same, and `ChannelsExclusive` holds all the same.

### ReplSession

Which locals the session believes to be moved, against what the board really
did. A snippet is a sequence of moves, copies and stores, each in a branch of its
own or in none. A run takes one of the `Paths` and may end anywhere on it
(run-time errors). All locals are strings, so the condition on the
schema (`repl_client.rs` 298) always holds; for a value of another type a null
is not marked, which section 6 comes back to.
`locals_moved_by_rebinding` knows three shapes of a move in the bytecode: two leave
Null behind (`move`), and one only copies to another slot (`copy`), so that after
it the mark is all that tells, until the next snippet. `Compiles` is the
compiler's use of the marks, modelled from how the session uses it: on every path, a
local that is read was stored before or is bound and not marked. `misread` is
where, on the board, the snippet found a Null instead. The
marks of earlier snippets, the compiler's view of all paths and the one path that
was taken have to fit together for `NullNeverTaken`. The
ghost `whole` says whether the last snippet ran to its end, which is when marks
must be exact.

### WireDecoder and WireCodec

`decode_value` is recursive and reads as it goes. `WireDecoder` is that
recursion made explicit: `frames` is the stack of lists and collections that
are open, each with the number of items it has reserved room for and the values
it still has to read; `built` has the values that are complete. One step is one
value, one end of a collection, or one refusal, in the order of the code's
checks. Four-byte and eight-byte fields are one cell.

`WireCodec` adds the encoders. `encode_value` is recursive, too; here it is a
writer with a list of what is still to be written and at which depth: a step
writes the head of one value (`HeadCells`) and puts its items in front of the
rest. `Written` takes at most `MaxBytes` steps; as every value takes a cell or
more, a writer that is not through by then has written more than a frame holds,
which `ensure_wire_size` refuses anyway. `Value` is the set of values there are
and `Sent` what may be encoded. `ValueAssumption` is the Rust type: items are
values, a map has pairs, a number has one cell, a Boolean is 0 or 1, and a
string has no byte that is in no UTF-8 text. `SentAssumption` is the type of the
two encoders' arguments.

The module states what both promise: `AcceptsOnlyEncodings` (what is accepted is
the encoding of what it is decoded to; so no two frames mean the same) and
`AcceptsWhatFits` (nothing within the limits is refused; an allocation that fails
is the one exception).

### PlatformAlloc

The state is the blocks that `malloc` has given, the blocks the program holds
and the pointers stored between them. `malloc` returns any aligned place that
is free. `Write` lets the program overwrite all of a block, which must not reach
a stored pointer. `size_t` wraps around at `Memory`.

`MemoryAssumption` asks for a memory of more than two words and a little; the
C++ subtracts the word's size and the alignment from `SIZE_MAX`, which would
itself wrap around in a smaller one. `PowersAssumption` says what is used of
`Memory` and `MaxAlign` being powers of two: a smaller power of two is at most
half of one, and divides it. That is an induction over exponents; TLC evaluates
the assumption for the run's alignments.

### ReplInput and InputReference

`After` is the loop of `is_repl_input_complete`: its locals behind each character
(the flags as one `mode`, `chars.next()` in front of a second character as
`skip`). The driver's loop is one action per kind of line. A text is a sequence of
characters; the only assumption on lines is that they are not empty and have a
newline at most at their end. "+" stands for the operators of one character;
those of two are needed where they do not end in one of these: `=>`, `&&` and `||`
(`IncompletePair`).

`InputReference` defines the same predicate in another way. `Tokens` are the places
where a character, a string or a comment begins, each one behind the end of one
before; `Ends` says where it may end (a quote after an even number of backslashes).
`Code` is what is left of them. `Depth` counts the delimiters that are open behind
each place, and a closing one `Closes` the opening one of its kind to which
everything in between is deeper. A text is complete if some closing delimiter
closes nothing, or if all tokens end, the depth at the end is zero and the code
does not end in an operator. `ReplInput`'s two properties are stated with that
definition.

## 4. Runs

| Run | Bounds | Shows |
| --- | --- | --- |
| `repl_link_safety` | 3 requests, ids 1..2, 1 fault, restarts, slow peers until then | `TypeOK`, `OwnAnswer`, `RunsOnceInOrder`, `HeapBalanced` |
| `repl_link` | 2 requests, ids 1..2, 2 faults, slow peers until the last, a script prints once at a time | `ImplementsRemoteEval`, `EvalReturns`, `DeliveredIsAnswered`, `BoardReturnsToLoop` |
| `response_scanner` | magic of 2, header of 5, 3 byte values, 13 bytes, limit 6 | 5 invariants |
| `script_store` | images of 1, 2, 3 parts, capacity 2, 3 commands, 2 faults | 4 invariants, `InstallIsAllOrNothing`, `ImplementsImageStore`, `BoardReturnsToLoop` |
| `host_framework` | 3 pins, 2 channels, 3 failing calls | 3 invariants, `ControllerRepaired` |
| `session_over_ffi` | 2 names, up to 3 slots, values of 4 kinds and sizes, limit 12, 6 values, 1 address | `TypeOK`, `BufferOwned`, `SizesAgree`, `ImplementsSessionStore` |
| `repl_session` | 2 locals, one optional, 4 snippets of up to 3 moves, copies and stores in branches or not | `TypeOK`, `NullNeverTaken`, `NoStaleMark` |
| `repl_session_optional` | the same | finding: `OptionalMoveRemembered` is violated |
| `wire_codec` | nesting 1, 9 cells, 4 values | `TypeOK`, `ReservationsBounded`, `AcceptsOnlyEncodings`, `AcceptsWhatFits` |
| `wire_codec_nodes` | the same | finding: `AcceptsWhatEncodes` is violated |
| `platform_alloc` | 64 addresses, words of 2, 2 blocks, alignments to 16 | `BlocksUsable`, `DeallocFreesItsOwn` |
| `repl_input` | 3 lines of up to 2 of 9 characters, or 7 others | `WaitsOnlyIfIncomplete`, `EvaluatesWholeSnippets` |

Why the bounds are enough. Three requests with two ids make ids wrap around
within the run, which is where `OwnAnswer`'s exception begins; one fault is
enough to leave one request's pieces before another's, and two faults with two
requests cover the refinement. Refinement is checked without restarts and
without ids that wrap, because that is its exact scope. In the scanner, 13
bytes are two rejected headers inside each other followed by a full response.
In the store, two images that fit and differ in length give every mixture of
old and new parts, and three commands two transfers around a card or a run.
For the codec, the frames are all encodings of lists of nested values that
reach each limit and pass it by one, the same with any cell changed or one
added, and all sequences of up to four or five cells. For the allocator, 56 and
63 are sizes whose block would wrap around, and two blocks are one that is
reallocated. Behind the C interface, two names in three slots leave a slot for a
temporary and a different slot for each name every time; the limit admits two
large values but not three, nor two beside a temporary with the larger program, so that
requests and responses are refused at either end; two lists of two items are as many
values as the decoder takes, so one more slot or a result is too many; one address
is the one that a stale pointer would meet again. Three lines are enough to open,
escape and close anything across lines.

`CHECK_DEADLOCK FALSE` where a bound stops the model: requests, snippets,
commands and bytes run out.

### Fairness

- Host (`HostFairness`): the operating system returns from every read and write
  within the port's timeout, set to ten seconds by the driver. `execute` waits
  for nothing else.
- Board (`BoardFairness`): the loop polls for ever and its reads end after ten
  seconds; a run ends because every script has a fuel of 1,000,000. This is
  assumed only after the last fault: while `Slow` holds the board may do nothing
  at all, so `EvalReturns` does not rest on the board there. There is no fairness for printing, for a script reading, for faults or for the user.
- `ScriptStore`'s `FairSpec` is the same for the board alone.

### Findings

1. `repl_session_optional`: an optional string declared and moved away in one
   snippet, or moved by a snippet that then fails, is not marked moved
   (`repl_client.rs` 264-269, 295-298), against the tests at
   `repl_client.rs` 773 and `tests/ffi.rs` 349.
2. `wire_codec_nodes`: the decoder stops at 4096 values (`repl_wire.rs` 248), the
   encoder does not, against the round-trip tests at `repl_wire.rs` 340 and 350.
   A snippet that builds a larger array has run, and its response is refused.
   The decoder's limit is meant (the test at `repl_wire.rs` 386-392 asserts it for
   4097 values); the encoder does not know of it.

## 5. Proofs

All constants are arbitrary within the modules' named assumptions; bounds on
requests and faults are any naturals, so the theorems hold without bounds.

`StreamLemmas` has what the proofs need about sequences: heads, tails, suffixes
and removals are subsequences, and what holds of all or of all pairs of
elements of a stream survives them.

`ReplLinkProofs`:

- `TypeCorrect`, `BuffersBalanced`: `TypeOK`, and with it `HeapBalanced`, is
  inductive.
- `AnswersAreOwn`: `OwnAnswer` is not inductive; the header could be about to be
  read from `down`, or its request still be on the way up. `IdsNamed` says that
  everything in flight (`out`, `up`, `down`, the request being served, the
  accepted header) carries the id that its request was given (`GivenId`), or is
  from before a restart, or a full cycle old. `StartEval` shifts every
  `GivenId`, which is the arithmetic core of the proof. What belongs to no request
  is left to `RestUnasked`: it is text or a refusal without a payload, because only a
  frame whose header was read whole gets as far as its payloads.
- `LinkImplementsRemoteEval`: the whole refinement, `Spec => ImplementsRemoteEval`,
  in its exact scope (`Scope`: nobody restarts the host, and there are no more
  requests than ids). The mapping shows nothing of what is on the line, so the
  invariant has to say that what comes back is worth adopting:
  `EffectsInFlight` (`EffectsAreOwn`, which needs no scope) says that the request on its way
  was made from the locals the session still has, and that every payload in
  flight is the outcome of a run. TLC checked it before it was proved. `StartEval`
  maps to `Submit`, `StartRun` to `Execute`, `AdoptBody` to `Adopt`, every other
  end of a call to `Fail`, `ClearSession` to `Clear`, and everything else is a
  stutter; the scope makes an accepted id the current request's own.
- `RunsAreOwn`: `StatesInOrder` says that the states on their way up belong to
  ever later requests, all later than what has run. Losing, dropping and
  consuming cells keep this by the subsequence lemmas; only `StartEval` and
  `WriteCell` add cells, at the end and of the latest request.

`ResponseScannerProofs`: the invariant is `TypeOK`, `CandShape` (what the
candidate holds in each phase), `PendingFits` (pushed-back bytes are used up by
the next full header, which is why the body may be read past them), `Split`,
and `Overshoot` (one byte past the limit the scanner looks at the second byte
of a magic, which by assumption is not the first again, so it cannot reject
another header: the magic does not begin with two equal bytes).
`NoResponseMissed` needs that a byte is output only if the window was full and
differed from the magic or the header's id was wrong.

`SessionOverFfiProofs`: `BufferOwned` and `TypeOK` need `Flow`, which says what the
phases of a call mean for the output: while a call that has an output is under
way the caller's variable is empty, because it was emptied on entry. Without
that line a refused call would return the pointer that was freed before.
`Placed` says that while the session's snippet runs its names are at different
slots of the VM's locals, which is what taking values back by name needs.
`SessionImplements` is the whole refinement: `Spec => ImplementsSessionStore`.
Each step maps to one of `SessionStore` or to a stutter: entering is `Begin`, a
store, a move or a host call is an `Assign` or a `Move` if it meets a slot of a name
and a stutter if it meets a temporary, and `Receive` is `Commit` or `Abort`.
`SizesNeverDisagree` (`SizesAgree`, in bytes) needs that a response in memory is one that
the encoder let through (`Bounded`) and that a state is never empty. The size of
a state is a running sum; `RunningSum` says that a sum defined step by step is
what its steps say, by the least number for which it were not.

`FirmwareProofs`, host framework: the three invariants are inductive together.
That the search returns the pin's own channel or a free one rests on the
existence of a least element (`LeastElement`), and exclusiveness on a free
channel being taken only by a pin that has none. `ControllerFinishes` is the
action property `ControllerRepaired`, from the same invariant.

`FirmwareProofs`, allocator: `BlocksUsable` is not inductive. `HeapInv` adds that
malloc's blocks lie apart from each other and in memory (`RawsApart`), and that
every block of the program lies in one of them, with room for the stored
pointer in front of it (`BlocksInside`). An aligned block's pointer is then
outside of every block, its own and the others', so that no `Write` reaches it
(`BlocksAreUsable`); and there are as many of one as of the other (`OneEach`), so that
what `rustscript_platform_dealloc` frees is that block's own and nothing else (`DeallocFrees`).
The arithmetic is that rounding up to a multiple of the alignment does not wrap
around, because of the check against `SIZE_MAX` before it.

`ReplProofs`, the driver: `SameAnswer` says that for every text the scanner and
`InputReference` give the same answer. Its invariant `Scanned` relates the scanner's
locals behind the i-th character to the text. `Located`: it is behind a token, or
in one whose end is still to come, and the mode is that token's kind. Two tokens
never overlap (`Apart`), so whether a place is code is decided by the token it is
in (`CodeIs`). `Listed`: what it kept is the code so far, in order. `Nested`: the
k-th delimiter on its stack is where the depth last rose from k - 1 to k, and the
depth has not fallen below k since; so a closing delimiter matches the top just when
there is something it closes (`RefusedIs`), and no delimiter further down or
already closed can be it. `ScanStep` has one case for each place the scanner can
be in. The recursive functions of both sides are unfolded with `Recursion`
(there is such a function) and `Upwards` (what is passed on from each number to the
next holds for all). With `SameAnswer`, `LoopInv` is inductive: what
is waiting is incomplete, and so was what was waiting at each of its newlines;
`WaitsForMore` and `WholeSnippets` follow.

`ReplProofs`, the session: the invariants are inductive together with `TypeOK`, which
says that locals that are gone or unset are bound ones and not both.
`RequiredStringsSafe` (`NullNeverTaken`) needs `RequiredNeverNull` of the snippets before: a
required local that is null is marked. `NothingMisread` then goes along the path: at
a place that reads a string, the last change before it is a store, or there is none and
the local is bound, not marked and so not null; a snippet that was cut off has
executed a beginning of the path. The core is
that the marks after a snippet are computed from what is null after it, so a
string that was moved in an earlier snippet and never set again is still null
and still marked. `LastFound` says that the last place of a name is last also among
those that change it, if it is one of them: after a complete run a mark then
stands for a null or for a copy.

`ScriptStoreProofs`: `OnlyWholeImagesRun` and `AckedSurvives` are not inductive
alone. `RamShape` says what the buffer holds while a command is served (in a
transfer no more than was announced, in an install exactly the image), and
`InstallShape` what the partition holds: after erasing it is blank, while the
payload is written the header is the new one and each part is either erased or
the new part. The lemmas `StoredCases`, `StoredImage`, `StoredNothing` and
`ErasedPart` say when a header and parts yield an image. `InstallAtomic` follows
for each of the three actions that touch the partition: erasing a part of an
image leaves nothing, erasing behind it leaves the image; a header over blank
parts yields nothing; and before the last write a part is still erased.
`StoreImplements` is the whole refinement, `Spec => ImplementsImageStore`, from the same
invariant: an erase drops what is kept or does not show (`WriteImplements`), the last
write keeps the new image, and `Installed` promises what is kept because a
content belongs to one image only (`OneContent`).

`WireProofs`, within the limits: `ReservationsBounded` needs that the frame's size
has been checked before anything is read (`SizeChecked`) and that nothing is open
before the magic (`Begun`). The arithmetic is in `CountBounded`; a map's items are
two values each.

`WireProofs`, `OnlyEncodingsAccepted`: what the decoder builds in many steps has
to be what the writer writes in many steps, for values of any shape. Instead of
an induction over values there are sequences of states of the writer (`Leads`),
which can be put one after the other (`LeadsOn`) and moved behind other cells and
in front of other values (`Framed`, `LeadsFramed`). `Spelled(vs, s, n, d)` says that
such a sequence writes exactly the values `vs` at depth `d` as the cells `s`. The
invariant `Faithful` says of the open lists, from the outermost on, that the
values each has so far are spelled by its cells, up to the tag and the length
of the next (`Level`), that its count was in the frame, and what came before the
outermost one (`Preamble`). A scalar adds a value to the innermost list, an opening adds an
empty list, and `CloseCollection` makes of the last one a value of the one
before (`CloseSound`): its cells are the head and then what spells the items.
At the end one list is left, and `SpelledIsWritten` turns its spelling into
`Written`.

`WireProofs`, `EverythingThatFitsArrives`: `InLockstep` says that the decoder of a
frame that was sent is always where its writer has been (`StepAt`): the offset and
the number of values are the writer's, and what the writer has left is, cut at
the places `pos`, what the open lists still have to read (`Due`). `Reached` runs
along the writer's states from the end backwards: what is left takes a cell for
each value, so there is always room for as many as a length says. `NextValue` is
then the value to come, in full, and `ValueReadable` that none of the decoder's
checks refuses it.

`Faithful` and `InLockstep` quantify over sequences of states and could not be
evaluated by TLC; the properties that follow from them were checked first.

Every invariant, action property and refinement that the runs check is proved.
Only model-checked is liveness (`EvalReturns`, `DeliveredIsAnswered`, both
`BoardReturnsToLoop`), because temporal reasoning with fairness and ENABLED is
outside the prover's reach. Where a proof needs an induction over numbers it is
written as the least counterexample (`LeastElement`, `Upwards`).

## 6. Not modelled

- The clock: `mcu::micros` and `mcu::millis` are 32 bits wide on the ESP32-C3
  (`host_framework.cpp` 318, 322) and wrap around after 71 minutes and 49 days,
  although `docs/framework-api.md` 112 calls them monotonic. No other state
  depends on them.
- The VM, the compiler, ESP-IDF, Arduino and the serial driver: external. They
  appear as nondeterministic outcomes.
- Whether the VM can return without having halted, which `vm_status` (`ffi.rs` 344)
  would report as finished, and whether a program can have more than 256 locals,
  of which `ffi.rs` 287 would overwrite the first: both are up to the VM crate.
- Schemas of locals and the retry of a snippet with a semicolon: what they mean
  is decided by the compiler crate. A scalar whose declaration a failing snippet
  did not reach comes back as Null and is not marked (`repl_client.rs` 295-298).
- That a session can grow until it fits a response but no request: the step is in
  `SessionOverFfi` (`Eval` with an error), and nothing promises otherwise; `.clear`
  is the way out.
- Corrupted fields of a request header, which have no checksum.
- Build scripts, CI, Arduino demo, simulator, examples: no state of the running
  system.
- The S31 bridge: its Wi-Fi and Bluetooth functions repeat those of the framework
  with fewer states.
