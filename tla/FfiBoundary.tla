------------------------------ MODULE FfiBoundary ------------------------------
(***************************************************************************)
(* The C interface to the VM (src/src/ffi.rs).  Two things cross it that   *)
(* neither side's compiler can check: memory, which Rust allocates and the *)
(* C caller gives back, and pointers into the host framework's static      *)
(* buffer, which the next host call overwrites.                            *)
(*                                                                         *)
(* The VM is external: a program stores values, moves them, calls host     *)
(* functions, and stops.  A caller has one variable for the output and     *)
(* uses it for every call; it frees what it is given, as script_loader.cpp *)
(* and the tests do.                                                       *)
(***************************************************************************)
EXTENDS Integers, FiniteSets

CONSTANTS
    Null,
    Scalar,     \* numbers, strings and bytes: they pass to host functions
    Compound,   \* arrays and maps: they pass only to the wire
    Callable,   \* they pass nowhere
    Size,       \* the bytes a value takes on the wire
    Header,     \* magic and count
    Limit,      \* MAX_WIRE_BYTES; MAX_FRAME_BYTES and REPL_MAX_FRAME_SIZE are equal to it
    Slots,      \* bound: locals of a program
    Addr,       \* where the allocator may place a response
    Io,         \* a pointer to the host framework's io_buffer
    Empty       \* RustScriptBuffer::empty, and a response without a result

Value == {Null} \union Scalar \union Compound \union Callable
Wire == Value \ Callable
Locals == UNION {[0..(k - 1) -> Value] : k \in 0..Slots}

ASSUME KindsAssumption ==
    /\ Null \notin Callable /\ Scalar \cap Callable = {} /\ Compound \cap Callable = {}
    /\ Io \notin Value /\ Empty \notin Value \union Addr
ASSUME SizesAssumption ==
    /\ Size \in [Wire -> Nat] /\ Header \in Nat \ {0} /\ Limit \in Nat /\ Slots \in Nat

VARIABLES
    pc,      \* "idle", "vm" (inside a call), "returned" (with an output)
    entry,   \* who called: "session", "other" or "script" (no output)
    vm,      \* "none", "running", or how it stopped
    loc,     \* vm.locals; kept until the caller is done
    iobuf,   \* what is in io_buffer
    out,     \* the caller's RustScriptBuffer
    mem,     \* the responses that are allocated, by address
    status   \* what the last call returned, until its caller is done

ffi == <<pc, entry, vm, loc, iobuf, out, mem, status>>

Init ==
    /\ pc = "idle" /\ entry = "none"
    /\ vm = "none" /\ loc = <<>>
    /\ iobuf = Null
    /\ out = Empty /\ mem = <<>>
    /\ status = "none"

-----------------------------------------------------------------------------
(* Calls *)

\* A pointer and a length: missing, empty, bytes that do not decode (or for
\* which there is no memory), or good ones.
Bytes == {"null", "empty", "corrupt", "good"}
Args == [output : BOOLEAN, program : Bytes, state : Bytes, counted : BOOLEAN]

\* The checks of a call, in their order.
Checked(args) ==
    CASE ~args.output -> "invalid_argument"
      [] args.output /\ {args.program, args.state} \cap {"null", "empty"} # {} ->
             "invalid_argument"
      [] OTHER -> IF args.program = "corrupt" THEN "invalid_vmbc"
                  ELSE IF args.state = "corrupt" \/ ~args.counted THEN "invalid_repl_state"
                  ELSE "accepted"

\* The VM begins with the locals it is given.
Enter(who, locals) ==
    /\ pc' = "vm" /\ entry' = who
    /\ vm' = "running" /\ loc' = locals
    /\ status' = "none"

\* Mutant: the output is not touched until there is something to write.
rustscript_repl_run_vmbc_late_output(who, args, locals) ==
    /\ pc = "idle"
    /\ UNCHANGED <<iobuf, mem, out>>
    /\ \/ Checked(args) = "accepted" /\ Enter(who, locals)
       \/ /\ Checked(args) # "accepted"
          /\ status' = Checked(args)
          /\ pc' = (IF args.output THEN "returned" ELSE "idle")
          /\ entry' = (IF args.output THEN who ELSE "none")
          /\ UNCHANGED <<vm, loc>>

\* The call up to vm.run.  Whatever the caller's output held is overwritten
\* first, so that a call that is refused returns an empty one.
rustscript_repl_run_vmbc(who, args, locals) ==
    /\ pc = "idle"
    /\ out' = IF args.output THEN Empty ELSE out
    /\ UNCHANGED <<iobuf, mem>>
    /\ \/ Checked(args) = "accepted" /\ Enter(who, locals)
       \/ /\ Checked(args) # "accepted"
          /\ status' = Checked(args)
          /\ pc' = (IF args.output THEN "returned" ELSE "idle")
          /\ entry' = (IF args.output THEN who ELSE "none")
          /\ UNCHANGED <<vm, loc>>

\* A stored script, with no locals to begin with and no output.
rustscript_run_vmbc(program) ==
    /\ pc = "idle"
    /\ \/ /\ program = "good"
          /\ \E k \in 0..Slots : Enter("script", [i \in 0..(k - 1) |-> Null])
       \/ /\ program # "good"
          /\ status' = IF program = "corrupt" THEN "invalid_vmbc" ELSE "invalid_argument"
          /\ UNCHANGED <<pc, entry, vm, loc>>
    /\ UNCHANGED <<iobuf, out, mem>>

-----------------------------------------------------------------------------
(* Inside the VM *)

Running == pc = "vm" /\ vm = "running"

Store(i, v) ==
    /\ Running
    /\ loc' = [loc EXCEPT ![i] = v]
    /\ UNCHANGED <<pc, entry, vm, iobuf, out, mem, status>>

MoveLocal(i, j) ==
    /\ Running /\ i # j
    /\ loc' = [loc EXCEPT ![j] = loc[i], ![i] = Null]
    /\ UNCHANGED <<pc, entry, vm, iobuf, out, mem, status>>

\* What a value or a host function's result refers to.
Deref(v) == IF v = Io THEN iobuf ELSE v

\* Mutant: the value refers to the result's bytes.
to_embedded_borrows(result, buffer) == result

\* The bytes that a result points to are copied into the value.
to_embedded(result, buffer) == IF result = Io THEN buffer ELSE result

\* from_embedded: arrays, maps and callables have no C form.
Passable(v) == v \notin Compound \union Callable

HostError ==
    /\ vm' = "host_error"
    /\ UNCHANGED loc

\* The program passes local a to a host function and keeps what it returns in
\* local r.  The framework's functions that return bytes put them into
\* io_buffer.  A function may also return nothing, fail, or return what is no
\* value.  A missing callback fails like a function that does.
dispatch_host(a, r) ==
    /\ Running
    /\ UNCHANGED <<pc, entry, out, mem, status>>
    /\ \/ ~Passable(Deref(loc[a])) /\ HostError /\ UNCHANGED iobuf
       \/ /\ Passable(Deref(loc[a]))
          /\ \/ UNCHANGED iobuf
             \/ iobuf' \in Scalar
          /\ \/ UNCHANGED <<vm, loc>>
             \/ HostError
             \/ /\ \E result \in {Io, Null} \union Scalar :
                      loc' = [loc EXCEPT ![r] = to_embedded(result, iobuf')]
                /\ UNCHANGED vm

\* vm.run returns.
Stop(how) ==
    /\ Running
    /\ vm' = how
    /\ UNCHANGED <<pc, entry, loc, iobuf, out, mem, status>>

vm_status ==
    CASE vm = "halted" -> "ok"
      [] vm = "out_of_fuel" -> "out_of_fuel"
      [] vm = "host_error" -> "host_error"
      [] OTHER -> "vm_error"

-----------------------------------------------------------------------------
(* Returns *)

\* A header, and one local after the other.
StateSize(locals) ==
    LET written[i \in 0..Cardinality(DOMAIN locals)] ==
            IF i = 0 THEN Header ELSE written[i - 1] + Size[locals[i - 1]]
    IN  written[Cardinality(DOMAIN locals)]

\* A byte says whether there is a result.
ResponseSize(response) ==
    StateSize(response.locals) + 1
        + (IF response.result = Empty THEN 0 ELSE Size[response.result])

\* embedded_to_repl copies everything and refuses callables; the encoder
\* refuses what is too large.
Encodes(response) ==
    /\ \A i \in DOMAIN response.locals : response.locals[i] \in Wire
    /\ response.result \in Wire \union {Empty}
    /\ ResponseSize(response) <= Limit

\* The rest of rustscript_repl_run_vmbc.  Of the stack only a program that
\* halted leaves a result.  A response is forgotten here and lives on.
ReturnResponse ==
    /\ pc = "vm" /\ vm # "running" /\ entry # "script"
    /\ pc' = "returned"
    /\ UNCHANGED <<entry, vm, loc, iobuf>>
    /\ \E result \in IF vm = "halted" THEN Value \union {Empty} ELSE {Empty} :
          LET response == [locals |-> [i \in DOMAIN loc |-> Deref(loc[i])], result |-> result]
          IN  \/ /\ Encodes(response)
                 /\ \E a \in Addr \ DOMAIN mem :
                       /\ out' = a
                       /\ mem' = [b \in DOMAIN mem \union {a} |->
                                     IF b = a THEN response ELSE mem[b]]
                 /\ status' = vm_status
              \/ /\ ~Encodes(response)
                 /\ status' = "invalid_repl_state"
                 /\ UNCHANGED <<out, mem>>

ReturnStatus ==
    /\ pc = "vm" /\ vm # "running" /\ entry = "script"
    /\ pc' = "idle" /\ entry' = "none"
    /\ vm' = "none" /\ loc' = <<>>
    /\ status' = vm_status
    /\ UNCHANGED <<iobuf, out, mem>>

\* The caller is done with its output.  It is passed by value: the caller's
\* variable still holds the pointer.
rustscript_buffer_free ==
    /\ pc = "returned"
    /\ pc' = "idle" /\ entry' = "none"
    /\ vm' = "none" /\ loc' = <<>>
    /\ mem' = [a \in DOMAIN mem \ {out} |-> mem[a]]
    /\ status' = "none"
    /\ UNCHANGED <<iobuf, out>>

-----------------------------------------------------------------------------
\* What goes on inside a call.
Inside ==
    \/ \E i \in DOMAIN loc, v \in Value : Store(i, v)
    \/ \E i, j \in DOMAIN loc : MoveLocal(i, j) \/ dispatch_host(i, j)
    \/ \E how \in {"halted", "out_of_fuel", "vm_error"} : Stop(how)
    \/ ReturnResponse \/ ReturnStatus

-----------------------------------------------------------------------------
(* Properties *)

Response == [locals : UNION {[0..(k - 1) -> Wire] : k \in 0..Slots},
             result : Wire \union {Empty}]

\* Every variable stays within its type; in particular no local of the VM
\* refers to the host framework's buffer.
FfiTypeOK ==
    /\ pc \in {"idle", "vm", "returned"}
    /\ entry \in {"none", "session", "other", "script"}
    /\ vm \in {"none", "running", "halted", "out_of_fuel", "host_error", "vm_error"}
    /\ loc \in Locals
    /\ iobuf \in {Null} \union Scalar
    /\ out \in Addr \union {Empty}
    /\ \A a \in DOMAIN mem : a \in Addr /\ mem[a] \in Response
    /\ status \in {"none", "ok", "invalid_argument", "invalid_vmbc", "host_error",
                   "out_of_fuel", "vm_error", "invalid_repl_state"}

\* Memory crosses the interface without loss: when a call returns, the output
\* owns the one response that is allocated, or is empty and there is none; once
\* the caller has freed it nothing is left, whatever its variable still holds
\* when it is used for the next call.
BufferOwned ==
    DOMAIN mem = IF pc = "returned" THEN {out} \ {Empty} ELSE {}

================================================================================
