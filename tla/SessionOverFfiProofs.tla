-------------------------- MODULE SessionOverFfiProofs --------------------------
(* Proofs about a session behind the C interface: types, ownership of the       *)
(* output, sizes, and that the session implements SessionStore.                 *)
EXTENDS SessionOverFfi, StreamLemmas, FiniteSetTheorems

USE DEF Running

\* Which variables go together in a call: who is in it, and how far it is.  The
\* output is empty from the beginning of a call: it may return without one.
Flow ==
    /\ pc = "idle" => entry = "none" /\ vm = "none"
    /\ pc = "vm" => entry \in {"session", "script"} /\ vm # "none"
    /\ pc = "returned" => entry \in {"session", "other"} /\ vm # "running"
    /\ pc = "vm" /\ entry = "session" => out = Empty
    /\ pc = "returned" /\ vm = "none" => out = Empty

\* A snippet's names are at slots of the VM, each at its own, and what has been
\* returned is what is in the VM.
Placed ==
    Ours =>
        /\ DOMAIN locals \subseteq DOMAIN slot
        /\ \A n \in DOMAIN slot : slot[n] \in DOMAIN loc
        /\ \A n, m \in DOMAIN slot : slot[n] = slot[m] => n = m
        /\ pc = "returned" /\ out # Empty =>
              /\ mem[out].locals = loc
              /\ status = "ok" <=> vm = "halted"

Inv == TypeOK /\ BufferOwned /\ Flow /\ Placed

-----------------------------------------------------------------------------
\* Locals are indexed from 0.
LEMMA LocalsFunction ==
    ASSUME NEW l \in Locals
    PROVE  \E k \in 0..Slots : l \in [0..(k - 1) -> Value]
BY DEF Locals

LEMMA LocalsMade ==
    ASSUME NEW k \in 0..Slots, NEW l \in [0..(k - 1) -> Value]
    PROVE  l \in Locals
BY DEF Locals

\* What is copied out of a VM whose locals are values are these values.
LEMMA Copied ==
    ASSUME loc \in Locals
    PROVE  /\ \A i \in DOMAIN loc : Deref(loc[i]) = loc[i]
           /\ [i \in DOMAIN loc |-> Deref(loc[i])] = loc
<1>1. PICK k \in 0..Slots : loc \in [0..(k - 1) -> Value]
  BY LocalsFunction
<1>2. \A i \in DOMAIN loc : Deref(loc[i]) = loc[i]
  BY <1>1, KindsAssumption DEF Deref
<1>3. QED
  BY <1>1, <1>2

\* A local is replaced by a value.
LEMMA Replaced ==
    ASSUME NEW l \in Locals, NEW i \in DOMAIN l, NEW v \in Value
    PROVE  [l EXCEPT ![i] = v] \in Locals /\ DOMAIN [l EXCEPT ![i] = v] = DOMAIN l
<1>1. PICK k \in 0..Slots : l \in [0..(k - 1) -> Value]
  BY LocalsFunction
<1>2. [l EXCEPT ![i] = v] \in [0..(k - 1) -> Value]
  BY <1>1
<1>3. QED
  BY <1>1, <1>2, LocalsMade

\* The values a session sends with a snippet are those of its locals at the
\* slots of their names.
LEMMA SeedPlaced ==
    ASSUME TypeOK, NEW New \in SUBSET Name, NEW k \in 0..Slots,
           NEW s \in SlotMaps(DOMAIN locals \union New, k)
    PROVE  /\ Seed(s, k) \in Locals
           /\ [n \in DOMAIN s |-> Seed(s, k)[s[n]]]
                  = [n \in DOMAIN locals \union New |->
                        IF n \in DOMAIN locals THEN locals[n] ELSE Null]
           /\ DOMAIN s = DOMAIN locals \union New
           /\ \A n \in DOMAIN s : s[n] \in DOMAIN Seed(s, k)
           /\ \A n, m \in DOMAIN s : s[n] = s[m] => n = m
           /\ DOMAIN Seed(s, k) = 0..(k - 1)
<1>1. s \in [DOMAIN locals \union New -> 0..(k - 1)]
      /\ \A n, m \in DOMAIN locals \union New : s[n] = s[m] => n = m
  BY DEF SlotMaps
<1> DEFINE At(i) == {n \in DOMAIN locals : s[n] = i}
<1> DEFINE Held(i) == IF At(i) = {} THEN Null ELSE locals[CHOOSE n \in At(i) : TRUE]
<1>2. Seed(s, k) = [i \in 0..(k - 1) |-> Held(i)]
  BY DEF Seed
<1>3. ASSUME NEW i \in 0..(k - 1) PROVE Held(i) \in Value
  <2>1. CASE At(i) = {}
    BY <2>1 DEF Value
  <2>2. CASE At(i) # {}
    <3>1. (CHOOSE n \in At(i) : TRUE) \in At(i)
      BY <2>2
    <3>2. QED
      BY <2>2, <3>1 DEF TypeOK, Wire
  <2>3. QED
    BY <2>1, <2>2
<1>4. ASSUME NEW n \in DOMAIN locals PROVE Held(s[n]) = locals[n]
  <2>1. At(s[n]) = {n}
    BY <1>1
  <2>2. QED
    BY <2>1
<1>5. ASSUME NEW n \in DOMAIN s \ DOMAIN locals PROVE Held(s[n]) = Null
  <2>1. At(s[n]) = {}
    BY <1>1
  <2>2. QED
    BY <2>1
<1> HIDE DEF Held
<1>6. Seed(s, k) \in [0..(k - 1) -> Value]
  BY <1>2, <1>3
<1>7. [n \in DOMAIN s |-> Seed(s, k)[s[n]]]
          = [n \in DOMAIN locals \union New |->
                IF n \in DOMAIN locals THEN locals[n] ELSE Null]
  <2>1. \A n \in DOMAIN s :
           Seed(s, k)[s[n]] = IF n \in DOMAIN locals THEN locals[n] ELSE Null
    BY <1>1, <1>2, <1>4, <1>5
  <2>2. QED
    BY <1>1, <2>1
<1>8. QED
  BY <1>1, <1>2, <1>6, <1>7, LocalsMade

-----------------------------------------------------------------------------
\* Only a call that is accepted begins, and only in the session or a script.
LEMMA EvalInv ==
    ASSUME Inv, NEW New \in SUBSET Name, NEW k \in 0..Slots, NEW p \in Program,
           Eval(New, k, p)
    PROVE  Inv'
<1> USE DEF Inv
<1>1. PICK s \in SlotMaps(DOMAIN locals \union New, k) :
         \/ told' \in {"error", "size_error"} /\ UNCHANGED <<ffi, slot>>
         \/ /\ \E program \in {"corrupt", "good"}, state \in Arrives(Seed(s, k)) :
                  rustscript_repl_run_vmbc("session",
                      [output |-> TRUE, program |-> program, state |-> state,
                       counted |-> TRUE],
                      Seed(s, k))
            /\ slot' = s
            /\ told' = IF pc' = "vm" THEN "nothing" ELSE told
  BY DEF Eval
<1>2. pc = "idle" /\ locals' = locals
  BY DEF Eval
<1>3. CASE UNCHANGED <<ffi, slot>> /\ told' \in {"error", "size_error"}
  BY <1>2, <1>3 DEF ffi, TypeOK, FfiTypeOK, BufferOwned, Flow, Placed, Ours
<1>4. ASSUME NEW program \in {"corrupt", "good"}, NEW state \in Arrives(Seed(s, k)),
             rustscript_repl_run_vmbc("session",
                 [output |-> TRUE, program |-> program, state |-> state,
                  counted |-> TRUE],
                 Seed(s, k)),
             slot' = s,
             told' = IF pc' = "vm" THEN "nothing" ELSE told
      PROVE  Inv'
  <2> DEFINE args == [output |-> TRUE, program |-> program, state |-> state,
                      counted |-> TRUE]
  <2>1. Checked(args) \in {"accepted", "invalid_vmbc", "invalid_repl_state"}
    BY DEF Checked, Arrives
  <2>2. out' = Empty /\ iobuf' = iobuf /\ mem' = mem
    BY <1>4 DEF rustscript_repl_run_vmbc
  <2>3. \/ /\ pc' = "vm" /\ entry' = "session" /\ vm' = "running"
           /\ loc' = Seed(s, k) /\ status' = "none"
        \/ /\ pc' = "returned" /\ entry' = "session" /\ UNCHANGED <<vm, loc>>
           /\ status' \in {"invalid_vmbc", "invalid_repl_state"}
    BY <1>4, <2>1 DEF rustscript_repl_run_vmbc, Enter
  <2>4. FfiTypeOK'
    <3>1. Seed(s, k) \in Locals
      BY SeedPlaced
    <3>2. QED
      BY <2>2, <2>3, <3>1 DEF TypeOK, FfiTypeOK
  <2>5. DOMAIN s = DOMAIN locals \union New /\ \A n \in DOMAIN s : s[n] \in 0..(Slots - 1)
    BY SizesAssumption DEF SlotMaps
  <2>6. TypeOK'
    BY <1>2, <1>4, <2>4, <2>5 DEF TypeOK
  <2>7. BufferOwned'
    BY <1>2, <2>2, <2>3 DEF BufferOwned
  <2>8. Flow' /\ Placed'
    <3>1. /\ DOMAIN s = DOMAIN locals \union New
          /\ \A n \in DOMAIN s : s[n] \in DOMAIN Seed(s, k)
          /\ \A n, m \in DOMAIN s : s[n] = s[m] => n = m
      BY SeedPlaced
    <3>2. Flow'
      BY <1>2, <2>2, <2>3 DEF Flow
    <3>3. Placed'
      BY <1>2, <1>4, <2>3, <3>1 DEF Flow, Placed, Ours
    <3>4. QED
      BY <3>2, <3>3
  <2>9. QED
    BY <2>6, <2>7, <2>8
<1>5. QED
  BY <1>1, <1>3, <1>4

LEMMA InsideInv ==
    ASSUME Inv, Inside, UNCHANGED session
    PROVE  Inv'
<1> USE DEF Inv
<1>a. loc \in Locals /\ locals' = locals /\ slot' = slot /\ told' = told
  BY DEF TypeOK, FfiTypeOK, session
<1>1. ASSUME NEW i \in DOMAIN loc, NEW v \in Value, Store(i, v) PROVE Inv'
  <2>1. loc' \in Locals /\ DOMAIN loc' = DOMAIN loc
    BY <1>a, <1>1, Replaced DEF Store
  <2>2. QED
    BY <1>a, <1>1, <2>1 DEF Store, TypeOK, FfiTypeOK, BufferOwned, Flow, Placed, Ours
<1>2. ASSUME NEW i \in DOMAIN loc, NEW j \in DOMAIN loc, MoveLocal(i, j) PROVE Inv'
  <2>1. loc[i] \in Value /\ Null \in Value
    BY <1>a, LocalsFunction DEF Value
  <2>2. [loc EXCEPT ![j] = loc[i]] \in Locals /\ DOMAIN [loc EXCEPT ![j] = loc[i]] = DOMAIN loc
    BY <1>a, <2>1, Replaced
  <2>3. loc' = [[loc EXCEPT ![j] = loc[i]] EXCEPT ![i] = Null]
    BY <1>2 DEF MoveLocal
  <2>4. loc' \in Locals /\ DOMAIN loc' = DOMAIN loc
    BY <2>1, <2>2, <2>3, Replaced
  <2>5. QED
    BY <1>a, <1>2, <2>4 DEF MoveLocal, TypeOK, FfiTypeOK, BufferOwned, Flow, Placed, Ours
<1>3. ASSUME NEW i \in DOMAIN loc, NEW j \in DOMAIN loc, dispatch_host(i, j) PROVE Inv'
  <2>1. iobuf' \in {Null} \union Scalar
    BY <1>3 DEF dispatch_host, TypeOK, FfiTypeOK
  <2>2. \A result \in {Io, Null} \union Scalar : to_embedded(result, iobuf') \in Value
    BY <2>1 DEF to_embedded, Value
  <2>3. loc' \in Locals /\ DOMAIN loc' = DOMAIN loc
    <3>1. \/ loc' = loc
          \/ \E result \in {Io, Null} \union Scalar :
                loc' = [loc EXCEPT ![j] = to_embedded(result, iobuf')]
      BY <1>3 DEF dispatch_host, HostError
    <3>2. QED
      BY <1>a, <2>2, <3>1, Replaced
  <2>4. vm' \in {"running", "host_error"} /\ vm = "running"
        /\ UNCHANGED <<pc, entry, out, mem, status>>
    BY <1>3 DEF dispatch_host, HostError
  <2>5. QED
    BY <1>3, <1>a, <2>1, <2>3, <2>4
    DEF dispatch_host, TypeOK, FfiTypeOK, BufferOwned, Flow, Placed, Ours
<1>4. ASSUME NEW how \in {"halted", "out_of_fuel", "vm_error"}, Stop(how) PROVE Inv'
  BY <1>a, <1>4 DEF Stop, TypeOK, FfiTypeOK, BufferOwned, Flow, Placed, Ours
<1>5. CASE ReturnResponse
  <2>1. pc = "vm" /\ vm # "running" /\ entry = "session"
    BY <1>5 DEF ReturnResponse, Flow
  <2>2. PICK result \in Value \union {Empty} :
          LET response == [locals |-> [i \in DOMAIN loc |-> Deref(loc[i])], result |-> result]
          IN  \/ /\ Encodes(response)
                 /\ \E a \in Addr \ DOMAIN mem :
                       /\ out' = a
                       /\ mem' = [b \in DOMAIN mem \union {a} |->
                                     IF b = a THEN response ELSE mem[b]]
                 /\ status' = vm_status
              \/ /\ ~Encodes(response)
                 /\ status' = "invalid_repl_state"
                 /\ UNCHANGED <<out, mem>>
    BY <1>5 DEF ReturnResponse
  <2> DEFINE response == [locals |-> [i \in DOMAIN loc |-> Deref(loc[i])], result |-> result]
  <2>3. response.locals = loc
    BY <1>a, Copied
  <2>4. pc' = "returned" /\ UNCHANGED <<entry, vm, loc, iobuf>>
    BY <1>5 DEF ReturnResponse
  <2>5. DOMAIN mem = {}
    BY <2>1 DEF BufferOwned
  <2>6. CASE ~Encodes(response)
    <3>1. out = Empty /\ out' = out /\ mem' = mem /\ status' = "invalid_repl_state"
      BY <2>1, <2>2, <2>6 DEF Flow
    <3>2. QED
      BY <1>a, <2>1, <2>4, <2>5, <3>1 DEF TypeOK, FfiTypeOK, BufferOwned, Flow, Placed, Ours
  <2>7. ASSUME Encodes(response) PROVE Inv'
    <3>1. response \in Response
      <4>1. PICK k \in 0..Slots : loc \in [0..(k - 1) -> Value]
        BY <1>a, LocalsFunction
      <4>2. \A i \in DOMAIN loc : loc[i] \in Wire
        BY <2>3, <2>7 DEF Encodes
      <4>3. loc \in [0..(k - 1) -> Wire]
        BY <4>1, <4>2
      <4>4. result \in Wire \union {Empty}
        BY <2>7 DEF Encodes
      <4>5. QED
        BY <2>3, <4>3, <4>4 DEF Response
    <3>2. PICK a \in Addr : out' = a /\ mem' = [b \in {a} |-> response]
      BY <2>2, <2>5, <2>7
    <3>3. a # Empty
      BY KindsAssumption
    <3>4. status' = vm_status
      BY <2>2, <2>7
    <3>5. status' \in {"ok", "out_of_fuel", "host_error", "vm_error"}
          /\ (status' = "ok" <=> vm = "halted")
      BY <3>4 DEF vm_status
    <3>6. TypeOK' /\ BufferOwned' /\ Flow'
      BY <1>a, <2>1, <2>4, <3>1, <3>2, <3>3, <3>5 DEF TypeOK, FfiTypeOK, BufferOwned, Flow
    <3>7. mem'[out'].locals = loc'
      BY <2>3, <2>4, <3>2
    <3>8. Placed'
      BY <1>a, <2>1, <2>4, <3>5, <3>7 DEF Placed, Ours, Flow
    <3>9. QED
      BY <3>6, <3>8
  <2>8. QED
    BY <2>6, <2>7
<1>6. CASE ReturnStatus
  <2>1. vm_status \in {"ok", "out_of_fuel", "host_error", "vm_error"}
    BY DEF vm_status
  <2>2. <<>> \in Locals
    BY SizesAssumption DEF Locals
  <2>3. QED
    BY <1>a, <1>6, <2>1, <2>2
    DEF ReturnStatus, TypeOK, FfiTypeOK, BufferOwned, Flow, Placed, Ours
<1>7. QED
  BY <1>1, <1>2, <1>3, <1>4, <1>5, <1>6 DEF Inside

LEMMA ReceiveInv ==
    ASSUME Inv, Receive
    PROVE  Inv'
<1> USE DEF Inv
<1>1. /\ pc = "returned" /\ pc' = "idle" /\ entry' = "none" /\ vm' = "none" /\ loc' = <<>>
      /\ mem' = [a \in DOMAIN mem \ {out} |-> mem[a]]
      /\ status' = "none" /\ UNCHANGED <<iobuf, out>>
      /\ slot' = <<>>
  BY DEF Receive, rustscript_buffer_free
<1>2. <<>> \in Locals
  BY SizesAssumption DEF Locals
<1>3. DOMAIN mem' = {}
  BY <1>1 DEF BufferOwned
<1>4. DOMAIN locals' \subseteq Name /\ \A n \in DOMAIN locals' : locals'[n] \in Wire
  <2>1. CASE locals' = locals
    BY <2>1 DEF TypeOK
  <2>2. CASE out # Empty /\ locals' = Synced(mem[out])
    <3>1. out \in DOMAIN mem
      BY <1>1, <2>2 DEF BufferOwned
    <3>2. mem[out] \in Response
      BY <3>1 DEF TypeOK, FfiTypeOK
    <3>3. Ours
      BY <1>1, <2>2 DEF Ours, Flow, Receive
    <3>4. \A n \in DOMAIN slot : slot[n] \in DOMAIN mem[out].locals
      BY <1>1, <2>2, <3>3 DEF Placed
    <3>5. \A i \in DOMAIN mem[out].locals : mem[out].locals[i] \in Wire
      BY <3>2 DEF Response
    <3>6. QED
      BY <2>2, <3>4, <3>5 DEF TypeOK, Synced
  <2>3. QED
    BY <2>1, <2>2 DEF Receive
<1>5. told' \in {"ok", "error", "size_error"}
  BY DEF Receive
<1>6. TypeOK'
  BY <1>1, <1>2, <1>3, <1>4, <1>5 DEF TypeOK, FfiTypeOK
<1>7. QED
  BY <1>1, <1>3, <1>6 DEF BufferOwned, Flow, Placed, Ours

LEMMA OtherInv ==
    ASSUME Inv, Other
    PROVE  Inv'
<1> USE DEF Inv
<1>a. locals' = locals /\ slot' = slot /\ told' = told
  BY DEF Other, session
<1>b. <<>> \in Locals
  BY SizesAssumption DEF Locals
<1>1. ASSUME NEW args \in Args, Checked(args) # "accepted",
             rustscript_repl_run_vmbc("other", args, <<>>)
      PROVE  Inv'
  <2>1. Checked(args) \in {"invalid_argument", "invalid_vmbc", "invalid_repl_state"}
    BY <1>1 DEF Checked
  <2>2. /\ pc = "idle" /\ UNCHANGED <<iobuf, mem, vm, loc>>
        /\ status' = Checked(args)
        /\ \/ pc' = "returned" /\ entry' = "other" /\ out' = Empty
           \/ pc' = "idle" /\ entry' = "none" /\ out' = out
    BY <1>1 DEF rustscript_repl_run_vmbc
  <2>3. QED
    BY <1>a, <2>1, <2>2 DEF TypeOK, FfiTypeOK, BufferOwned, Flow, Placed, Ours
<1>2. ASSUME NEW program \in Bytes, rustscript_run_vmbc(program) PROVE Inv'
  <2>1. ASSUME NEW k \in 0..Slots PROVE [i \in 0..(k - 1) |-> Null] \in Locals
    BY LocalsMade DEF Value
  <2>2. pc = "idle" /\ UNCHANGED <<iobuf, out, mem>>
    BY <1>2 DEF rustscript_run_vmbc
  <2>3. \/ /\ pc' = "vm" /\ entry' = "script" /\ vm' = "running" /\ loc' \in Locals
           /\ status' = "none"
        \/ status' \in {"invalid_vmbc", "invalid_argument"}
           /\ UNCHANGED <<pc, entry, vm, loc>>
    BY <1>2, <2>1 DEF rustscript_run_vmbc, Enter
  <2>4. QED
    BY <1>a, <2>2, <2>3 DEF TypeOK, FfiTypeOK, BufferOwned, Flow, Placed, Ours
<1>3. CASE entry = "other" /\ rustscript_buffer_free
  <2>1. /\ pc = "returned" /\ pc' = "idle" /\ entry' = "none" /\ vm' = "none"
        /\ loc' = <<>> /\ mem' = [a \in DOMAIN mem \ {out} |-> mem[a]]
        /\ status' = "none" /\ UNCHANGED <<iobuf, out>>
    BY <1>3 DEF rustscript_buffer_free
  <2>2. DOMAIN mem' = {}
    BY <2>1 DEF BufferOwned
  <2>3. QED
    BY <1>a, <1>b, <2>1, <2>2 DEF TypeOK, FfiTypeOK, BufferOwned, Flow, Placed, Ours
<1>4. QED
  BY <1>1, <1>2, <1>3 DEF Other

LEMMA InitInv == SessionInit => Inv
<1>1. <<>> \in Locals
  BY SizesAssumption DEF Locals
<1>2. QED
  BY <1>1 DEF SessionInit, Init, Inv, TypeOK, FfiTypeOK, BufferOwned, Flow, Placed, Ours

LEMMA NextInv == Inv /\ [Next]_vars => Inv'
<1> SUFFICES ASSUME Inv, [Next]_vars PROVE Inv'
  OBVIOUS
<1>1. CASE EvalFails \/ Clear
  BY <1>1 DEF EvalFails, Clear, ffi, Inv, TypeOK, FfiTypeOK, BufferOwned, Flow, Placed, Ours
<1>2. CASE UNCHANGED vars
  BY <1>2 DEF vars, ffi, session, Inv, TypeOK, FfiTypeOK, BufferOwned, Flow, Placed, Ours
<1>3. QED
  BY <1>1, <1>2, EvalInv, InsideInv, ReceiveInv, OtherInv DEF Next

LEMMA Invariance == Spec => []Inv
BY InitInv, NextInv, PTL DEF Spec

\* Types are kept: in particular no local of the VM ever refers to the host
\* framework's buffer, and what the session holds can be sent again.
THEOREM TypeCorrect == Spec => []TypeOK
BY Invariance, PTL DEF Inv

\* Nothing that is allocated for a caller is lost or freed twice.
THEOREM OutputOwned == Spec => []BufferOwned
BY Invariance, PTL DEF Inv

-----------------------------------------------------------------------------
(* The two ends agree on sizes. *)

\* A state has a size, and it is not empty: it begins with a header.
LEMMA StateSizes ==
    ASSUME NEW k \in Nat, NEW l \in [0..(k - 1) -> Wire]
    PROVE  StateSize(l) \in Nat /\ StateSize(l) >= Header
<1>1. Cardinality(DOMAIN l) = k
  <2>1. Cardinality(0..(k - 1)) = IF 0 > k - 1 THEN 0 ELSE (k - 1) - 0 + 1
    BY FS_Interval
  <2>2. QED
    BY <2>1
<1> DEFINE add == [i \in 0..(k - 1) |-> Size[l[i]]]
           sum == CHOOSE f : f = [i \in 0..k |-> IF i = 0 THEN Header ELSE f[i - 1] + add[i - 1]]
<1>2. \A i \in 0..(k - 1) : add[i] \in Nat
  BY SizesAssumption
<1>3. \A i \in 0..k : sum[i] \in Nat /\ sum[i] >= Header
  <2> HIDE DEF add
  <2>1. QED
    BY <1>2, SizesAssumption, RunningSum
<1>4. \A f : [i \in 0..k |-> IF i = 0 THEN Header ELSE f[i - 1] + add[i - 1]]
               = [i \in 0..k |-> IF i = 0 THEN Header ELSE f[i - 1] + Size[l[i - 1]]]
  OBVIOUS
<1>5. StateSize(l) = sum[k]
  BY <1>1, <1>4 DEF StateSize
<1>6. QED
  <2> HIDE DEF sum
  <2>1. k \in 0..k
    OBVIOUS
  <2>2. QED
    BY <1>3, <1>5, <2>1

\* A response has a size.
LEMMA ResponseSizes ==
    ASSUME NEW response \in Response
    PROVE  ResponseSize(response) \in Nat
<1>1. PICK k \in 0..Slots : response.locals \in [0..(k - 1) -> Wire]
  BY DEF Response
<1>2. StateSize(response.locals) \in Nat
  BY <1>1, StateSizes, SizesAssumption
<1>3. response.result # Empty => Size[response.result] \in Nat
  BY SizesAssumption DEF Response
<1>4. QED
  BY <1>2, <1>3 DEF ResponseSize

\* What a session sends is a state.
LEMMA SeedSizes ==
    ASSUME TypeOK, NEW New \in SUBSET Name, NEW k \in 0..Slots,
           NEW s \in SlotMaps(DOMAIN locals \union New, k)
    PROVE  StateSize(Seed(s, k)) \in Nat \ {0}
<1>1. ASSUME NEW i \in 0..(k - 1) PROVE Seed(s, k)[i] \in Wire
  <2> DEFINE At == {n \in DOMAIN locals : s[n] = i}
  <2>1. Seed(s, k)[i] = IF At = {} THEN Null ELSE locals[CHOOSE n \in At : TRUE]
    BY DEF Seed
  <2>2. At # {} => locals[CHOOSE n \in At : TRUE] \in Wire
    BY DEF TypeOK
  <2>3. Null \in Wire
    BY KindsAssumption DEF Wire, Value
  <2>4. QED
    BY <2>1, <2>2, <2>3
<1>2. Seed(s, k) \in [0..(k - 1) -> Wire]
  BY <1>1 DEF Seed
<1>3. StateSize(Seed(s, k)) \in Nat /\ StateSize(Seed(s, k)) >= Header
  BY <1>2, StateSizes, SizesAssumption
<1>4. QED
  BY <1>3, SizesAssumption

\* A request that the client lets through passes the board's checks: neither
\* of its parts is empty, and the difference that the board computes does not
\* wrap.
LEMMA BoardTakesWhatFits ==
    ASSUME NEW p \in Program, NEW size \in Nat \ {0}, FitsRequest(p, size)
    PROVE  BoardTakes(p, size)
BY ProgramAssumption, SizesAssumption DEF FitsRequest, BoardTakes

\* A response that the client will receive is one that it takes.
Bounded == \A a \in DOMAIN mem : ResponseSize(mem[a]) <= Limit

LEMMA BoundedStep ==
    ASSUME Inv, Bounded, [Next]_vars
    PROVE  Bounded'
<1>1. CASE mem' = mem
  BY <1>1 DEF Bounded
<1>2. CASE rustscript_buffer_free
  BY <1>2 DEF rustscript_buffer_free, Bounded
<1>3. CASE ReturnResponse
  <2>1. CASE mem' = mem
    BY <2>1, <1>1
  <2>2. ASSUME NEW response, Encodes(response), NEW a \in Addr \ DOMAIN mem,
               mem' = [b \in DOMAIN mem \union {a} |->
                          IF b = a THEN response ELSE mem[b]]
        PROVE  Bounded'
    BY <2>2 DEF Bounded, Encodes
  <2>3. QED
    BY <1>3, <2>1, <2>2 DEF ReturnResponse
<1>4. ASSUME NEW New \in SUBSET Name, NEW k \in 0..Slots, NEW p \in Program, Eval(New, k, p)
      PROVE  mem' = mem
  BY <1>4 DEF Eval, rustscript_repl_run_vmbc, ffi
<1>5. CASE Inside
  <2>1. CASE ReturnResponse
    BY <2>1, <1>3
  <2>2. CASE ~ReturnResponse
    <3>1. mem' = mem
      BY <1>5, <2>2 DEF Inside, Store, MoveLocal, dispatch_host, Stop, ReturnStatus
    <3>2. QED
      BY <3>1, <1>1
  <2>3. QED
    BY <2>1, <2>2
<1>6. CASE Receive
  BY <1>6, <1>2 DEF Receive
<1>7. CASE Other
  <2>1. mem' = mem \/ rustscript_buffer_free
    BY <1>7 DEF Other, rustscript_repl_run_vmbc, rustscript_run_vmbc
  <2>2. QED
    BY <2>1, <1>1, <1>2
<1>8. CASE EvalFails \/ Clear \/ UNCHANGED vars
  <2>1. mem' = mem
    BY <1>8 DEF EvalFails, Clear, vars, ffi
  <2>2. QED
    BY <2>1, <1>1
<1>9. QED
  BY <1>1, <1>4, <1>5, <1>6, <1>7, <1>8 DEF Next

LEMMA AgreeStep ==
    ASSUME Inv, Bounded, SizesAgree, [Next]_vars
    PROVE  SizesAgree'
<1>1. ASSUME NEW New \in SUBSET Name, NEW k \in 0..Slots, NEW p \in Program, Eval(New, k, p)
      PROVE  SizesAgree'
  <2>1. PICK s \in SlotMaps(DOMAIN locals \union New, k) :
           \/ told' = "error"
           \/ /\ FitsRequest(p, StateSize(Seed(s, k)))
              /\ ~BoardTakes(p, StateSize(Seed(s, k)))
           \/ told' = IF pc' = "vm" THEN "nothing" ELSE told
    BY <1>1 DEF Eval
  <2>2. FitsRequest(p, StateSize(Seed(s, k))) => BoardTakes(p, StateSize(Seed(s, k)))
    BY SeedSizes, BoardTakesWhatFits DEF Inv
  <2>3. QED
    BY <2>1, <2>2 DEF SizesAgree
<1>2. CASE Receive
  <2>1. pc = "returned"
    BY <1>2 DEF Receive, rustscript_buffer_free
  <2>2. out # Empty => mem[out] \in Response /\ ResponseSize(mem[out]) <= Limit
    BY <2>1 DEF Inv, TypeOK, FfiTypeOK, BufferOwned, Bounded
  <2>3. ~ (out # Empty /\ ResponseSize(mem[out]) > Limit)
    BY <2>2, ResponseSizes, SizesAssumption
  <2>4. QED
    BY <1>2, <2>3 DEF Receive, SizesAgree
<1>3. QED
  BY <1>1, <1>2 DEF Next, EvalFails, Clear, Other, session, vars, SizesAgree

\* What one end sends never has too many bytes for the other: the client's check
\* of a request implies the board's, although they are written differently, and
\* the encoder's check of a response implies the client's.  Whether the decoders
\* then take the values is another matter (Arrives, Decodes).
THEOREM SizesNeverDisagree == Spec => []SizesAgree
<1>1. SessionInit => Bounded /\ SizesAgree
  BY DEF SessionInit, Init, Bounded, SizesAgree
<1>2. ASSUME Inv, Bounded, SizesAgree, [Next]_vars PROVE (Bounded /\ SizesAgree)'
  BY <1>2, BoundedStep, AgreeStep
<1>3. QED
  BY <1>1, <1>2, Invariance, PTL DEF Spec

-----------------------------------------------------------------------------
(* The session implements SessionStore. *)

\* While a snippet is run, its copy is in the VM: no local refers elsewhere.
LEMMA PlainLocals ==
    ASSUME NEW l \in Locals, NEW i \in DOMAIN l
    PROVE  l[i] # Io
BY LocalsFunction, KindsAssumption

\* One local is replaced: if it has a name, the name is assigned.
LEMMA AssignOne ==
    ASSUME NEW l \in Locals, NEW s, \A n \in DOMAIN s : s[n] \in DOMAIN l,
           \A n, m \in DOMAIN s : s[n] = s[m] => n = m,
           NEW i \in DOMAIN l, NEW v
    PROVE  LET before == [n \in DOMAIN s |-> l[s[n]]]
               after  == [n \in DOMAIN s |-> [l EXCEPT ![i] = v][s[n]]]
           IN  \/ (\A n \in DOMAIN s : s[n] # i) /\ after = before
               \/ \E n \in DOMAIN s : s[n] = i /\ after = [before EXCEPT ![n] = v]
<1>1. PICK k \in 0..Slots : l \in [0..(k - 1) -> Value]
  BY LocalsFunction
<1>2. CASE \A n \in DOMAIN s : s[n] # i
  BY <1>1, <1>2
<1>3. ASSUME NEW n \in DOMAIN s, s[n] = i
      PROVE  [m \in DOMAIN s |-> [l EXCEPT ![i] = v][s[m]]]
                 = [[m \in DOMAIN s |-> l[s[m]]] EXCEPT ![n] = v]
  <2>1. \A m \in DOMAIN s : m # n => s[m] # i
    BY <1>3
  <2>2. QED
    BY <1>1, <1>3, <2>1
<1>4. QED
  BY <1>2, <1>3

\* What a snippet does to the VM's locals, in terms of its names.
Works(l, s) == [n \in DOMAIN s |-> l[s[n]]]

LEMMA OursWork ==
    ASSUME Inv, Ours
    PROVE  /\ AbstractWork = Works(loc, slot)
           /\ DOMAIN AbstractWork = DOMAIN slot
           /\ loc \in Locals /\ \A n \in DOMAIN slot : slot[n] \in DOMAIN loc
           /\ \A n, m \in DOMAIN slot : slot[n] = slot[m] => n = m
<1>1. loc \in Locals /\ \A n \in DOMAIN slot : slot[n] \in DOMAIN loc
  BY DEF Inv, TypeOK, FfiTypeOK, Placed
<1>2. \A n \in DOMAIN slot : Deref(loc[slot[n]]) = loc[slot[n]]
  BY <1>1, PlainLocals DEF Deref
<1>3. AbstractWork = Works(loc, slot)
  BY <1>2 DEF AbstractWork, Works
<1>4. QED
  BY <1>1, <1>3 DEF Works, Inv, Placed

LEMMA OursWorkNext ==
    ASSUME Inv', Ours'
    PROVE  AbstractWork' = Works(loc', slot')
<1>1. loc' \in Locals /\ \A n \in DOMAIN slot' : slot'[n] \in DOMAIN loc'
  BY DEF Inv, TypeOK, FfiTypeOK, Placed
<1>2. \A n \in DOMAIN slot' : Deref(loc[slot[n]])' = loc'[slot'[n]]
  BY <1>1, PlainLocals DEF Deref
<1>3. QED
  BY <1>2 DEF AbstractWork, Works

\* A VM local of a snippet is replaced by a value.
LEMMA StoreImplements ==
    ASSUME Inv, Inv', Ours, vm = "running", UNCHANGED <<entry, vm, session>>,
           NEW i \in DOMAIN loc, NEW v \in Value, loc' = [loc EXCEPT ![i] = v]
    PROVE  [Abstract!Next]_Abstract!vars
<1>1. Ours' /\ AbstractPhase = "running" /\ AbstractPhase' = AbstractPhase
      /\ AbstractTold' = AbstractTold /\ locals' = locals
  BY DEF Ours, AbstractPhase, AbstractTold, session
<1>2. AbstractWork' = Works([loc EXCEPT ![i] = v], slot)
  BY <1>1, OursWorkNext DEF session
<1>3. \/ AbstractWork' = AbstractWork
      \/ \E n \in DOMAIN slot : AbstractWork' = [AbstractWork EXCEPT ![n] = v]
  BY <1>2, OursWork, AssignOne DEF Works
<1>4. CASE AbstractWork' = AbstractWork
  BY <1>1, <1>4 DEF Abstract!vars
<1>5. ASSUME NEW n \in DOMAIN slot, AbstractWork' = [AbstractWork EXCEPT ![n] = v]
      PROVE  Abstract!Next
  <2>1. Abstract!Assign(n, v)
    BY <1>1, <1>5 DEF Abstract!Assign
  <2>2. QED
    BY <2>1, OursWork DEF Abstract!Next
<1>6. QED
  BY <1>3, <1>4, <1>5

\* A move between two slots is one between names where both slots have one.
LEMMA MoveImplements ==
    ASSUME Inv, Inv', Ours, UNCHANGED session,
           NEW i \in DOMAIN loc, NEW j \in DOMAIN loc, MoveLocal(i, j)
    PROVE  [Abstract!Next]_Abstract!vars
<1>1. Ours' /\ AbstractPhase = "running" /\ AbstractPhase' = AbstractPhase
      /\ AbstractTold' = AbstractTold /\ locals' = locals
  BY DEF MoveLocal, Ours, AbstractPhase, AbstractTold, session
<1>2. PICK k \in 0..Slots : loc \in [0..(k - 1) -> Value]
  BY OursWork, LocalsFunction
<1> DEFINE after == [loc EXCEPT ![j] = loc[i], ![i] = Null]
<1>3. AbstractWork' = Works(after, slot)
  BY <1>1, OursWorkNext DEF MoveLocal, session
<1>4. i # j /\ Null \in Value /\ loc[i] \in Value
  BY <1>2 DEF MoveLocal, Value
<1>5. /\ AbstractWork = Works(loc, slot)
      /\ \A n \in DOMAIN slot : slot[n] \in DOMAIN loc
      /\ \A n, m \in DOMAIN slot : slot[n] = slot[m] => n = m
  BY OursWork
<1>6. ASSUME NEW n \in DOMAIN slot, NEW m \in DOMAIN slot, slot[n] = i, slot[m] = j
      PROVE  Abstract!Next
  <2>1. n # m /\ \A o \in DOMAIN slot : o # n /\ o # m => slot[o] # i /\ slot[o] # j
    BY <1>4, <1>5, <1>6
  <2>2. Works(after, slot)
            = [AbstractWork EXCEPT ![m] = AbstractWork[n], ![n] = Null]
    BY <1>2, <1>4, <1>5, <1>6, <2>1 DEF Works
  <2>3. Abstract!Move(n, m)
    BY <1>1, <1>3, <2>1, <2>2 DEF Abstract!Move
  <2>4. QED
    BY <2>3, OursWork DEF Abstract!Next
<1>7. ASSUME NEW n \in DOMAIN slot, slot[n] = i, \A m \in DOMAIN slot : slot[m] # j
      PROVE  Abstract!Next
  <2>1. \A o \in DOMAIN slot : o # n => slot[o] # i
    BY <1>5, <1>7
  <2>2. Works(after, slot) = [AbstractWork EXCEPT ![n] = Null]
    BY <1>2, <1>4, <1>5, <1>7, <2>1 DEF Works
  <2>3. Abstract!Assign(n, Null)
    BY <1>1, <1>3, <2>2 DEF Abstract!Assign
  <2>4. QED
    BY <1>4, <2>3, OursWork DEF Abstract!Next
<1>8. ASSUME NEW m \in DOMAIN slot, slot[m] = j, \A n \in DOMAIN slot : slot[n] # i
      PROVE  Abstract!Next
  <2>1. \A o \in DOMAIN slot : o # m => slot[o] # j
    BY <1>5, <1>8
  <2>2. Works(after, slot) = [AbstractWork EXCEPT ![m] = loc[i]]
    BY <1>2, <1>4, <1>5, <1>8, <2>1 DEF Works
  <2>3. Abstract!Assign(m, loc[i])
    BY <1>1, <1>3, <2>2 DEF Abstract!Assign
  <2>4. QED
    BY <1>4, <2>3, OursWork DEF Abstract!Next
<1>9. CASE \A n \in DOMAIN slot : slot[n] # i /\ slot[n] # j
  <2>1. Works(after, slot) = AbstractWork
    BY <1>2, <1>5, <1>9 DEF Works
  <2>2. QED
    BY <1>1, <1>3, <2>1 DEF Abstract!vars
<1>10. QED
  BY <1>6, <1>7, <1>8, <1>9

\* A step that leaves the snippet's copy in place.
LEMMA CopyKept ==
    ASSUME Inv, Inv', Ours, Ours', UNCHANGED <<loc, session>>
    PROVE  AbstractWork' = AbstractWork
BY OursWork, OursWorkNext DEF session, Works

LEMMA InsideImplements ==
    ASSUME Inv, Inv', Inside, UNCHANGED session
    PROVE  [Abstract!Next]_Abstract!vars
<1>a. locals' = locals /\ slot' = slot /\ AbstractTold' = AbstractTold
  BY DEF session, AbstractTold
<1>1. CASE ~Ours
  <2>1. entry # "session" /\ pc = "vm"
    BY <1>1 DEF Inside, Store, MoveLocal, dispatch_host, Stop, ReturnResponse,
                ReturnStatus, Inv, Flow, Ours
  <2>2. entry' # "session"
    BY <2>1 DEF Inside, Store, MoveLocal, dispatch_host, Stop, ReturnResponse, ReturnStatus
  <2>3. QED
    BY <1>a, <2>1, <2>2 DEF Ours, AbstractPhase, AbstractWork, Abstract!vars
<1>2. ASSUME Ours, NEW i \in DOMAIN loc, NEW v \in Value, Store(i, v)
      PROVE  [Abstract!Next]_Abstract!vars
  BY <1>2, StoreImplements DEF Store, session
<1>3. ASSUME Ours, NEW i \in DOMAIN loc, NEW j \in DOMAIN loc, MoveLocal(i, j)
      PROVE  [Abstract!Next]_Abstract!vars
  BY <1>3, MoveImplements
<1>b. ASSUME Ours, vm = "running", vm' \in {"halted", "host_error", "out_of_fuel", "vm_error"},
             entry' = entry, loc' = loc
      PROVE  Abstract!Next
  <2>1. Ours' /\ AbstractPhase = "running" /\ AbstractPhase' \in {"complete", "broken"}
    BY <1>b DEF Ours, AbstractPhase
  <2>2. AbstractWork' = AbstractWork
    BY <1>b, <2>1, CopyKept DEF session
  <2>3. QED
    BY <1>a, <2>1, <2>2 DEF Abstract!Next, Abstract!Stop
<1>4. ASSUME Ours, NEW i \in DOMAIN loc, NEW j \in DOMAIN loc, dispatch_host(i, j)
      PROVE  [Abstract!Next]_Abstract!vars
  <2>1. iobuf' \in {Null} \union Scalar /\ vm = "running" /\ entry' = entry
    BY <1>4 DEF dispatch_host, Inv, TypeOK, FfiTypeOK
  <2>2. CASE HostError
    BY <1>b, <1>4, <2>1, <2>2 DEF HostError
  <2>3. CASE UNCHANGED <<vm, loc>>
    <3>1. Ours' /\ AbstractPhase' = AbstractPhase
      BY <1>4, <2>1, <2>3 DEF Ours, AbstractPhase
    <3>2. QED
      BY <1>a, <1>4, <2>3, <3>1, CopyKept DEF session, Abstract!vars
  <2>4. ASSUME NEW result \in {Io, Null} \union Scalar,
               loc' = [loc EXCEPT ![j] = to_embedded(result, iobuf')], vm' = vm
        PROVE  [Abstract!Next]_Abstract!vars
    <3>1. to_embedded(result, iobuf') \in Value
      BY <2>1 DEF to_embedded, Value
    <3>2. QED
      BY <1>4, <2>1, <2>4, <3>1, StoreImplements DEF session
  <2>5. QED
    BY <1>4, <2>2, <2>3, <2>4 DEF dispatch_host
<1>5. ASSUME Ours, NEW how \in {"halted", "out_of_fuel", "vm_error"}, Stop(how)
      PROVE  [Abstract!Next]_Abstract!vars
  BY <1>b, <1>5 DEF Stop
<1>6. CASE Ours /\ ReturnResponse
  <2>1. Ours' /\ AbstractPhase' = AbstractPhase /\ loc' = loc
    BY <1>6 DEF ReturnResponse, Ours, AbstractPhase
  <2>2. QED
    BY <1>a, <1>6, <2>1, CopyKept DEF session, Abstract!vars
<1>7. CASE Ours /\ ReturnStatus
  BY <1>7 DEF ReturnStatus, Ours
<1>8. QED
  BY <1>1, <1>2, <1>3, <1>4, <1>5, <1>6, <1>7 DEF Inside

\* A call that is accepted begins a snippet, on the values that the last one
\* left; one that is not leaves everything as it is.
LEMMA EvalImplements ==
    ASSUME Inv, Inv', NEW New \in SUBSET Name, NEW k \in 0..Slots, NEW p \in Program,
           Eval(New, k, p)
    PROVE  [Abstract!Next]_Abstract!vars
<1>1. PICK s \in SlotMaps(DOMAIN locals \union New, k) :
         \/ told' \in {"error", "size_error"} /\ UNCHANGED <<ffi, slot>>
         \/ /\ \E program \in {"corrupt", "good"}, state \in Arrives(Seed(s, k)) :
                  rustscript_repl_run_vmbc("session",
                      [output |-> TRUE, program |-> program, state |-> state,
                       counted |-> TRUE],
                      Seed(s, k))
            /\ slot' = s
            /\ told' = IF pc' = "vm" THEN "nothing" ELSE told
  BY DEF Eval
<1>2. locals' = locals /\ ~Ours /\ vm = "none"
  BY DEF Eval, Inv, Flow, Ours
<1>3. AbstractPhase = "idle" /\ AbstractWork = locals
  BY <1>2 DEF AbstractPhase, AbstractWork
<1>4. CASE told' \in {"error", "size_error"} /\ UNCHANGED <<ffi, slot>>
  <2>1. ~Ours'
    BY <1>2, <1>4 DEF ffi, Ours
  <2>2. Abstract!Refuse
    BY <1>2, <1>3, <1>4, <2>1
    DEF Abstract!Refuse, AbstractPhase, AbstractWork, AbstractTold
  <2>3. QED
    BY <2>2 DEF Abstract!Next
<1>5. ASSUME NEW program \in {"corrupt", "good"}, NEW state \in Arrives(Seed(s, k)),
             rustscript_repl_run_vmbc("session",
                 [output |-> TRUE, program |-> program, state |-> state,
                  counted |-> TRUE],
                 Seed(s, k)),
             slot' = s,
             told' = IF pc' = "vm" THEN "nothing" ELSE told
      PROVE  [Abstract!Next]_Abstract!vars
  <2>1. \/ pc' = "vm" /\ entry' = "session" /\ vm' = "running" /\ loc' = Seed(s, k)
        \/ pc' = "returned" /\ vm' = vm
    BY <1>5 DEF rustscript_repl_run_vmbc, Enter
  <2>2. CASE pc' = "returned" /\ vm' = vm
    <3>1. ~Ours' /\ told' = told
      BY <1>2, <1>5, <2>2 DEF Ours
    <3>2. QED
      BY <1>2, <3>1 DEF Ours, AbstractPhase, AbstractWork, AbstractTold, Abstract!vars
  <2>3. CASE pc' = "vm" /\ entry' = "session" /\ vm' = "running" /\ loc' = Seed(s, k)
    <3>1. Ours' /\ AbstractPhase' = "running" /\ AbstractTold' = "nothing"
      BY <1>5, <2>3 DEF Ours, AbstractPhase, AbstractTold
    <3>2. AbstractWork' = [n \in DOMAIN s |-> Seed(s, k)[s[n]]]
      BY <1>5, <2>3, <3>1, OursWorkNext DEF Works
    <3>3. [n \in DOMAIN s |-> Seed(s, k)[s[n]]]
              = [n \in DOMAIN locals \union New |->
                    IF n \in DOMAIN locals THEN locals[n] ELSE Null]
      BY SeedPlaced DEF Inv
    <3>4. AbstractWork' = [n \in DOMAIN locals \union New |->
                              IF n \in DOMAIN locals THEN locals[n] ELSE Null]
      BY <3>2, <3>3
    <3>5. Abstract!Begin(New)
      BY <1>2, <1>3, <3>1, <3>4 DEF Abstract!Begin
    <3>6. QED
      BY <3>5 DEF Abstract!Next
  <2>4. QED
    BY <2>1, <2>2, <2>3
<1>6. QED
  BY <1>1, <1>4, <1>5

\* What came back is the snippet's copy, and it is taken over as a whole, or
\* nothing came back and nothing is.
LEMMA ReceiveImplements ==
    ASSUME Inv, Inv', Receive
    PROVE  [Abstract!Next]_Abstract!vars
<1>1. pc = "returned" /\ entry = "session" /\ vm # "running" /\ ~Ours'
  BY DEF Receive, rustscript_buffer_free, Inv, Flow, Ours
<1>2. AbstractPhase' = "idle" /\ AbstractWork' = locals'
  BY <1>1 DEF AbstractPhase, AbstractWork
<1>3. \/ told' \in {"error", "size_error"} /\ locals' = locals
      \/ /\ out # Empty
         /\ told' = IF status = "ok" THEN "ok" ELSE "error"
         /\ locals' = Synced(mem[out])
  BY DEF Receive
<1>4. CASE vm = "none"
  <2>1. out = Empty /\ ~Ours
    BY <1>1, <1>4 DEF Inv, Flow, Ours
  <2>2. Abstract!Refuse
    BY <1>2, <1>3, <2>1
    DEF Abstract!Refuse, AbstractPhase, AbstractWork, AbstractTold
  <2>3. QED
    BY <2>2 DEF Abstract!Next
<1>5. CASE vm # "none" /\ told' \in {"error", "size_error"} /\ locals' = locals
  <2>1. AbstractPhase \in {"complete", "broken"}
    BY <1>1, <1>5 DEF Ours, AbstractPhase
  <2>2. Abstract!Abort
    BY <1>2, <1>5, <2>1 DEF Abstract!Abort, AbstractTold
  <2>3. QED
    BY <2>2 DEF Abstract!Next
<1>6. CASE /\ vm # "none" /\ out # Empty
           /\ told' = IF status = "ok" THEN "ok" ELSE "error"
           /\ locals' = Synced(mem[out])
  <2>1. Ours
    BY <1>1, <1>6 DEF Ours
  <2>2. mem[out].locals = loc /\ (status = "ok" <=> vm = "halted")
    BY <1>1, <1>6, <2>1 DEF Inv, Placed
  <2>3. locals' = AbstractWork
    BY <1>6, <2>1, <2>2, OursWork DEF Synced, Works
  <2>4. AbstractPhase = IF vm = "halted" THEN "complete" ELSE "broken"
    BY <1>1, <2>1 DEF AbstractPhase
  <2>5. AbstractTold' = IF vm = "halted" THEN "ok" ELSE "error"
    BY <1>6, <2>2 DEF AbstractTold
  <2>6. Abstract!Commit
    BY <1>2, <2>3, <2>4, <2>5 DEF Abstract!Commit
  <2>7. QED
    BY <2>6 DEF Abstract!Next
<1>7. QED
  BY <1>3, <1>4, <1>5, <1>6

\* Nobody else's call shows.
LEMMA OtherImplements ==
    ASSUME Inv, Other
    PROVE  UNCHANGED Abstract!vars
<1>1. ~Ours /\ ~Ours'
  BY DEF Other, rustscript_repl_run_vmbc, rustscript_run_vmbc, Enter, rustscript_buffer_free,
         Inv, Flow, Ours
<1>2. QED
  BY <1>1 DEF Other, session, AbstractPhase, AbstractWork, AbstractTold, Abstract!vars

\* A session behind the C interface implements SessionStore: its user sees one
\* environment of names, whatever slots, buffers and other callers do.
THEOREM SessionImplements == Spec => ImplementsSessionStore
<1>1. SessionInit => Abstract!Init
  BY DEF SessionInit, Init, Abstract!Init, Ours, AbstractPhase, AbstractWork, AbstractTold
<1>2. ASSUME Inv, Inv', [Next]_vars PROVE [Abstract!Next]_Abstract!vars
  <2>1. CASE EvalFails
    <3>1. ~Ours /\ ~Ours'
      BY <1>2, <2>1 DEF EvalFails, ffi, Inv, Flow, Ours
    <3>2. Abstract!Refuse
      BY <2>1, <3>1
      DEF EvalFails, Abstract!Refuse, AbstractPhase, AbstractWork, AbstractTold
    <3>3. QED
      BY <3>2 DEF Abstract!Next
  <2>2. CASE Clear
    <3>1. ~Ours /\ ~Ours'
      BY <1>2, <2>2 DEF Clear, ffi, Inv, Flow, Ours
    <3>2. Abstract!Clear
      BY <2>2, <3>1
      DEF Clear, Abstract!Clear, AbstractPhase, AbstractWork, AbstractTold
    <3>3. QED
      BY <3>2 DEF Abstract!Next
  <2>3. CASE UNCHANGED vars
    BY <2>3 DEF vars, ffi, session, Abstract!vars, Ours, AbstractPhase, AbstractWork,
                AbstractTold, Deref
  <2>4. QED
    BY <1>2, <2>1, <2>2, <2>3, EvalImplements, InsideImplements, ReceiveImplements,
       OtherImplements DEF Next
<1>3. QED
  BY <1>1, <1>2, Invariance, PTL DEF Spec, ImplementsSessionStore, Abstract!Spec

=================================================================================
