---------------------------- MODULE FirmwareProofs ----------------------------
(***************************************************************************)
(* Theorems about the two parts of the firmware below the interpreter: the *)
(* host functions with state (HostFramework), for any number of pins,      *)
(* channels and failing platform calls, and the heap (PlatformAlloc), for  *)
(* any memory, layouts and placement by malloc.                            *)
(***************************************************************************)
EXTENDS HostFramework, PlatformAlloc, StreamLemmas, FiniteSetTheorems

-----------------------------------------------------------------------------
(* PWM *)

\* What the search for a channel returns: the pin's own channel if it has one,
\* a free one otherwise, and none only if there is none.
LEMMA ChannelFound ==
    ASSUME NEW p \in Pin, NEW c, c = pwm_channel_for_pin(p)
    PROVE  /\ c \in Channel \union {0}
           /\ c # 0 => \/ pwm_pins[c] = p
                       \/ pwm_pins[c] = Free /\ \A d \in Channel : pwm_pins[d] # p
<1> DEFINE mine == {d \in Channel : pwm_pins[d] = p}
           free == {d \in Channel : pwm_pins[d] = Free}
           From == IF mine # {} THEN mine ELSE free
<1>1. c = IF From = {} THEN 0 ELSE CHOOSE x \in From : \A y \in From : x <= y
  BY DEF pwm_channel_for_pin
<1>2. From \subseteq Channel
  OBVIOUS
<1>3. Channel \subseteq Nat
  BY ChannelsAssumption DEF Channel
<1>4. CASE From = {}
  BY <1>1, <1>4
<1>5. CASE From # {}
  <2>1. \E x \in From : \A y \in From : x <= y
    <3> HIDE DEF From
    <3> QED BY <1>2, <1>3, <1>5, LeastElement
  <2>2. c \in From
    <3> HIDE DEF From
    <3> QED BY <1>1, <1>5, <2>1
  <2> QED
    BY <1>2, <2>2
<1> QED
  BY <1>4, <1>5

\* The three invariants are inductive together: that a driver which has been
\* brought up is known to be is what keeps it from being brought up again.
Inv == TypeOK /\ ChannelsExclusive /\ DriverOnStation

LEMMA InitInv == Init => Inv
<1> SUFFICES ASSUME Init PROVE Inv
  OBVIOUS
<1>1. TypeOK
  <2>1. pwm_pins \in [Channel -> Pin \union {Free}] /\ drives \in [Pin -> Channel \union {0}]
    BY DEF Init
  <2>2. last \in [op : {"none", "pwm", "connect", "query", "local_ip", "enable",
                        "disable"},
                  ok : BOOLEAN, value : Nat]
    BY DEF Init
  <2>3. faults \in 0..MaxFaults
    BY FaultsAssumption DEF Init
  <2> QED
    BY <2>1, <2>2, <2>3 DEF Init, TypeOK
<1>2. ChannelsExclusive
  BY DEF Init, ChannelsExclusive
<1>3. DriverOnStation
  BY DEF Init, DriverOnStation
<1> QED
  BY <1>1, <1>2, <1>3 DEF Inv

\* A setup of one pin, done or failed, leaves every other pin its channel.
LEMMA PwmWriteInv ==
    ASSUME Inv, NEW p \in Pin, PwmWrite(p)
    PROVE  Inv'
<1> USE DEF Inv
<1> DEFINE c == pwm_channel_for_pin(p)
<1>1. /\ c \in Channel \union {0}
      /\ c # 0 => \/ pwm_pins[c] = p
                  \/ pwm_pins[c] = Free /\ \A d \in Channel : pwm_pins[d] # p
  BY ChannelFound
<1>2. /\ pwm_pins' = IF c = 0 THEN pwm_pins ELSE [pwm_pins EXCEPT ![c] = p]
      /\ \/ c # 0 /\ drives' = [drives EXCEPT ![p] = c]
         \/ drives' = drives
      /\ \E b \in BOOLEAN : last' = [op |-> "pwm", ok |-> b, value |-> c]
      /\ faults' = faults \/ Fault
      /\ UNCHANGED <<wifi, bt>>
  BY DEF PwmWrite, Returns
<1> HIDE DEF c
<1>3. TypeOK'
  <2>1. pwm_pins' \in [Channel -> Pin \union {Free}] /\ drives' \in [Pin -> Channel \union {0}]
    BY <1>1, <1>2 DEF TypeOK
  <2>2. c \in Nat
    BY <1>1, ChannelsAssumption DEF Channel
  <2>3. last' \in [op : {"none", "pwm", "connect", "query", "local_ip", "enable",
                         "disable"},
                   ok : BOOLEAN, value : Nat]
    BY <1>2, <2>2
  <2>4. faults' \in 0..MaxFaults
    BY <1>2, FaultsAssumption DEF TypeOK, Fault
  <2> QED
    BY <1>2, <2>1, <2>3, <2>4 DEF TypeOK, wifi
<1>4. ChannelsExclusive'
  <2>1. \A d \in Channel : d # c => pwm_pins'[d] = pwm_pins[d]
    BY <1>2 DEF TypeOK
  <2>2. c # 0 => pwm_pins'[c] = p /\ \A d \in Channel : d # c => pwm_pins[d] # p
    BY <1>1, <1>2, PinAssumption DEF TypeOK, ChannelsExclusive, Free
  <2>3. ASSUME NEW d \in Channel, NEW e \in Channel, d # e, pwm_pins'[d] = pwm_pins'[e]
        PROVE  pwm_pins'[d] = Free
    BY <1>1, <1>2, <2>1, <2>2, <2>3 DEF ChannelsExclusive
  <2>4. ASSUME NEW q \in Pin, drives'[q] # 0
        PROVE  pwm_pins'[drives'[q]] = q
    <3>1. CASE q = p /\ drives' # drives
      BY <1>2, <2>2, <3>1 DEF TypeOK
    <3>2. CASE drives'[q] = drives[q]
      <4>1. pwm_pins[drives[q]] = q /\ drives[q] \in Channel
        BY <2>4, <3>2 DEF ChannelsExclusive, TypeOK
      <4>2. drives[q] = c => q = p
        BY <1>1, <4>1, <2>4, <3>2, PinAssumption DEF Free
      <4> QED
        BY <1>2, <2>1, <2>2, <2>4, <3>2, <4>1, <4>2
    <3> QED
      BY <1>2, <3>1, <3>2 DEF TypeOK
  <2> QED
    BY <2>3, <2>4 DEF ChannelsExclusive
<1>5. DriverOnStation'
  BY <1>2 DEF DriverOnStation, wifi
<1> QED
  BY <1>3, <1>4, <1>5

-----------------------------------------------------------------------------
(* Wi-Fi and the controller *)

\* A retry brings the driver up only if it is not, and then on an interface.
LEMMA WifiConnectInv == Inv /\ WifiConnect => Inv'
<1> SUFFICES ASSUME Inv, WifiConnect PROVE Inv'
  OBVIOUS
<1> USE DEF Inv
<1>1. PICK up \in BOOLEAN, accepted \in BOOLEAN :
        /\ InitializeWifi(up)
        /\ Returns("connect", up /\ accepted, 0)
        /\ IF up /\ accepted THEN UNCHANGED faults ELSE Fault
  BY DEF WifiConnect
<1>2. UNCHANGED <<pwm, bt>>
  BY DEF WifiConnect
<1>3. /\ wifi_initialized' \in BOOLEAN /\ wifi_station' \in BOOLEAN
      /\ wifi_inits' \in Nat
      /\ DriverOnStation'
  <2>1. CASE wifi_initialized
    BY <1>1, <2>1 DEF InitializeWifi, wifi, TypeOK, DriverOnStation
  <2>2. CASE ~ wifi_initialized
    <3>1. wifi_inits = 0
      BY <2>2 DEF TypeOK, DriverOnStation
    <3>2. PICK stack \in BOOLEAN, interface \in BOOLEAN, driver \in BOOLEAN :
            /\ up = (stack /\ interface /\ driver)
            /\ wifi_station' = IF stack THEN interface ELSE wifi_station
            /\ wifi_initialized' = up
            /\ wifi_inits' = IF up THEN wifi_inits + 1 ELSE wifi_inits
      BY <1>1, <2>2 DEF InitializeWifi
    <3> QED
      BY <3>1, <3>2 DEF TypeOK, DriverOnStation
  <2> QED
    BY <2>1, <2>2 DEF TypeOK
<1>4. last' \in [op : {"none", "pwm", "connect", "query", "local_ip", "enable",
                       "disable"},
                 ok : BOOLEAN, value : Nat]
  BY <1>1 DEF Returns
<1>5. faults' \in 0..MaxFaults
  BY <1>1, FaultsAssumption DEF TypeOK, Fault
<1>6. TypeOK'
  BY <1>2, <1>3, <1>4, <1>5 DEF TypeOK, pwm
<1>7. ChannelsExclusive'
  BY <1>2 DEF ChannelsExclusive, pwm
<1> QED
  BY <1>3, <1>6, <1>7

\* What enabling and disabling leave is one of the controller's states.
LEMMA BluetoothInv == Inv /\ (BluetoothEnable \/ BluetoothDisable) => Inv'
<1> SUFFICES ASSUME Inv, BluetoothEnable \/ BluetoothDisable PROVE Inv'
  OBVIOUS
<1> USE DEF Inv
<1>1. /\ bt' \in {"idle", "inited", "enabled"}
      /\ faults' = faults \/ Fault
      /\ \E o \in {"enable", "disable"}, b \in BOOLEAN :
            last' = [op |-> o, ok |-> b, value |-> 0]
      /\ UNCHANGED <<pwm, wifi>>
  <2>1. CASE BluetoothEnable
    BY <2>1 DEF BluetoothEnable, Try, Counted, Returns, TypeOK
  <2>2. CASE BluetoothDisable
    BY <2>2 DEF BluetoothDisable, Try, Counted, Returns, TypeOK
  <2> QED
    BY <2>1, <2>2
<1>2. faults' \in 0..MaxFaults
  BY <1>1, FaultsAssumption DEF TypeOK, Fault
<1>3. TypeOK'
  BY <1>1, <1>2 DEF TypeOK, pwm, wifi
<1> QED
  BY <1>1, <1>3 DEF ChannelsExclusive, DriverOnStation, pwm, wifi

LEMMA NextInv == Inv /\ [Next]_vars => Inv'
<1> SUFFICES ASSUME Inv, [Next]_vars PROVE Inv'
  OBVIOUS
<1>1. CASE \E p \in Pin : PwmWrite(p)
  BY <1>1, PwmWriteInv
<1>2. CASE WifiConnect
  BY <1>2, WifiConnectInv
<1>3. CASE WifiQuery \/ WifiLocalIp
  <2>1. last' \in [op : {"none", "pwm", "connect", "query", "local_ip", "enable",
                         "disable"},
                   ok : BOOLEAN, value : Nat]
    <3>1. CASE WifiQuery
      BY <3>1 DEF WifiQuery, Returns, Inv, TypeOK
    <3>2. CASE WifiLocalIp
      <4>1. PICK addr \in 0..1 :
              Returns("local_ip", TRUE,
                      IF wifi_station /\ wifi_initialized THEN addr ELSE 0)
        BY <3>2 DEF WifiLocalIp
      <4> QED
        BY <4>1 DEF Returns
    <3> QED
      BY <1>3, <3>1, <3>2
  <2>2. UNCHANGED <<pwm, wifi, bt, faults>>
    BY <1>3 DEF WifiQuery, WifiLocalIp
  <2> QED
    BY <2>1, <2>2 DEF Inv, TypeOK, ChannelsExclusive, DriverOnStation, pwm, wifi
<1>4. CASE BluetoothEnable \/ BluetoothDisable
  BY <1>4, BluetoothInv
<1>5. CASE Restart
  <2>1. TypeOK'
    BY <1>5 DEF Restart, Returns, Inv, TypeOK
  <2>2. ChannelsExclusive' /\ DriverOnStation'
    BY <1>5 DEF Restart, ChannelsExclusive, DriverOnStation
  <2> QED
    BY <2>1, <2>2 DEF Inv
<1>6. CASE UNCHANGED vars
  BY <1>6 DEF vars, pwm, wifi, Inv, TypeOK, ChannelsExclusive, DriverOnStation
<1> QED
  BY <1>1, <1>2, <1>3, <1>4, <1>5, <1>6 DEF Next

LEMMA InvHolds == Spec => []Inv
BY InitInv, NextInv, PTL DEF Spec

-----------------------------------------------------------------------------
(* The controller is repaired *)

\* Every call of the driver that a script's enable makes is made in the state
\* that it needs, so that a call without a failure gets through.
LEMMA EnableRepairs ==
    ASSUME TypeOK, BluetoothEnable, last'.ok \/ faults' = faults
    PROVE  bt' = "enabled"
<1>1. PICK fails \in SUBSET {"idle", "inited"} :
        LET status == IF bt = "idle" THEN Try("idle", "inited", fails) ELSE bt
        IN  /\ bt' = IF status = "inited" THEN Try("inited", "enabled", fails) ELSE status
            /\ Counted({bt, status} \cap fails # {})
  BY DEF BluetoothEnable
<1>2. last'.ok = (bt' = "enabled")
  BY DEF BluetoothEnable, Returns
<1>3. CASE last'.ok
  BY <1>2, <1>3
<1>4. CASE faults' = faults
  <2>1. ~ Fault
    BY <1>4 DEF Fault, TypeOK
  <2> QED
    BY <1>1, <2>1 DEF Counted, Try, TypeOK
<1> QED
  BY <1>3, <1>4

LEMMA DisableRepairs ==
    ASSUME TypeOK, BluetoothDisable, last'.ok \/ faults' = faults
    PROVE  bt' = "idle"
<1>1. PICK fails \in SUBSET {"enabled", "inited"} :
        LET status == IF bt = "enabled" THEN Try("enabled", "inited", fails) ELSE bt
        IN  /\ bt' = IF status = "inited" THEN Try("inited", "idle", fails) ELSE status
            /\ Counted({bt, status} \cap fails # {})
            /\ last'.ok = ({bt, status} \cap fails = {})
  BY DEF BluetoothDisable, Returns
<1>2. ~ Fault \/ last'.ok
  BY DEF Fault, TypeOK
<1> QED
  BY <1>1, <1>2 DEF Counted, Try, TypeOK

LEMMA OpOfStep ==
    ASSUME [Next]_vars
    PROVE  \/ BluetoothEnable /\ last'.op = "enable"
           \/ BluetoothDisable /\ last'.op = "disable"
           \/ last'.op \notin {"enable", "disable"}
           \/ UNCHANGED vars
<1>1. CASE \E p \in Pin : PwmWrite(p)
  BY <1>1 DEF PwmWrite, Returns
<1>2. CASE WifiConnect
  BY <1>2 DEF WifiConnect, Returns
<1>3. CASE WifiQuery
  BY <1>3 DEF WifiQuery, Returns
<1>4. CASE WifiLocalIp
  BY <1>4 DEF WifiLocalIp, Returns
<1>5. CASE BluetoothEnable
  BY <1>5 DEF BluetoothEnable, Returns
<1>6. CASE BluetoothDisable
  BY <1>6 DEF BluetoothDisable, Returns
<1>7. CASE Restart
  BY <1>7 DEF Restart, Returns
<1> QED
  BY <1>1, <1>2, <1>3, <1>4, <1>5, <1>6, <1>7 DEF Next

-----------------------------------------------------------------------------
(* Arithmetic of alignment *)

LEMMA Division ==
    ASSUME NEW x \in Nat, NEW a \in Nat \ {0}
    PROVE  \E q \in Nat : \E r \in 0..(a - 1) : x = a * q + r /\ r = x % a
<1>1. x % a \in 0..(a - 1)
  OBVIOUS
<1>2. PICK q \in Int, r \in Int : x = a * q + r /\ r = x % a
  OBVIOUS
<1>3. q >= 0
  <2>1. CASE q <= -1
    <3>1. a * q <= a * (-1)
      BY <2>1, Z3
    <3> QED
      BY <1>1, <1>2, <2>1, <3>1, Z3
  <2> QED
    BY <2>1
<1>4. q \in Nat /\ r \in 0..(a - 1)
  BY <1>1, <1>2, <1>3
<1> QED
  BY <1>2, <1>4, Zenon

LEMMA Multiple ==
    ASSUME NEW q \in Nat, NEW a \in Nat \ {0}
    PROVE  (a * q) % a = 0
OBVIOUS

LEMMA RoundsDown ==
    ASSUME NEW x \in Nat, NEW a \in Nat \ {0}
    PROVE  /\ (x - (x % a)) % a = 0
           /\ x - (x % a) \in Nat
           /\ x - (x % a) <= x
           /\ x - (x % a) > x - a
<1>1. PICK q \in Nat, r \in 0..(a - 1) : x = a * q + r /\ r = x % a
  BY Division
<1>2. a * q \in Nat /\ x - r = a * q
  BY <1>1
<1>3. (a * q) % a = 0
  BY Multiple
<1> QED
  BY <1>1, <1>2, <1>3

LEMMA Divides ==
    ASSUME NEW n \in Nat, NEW m \in Nat \ {0}, NEW a \in Nat \ {0},
           n % m = 0, m % a = 0
    PROVE  n % a = 0
<1>1. PICK q \in Nat : n = m * q
  <2>1. PICK c \in Nat, r \in 0..(m - 1) : n = m * c + r /\ r = n % m
    BY Division
  <2>2. m * c \in Nat
    OBVIOUS
  <2>3. n = m * c
    BY <2>1, <2>2
  <2> QED
    BY <2>3
<1>2. PICK k \in Nat : m = a * k
  <2>1. PICK c \in Nat, r \in 0..(a - 1) : m = a * c + r /\ r = m % a
    BY Division
  <2>2. a * c \in Nat
    OBVIOUS
  <2>3. m = a * c
    BY <2>1, <2>2
  <2> QED
    BY <2>3
<1>3. n = a * (k * q) /\ k * q \in Nat
  BY <1>1, <1>2
<1> QED
  BY <1>3, Multiple

-----------------------------------------------------------------------------
(* The heap *)

\* In front of an aligned block there is room for the pointer of malloc.
Room(b) == IF b.align <= MaxAlign THEN 0 ELSE Word

\* The block b of the program lies in the block r of malloc that dealloc will
\* free for it, and so does the pointer.
Inside(b, r) ==
    /\ r.at = RawOf(b)
    /\ r.at + Room(b) <= b.ptr
    /\ b.ptr + b.size <= r.at + r.len

Apart(r, s) == r.at + r.len <= s.at \/ s.at + s.len <= r.at

RawBlock  == [at : 1..(Memory - 1), len : 1..(Memory - 1)]
UserBlock == [ptr : 1..(Memory - 1), size : 1..(Memory - 1), align : 1..(Memory - 1)]

HeapTypeOK ==
    /\ raws \subseteq RawBlock
    /\ word \in [1..(Memory - 1) -> 0..(Memory - 1)]
    /\ blocks \subseteq UserBlock

\* malloc's part: its blocks are apart.
RawsApart ==
    /\ \A r \in raws : r.at + r.len <= Memory
    /\ \A r, s \in raws : r # s => Apart(r, s)

\* The allocator's part: each of the program's blocks has one of malloc's to
\* itself.
BlocksInside ==
    /\ \A b \in blocks : b.ptr % b.align = 0
    /\ \A b \in blocks : \E r \in raws : Inside(b, r)
    /\ \A b, c \in blocks : b # c => RawOf(b) # RawOf(c)

OneEach ==
    /\ IsFiniteSet(raws) /\ IsFiniteSet(blocks)
    /\ Cardinality(raws) = Cardinality(blocks)

HeapInv == HeapTypeOK /\ RawsApart /\ BlocksInside /\ OneEach

\* Two spans that are not empty share no address exactly if one ends before
\* the other begins.
LEMMA SpansApart ==
    ASSUME NEW a \in Nat, NEW c \in Nat, NEW m \in Nat \ {0}, NEW n \in Nat \ {0}
    PROVE  Span(a, m) \intersect Span(c, n) = {} <=> (a + m <= c \/ c + n <= a)
<1>1. CASE a + m <= c \/ c + n <= a
  BY <1>1 DEF Span
<1>2. CASE ~(a + m <= c \/ c + n <= a)
  <2>1. CASE a <= c
    <3>1. c \in Span(a, m) /\ c \in Span(c, n)
      BY <1>2, <2>1 DEF Span
    <3> QED
      BY <1>2, <3>1
  <2>2. CASE ~(a <= c)
    <3>1. a \in Span(a, m) /\ a \in Span(c, n)
      BY <1>2, <2>2 DEF Span
    <3> QED
      BY <1>2, <3>1
  <2> QED
    BY <2>1, <2>2
<1> QED
  BY <1>1, <1>2

\* Below the end of memory, arithmetic on size_t is arithmetic.
LEMMA NoWrap ==
    ASSUME NEW n \in 0..(Memory - 1)
    PROVE  W(n) = n
<1>1. Memory \in Nat \ {0}
  BY MemoryAssumption
<1>2. \A m \in Nat \ {0} : \A k \in 0..(m - 1) : k % m = k
  OBVIOUS
<1> QED
  BY <1>1, <1>2 DEF W

\* The check of the limit leaves no sum that overflows.
LEMMA LimitSuffices ==
    ASSUME NEW size \in Sizes, NEW align \in Aligns, Valid(size, align),
           ~ TooLarge(size, align)
    PROVE  /\ size + align - 1 + Word < Memory
           /\ RawSize(size, align) = size + align - 1 + Word
<1>1. /\ size \in Nat /\ align \in Nat /\ Word \in Nat \ {0} /\ Memory \in Nat \ {0}
      /\ size > 0 /\ align > 0
  BY MemoryAssumption, LayoutAssumption DEF Valid
<1>2. 2 * align <= Memory /\ 2 * (Word + 1) <= Memory
  BY MemoryAssumption, PowersAssumption DEF Valid
<1>3. Memory - 1 - align - Word \in 0..(Memory - 1)
  BY <1>1, <1>2
<1>4. size <= Memory - 1 - align - Word
  <2>1. W(Memory - 1 - align - Word) = Memory - 1 - align - Word
    BY <1>3, NoWrap
  <2> QED
    BY <1>1, <2>1 DEF TooLarge
<1>5. size + align - 1 + Word \in 0..(Memory - 1)
  BY <1>1, <1>4
<1>6. RawSize(size, align) = size + align - 1 + Word
  BY <1>5, NoWrap DEF RawSize
<1> QED
  BY <1>1, <1>5, <1>6

\* Where the aligned block lies in its raw block.
LEMMA RoundedInside ==
    ASSUME NEW size \in Sizes, NEW align \in Aligns, Valid(size, align),
           ~ TooLarge(size, align), NEW raw \in FreeFor(RawSize(size, align))
    PROVE  LET p == Rounded(W(raw + Word), align)
           IN  /\ p \in 1..(Memory - 1)
               /\ p % align = 0
               /\ raw + Word <= p
               /\ p + size <= raw + RawSize(size, align)
<1> DEFINE x == raw + Word + align - 1
           p == Rounded(W(raw + Word), align)
<1>1. /\ size \in Nat /\ align \in Nat \ {0} /\ Word \in Nat \ {0} /\ Memory \in Nat \ {0}
      /\ size > 0 /\ raw \in 1..(Memory - 1)
  BY MemoryAssumption, LayoutAssumption DEF Valid, FreeFor
<1>2. RawSize(size, align) = size + align - 1 + Word
  BY LimitSuffices
<1>3. raw + (size + align - 1 + Word) <= Memory
  BY <1>2 DEF FreeFor
<1>4. raw + Word \in 0..(Memory - 1) /\ x \in 0..(Memory - 1) /\ x = raw + Word + align - 1
  BY <1>1, <1>3
<1>5. W(raw + Word) = raw + Word /\ W(x) = x
  BY <1>4, NoWrap
<1>6. p = x - (x % align)
  BY <1>5 DEF Rounded
<1> HIDE DEF x, p
<1>7. x \in Nat
  BY <1>1, <1>4
<1>8. p % align = 0 /\ p \in Nat /\ p <= x /\ p > x - align
  BY <1>1, <1>6, <1>7, RoundsDown
<1>9. raw + Word <= p /\ p + size <= raw + RawSize(size, align) /\ p \in 1..(Memory - 1)
  BY <1>1, <1>2, <1>3, <1>4, <1>8
<1> QED
  BY <1>8, <1>9 DEF p

LEMMA HeapInitInv == HeapInit => HeapInv
<1> SUFFICES ASSUME HeapInit PROVE HeapInv
  OBVIOUS
<1>1. raws = {} /\ blocks = {} /\ word = [a \in 1..(Memory - 1) |-> Null]
  BY DEF HeapInit
<1>2. HeapTypeOK
  BY <1>1, MemoryAssumption DEF HeapTypeOK, Null
<1>3. OneEach
  BY <1>1, FS_EmptySet DEF OneEach
<1> QED
  BY <1>1, <1>2, <1>3 DEF HeapInv, RawsApart, BlocksInside

\* What the invariant says of one block and of its raw block.
LEMMA BlockFacts ==
    ASSUME HeapInv, NEW b \in blocks
    PROVE  /\ b.ptr \in 1..(Memory - 1) /\ b.size \in Nat \ {0} /\ b.align \in Nat \ {0}
           /\ Room(b) \in Nat
           /\ \E r \in raws : Inside(b, r)
           /\ \A r \in raws : /\ r.at \in 1..(Memory - 1) /\ r.len \in Nat \ {0}
                              /\ r.at + r.len <= Memory
<1>1. b \in UserBlock /\ \A r \in raws : r \in RawBlock
  BY DEF HeapInv, HeapTypeOK
<1>2. Memory \in Nat /\ Word \in Nat /\ MaxAlign \in Nat
  BY MemoryAssumption
<1>3. \E r \in raws : Inside(b, r)
  BY DEF HeapInv, BlocksInside
<1>4. \A r \in raws : r.at + r.len <= Memory
  BY DEF HeapInv, RawsApart
<1> QED
  BY <1>1, <1>2, <1>3, <1>4 DEF UserBlock, RawBlock, Room

\* Two blocks lie apart, and so does the pointer of each from the other.
LEMMA BlocksApart ==
    ASSUME HeapInv, NEW b \in blocks, NEW c \in blocks, b # c
    PROVE  b.ptr + b.size <= c.ptr - Room(c) \/ c.ptr + c.size <= b.ptr - Room(b)
<1>1. PICK r \in raws : Inside(b, r)
  BY BlockFacts
<1>2. PICK s \in raws : Inside(c, s)
  BY BlockFacts
<1>3. r # s
  BY <1>1, <1>2 DEF HeapInv, BlocksInside, Inside
<1>4. Apart(r, s)
  BY <1>3 DEF HeapInv, RawsApart
<1>5. /\ b.ptr \in Nat /\ b.size \in Nat /\ c.ptr \in Nat /\ c.size \in Nat
      /\ Room(b) \in Nat /\ Room(c) \in Nat
      /\ r.at \in Nat /\ r.len \in Nat /\ s.at \in Nat /\ s.len \in Nat
  BY BlockFacts, MemoryAssumption
<1>6. /\ r.at + Room(b) <= b.ptr /\ b.ptr + b.size <= r.at + r.len
      /\ s.at + Room(c) <= c.ptr /\ c.ptr + c.size <= s.at + s.len
  BY <1>1, <1>2 DEF Inside
<1> QED
  BY <1>4, <1>5, <1>6 DEF Apart

\* Memory that is overwritten outside the pointer of a block leaves it.
LEMMA PointerKept ==
    ASSUME HeapInv, NEW at \in Nat, NEW len \in Nat \ {0}, Overwrite(at, len),
           NEW c \in blocks,
           c.align > MaxAlign => at + len <= c.ptr - Word \/ c.ptr <= at
    PROVE  RawOf(c)' = RawOf(c)
<1>1. CASE c.align <= MaxAlign
  BY <1>1 DEF RawOf
<1>2. CASE ~ (c.align <= MaxAlign)
  <2>1. Room(c) = Word /\ c.align > MaxAlign
    BY <1>2, BlockFacts, MemoryAssumption DEF Room
  <2>2. PICK r \in raws : Inside(c, r)
    BY BlockFacts
  <2>3. /\ c.ptr \in 1..(Memory - 1) /\ r.at \in 1..(Memory - 1)
        /\ r.at + Word <= c.ptr /\ Word \in Nat \ {0} /\ Memory \in Nat
    BY <2>1, <2>2, BlockFacts, MemoryAssumption DEF Inside
  <2>4. c.ptr - Word \in 1..(Memory - 1)
    BY <2>3
  <2>5. Span(c.ptr - Word, Word) \intersect Span(at, len) = {}
    <3>1. (c.ptr - Word) + Word <= at \/ at + len <= c.ptr - Word
      BY <2>1, <2>3
    <3>2. c.ptr - Word \in Nat
      BY <2>4, <2>3
    <3> QED
      BY <2>3, <3>1, <3>2, SpansApart
  <2>6. DOMAIN word = 1..(Memory - 1)
    BY DEF HeapInv, HeapTypeOK
  <2>7. word'[c.ptr - Word] = word[c.ptr - Word]
    BY <2>4, <2>5, <2>6 DEF Overwrite
  <2> QED
    BY <1>2, <2>7 DEF RawOf
<1> QED
  BY <1>1, <1>2

LEMMA OverwriteType ==
    ASSUME HeapTypeOK, NEW at, NEW len, Overwrite(at, len)
    PROVE  word' \in [1..(Memory - 1) -> 0..(Memory - 1)]
<1>1. Null \in 0..(Memory - 1)
  BY MemoryAssumption DEF Null
<1>2. word \in [1..(Memory - 1) -> 0..(Memory - 1)]
  BY DEF HeapTypeOK
<1> QED
  BY <1>1, <1>2 DEF Overwrite

\* A new block in a new raw block, with its pointer in front of it.
LEMMA AddBlock ==
    ASSUME HeapInv, NEW raw \in 1..(Memory - 1), NEW len \in 1..(Memory - 1),
           raw \in FreeFor(len),
           NEW new \in UserBlock, new.ptr % new.align = 0,
           raw + Room(new) <= new.ptr, new.ptr + new.size <= raw + len,
           raws' = raws \union {[at |-> raw, len |-> len]},
           blocks' = blocks \union {new},
           word' \in [1..(Memory - 1) -> 0..(Memory - 1)],
           RawOf(new)' = raw,
           \A b \in blocks : RawOf(b)' = RawOf(b)
    PROVE  HeapInv'
<1> DEFINE n == [at |-> raw, len |-> len]
<1>1. n \in RawBlock /\ n.at = raw /\ n.len = len
  BY DEF RawBlock
<1>2. /\ raw + len <= Memory
      /\ \A r \in raws : r.at + r.len <= raw \/ raw + len <= r.at
  <2>1. \A r \in raws : Span(raw, len) \intersect Span(r.at, r.len) = {}
    BY DEF FreeFor
  <2>2. \A r \in raws : r.at \in Nat /\ r.len \in Nat \ {0}
    BY DEF HeapInv, HeapTypeOK, RawBlock
  <2> QED
    BY <2>1, <2>2, SpansApart DEF FreeFor
<1>3. n \notin raws
  <2>1. n \in raws => n.at + n.len <= raw \/ raw + len <= n.at
    BY <1>2
  <2> QED
    BY <1>1, <2>1
<1>4. \A b \in blocks : RawOf(b) # raw
  <2>1. ASSUME NEW b \in blocks, RawOf(b) = raw
        PROVE  FALSE
    <3>1. PICK r \in raws : Inside(b, r)
      BY BlockFacts
    <3>2. r.at = raw /\ r.len \in Nat \ {0}
      BY <2>1, <3>1, BlockFacts DEF Inside
    <3> QED
      BY <1>2, <3>2
  <2> QED
    BY <2>1
<1>5. new \notin blocks
  <2>1. new \in blocks => RawOf(new)' = RawOf(new)
    OBVIOUS
  <2> QED
    BY <1>4, <2>1
<1> HIDE DEF n
<1>6. HeapTypeOK'
  BY <1>1 DEF HeapInv, HeapTypeOK, n
<1>7. RawsApart'
  <2>1. \A r \in raws' : r.at + r.len <= Memory
    BY <1>1, <1>2 DEF HeapInv, RawsApart, n
  <2>2. ASSUME NEW r \in raws', NEW s \in raws', r # s
        PROVE  Apart(r, s)
    <3>1. CASE r \in raws /\ s \in raws
      BY <2>2, <3>1 DEF HeapInv, RawsApart
    <3>2. CASE r \in raws /\ s = n
      BY <1>1, <1>2, <3>2 DEF Apart
    <3>3. CASE r = n /\ s \in raws
      BY <1>1, <1>2, <3>3 DEF Apart
    <3> QED
      BY <2>2, <3>1, <3>2, <3>3 DEF n
  <2> QED
    BY <2>1, <2>2 DEF RawsApart, Apart
<1>8. BlocksInside'
  <2>1. \A b \in blocks' : b.ptr % b.align = 0
    BY DEF HeapInv, BlocksInside
  <2>2. ASSUME NEW b \in blocks'
        PROVE  \E r \in raws' : Inside(b, r)'
    <3>1. CASE b \in blocks
      <4>1. PICK r \in raws : Inside(b, r)
        BY <3>1, BlockFacts
      <4> QED
        BY <3>1, <4>1 DEF Inside
    <3>2. CASE b = new
      <4>1. RawOf(b)' = raw
        BY <3>2
      <4>2. raw + Room(b) <= b.ptr /\ b.ptr + b.size <= raw + len
        BY <3>2
      <4>3. n \in raws'
        BY DEF n
      <4> QED
        BY <1>1, <4>1, <4>2, <4>3 DEF Inside
    <3> QED
      BY <3>1, <3>2
  <2>3. ASSUME NEW b \in blocks', NEW c \in blocks', b # c
        PROVE  RawOf(b)' # RawOf(c)'
    <3>1. CASE b \in blocks /\ c \in blocks
      BY <2>3, <3>1 DEF HeapInv, BlocksInside
    <3>2. CASE b \in blocks /\ c = new
      BY <1>4, <3>2
    <3>3. CASE b = new /\ c \in blocks
      BY <1>4, <3>3
    <3> QED
      BY <2>3, <3>1, <3>2, <3>3
  <2> QED
    BY <2>1, <2>2, <2>3 DEF BlocksInside
<1>9. OneEach'
  <2>1. /\ IsFiniteSet(raws) /\ IsFiniteSet(blocks)
        /\ Cardinality(raws) = Cardinality(blocks)
    BY DEF HeapInv, OneEach
  <2>2. IsFiniteSet(raws \union {n}) /\ Cardinality(raws \union {n}) = Cardinality(raws) + 1
    BY <1>3, <2>1, FS_AddElement
  <2>3. IsFiniteSet(blocks \union {new}) /\ Cardinality(blocks \union {new}) = Cardinality(blocks) + 1
    BY <1>5, <2>1, FS_AddElement
  <2> QED
    BY <2>1, <2>2, <2>3 DEF OneEach, n
<1> QED
  BY <1>6, <1>7, <1>8, <1>9 DEF HeapInv

\* malloc aligns to MaxAlign, and so to every smaller power of two.
LEMMA AllocPlainInv ==
    ASSUME HeapInv, NEW size \in Sizes, NEW align \in Aligns, AllocPlain(size, align)
    PROVE  HeapInv'
<1>1. PICK raw \in FreeFor(size) :
        /\ raws' = raws \union {[at |-> raw, len |-> size]}
        /\ blocks' = blocks \union {[ptr |-> raw, size |-> size, align |-> align]}
  BY DEF AllocPlain
<1> DEFINE new == [ptr |-> raw, size |-> size, align |-> align]
<1>2. /\ size \in 1..(Memory - 1) /\ align \in 1..(Memory - 1) /\ align <= MaxAlign
      /\ raw \in 1..(Memory - 1) /\ raw % MaxAlign = 0
      /\ word' = word
  BY LayoutAssumption, MemoryAssumption DEF AllocPlain, Valid, FreeFor
<1>3. raw % align = 0
  <2>1. MaxAlign % align = 0
    BY <1>2, PowersAssumption DEF AllocPlain, Valid
  <2>2. raw \in Nat /\ MaxAlign \in Nat \ {0} /\ align \in Nat \ {0}
    BY <1>2, MemoryAssumption
  <2> QED
    BY <1>2, <2>1, <2>2, Divides
<1>4. /\ new \in UserBlock /\ new.ptr % new.align = 0
      /\ raw + Room(new) <= new.ptr /\ new.ptr + new.size <= raw + size
  BY <1>2, <1>3, MemoryAssumption DEF UserBlock, Room
<1>5. RawOf(new)' = raw
  BY <1>2 DEF RawOf
<1>6. \A b \in blocks : RawOf(b)' = RawOf(b)
  BY <1>2 DEF RawOf
<1>7. word' \in [1..(Memory - 1) -> 0..(Memory - 1)]
  BY <1>2 DEF HeapInv, HeapTypeOK
<1> HIDE DEF new
<1>8. blocks' = blocks \union {new}
  BY <1>1 DEF new
<1> QED
  BY <1>1, <1>2, <1>4, <1>5, <1>6, <1>7, <1>8, AddBlock

\* The pointer goes into the raw block, in front of what the program gets.
LEMMA AllocAlignedInv ==
    ASSUME HeapInv, NEW size \in Sizes, NEW align \in Aligns, AllocAligned(size, align)
    PROVE  HeapInv'
<1> DEFINE len == RawSize(size, align)
<1>1. PICK raw \in FreeFor(len) :
        LET p == Rounded(W(raw + Word), align)
        IN  /\ raws' = raws \union {[at |-> raw, len |-> len]}
            /\ word' = [word EXCEPT ![p - Word] = raw]
            /\ blocks' = blocks \union {[ptr |-> p, size |-> size, align |-> align]}
  BY DEF AllocAligned
<1> DEFINE p   == Rounded(W(raw + Word), align)
           new == [ptr |-> p, size |-> size, align |-> align]
<1>2. /\ size \in 1..(Memory - 1) /\ align \in 1..(Memory - 1)
      /\ align > MaxAlign /\ MaxAlign \in Nat /\ Word \in Nat \ {0} /\ Memory \in Nat
      /\ raw \in 1..(Memory - 1)
      /\ Valid(size, align) /\ ~ TooLarge(size, align)
  BY LayoutAssumption, MemoryAssumption DEF AllocAligned, Valid, FreeFor
<1>3. len = size + align - 1 + Word /\ len < Memory
  BY <1>2, LimitSuffices
<1>4. /\ p \in 1..(Memory - 1) /\ p % align = 0
      /\ raw + Word <= p /\ p + size <= raw + len
  BY <1>2, RoundedInside
<1>5. /\ raws' = raws \union {[at |-> raw, len |-> len]}
      /\ word' = [word EXCEPT ![p - Word] = raw]
      /\ blocks' = blocks \union {new}
  BY <1>1
<1> HIDE DEF len, p
<1>6. len \in 1..(Memory - 1)
  BY <1>2, <1>3
<1>7. /\ new \in UserBlock /\ new.ptr % new.align = 0
      /\ raw + Room(new) <= new.ptr /\ new.ptr + new.size <= raw + len
      /\ new.ptr = p /\ ~ (new.align <= MaxAlign)
  BY <1>2, <1>4 DEF UserBlock, Room
<1>8. p - Word \in 1..(Memory - 1) /\ p - Word >= raw
  BY <1>2, <1>4
<1>9. /\ word \in [1..(Memory - 1) -> 0..(Memory - 1)]
      /\ word' \in [1..(Memory - 1) -> 0..(Memory - 1)]
      /\ word'[p - Word] = raw
      /\ \A a \in 1..(Memory - 1) : a # p - Word => word'[a] = word[a]
  BY <1>2, <1>5, <1>8 DEF HeapInv, HeapTypeOK
<1>10. RawOf(new)' = raw
  BY <1>7, <1>9 DEF RawOf
<1>11. ASSUME NEW b \in blocks
       PROVE  RawOf(b)' = RawOf(b)
  <2>1. CASE b.align <= MaxAlign
    BY <2>1 DEF RawOf
  <2>2. CASE ~ (b.align <= MaxAlign)
    <3>1. PICK r \in raws : Inside(b, r)
      BY BlockFacts
    <3>2. /\ r.at \in Nat \ {0} /\ r.len \in Nat \ {0} /\ b.ptr \in 1..(Memory - 1)
          /\ b.size \in Nat \ {0}
          /\ r.at + Word <= b.ptr /\ b.ptr + b.size <= r.at + r.len
      BY <2>2, <3>1, BlockFacts, MemoryAssumption DEF Inside, Room
    <3>3. raw + len <= r.at \/ r.at + r.len <= raw
      <4>1. Span(raw, len) \intersect Span(r.at, r.len) = {}
        BY <1>1 DEF FreeFor, len
      <4>2. /\ raw \in Nat /\ len \in Nat \ {0}
            /\ r.at \in Nat /\ r.len \in Nat \ {0}
        BY <1>2, <1>6, <3>2
      <4> QED
        BY <4>1, <4>2, SpansApart
    <3>4. b.ptr - Word \in 1..(Memory - 1) /\ b.ptr - Word # p - Word
      BY <1>2, <1>4, <1>6, <3>2, <3>3
    <3> QED
      BY <1>9, <2>2, <3>4 DEF RawOf
  <2> QED
    BY <2>1, <2>2
<1> HIDE DEF new
<1>12. raw \in FreeFor(len)
  BY <1>1 DEF len
<1> QED
  BY <1>2, <1>5, <1>6, <1>7, <1>9, <1>10, <1>11, <1>12, AddBlock

\* Writing to a block reaches no pointer of malloc.
LEMMA WriteInv == HeapInv /\ Write => HeapInv'
<1> SUFFICES ASSUME HeapInv, Write PROVE HeapInv'
  OBVIOUS
<1>1. PICK b \in blocks : Overwrite(b.ptr, b.size) /\ UNCHANGED <<raws, blocks>>
  BY DEF Write
<1>2. b.ptr \in Nat /\ b.size \in Nat \ {0}
  BY BlockFacts, MemoryAssumption
<1>3. ASSUME NEW c \in blocks
      PROVE  RawOf(c)' = RawOf(c)
  <2>1. c.align > MaxAlign => b.ptr + b.size <= c.ptr - Word \/ c.ptr <= b.ptr
    <3>1. CASE b = c
      BY <1>2, <3>1
    <3>2. CASE b # c
      <4>1. b.ptr + b.size <= c.ptr - Room(c) \/ c.ptr + c.size <= b.ptr - Room(b)
        BY <3>2, BlocksApart
      <4>2. /\ c.ptr \in Nat /\ c.size \in Nat /\ c.align \in Nat /\ Room(b) \in Nat
            /\ MaxAlign \in Nat
        BY BlockFacts, MemoryAssumption
      <4>3. c.align > MaxAlign => Room(c) = Word
        BY <4>2 DEF Room
      <4> QED
        BY <1>2, <4>1, <4>2, <4>3
    <3> QED
      BY <3>1, <3>2
  <2> QED
    BY <1>1, <1>2, <2>1, PointerKept
<1>4. word' \in [1..(Memory - 1) -> 0..(Memory - 1)]
  BY <1>1, OverwriteType DEF HeapInv
<1>5. HeapTypeOK' /\ RawsApart' /\ OneEach'
  BY <1>1, <1>4 DEF HeapInv, HeapTypeOK, RawsApart, OneEach, Apart
<1>6. BlocksInside'
  BY <1>1, <1>3 DEF HeapInv, BlocksInside, Inside
<1> QED
  BY <1>5, <1>6 DEF HeapInv

\* What is freed is the raw block of the block that is given back; the others
\* keep theirs.
LEMMA DeallocInv == HeapInv /\ Dealloc => HeapInv'
<1> SUFFICES ASSUME HeapInv, Dealloc PROVE HeapInv'
  OBVIOUS
<1>1. PICK b \in blocks, r \in raws :
        /\ r.at = RawOf(b)
        /\ raws' = raws \ {r}
        /\ blocks' = blocks \ {b}
        /\ Overwrite(r.at, r.len)
  BY DEF Dealloc
<1>2. r.at \in Nat /\ r.len \in Nat \ {0}
  BY BlockFacts, MemoryAssumption
<1>3. ASSUME NEW c \in blocks'
      PROVE  /\ RawOf(c)' = RawOf(c)
             /\ \E s \in raws' : Inside(c, s)
  <2>1. c \in blocks /\ c # b
    BY <1>1
  <2>2. PICK s \in raws : Inside(c, s)
    BY <2>1, BlockFacts
  <2>3. s # r
    BY <1>1, <2>1, <2>2 DEF HeapInv, BlocksInside, Inside
  <2>4. Apart(s, r)
    BY <2>3 DEF HeapInv, RawsApart
  <2>5. /\ s.at \in Nat /\ s.len \in Nat
        /\ c.ptr \in Nat /\ c.size \in Nat \ {0} /\ c.align \in Nat
        /\ MaxAlign \in Nat /\ Word \in Nat
    BY <2>1, BlockFacts, MemoryAssumption
  <2>6. c.align > MaxAlign => r.at + r.len <= c.ptr - Word \/ c.ptr <= r.at
    BY <1>2, <2>2, <2>4, <2>5 DEF Inside, Apart, Room
  <2>7. RawOf(c)' = RawOf(c)
    BY <1>1, <1>2, <2>1, <2>6, PointerKept
  <2> QED
    BY <1>1, <2>2, <2>3, <2>7
<1>4. word' \in [1..(Memory - 1) -> 0..(Memory - 1)]
  BY <1>1, OverwriteType DEF HeapInv
<1>5. HeapTypeOK'
  BY <1>1, <1>4 DEF HeapInv, HeapTypeOK
<1>6. RawsApart'
  BY <1>1 DEF HeapInv, RawsApart, Apart
<1>7. BlocksInside'
  BY <1>1, <1>3 DEF HeapInv, BlocksInside, Inside
<1>8. OneEach'
  <2>1. /\ IsFiniteSet(raws) /\ IsFiniteSet(blocks)
        /\ Cardinality(raws) = Cardinality(blocks)
    BY DEF HeapInv, OneEach
  <2>2. IsFiniteSet(raws \ {r}) /\ Cardinality(raws \ {r}) = Cardinality(raws) - 1
    BY <1>1, <2>1, FS_RemoveElement
  <2>3. IsFiniteSet(blocks \ {b}) /\ Cardinality(blocks \ {b}) = Cardinality(blocks) - 1
    BY <1>1, <2>1, FS_RemoveElement
  <2> QED
    BY <1>1, <2>1, <2>2, <2>3 DEF OneEach
<1> QED
  BY <1>5, <1>6, <1>7, <1>8 DEF HeapInv

LEMMA HeapInvHolds == HeapSpec => []HeapInv
<1>1. HeapInit => HeapInv
  BY HeapInitInv
<1>2. HeapInv /\ [HeapNext]_heapVars => HeapInv'
  <2> SUFFICES ASSUME HeapInv, [HeapNext]_heapVars PROVE HeapInv'
    OBVIOUS
  <2>1. CASE Alloc
    BY <2>1, AllocPlainInv, AllocAlignedInv DEF Alloc
  <2>2. CASE Write
    BY <2>2, WriteInv
  <2>3. CASE Dealloc
    BY <2>3, DeallocInv
  <2>4. CASE UNCHANGED heapVars
    BY <2>4 DEF heapVars, HeapInv, HeapTypeOK, RawsApart, Apart, BlocksInside, Inside,
       RawOf, OneEach
  <2> QED
    BY <2>1, <2>2, <2>3, <2>4 DEF HeapNext
<1> QED
  BY <1>1, <1>2, PTL DEF HeapSpec

LEMMA InvBlocksUsable == HeapInv => BlocksUsable
<1> SUFFICES ASSUME HeapInv PROVE BlocksUsable
  OBVIOUS
<1>1. ASSUME NEW b \in blocks
      PROVE  /\ b.ptr % b.align = 0
             /\ \E r \in raws : Span(b.ptr, b.size) \subseteq Span(r.at, r.len)
  <2>1. PICK r \in raws : Inside(b, r)
    BY BlockFacts
  <2>2. /\ r.at \in Nat /\ r.len \in Nat /\ b.ptr \in Nat /\ b.size \in Nat
        /\ Room(b) \in Nat
        /\ r.at + Room(b) <= b.ptr /\ b.ptr + b.size <= r.at + r.len
    BY <2>1, BlockFacts, MemoryAssumption DEF Inside
  <2>3. Span(b.ptr, b.size) \subseteq Span(r.at, r.len)
    BY <2>2 DEF Span
  <2> QED
    BY <2>3 DEF HeapInv, BlocksInside
<1>2. ASSUME NEW b \in blocks, NEW c \in blocks, b # c
      PROVE  Span(b.ptr, b.size) \intersect Span(c.ptr, c.size) = {}
  <2>1. b.ptr + b.size <= c.ptr - Room(c) \/ c.ptr + c.size <= b.ptr - Room(b)
    BY <1>2, BlocksApart
  <2>2. /\ b.ptr \in Nat /\ b.size \in Nat \ {0} /\ Room(b) \in Nat
        /\ c.ptr \in Nat /\ c.size \in Nat \ {0} /\ Room(c) \in Nat
    BY BlockFacts, MemoryAssumption
  <2>3. b.ptr + b.size <= c.ptr \/ c.ptr + c.size <= b.ptr
    BY <2>1, <2>2
  <2> QED
    BY <2>2, <2>3, SpansApart
<1> QED
  BY <1>1, <1>2 DEF BlocksUsable

LEMMA InvDeallocFrees == HeapInv => DeallocFreesItsOwn
<1> SUFFICES ASSUME HeapInv PROVE DeallocFreesItsOwn
  OBVIOUS
<1>1. ASSUME NEW b \in blocks
      PROVE  \E r \in raws : r.at = RawOf(b) /\ b.ptr \in Span(r.at, r.len)
  <2>1. PICK r \in raws : Inside(b, r)
    BY BlockFacts
  <2>2. /\ r.at \in Nat /\ r.len \in Nat /\ b.ptr \in Nat /\ b.size \in Nat \ {0}
        /\ Room(b) \in Nat
        /\ r.at + Room(b) <= b.ptr /\ b.ptr + b.size <= r.at + r.len
    BY <2>1, BlockFacts, MemoryAssumption DEF Inside
  <2>3. b.ptr \in Span(r.at, r.len)
    BY <2>2 DEF Span
  <2> QED
    BY <2>1, <2>3 DEF Inside
<1> QED
  BY <1>1 DEF DeallocFreesItsOwn, HeapInv, OneEach

-----------------------------------------------------------------------------
(* Theorems *)

\* Every variable of the host framework stays within its type.
THEOREM TypeCorrect == Spec => []TypeOK
BY InvHolds, PTL DEF Inv

\* No two pins share a channel, and a pin keeps the channel of its output,
\* whichever setups of pwm::write fail (pwm_channel_for_pin).
THEOREM PinsExclusive == Spec => []ChannelsExclusive
BY InvHolds, PTL DEF Inv

\* initialize_wifi brings the driver up once and on an interface, however
\* often it is tried again.
THEOREM DriverUpOnce == Spec => []DriverOnStation
BY InvHolds, PTL DEF Inv

\* bluetooth::enable and bluetooth::disable finish what an earlier call left
\* half done, and say so only if they did.
THEOREM ControllerFinishes == Spec => ControllerRepaired
<1> DEFINE A == /\ last'.op = "enable" /\ (last'.ok \/ faults' = faults) => bt' = "enabled"
                /\ last'.op = "disable" /\ (last'.ok \/ faults' = faults) => bt' = "idle"
<1>1. TypeOK /\ [Next]_vars => [A]_<<last, faults, bt>>
  <2> SUFFICES ASSUME TypeOK, [Next]_vars PROVE [A]_<<last, faults, bt>>
    OBVIOUS
  <2>1. CASE BluetoothEnable /\ last'.op = "enable"
    BY <2>1, EnableRepairs
  <2>2. CASE BluetoothDisable /\ last'.op = "disable"
    BY <2>2, DisableRepairs
  <2>3. CASE last'.op \notin {"enable", "disable"}
    BY <2>3
  <2>4. CASE UNCHANGED vars
    BY <2>4 DEF vars
  <2> QED
    BY <2>1, <2>2, <2>3, <2>4, OpOfStep
<1> QED
  BY <1>1, TypeCorrect, PTL DEF Spec, ControllerRepaired

\* The blocks that rustscript_platform_alloc returns are aligned as asked for,
\* inside memory of malloc and apart from each other, whatever layouts the Rust
\* code asks for and in whatever order blocks are written and given back.
THEOREM BlocksAreUsable == HeapSpec => []BlocksUsable
BY HeapInvHolds, InvBlocksUsable, PTL

\* rustscript_platform_dealloc frees the raw block that its block is in: the
\* pointer in front of an aligned block is out of every block's reach.
THEOREM DeallocFrees == HeapSpec => []DeallocFreesItsOwn
BY HeapInvHolds, InvDeallocFrees, PTL

===============================================================================
