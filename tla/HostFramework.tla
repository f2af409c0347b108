----------------------------- MODULE HostFramework -----------------------------
(***************************************************************************)
(* The host functions of the ESP32-C3 that keep state between calls        *)
(* (src/firmware/host_framework.cpp): PWM channels, the Wi-Fi station and  *)
(* the Bluetooth controller.  A script calls them one at a time and in any *)
(* order; any call into the platform may fail.  The drivers behind them    *)
(* are external.                                                           *)
(***************************************************************************)
EXTENDS Integers, FiniteSets

CONSTANTS
    Pin,        \* GPIO pins
    Channels,   \* PWM_CHANNEL_COUNT
    MaxFaults   \* bound: platform calls that fail

ASSUME ChannelsAssumption == Channels \in Nat \ {0}
ASSUME PinAssumption == IsFiniteSet(Pin) /\ -1 \notin Pin
ASSUME FaultsAssumption == MaxFaults \in Nat

VARIABLES
    pwm_pins,         \* per channel, the pin it is assigned to, or Free
    drives,           \* external: per pin, the channel routed to it, or 0
    wifi_initialized,
    wifi_station,     \* whether it points to a network interface
    wifi_inits,       \* external: calls of esp_wifi_init that succeeded
    bt,               \* external: esp_bt_controller_get_status
    last,             \* the last call and what it returned
    faults

vars == <<pwm_pins, drives, wifi_initialized, wifi_station, wifi_inits, bt,
          last, faults>>

pwm == <<pwm_pins, drives>>
wifi == <<wifi_initialized, wifi_station, wifi_inits>>

Channel == 1..Channels
Free == -1

Init ==
    /\ pwm_pins = [c \in Channel |-> Free]
    /\ drives = [p \in Pin |-> 0]
    /\ wifi_initialized = FALSE /\ wifi_station = FALSE /\ wifi_inits = 0
    /\ bt = "idle"
    /\ last = [op |-> "none", ok |-> FALSE, value |-> 0]
    /\ faults = 0

Fault == faults < MaxFaults /\ faults' = faults + 1

Returns(o, b, v) == last' = [op |-> o, ok |-> b, value |-> v]

-----------------------------------------------------------------------------
(* PWM *)

\* Mutant: a free channel is preferred to the pin's own.
pwm_channel_for_pin_free_first(p) ==
    LET mine == {c \in Channel : pwm_pins[c] = p}
        free == {c \in Channel : pwm_pins[c] = Free}
        From == IF free # {} THEN free ELSE mine
    IN  IF From = {} THEN 0 ELSE CHOOSE c \in From : \A d \in From : c <= d

\* Mutant: the search ends one channel too late.
pwm_channel_for_pin_one_more(p) ==
    LET mine == {c \in Channel : pwm_pins[c] = p}
        free == {c \in Channel : pwm_pins[c] = Free} \union {Channels + 1}
        From == IF mine # {} THEN mine ELSE free
    IN  CHOOSE c \in From : \A d \in From : c <= d

\* The channel of a pin, else the first free one, else 0.
pwm_channel_for_pin(p) ==
    LET mine == {c \in Channel : pwm_pins[c] = p}
        free == {c \in Channel : pwm_pins[c] = Free}
        From == IF mine # {} THEN mine ELSE free
    IN  IF From = {} THEN 0 ELSE CHOOSE c \in From : \A d \in From : c <= d

\* The channel is assigned before ledcSetup is called.
PwmWrite(p) ==
    LET c == pwm_channel_for_pin(p)
    IN  /\ pwm_pins' = IF c = 0 THEN pwm_pins ELSE [pwm_pins EXCEPT ![c] = p]
        /\ \/ /\ c # 0
              /\ drives' = [drives EXCEPT ![p] = c]
              /\ Returns("pwm", TRUE, c)
              /\ UNCHANGED faults
           \/ /\ c # 0
              /\ Fault
              /\ Returns("pwm", FALSE, c)
              /\ UNCHANGED drives
           \/ /\ c = 0
              /\ Returns("pwm", FALSE, 0)
              /\ UNCHANGED <<drives, faults>>
        /\ UNCHANGED <<wifi, bt>>

-----------------------------------------------------------------------------
(* Wi-Fi *)

\* Mutant: that the driver is up is noted only once it is connected.
InitializeWifiForgets(ok) ==
    IF wifi_initialized THEN ok /\ UNCHANGED wifi
    ELSE \E stack, interface, driver, connected \in BOOLEAN :
            /\ ok = (stack /\ interface /\ driver)
            /\ wifi_station' = IF stack THEN interface ELSE wifi_station
            /\ wifi_initialized' = (ok /\ connected)
            /\ wifi_inits' = IF ok THEN wifi_inits + 1 ELSE wifi_inits

\* initialize_wifi returns ESP_OK or not: the network stack, the interface
\* and the driver come up one after the other, and any of them may fail.  What
\* was done before a failure is not undone.
InitializeWifi(ok) ==
    IF wifi_initialized THEN ok /\ UNCHANGED wifi
    ELSE \E stack, interface, driver \in BOOLEAN :
            /\ ok = (stack /\ interface /\ driver)
            /\ wifi_station' = IF stack THEN interface ELSE wifi_station
            /\ wifi_initialized' = ok
            /\ wifi_inits' = IF ok THEN wifi_inits + 1 ELSE wifi_inits

\* Configuring, starting and connecting may fail after that.
WifiConnect ==
    /\ \E up, accepted \in BOOLEAN :
          /\ InitializeWifi(up)
          /\ Returns("connect", up /\ accepted, 0)
          /\ IF up /\ accepted THEN UNCHANGED faults ELSE Fault
    /\ UNCHANGED <<pwm, bt>>

\* disconnect, is_connected and rssi reach the driver only when it is there.
WifiQuery ==
    /\ \E b \in BOOLEAN : Returns("query", wifi_initialized /\ b, 0)
    /\ UNCHANGED <<pwm, wifi, bt, faults>>

WifiLocalIp ==
    /\ \E addr \in 0..1 :
          Returns("local_ip", TRUE,
                  IF wifi_station /\ wifi_initialized THEN addr ELSE 0)
    /\ UNCHANGED <<pwm, wifi, bt, faults>>

-----------------------------------------------------------------------------
(* The Bluetooth controller *)

\* Calls of the controller's driver, each made only in the state from that it
\* leads to the state to; those in fails do not work.
Try(from, to, fails) == IF from \in fails THEN from ELSE to

Counted(failed) == IF failed THEN Fault ELSE UNCHANGED faults

\* Mutant: a controller is enabled only together with its initialization.
BluetoothEnableOnlyIdle ==
    /\ \E fails \in SUBSET {"idle", "inited"} :
          LET status == IF bt = "idle" THEN Try("idle", "inited", fails) ELSE bt
          IN  /\ bt' = IF bt = "idle" /\ status = "inited"
                       THEN Try("inited", "enabled", fails) ELSE status
              /\ Counted({bt, status} \cap fails # {})
    /\ Returns("enable", bt' = "enabled", 0)
    /\ UNCHANGED <<pwm, wifi>>

\* init, unless that was done, then enable.
BluetoothEnable ==
    /\ \E fails \in SUBSET {"idle", "inited"} :
          LET status == IF bt = "idle" THEN Try("idle", "inited", fails) ELSE bt
          IN  /\ bt' = IF status = "inited" THEN Try("inited", "enabled", fails) ELSE status
              /\ Counted({bt, status} \cap fails # {})
    /\ Returns("enable", bt' = "enabled", 0)
    /\ UNCHANGED <<pwm, wifi>>

\* disable if it is enabled, then deinit if that worked.
BluetoothDisable ==
    /\ \E fails \in SUBSET {"enabled", "inited"} :
          LET status == IF bt = "enabled" THEN Try("enabled", "inited", fails) ELSE bt
          IN  /\ bt' = IF status = "inited" THEN Try("inited", "idle", fails) ELSE status
              /\ Counted({bt, status} \cap fails # {})
              /\ Returns("disable", {bt, status} \cap fails = {}, 0)
    /\ UNCHANGED <<pwm, wifi>>

\* mcu::restart and mcu::deep_sleep_us: everything starts from the beginning.
Restart ==
    /\ pwm_pins' = [c \in Channel |-> Free]
    /\ drives' = [p \in Pin |-> 0]
    /\ wifi_initialized' = FALSE /\ wifi_station' = FALSE /\ wifi_inits' = 0
    /\ bt' = "idle"
    /\ Returns("none", FALSE, 0)
    /\ UNCHANGED faults

-----------------------------------------------------------------------------
Next ==
    \/ \E p \in Pin : PwmWrite(p)
    \/ WifiConnect \/ WifiQuery \/ WifiLocalIp
    \/ BluetoothEnable \/ BluetoothDisable
    \/ Restart

Spec == Init /\ [][Next]_vars
-----------------------------------------------------------------------------
(* Properties *)

\* Every variable stays within its type.
TypeOK ==
    /\ pwm_pins \in [Channel -> Pin \union {Free}]
    /\ drives \in [Pin -> Channel \union {0}]
    /\ wifi_initialized \in BOOLEAN
    /\ wifi_station \in BOOLEAN
    /\ wifi_inits \in Nat
    /\ bt \in {"idle", "inited", "enabled"}
    /\ last \in [op : {"none", "pwm", "connect", "query", "local_ip", "enable",
                       "disable"},
                 ok : BOOLEAN, value : Nat]
    /\ faults \in 0..MaxFaults

\* No pin has two channels, and a pin that has an output keeps its channel to
\* itself, whatever setups of other pins fail in between.
ChannelsExclusive ==
    /\ \A c, d \in Channel : pwm_pins[c] = pwm_pins[d] /\ c # d => pwm_pins[c] = Free
    /\ \A p \in Pin : drives[p] # 0 => pwm_pins[drives[p]] = p

\* The driver is brought up once, and on an interface that is there: a retry
\* after a failure does not take either away from a station that works.
DriverOnStation ==
    /\ wifi_inits <= 1
    /\ wifi_inits = 1 => wifi_initialized /\ wifi_station

\* A call that meets no failure finishes what an earlier one left half done:
\* enable ends enabled and disable ends idle from every state, and neither
\* says so when it did not.
ControllerRepaired ==
    [][/\ last'.op = "enable" /\ (last'.ok \/ faults' = faults) => bt' = "enabled"
       /\ last'.op = "disable" /\ (last'.ok \/ faults' = faults) => bt' = "idle"]_<<last, faults, bt>>

================================================================================
