-------------------------- MODULE DallasTemperature --------------------------
(***************************************************************************)
(* DallasTemperature/DallasTemperature.cpp: the sensors of a bus are given *)
(* a resolution, told to measure, and read when they should be done.  The  *)
(* library keeps one resolution for the whole bus; what a sensor is set to *)
(* is in its scratchpad, and after a power cut what is in its EEPROM.      *)
(*                                                                         *)
(* Sensors are numbered in the order in which a search finds them          *)
(* (OneWire).  A call of the library is one step; sensors come and go      *)
(* between calls.  Time is counted in units of 94 ms.                      *)
(***************************************************************************)
EXTENDS Integers, FiniteSets, FiniteSetsExt

CONSTANTS Sensor,        \* numbers of the sensors
          S20,           \* those without a configuration register
          Parasite,      \* those without a power supply of their own
          Asked          \* resolutions a sketch asks for, also out of range

ASSUME SensorAssumption == /\ Sensor \subseteq Nat \ {0} /\ IsFiniteSet(Sensor)
                           /\ S20 \cup Parasite \subseteq Sensor /\ Asked \subseteq Nat

VARIABLES plugged,       \* sensors on the bus
          scratch, eeprom,   \* resolution of each, in use and stored
          busy,          \* sensors the last call has asked to measure, not done when it returned
          lib,           \* devices, bitResolution, parasite, waitForConversion, ...
          call,          \* the last call: "one", "all" or "other"
          changed        \* history: since begin() a sensor was plugged in, recalled its EEPROM, or
                         \* was to be set while it was not there
sensorVars == <<plugged, scratch, eeprom, busy, lib, call, changed>>

Constrain(n) == IF n < 9 THEN 9 ELSE IF n > 12 THEN 12 ELSE n

\* millisToWaitForConversion()
MillisToWait(bits) == CASE bits = 9 -> 1 [] bits = 10 -> 2 [] bits = 11 -> 4 [] OTHER -> 8
ConversionTime(d) == IF d \in S20 THEN 8 ELSE MillisToWait(scratch[d])

\* getAddress(): the sensor at an index of the search; if there is none, the last one the search
\* has found is left in the caller's variable (0: no sensor).
Before(d) == {e \in plugged : e < d}
GetAddress(i) == IF i < Cardinality(plugged) THEN CHOOSE d \in plugged : Cardinality(Before(d)) = i
                 ELSE IF plugged = {} THEN 0 ELSE Max(plugged)
Named == {GetAddress(i) : i \in 0 .. lib.devices - 1} \ {0}

\* getResolution() of a sensor; isConnected() fails for one that is not there.
GetResolution(sp, d) == IF d \in S20 THEN 12 ELSE IF d \in plugged THEN sp[d] ELSE 0

\* writeScratchPad() of sensors whose resolution is another one.
WriteScratchPad(sensors, bits) ==
    LET written == {d \in sensors : scratch[d] # bits}
    IN /\ scratch' = [d \in Sensor |-> IF d \in written THEN bits ELSE scratch[d]]
       /\ eeprom' = [d \in Sensor |-> IF d \in written /\ lib.autoSave THEN bits ELSE eeprom[d]]

Other == call' = "other" /\ busy' = {}
-----------------------------------------------------------------------------
SensorInit ==
    /\ plugged \in SUBSET Sensor /\ scratch = [d \in Sensor |-> 12] /\ eeprom = scratch
    /\ busy = {} /\ call = "other" /\ changed = TRUE
    /\ lib = [devices |-> 0, bits |-> 9, parasite |-> FALSE, wait |-> TRUE, check |-> TRUE, autoSave |-> TRUE]

\* begin(): the resolution and the parasite flag are those of a former call or higher.
BeginSensors ==
    /\ lib' = [lib EXCEPT !.devices = Cardinality(plugged),
                          !.parasite = @ \/ plugged \cap Parasite # {},
                          !.bits = Max({@} \cup {GetResolution(scratch, d) : d \in plugged})]
    /\ changed' = FALSE /\ Other
    /\ UNCHANGED <<plugged, scratch, eeprom>>

\* setResolution() of all: the sensors that getAddress names, one after the other.
SetResolutionOfAll(n) ==
    LET bits == Constrain(n)
    IN /\ WriteScratchPad((plugged \ S20) \cap Named, bits)
       /\ lib' = [lib EXCEPT !.bits = bits]
       /\ Other /\ UNCHANGED <<plugged, changed>>

\* Mutant: the other sensors are not asked.
SetResolutionAlone(d, n) ==
    LET bits == IF d \in S20 THEN n ELSE Constrain(n)
        written == {d} \cap (plugged \ S20)
    IN /\ WriteScratchPad(written, bits)
       /\ lib' = [lib EXCEPT !.bits = bits]
       /\ changed' = (changed \/ d \notin plugged)
       /\ Other /\ UNCHANGED plugged

\* setResolution() of one: the highest resolution of the others is looked up again.
SetResolution(d, n) ==
    LET bits == IF d \in S20 THEN n ELSE Constrain(n)
        written == {d} \cap (plugged \ S20)
        asked == {GetResolution(scratch', e) : e \in Named}
    IN /\ WriteScratchPad(written, bits)
       /\ lib' = [lib EXCEPT !.bits = IF lib.devices > 1 /\ bits # 12 THEN Max({bits} \cup asked) ELSE bits]
       /\ changed' = (changed \/ d \notin plugged)
       /\ Other /\ UNCHANGED plugged

-----------------------------------------------------------------------------
\* blockTillConversionComplete(): listen to the bus, which a sensor without a power supply
\* does not hold, or wait the time of a resolution.
Blocks(d, bits) == IF lib.check /\ ~lib.parasite THEN d \notin Parasite
                                               ELSE ConversionTime(d) <= MillisToWait(bits)
Request(sensors, bits) ==
    /\ busy' = {d \in sensors \cap plugged : ~lib.wait \/ ~Blocks(d, bits)}
    /\ UNCHANGED <<plugged, scratch, eeprom, lib, changed>>

RequestTemperatures == Request(Sensor, lib.bits) /\ call' = "all"

\* requestTemperaturesByAddress(): a sensor with a configuration register that does not answer is not asked.
RequestByAddress(d) == d \in S20 \cup plugged /\ Request({d}, GetResolution(scratch, d)) /\ call' = "one"

-----------------------------------------------------------------------------
Save(d) == /\ d \in plugged /\ eeprom' = [eeprom EXCEPT ![d] = scratch[d]]
           /\ Other /\ UNCHANGED <<plugged, scratch, lib, changed>>
Recall(d) == /\ d \in plugged /\ scratch' = [scratch EXCEPT ![d] = eeprom[d]]
             /\ changed' = (changed \/ scratch[d] # eeprom[d])
             /\ Other /\ UNCHANGED <<plugged, eeprom, lib>>

Configure == /\ \E flag \in BOOLEAN : lib' \in {[lib EXCEPT !.wait = flag], [lib EXCEPT !.check = flag], [lib EXCEPT !.autoSave = flag]}
             /\ Other /\ UNCHANGED <<plugged, scratch, eeprom, changed>>

Unplug(d) == /\ d \in plugged /\ plugged' = plugged \ {d}
             /\ Other /\ UNCHANGED <<scratch, eeprom, lib, changed>>
Plug(d) == /\ d \notin plugged /\ plugged' = plugged \cup {d}
           /\ scratch' = [scratch EXCEPT ![d] = eeprom[d]] /\ changed' = TRUE
           /\ Other /\ UNCHANGED <<eeprom, lib>>

SensorNext == \/ BeginSensors \/ RequestTemperatures \/ Configure
              \/ \E n \in Asked : SetResolutionOfAll(n) \/ \E d \in Sensor : SetResolution(d, n)
              \/ \E d \in Sensor : RequestByAddress(d) \/ Save(d) \/ Recall(d) \/ Unplug(d) \/ Plug(d)
-----------------------------------------------------------------------------
\* A request that waits returns when the sensors it has asked are done, whatever resolutions
\* were set before, as long as the sensors are those begin() has seen or some of them; one
\* that is asked alone is done on any bus if it has a power supply (setResolution,
\* blockTillConversionComplete).
WaitsLongEnough ==
    lib.wait => /\ call = "all" /\ ~changed => busy \subseteq S20
                /\ call = "one" => busy \subseteq IF changed THEN Parasite ELSE {}

(* Not true of this code (README, known disagreements). *)

\* "returns number of milliseconds to wait till conversion is complete (based on IC
\* datasheet)" (line 456), of sensors without a configuration register too.
EveryModelIsDone == lib.wait /\ call = "all" /\ ~changed => busy = {}
=============================================================================
