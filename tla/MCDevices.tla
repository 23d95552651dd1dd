----------------------------- MODULE MCDevices -----------------------------
(***************************************************************************)
(* The libraries around a sketch that know nothing of each other: the      *)
(* statistics and the controller, a bus of temperature sensors and its     *)
(* search, the accelerometer, servos, blocks of an SD card, a character    *)
(* display and the shapes of a graphic one.  `part' says which of them a   *)
(* behaviour is about; the others stay as they began.                      *)
(***************************************************************************)
EXTENDS DeviceProofs

VARIABLE part
vars == <<part, collectorVars, controlVars, oneWireVars, sensorVars, adxlVars, servoVars, cardVars, lcdVars, tftVars>>

Parts == {"collector", "control", "bus", "sensors", "adxl", "servo", "card", "lcd", "tft"}

\* Parts that do not move have one initial state.
Init ==
    /\ part \in Parts
    /\ CollectorInit /\ (part # "collector" => data = [i \in Slot |-> 0] /\ ok = [i \in Slot |-> FALSE])
    /\ ControlInit
    /\ OneWireInit /\ (part # "bus" => onBus = {})
    /\ SensorInit /\ (part # "sensors" => plugged = {})
    /\ AdxlInit /\ (part # "adxl" => clock = 0)
    /\ ServoInit
    /\ CardInit /\ (part # "card" => block_ = 0 /\ store = [b \in BlockNumbers |-> 10])
    /\ LcdInit /\ (part # "lcd" => fourBits /\ chip.half = NoNibble /\ chip.bits = 8)
    /\ TftInit

Others(p) == /\ p # "collector" => UNCHANGED collectorVars
             /\ p # "control" => UNCHANGED controlVars
             /\ p # "bus" => UNCHANGED oneWireVars
             /\ p # "sensors" => UNCHANGED sensorVars
             /\ p # "adxl" => UNCHANGED adxlVars
             /\ p # "servo" => UNCHANGED servoVars
             /\ p # "card" => UNCHANGED cardVars
             /\ p # "lcd" => UNCHANGED lcdVars
             /\ p # "tft" => UNCHANGED tftVars

Next == /\ UNCHANGED part /\ Others(part)
        /\ \/ part = "collector" /\ CollectorNext
           \/ part = "control" /\ ControlNext
           \/ part = "bus" /\ OneWireNext
           \/ part = "sensors" /\ SensorNext
           \/ part = "adxl" /\ AdxlNext
           \/ part = "servo" /\ ServoNext
           \/ part = "card" /\ CardNext
           \/ part = "lcd" /\ LcdNext
           \/ part = "tft" /\ TftNext
Spec == Init /\ [][Next]_vars

-----------------------------------------------------------------------------
\* Codes of devices: two that differ in their last bits only, one of the same family, one of another
MCCodes == {<<1, 0, 0, 0, 1>>, <<1, 0, 0, 1, 1>>, <<1, 0, 1, 0, 0>>, <<0, 1, 1, 1, 0>>}
MCLimits == {<<544, 2400>>, <<1000, 2000>>}
MCMeasurements == {<<-4, 1, 3>>, <<2, -1, 0>>}
=============================================================================
