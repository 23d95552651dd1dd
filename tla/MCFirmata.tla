------------------------------ MODULE MCFirmata ------------------------------
\* The three parts of Firmata, each checked for itself: only the chosen one takes steps.
EXTENDS FirmataProofs

CONSTANT Parts
VARIABLE part
vars == <<part, wireVars, boardVars, serialVars>>

Init == part \in Parts /\ WireInit /\ BoardInit /\ SerialInit
Next == /\ UNCHANGED part
        /\ \/ part = "wire" /\ WireNext /\ UNCHANGED <<boardVars, serialVars>>
           \/ part = "board" /\ BoardNext /\ UNCHANGED <<wireVars, serialVars>>
           \/ part = "serial" /\ SerialNext /\ UNCHANGED <<wireVars, boardVars>>
Spec == Init /\ [][Next]_vars

MCMessages == {<<"analog", 1, 300>>, <<"analog", 16, 300>>, <<"reportDigital", 1, 0>>, <<"pinMode", 2, 1>>,
               <<"reset">>, <<"string", <<200>>>>, <<"firmware", 2, 5, <<65>>>>, <<"protocol", 2, 5>>,
               <<"pinState", 1>>}
MCRequests == {<<0, "OUTPUT">>, <<0, "INPUT">>, <<0, "SERVO">>, <<1, "SERVO">>, <<1, "PWM">>, <<1, "OUTPUT">>,
               <<1, "PULLUP">>, <<2, "ANALOG">>, <<2, "INPUT">>, <<2, "I2C">>, <<2, "SERVO">>}
==============================================================================
