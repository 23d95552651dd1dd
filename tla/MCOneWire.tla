----------------------------- MODULE MCOneWire -----------------------------
(***************************************************************************)
(* The searches of a bus under the fairness that a call which has begun    *)
(* goes on, and that the loop around it calls again.                       *)
(***************************************************************************)
EXTENDS OneWire

Spec == OneWireInit /\ [][OneWireNext]_oneWireVars /\ WF_oneWireVars(Working)

\* Two codes that differ in one bit behind a fork with a third
MCCodes == {<<1, 0, 0, 0, 1>>, <<1, 0, 0, 1, 1>>, <<1, 1, 1, 0, 0>>}
=============================================================================
