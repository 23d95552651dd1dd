----------------------------- MODULE Hysteresis -----------------------------
(***************************************************************************)
(* hystereseControllerClass of cf_control: a two-point controller that     *)
(* switches on at or below soll-h and off at or above soll+h.  The sketch  *)
(* may change the set point and the width between two runs, and start      *)
(* over.  Floats are integers.                                             *)
(***************************************************************************)
EXTENDS Integers

CONSTANTS Ist,      \* measured values
          Soll,     \* set points
          Width     \* half widths h

ASSUME WidthAssumption == Ist \subseteq Int /\ Soll \subseteq Int /\ Width \subseteq Nat

VARIABLES soll, h, ast, out,
          last,      \* history: the value of the last run() since the settings
                     \* were made, as a set with at most one element
          seen       \* history: the value that made the last switch since then
controlVars == <<soll, h, ast, out, last, seen>>

ControlInit == /\ soll = 0 /\ h = 0 /\ ast = 0 /\ out = 0
               /\ last = {} /\ seen = {}

InitController(s, w, a) == /\ soll' = s /\ h' = w /\ ast' = a
                           /\ last' = {} /\ seen' = {}
                           /\ UNCHANGED out

RunOff(ist) == /\ ast = 0
               /\ IF ist > soll - h THEN out' = 0 /\ UNCHANGED ast
                  ELSE out' = 1 /\ ast' = 1

\* Mutant: the lower threshold is used in both states.
RunOnLower(ist) == /\ ast # 0
                   /\ IF ist < soll - h THEN out' = 1 /\ UNCHANGED ast
                      ELSE out' = 0 /\ ast' = 0

RunOn(ist) == /\ ast # 0
              /\ IF ist < soll + h THEN out' = 1 /\ UNCHANGED ast
                 ELSE out' = 0 /\ ast' = 0

Run(ist) == /\ RunOff(ist) \/ RunOn(ist)
            /\ last' = {ist}
            /\ seen' = IF ast' # ast THEN {ist} ELSE seen
            /\ UNCHANGED <<soll, h>>

Set(s, w) == /\ soll' = s /\ h' = w /\ last' = {} /\ seen' = {}
             /\ UNCHANGED <<ast, out>>

SetWidth(w) == /\ h' = w /\ last' = {} /\ seen' = {} /\ UNCHANGED <<soll, ast, out>>

ControlNext == \/ \E s \in Soll, w \in Width, a \in {0, 1} : InitController(s, w, a)
               \/ \E i \in Ist : Run(i)
               \/ \E s \in Soll, w \in Width : Set(s, w)
               \/ \E w \in Width : SetWidth(w)
ControlSpec == ControlInit /\ [][ControlNext]_controlVars
-----------------------------------------------------------------------------
ControlTypeOK == /\ soll \in Soll \cup {0} /\ h \in Width \cup {0} /\ ast \in {0, 1}
                 /\ out \in {0, 1} /\ last \subseteq Ist /\ seen \subseteq Ist

Gap(a, b) == IF a < b THEN b - a ELSE a - b

\* The controller does not chatter: between a switch and the next one under the
\* same settings the measured value has crossed the whole band, 2h wide
\* (cf_control.cpp, lines 14-36).
CrossesBand ==
  [][ast' # ast => \A x \in seen, y \in seen' : Gap(x, y) >= 2 * h]_controlVars

\* After run() the output is the controller's state, and outside the band it is
\* what the measured value demands, whatever state init() and the changes of the
\* settings have led to.  With h = 0 the value soll itself is on both sides.
OutputDemanded ==
  \A i \in last : /\ out = ast
                  /\ h > 0 /\ i <= soll - h => out = 1
                  /\ h > 0 /\ i >= soll + h => out = 0
=============================================================================
