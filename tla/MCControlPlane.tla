---------------------------- MODULE MCControlPlane ----------------------------
(* Instances of ControlPlane for TLC: two metrics, PUTs of one field, of   *)
(* all fields, and of a valid interval with an invalid cap.                *)
EXTENDS ControlPlane

STM == "STM"
OC == "OC"
MCMetric == {STM, OC}
MCSeedRules == [m \in MCMetric |-> "seed"]
MCRequests == {
  [interval |-> 0,  cap |-> 0,    rules |-> <<<<STM, "tight">>>>],
  [interval |-> 0,  cap |-> 0,    rules |-> <<<<STM, "wide">>, <<OC, "wide">>>>],
  [interval |-> 2,  cap |-> 3,    rules |-> <<<<STM, "wide">>>>],
  [interval |-> 10, cap |-> 2000, rules |-> <<>>],
  [interval |-> -1, cap |-> 3,    rules |-> <<>>]}
=============================================================================
