------------------------------ MODULE MCAlerter ------------------------------
(* Instances of Alerter for TLC: one metric, whose readings are below,     *)
(* inside or above a band that collapses to the value 2.                   *)
EXTENDS Alerter

STM == "STM"
At(v) == [metric |-> STM, value |-> v]

MCMetric == {STM}
MCBatches == {<<At(1)>>, <<At(3), At(2)>>}
Band    == [min |-> {2}, max |-> {2}, enabled |-> TRUE]
Off     == [min |-> {}, max |-> {2}, enabled |-> FALSE]
MCRules == {Band, Off}
=============================================================================
