------------------------------- MODULE AlarmLog -------------------------------
(***************************************************************************)
(* What the alert engine promises (alert.go:1-5), without saying how: the  *)
(* alarm of a metric changes from one state to another, each change makes  *)
(* exactly one event, and each event is recorded once in alert_log or,     *)
(* when the database refuses it, lost.  Events that are neither yet are    *)
(* pending; the server forgets them, and the alarms, when it restarts.     *)
(***************************************************************************)
EXTENDS Integers

CONSTANTS Metric

VARIABLES
  alarm,      \* metric -> "" | "max" | "min"
  pending,    \* event -> how many of it are neither recorded nor lost
  recorded,   \* row -> how often this life of the server has written it
  lost        \* event -> how often its row could not be written

vars == <<alarm, pending, recorded, lost>>

Event == [metric : Metric, kind : {"max", "min", "recovered"}]
Row   == [metric : Metric, kind : {"max", "min", "recovered"}, notified : BOOLEAN]

Quiet ==
  /\ alarm = [m \in Metric |-> ""] /\ pending = [e \in Event |-> 0]
  /\ recorded = [r \in Row |-> 0] /\ lost = [e \in Event |-> 0]

Init == Quiet

(* An alarm is raised, flips between min and max, or is over. *)
Change(m, to) ==
  /\ to # alarm[m]
  /\ alarm' = [alarm EXCEPT ![m] = to]
  /\ LET e == [metric |-> m, kind |-> IF to = "" THEN "recovered" ELSE to]
     IN pending' = [pending EXCEPT ![e] = @ + 1]
  /\ UNCHANGED <<recorded, lost>>

Record(e) ==
  /\ pending[e] > 0
  /\ pending' = [pending EXCEPT ![e] = @ - 1]
  /\ \E r \in Row : /\ r.metric = e.metric /\ r.kind = e.kind
                  /\ recorded' = [recorded EXCEPT ![r] = @ + 1]
  /\ UNCHANGED <<alarm, lost>>

Lose(e) ==
  /\ pending[e] > 0
  /\ pending' = [pending EXCEPT ![e] = @ - 1]
  /\ lost' = [lost EXCEPT ![e] = @ + 1]
  /\ UNCHANGED <<alarm, recorded>>

Restart == Quiet'

Next ==
  \/ \E m \in Metric, to \in {"", "max", "min"} : Change(m, to)
  \/ \E e \in Event : Record(e) \/ Lose(e)
  \/ Restart

Spec == Init /\ [][Next]_vars
=============================================================================
