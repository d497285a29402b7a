---------------------------- MODULE DeliveryQueue ----------------------------
(***************************************************************************)
(* What the collector promises to the laboratory (buffer.py:3-10,          *)
(* collector.py:14-17), with no disk, threads, network or process in it:   *)
(* batches are accepted in chronological order, and each accepted batch is *)
(* settled in that order, by being delivered or by being abandoned.  An    *)
(* abandoned batch may still turn up at the server later, when a request   *)
(* that carried it was under way.                                          *)
(***************************************************************************)
EXTENDS Integers

VARIABLES
  accepted,    \* batches taken over for delivery
  delivered,   \* accepted batches the server holds
  abandoned    \* accepted batches given up and not (yet) held by the server

vars == <<accepted, delivered, abandoned>>

Unsettled == accepted \ (delivered \cup abandoned)
IsNext(b) == b \in Unsettled /\ \A a \in Unsettled : b <= a

Accept(b) ==
  /\ \A a \in accepted : a < b
  /\ accepted' = accepted \cup {b}
  /\ UNCHANGED <<delivered, abandoned>>

Deliver(b) ==
  /\ IsNext(b)
  /\ delivered' = delivered \cup {b}
  /\ UNCHANGED <<accepted, abandoned>>

Abandon(b) ==
  /\ IsNext(b)
  /\ abandoned' = abandoned \cup {b}
  /\ UNCHANGED <<accepted, delivered>>

TurnUp(b) ==
  /\ b \in abandoned
  /\ abandoned' = abandoned \ {b}
  /\ delivered' = delivered \cup {b}
  /\ UNCHANGED accepted

Init == accepted = {} /\ delivered = {} /\ abandoned = {}

(* The only new element of accepted' is the batch that Accept takes. *)
Next ==
  \/ \E b \in accepted' : Accept(b)
  \/ \E b \in accepted : Deliver(b) \/ Abandon(b) \/ TurnUp(b)

Spec == Init /\ [][Next]_vars
=============================================================================
