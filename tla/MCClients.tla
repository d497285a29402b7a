------------------------------ MODULE MCClients ------------------------------
(***************************************************************************)
(* Instances of Bench and of Forwarder for TLC.  The programs share only   *)
(* the server, so a behaviour is of one or of the other, chosen at the     *)
(* start, and their state spaces add instead of multiplying.               *)
(***************************************************************************)
EXTENDS Bench, Forwarder, TLC

VARIABLE running       \* "bench" or "feed"

(* One producer (bench ingest) whose two workers make two requests of two  *)
(* readings; two producers with two workers each and smaller requests.     *)
MCFlags ==
  {f \in [producers : SUBSET Producer, workers : {Worker}, requests : 1 .. 2, batch : 1 .. 2] :
     \/ Cardinality(f.producers) = 1 /\ f.requests = 2 /\ f.batch = 2
     \/ f.producers = Producer /\ f.requests + f.batch = 3}

Alike == Permutations(Producer) \cup Permutations(Worker)

(* A temperature with two points a poll apart and one after a pause, and a *)
(* gauge that is switched off in between.                                  *)
MCPoints ==
  {[series |-> "STM", ts |-> t, off |-> FALSE] : t \in {0, 1, 4}}
    \cup {[series |-> "OC", ts |-> 0, off |-> FALSE],
          [series |-> "OC", ts |-> 2, off |-> TRUE],
          [series |-> "OC", ts |-> 3, off |-> FALSE]}

Init == running \in {"bench", "feed"} /\ BenchInit /\ FeedInit

Next ==
  \/ running = "bench" /\ BenchNext /\ UNCHANGED <<running, feedVars>>
  \/ running = "feed" /\ FeedNext /\ UNCHANGED <<running, benchVars>>

Spec == Init /\ [][Next]_<<running, benchVars, feedVars>>
=============================================================================
