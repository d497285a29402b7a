---------------------------- MODULE SchemaUpgrade ----------------------------
(***************************************************************************)
(* What applying the migrations on every boot promises (migrate.go:15-19), *)
(* with no process, connection, failure or late commit in it: the schema   *)
(* goes through the files in order, one after the other and each once.  A  *)
(* file that runs in a transaction takes effect and is recorded at once, a *)
(* no-transaction file statement by statement and is recorded after the    *)
(* last.  Requests are served on the complete schema only, and nothing is  *)
(* ever taken back.                                                        *)
(***************************************************************************)
EXTENDS Integers

CONSTANTS NumFiles, NoTx, Statements   \* as in Migrate

VARIABLES
  effects,    \* statements that have taken effect
  recorded,   \* files recorded as applied
  serving

vars == <<effects, recorded, serving>>

StatementsOf(f) == {<<f, i>> : i \in 1..Statements[f]}
IsNext(f) == f \notin recorded /\ 1..f-1 \subseteq recorded

Upgrade(f) ==
  /\ f \notin NoTx /\ IsNext(f)
  /\ effects' = effects \cup StatementsOf(f) /\ recorded' = recorded \cup {f}
  /\ UNCHANGED serving

RunStatement(f) ==
  /\ f \in NoTx /\ IsNext(f)
  /\ \E s \in StatementsOf(f) : effects' = effects \cup {s}
  /\ UNCHANGED <<recorded, serving>>

RecordFile(f) ==
  /\ f \in NoTx /\ IsNext(f) /\ StatementsOf(f) \subseteq effects
  /\ recorded' = recorded \cup {f}
  /\ UNCHANGED <<effects, serving>>

Serve ==
  /\ recorded = 1..NumFiles
  /\ serving' = TRUE
  /\ UNCHANGED <<effects, recorded>>

Stop == serving' = FALSE /\ UNCHANGED <<effects, recorded>>

Init == effects = {} /\ recorded = {} /\ serving = FALSE

Next ==
  \/ \E f \in 1..NumFiles : Upgrade(f) \/ RunStatement(f) \/ RecordFile(f)
  \/ Serve \/ Stop

Spec == Init /\ [][Next]_vars
=============================================================================
