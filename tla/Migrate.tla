------------------------------- MODULE Migrate -------------------------------
(***************************************************************************)
(* The server's boot (cmd/server/main.go): connect to the database with    *)
(* retries, apply the migrations that schema_migrations does not list      *)
(* (store/migrate.go), then serve.  A file is applied in one transaction,  *)
(* or, with the no-transaction marker, statement by statement.  Statements *)
(* fail, the process is killed at any point and started again, and a       *)
(* statement (or commit) that was under way when its process went away may *)
(* still take effect, even under the next process.                         *)
(*                                                                         *)
(* Files are numbered in lexical order.  All statements of the repository  *)
(* are idempotent, so to run one again changes nothing.                    *)
(***************************************************************************)
EXTENDS Integers, FiniteSets

CONSTANTS
  NumFiles,    \* embedded *.sql files
  NoTx,        \* files that begin with noTxMarker
  Statements,  \* statements in each file
  Attempts,    \* connectWithRetry's attempts
  MaxFailures, MaxKills   \* bounds

File == 1..NumFiles

ASSUME MigrateAssumption ==
  /\ NumFiles \in Nat /\ NoTx \subseteq File
  /\ Statements \in [File -> Nat \ {0}]
  /\ Attempts \in Nat \ {0}
  /\ MaxFailures \in Nat /\ MaxKills \in Nat

VARIABLES
  pc,        \* "down", "connect", "read", "apply", "serve"
  attempt,   \* of connectWithRetry
  todo,      \* names that `applied' did not list and that are still to apply
  stmt,      \* next statement of a no-transaction file
  effects,   \* statements that have taken effect
  recorded,  \* rows of schema_migrations
  orphans,   \* what a process sent and did not hear of
  bounds

vars == <<pc, attempt, todo, stmt, effects, recorded, orphans, bounds>>

StatementsOf(f) == {<<f, i>> : i \in 1..Statements[f]}
IsListed(f) == f \in todo                   \* faulty variant: names are not sorted
IsNext(f) == f \in todo /\ \A g \in todo : f <= g

(* What reaches the database: a transaction, a statement, or a record.     *)
Transaction(f)  == [rows |-> {f}, effects |-> StatementsOf(f)]
Statement(f, i) == [rows |-> {},  effects |-> {<<f, i>>}]
Record(f)       == [rows |-> {f}, effects |-> {}]

(* A second row of the same name violates the primary key, and the whole   *)
(* transaction is rolled back.                                             *)
Conflicts(c) == c.rows \cap recorded # {}
Execute(c) ==
  IF Conflicts(c) THEN UNCHANGED <<effects, recorded>>
  ELSE effects' = effects \cup c.effects /\ recorded' = recorded \cup c.rows

\* Faulty variant: every file is applied statement by statement.
CommandNoTx(f) == IF stmt <= Statements[f] THEN Statement(f, stmt) ELSE Record(f)

(* The next thing Migrate sends for the file it is at. *)
Command(f) ==
  IF f \notin NoTx THEN Transaction(f)
  ELSE IF stmt <= Statements[f] THEN Statement(f, stmt) ELSE Record(f)

-----------------------------------------------------------------------------
Start ==
  /\ pc = "down"
  /\ pc' = "connect" /\ attempt' = 1
  /\ UNCHANGED <<todo, stmt, effects, recorded, orphans, bounds>>

Fail == bounds.failures < MaxFailures /\ bounds' = [bounds EXCEPT !.failures = @ + 1]

Connect ==
  /\ pc = "connect"
  /\ pc' = "read"
  /\ UNCHANGED <<attempt, todo, stmt, effects, recorded, orphans, bounds>>

MayRetryOnceMore == attempt <= Attempts      \* faulty variant
MayRetry == attempt < Attempts

(* The database is not ready: wait and try again, or exit after the last.  *)
ConnectFails ==
  /\ pc = "connect" /\ Fail
  /\ IF MayRetry THEN attempt' = attempt + 1 /\ pc' = pc
                           ELSE pc' = "down" /\ attempt' = attempt
  /\ UNCHANGED <<todo, stmt, effects, recorded, orphans>>

AllNames == File                             \* faulty variant: applied files are not skipped
NotApplied == File \ recorded

(* appliedMigrations, once, before the first file. *)
ReadApplied ==
  /\ pc = "read"
  /\ pc' = "apply"
  /\ todo' = NotApplied /\ stmt' = 1
  /\ UNCHANGED <<attempt, effects, recorded, orphans, bounds>>

ReadFails ==
  /\ pc = "read" /\ Fail
  /\ pc' = "down"
  /\ UNCHANGED <<attempt, todo, stmt, effects, recorded, orphans>>

(* applyOne and applyOneNoTx, one command; an error ends the boot.         *)
Apply(f) ==
  /\ pc = "apply" /\ IsNext(f)
  /\ LET c == Command(f) IN
     /\ Execute(c)
     /\ IF Conflicts(c) THEN pc' = "down" /\ UNCHANGED <<todo, stmt>>
        ELSE IF c.rows = {} THEN stmt' = stmt + 1 /\ UNCHANGED <<pc, todo>>
        ELSE todo' = todo \ {f} /\ stmt' = 1 /\ UNCHANGED pc
  /\ UNCHANGED <<attempt, orphans, bounds>>

\* Faulty variant: an error is logged and the next file is applied.
GoOn(f) == pc' = pc /\ todo' = todo \ {f}
Stop(f) == pc' = "down" /\ UNCHANGED todo

ApplyFails(f) ==
  /\ pc = "apply" /\ IsNext(f) /\ Fail
  /\ Stop(f)
  /\ orphans' = orphans \cup {Command(f)}
  /\ UNCHANGED <<attempt, stmt, effects, recorded>>

Serve ==
  /\ pc = "apply" /\ todo = {}
  /\ pc' = "serve"
  /\ UNCHANGED <<attempt, todo, stmt, effects, recorded, orphans, bounds>>

(* A signal, a crash or a redeployment. *)
Kill ==
  /\ pc # "down" /\ bounds.kills < MaxKills
  /\ bounds' = [bounds EXCEPT !.kills = @ + 1]
  /\ pc' = "down"
  /\ \E o \in {{}} \cup {{Command(f)} : f \in {g \in todo : pc = "apply" /\ IsNext(g)}} :
       orphans' = orphans \cup o
  /\ UNCHANGED <<attempt, todo, stmt, effects, recorded>>

OrphanTakesEffect(c) ==
  /\ Execute(c)
  /\ orphans' = orphans \ {c}
  /\ UNCHANGED <<pc, attempt, todo, stmt, bounds>>

OrphanIsLost(c) ==
  /\ orphans' = orphans \ {c}
  /\ UNCHANGED <<pc, attempt, todo, stmt, effects, recorded, bounds>>

Init ==
  /\ pc = "down" /\ attempt = 1
  /\ todo = {} /\ stmt = 1
  /\ effects = {} /\ recorded = {} /\ orphans = {}
  /\ bounds = [failures |-> 0, kills |-> 0]

Boot ==
  \/ Start \/ Connect \/ ReadApplied \/ Serve
  \/ \E f \in File : Apply(f)
Trouble ==
  \/ ConnectFails \/ ReadFails \/ Kill
  \/ \E f \in File : ApplyFails(f)
  \/ \E c \in orphans : OrphanTakesEffect(c) \/ OrphanIsLost(c)

Next == Boot \/ Trouble

Spec == Init /\ [][Next]_vars

(* The process runs, and docker compose starts it again (restart:          *)
(* unless-stopped).                                                        *)
FairSpec == Spec /\ WF_vars(Boot)

-----------------------------------------------------------------------------
Commands ==
  [rows : {{}} \cup {{f} : f \in File}, effects : SUBSET UNION {StatementsOf(f) : f \in File}]

TypeOK ==
  /\ pc \in {"down", "connect", "read", "apply", "serve"}
  /\ attempt \in 1..Attempts
  /\ todo \subseteq File /\ recorded \subseteq File
  /\ \A f \in todo : IsNext(f) /\ f \in NoTx => stmt \in 1 .. Statements[f] + 1
  /\ effects \subseteq UNION {StatementsOf(f) : f \in File}
  /\ orphans \subseteq Commands

(* migrate.go:17-18: a file in a transaction never leaves the schema in a  *)
(* half-state, and no file is recorded before all of it is in the schema.  *)
NeverHalfRecorded ==
  /\ \A f \in recorded : StatementsOf(f) \subseteq effects
  /\ \A f \in File \ NoTx : f \notin recorded => StatementsOf(f) \cap effects = {}

(* migrate.go:15-19: through any kills, failures and late commits, and     *)
(* however many processes, the schema goes through the files in lexical    *)
(* order, each once, and is never taken back (0004 alters the views that   *)
(* 0002 and 0003 create).                                                  *)
Promise == INSTANCE SchemaUpgrade WITH serving <- pc = "serve"

ImplementsSchemaUpgrade == Promise!Spec

(* main.go:51-76: the server answers requests only on a complete schema.   *)
ServesMigrated ==
  pc = "serve" => UNION {StatementsOf(f) : f \in File} \subseteq effects

(* migrate.go:18-19, "apply migrations on every boot is safe": a boot that *)
(* died half way, or that met its predecessor's commit, never blocks the   *)
(* boots after it.                                                         *)
EventuallyServes == <>[](pc = "serve")
=============================================================================
