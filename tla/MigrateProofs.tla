---------------------------- MODULE MigrateProofs ----------------------------
(***************************************************************************)
(* The safety properties of Migrate, for any files and any sequence of     *)
(* failures, kills and late commits.                                       *)
(***************************************************************************)
EXTENDS Migrate, TLAPS

Schema == UNION {StatementsOf(f) : f \in File}

(* What a process may have sent for file f.                                *)
SentFor(c, f) ==
  \/ f \notin NoTx /\ c = Transaction(f)
  \/ f \in NoTx /\ \E i \in 1 .. Statements[f] : c = Statement(f, i)
  \/ f \in NoTx /\ c = Record(f) /\ StatementsOf(f) \subseteq effects

(* It is sent only when all files below f are recorded, so that it may     *)
(* take effect at any time.                                                *)
Due(c, f) == SentFor(c, f) /\ \A g \in 1 .. f - 1 : g \in recorded

FieldsOK ==
  /\ pc \in {"down", "connect", "read", "apply", "serve"}
  /\ attempt \in 1..Attempts
  /\ todo \subseteq File /\ recorded \subseteq File /\ stmt \in Nat \ {0}
  /\ effects \subseteq Schema /\ orphans \subseteq Commands

(* The process that applies has seen all files recorded that it does not   *)
(* list any more, and the statements of its file that it has passed.       *)
ProgressInv ==
  /\ pc \in {"apply", "serve"} => File \ todo \subseteq recorded
  /\ pc = "serve" => todo = {}
  /\ \A f \in todo : IsNext(f) /\ f \in NoTx =>
       stmt <= Statements[f] + 1 /\ (pc = "apply" => {<<f, i>> : i \in 1 .. stmt - 1} \subseteq effects)

(* Nothing of a file is in the schema before all files below it are        *)
(* recorded (migrate.go:16, "in lexical filename order").                  *)
InLexicalOrder ==
  \A f \in File : StatementsOf(f) \cap effects # {} =>
    \A g \in 1..f-1 : g \in recorded

IInv ==
  /\ FieldsOK /\ ProgressInv
  /\ \A c \in orphans : \E f \in File : Due(c, f)
  /\ NeverHalfRecorded /\ InLexicalOrder

-----------------------------------------------------------------------------
LEMMA FilesAreNumbers == File \subseteq Nat /\ NoTx \subseteq File /\ Statements \in [File -> Nat \ {0}]
BY MigrateAssumption DEF MigrateAssumption, File

LEMMA StatementsApart ==
  ASSUME NEW f \in File, NEW g \in File, f # g
  PROVE  StatementsOf(f) \cap StatementsOf(g) = {}
BY DEF StatementsOf

(* Executing what is due keeps the schema whole and in order.              *)
LEMMA ExecuteDue ==
  ASSUME IInv, NEW c, NEW f \in File, Due(c, f), Execute(c)
  PROVE  /\ effects \subseteq effects' /\ recorded \subseteq recorded'
         /\ effects' \subseteq Schema /\ recorded' \subseteq File
         /\ NeverHalfRecorded' /\ InLexicalOrder'
         /\ ~Conflicts(c) => c.rows \subseteq recorded' /\ c.effects \subseteq effects'
<1>0. /\ FieldsOK /\ NeverHalfRecorded /\ InLexicalOrder
      /\ File \subseteq Nat
  BY FilesAreNumbers DEF IInv
<1>1. CASE Conflicts(c)
  <2>1. UNCHANGED <<effects, recorded>>
    BY <1>1 DEF Execute
  <2>2. NeverHalfRecorded' /\ InLexicalOrder'
    BY <1>0, <2>1 DEF NeverHalfRecorded, InLexicalOrder
  <2>3. QED  BY <1>0, <1>1, <2>1, <2>2 DEF FieldsOK
<1>2. CASE ~Conflicts(c)
  <2>1. effects' = effects \cup c.effects /\ recorded' = recorded \cup c.rows
    BY <1>2 DEF Execute
  <2>2. /\ c.rows \subseteq {f} /\ c.effects \subseteq StatementsOf(f)
        /\ f \in c.rows => StatementsOf(f) \subseteq effects \cup c.effects
        /\ f \notin NoTx => c.rows = {f}
    BY DEF Due, SentFor, Transaction, Statement, Record, StatementsOf
  <2>3. \A g \in File : g # f => StatementsOf(g) \cap effects' = StatementsOf(g) \cap effects
    BY <2>1, <2>2, StatementsApart
  <2>4. NeverHalfRecorded'
    <3>1. ASSUME NEW g \in recorded'  PROVE StatementsOf(g) \subseteq effects'
      BY <1>0, <2>1, <2>2, <3>1 DEF NeverHalfRecorded
    <3>2. ASSUME NEW g \in File \ NoTx, g \notin recorded'
          PROVE  StatementsOf(g) \cap effects' = {}
      <4>1. g # f /\ g \notin recorded  BY <2>1, <2>2, <3>2
      <4>2. QED  BY <1>0, <2>3, <4>1 DEF NeverHalfRecorded
    <3>3. QED  BY <3>1, <3>2 DEF NeverHalfRecorded
  <2>5. InLexicalOrder'
    <3>1. ASSUME NEW g \in File, StatementsOf(g) \cap effects' # {}, NEW h \in 1 .. g - 1
          PROVE  h \in recorded'
      <4>1. CASE g = f
        BY <2>1, <3>1, <4>1 DEF Due
      <4>2. CASE g # f
        BY <1>0, <2>1, <2>3, <3>1, <4>2 DEF InLexicalOrder
      <4>3. QED  BY <4>1, <4>2
    <3>2. QED  BY <3>1 DEF InLexicalOrder
  <2>6. effects' \subseteq Schema /\ recorded' \subseteq File
    BY <1>0, <2>1, <2>2 DEF FieldsOK, Schema
  <2>7. QED  BY <2>1, <2>4, <2>5, <2>6
<1>3. QED  BY <1>1, <1>2

(* Whatever is due stays due.                                              *)
LEMMA DueStays ==
  ASSUME NEW c, NEW f \in File, Due(c, f), effects \subseteq effects', recorded \subseteq recorded'
  PROVE  Due(c, f)'
BY DEF Due, SentFor

(* What Migrate sends next is due, and well formed.                        *)
LEMMA CommandIsDue ==
  ASSUME IInv, pc = "apply", NEW f \in File, IsNext(f)
  PROVE  Due(Command(f), f) /\ Command(f) \in Commands
<1>0. FieldsOK /\ ProgressInv /\ File \subseteq Nat /\ Statements \in [File -> Nat \ {0}]
  BY FilesAreNumbers DEF IInv
<1>1. ASSUME NEW g \in 1 .. f - 1  PROVE g \in recorded
  <2>1. g \in File /\ ~(f <= g)
    BY MigrateAssumption DEF File, MigrateAssumption
  <2>2. g \notin todo  BY <2>1 DEF IsNext
  <2>3. QED  BY <1>0, <2>1, <2>2 DEF ProgressInv
<1>2. Statements[f] \in Nat /\ stmt \in Nat \ {0}
  BY <1>0 DEF FieldsOK
<1>3. CASE f \notin NoTx
  <2>1. Command(f) = Transaction(f)  BY <1>3 DEF Command
  <2>2. Transaction(f) \in Commands  BY DEF Transaction, Commands
  <2>3. QED  BY <1>1, <1>3, <2>1, <2>2 DEF Due, SentFor
<1>4. CASE f \in NoTx /\ stmt <= Statements[f]
  <2>1. Command(f) = Statement(f, stmt)  BY <1>4 DEF Command
  <2>2. stmt \in 1 .. Statements[f]  BY <1>2, <1>4
  <2>3. <<f, stmt>> \in StatementsOf(f)
    BY <2>2 DEF StatementsOf
  <2>4. Statement(f, stmt) \in Commands
    BY <2>3 DEF Statement, Commands
  <2>5. QED  BY <1>1, <1>4, <2>1, <2>2, <2>4 DEF Due, SentFor
<1>5. CASE f \in NoTx /\ ~(stmt <= Statements[f])
  <2>1. Command(f) = Record(f)  BY <1>5 DEF Command
  <2>2. stmt = Statements[f] + 1
    BY <1>0, <1>2, <1>5 DEF ProgressInv, IsNext
  <2>3. StatementsOf(f) \subseteq effects
    <3>1. {<<f, i>> : i \in 1 .. stmt - 1} \subseteq effects
      BY <1>0, <1>5 DEF ProgressInv, IsNext
    <3>2. stmt - 1 = Statements[f]  BY <1>2, <2>2
    <3>3. QED  BY <3>1, <3>2 DEF StatementsOf
  <2>4. Record(f) \in Commands  BY DEF Record, Commands
  <2>5. QED  BY <1>1, <1>5, <2>1, <2>3, <2>4 DEF Due, SentFor
<1>6. QED  BY <1>3, <1>4, <1>5

-----------------------------------------------------------------------------
LEMMA MigrateInit == Init => IInv
<1> SUFFICES ASSUME Init  PROVE IInv
  OBVIOUS
<1>1. FieldsOK
  BY MigrateAssumption DEF Init, FieldsOK, MigrateAssumption
<1>2. QED
  BY <1>1 DEF Init, IInv, ProgressInv, NeverHalfRecorded, InLexicalOrder

(* A step that sends nothing to the database, and no file is under way     *)
(* after it.                                                               *)
LEMMA QuietStep ==
  ASSUME IInv, UNCHANGED <<effects, recorded>>, FieldsOK', ProgressInv',
         \A c \in orphans' : c \in orphans \/ \E f \in File : Due(c, f)
  PROVE  IInv'
<1>1. \A c \in orphans' : \E f \in File : Due(c, f)
  BY DEF IInv
<1>2. \A c \in orphans' : \E f \in File : Due(c, f)'
  BY <1>1, DueStays
<1>3. NeverHalfRecorded' /\ InLexicalOrder'
  BY DEF IInv, NeverHalfRecorded, InLexicalOrder
<1>4. QED  BY <1>2, <1>3 DEF IInv

(* A step of the server: a command takes effect, or conflicts.             *)
LEMMA ApplyStep ==
  ASSUME IInv, NEW f \in File, Apply(f)
  PROVE  IInv'
<1> DEFINE c == Command(f)
<1>0. /\ FieldsOK /\ ProgressInv /\ pc = "apply" /\ IsNext(f)
      /\ File \subseteq Nat /\ Statements \in [File -> Nat \ {0}]
  BY FilesAreNumbers DEF IInv, Apply
<1>1. /\ Execute(c) /\ UNCHANGED <<attempt, orphans>>
      /\ \/ Conflicts(c) /\ pc' = "down" /\ UNCHANGED <<todo, stmt>>
         \/ ~Conflicts(c) /\ c.rows = {} /\ stmt' = stmt + 1 /\ UNCHANGED <<pc, todo>>
         \/ ~Conflicts(c) /\ c.rows # {} /\ todo' = todo \ {f} /\ stmt' = 1 /\ UNCHANGED pc
  BY DEF Apply
<1>2. /\ effects \subseteq effects' /\ recorded \subseteq recorded'
      /\ effects' \subseteq Schema /\ recorded' \subseteq File
      /\ NeverHalfRecorded' /\ InLexicalOrder'
      /\ ~Conflicts(c) => c.rows \subseteq recorded' /\ c.effects \subseteq effects'
  BY <1>0, <1>1, CommandIsDue, ExecuteDue
<1> HIDE DEF c
<1>3. FieldsOK'
  <2>1. stmt' \in Nat \ {0} /\ todo' \subseteq File
    <3>1. stmt \in Nat \ {0} /\ todo \subseteq File
      BY <1>0 DEF FieldsOK
    <3>2. stmt' \in {stmt, stmt + 1, 1} /\ todo' \subseteq todo
      BY <1>1
    <3>3. QED  BY <3>1, <3>2
  <2>2. pc' \in {"down", "apply"}
    BY <1>0, <1>1
  <2>3. QED  BY <1>0, <1>1, <1>2, <2>1, <2>2 DEF FieldsOK
<1>4. ProgressInv'
  <2>1. CASE Conflicts(c) /\ pc' = "down" /\ UNCHANGED <<todo, stmt>>
    BY <1>0, <2>1 DEF ProgressInv, IsNext
  <2>2. CASE ~Conflicts(c) /\ c.rows = {} /\ stmt' = stmt + 1 /\ UNCHANGED <<pc, todo>>
    <3>1. f \in NoTx /\ stmt <= Statements[f] /\ c = Statement(f, stmt)
      BY <2>2 DEF c, Command, Transaction, Record
    <3>2. \A g \in todo' : IsNext(g)' => g = f
      <4>1. todo \subseteq Nat  BY <1>0 DEF FieldsOK
      <4>2. f \in todo  BY <1>0 DEF IsNext
      <4>3. QED  BY <1>0, <2>2, <4>1, <4>2 DEF IsNext
    <3>3. stmt \in Nat \ {0} /\ Statements[f] \in Nat
      BY <1>0 DEF FieldsOK
    <3>4. stmt' <= Statements[f] + 1
      BY <2>2, <3>1, <3>3
    <3>5. {<<f, i>> : i \in 1 .. stmt' - 1} \subseteq effects'
      <4>1. {<<f, i>> : i \in 1 .. stmt - 1} \subseteq effects
        BY <1>0, <3>1 DEF ProgressInv, IsNext
      <4>2. <<f, stmt>> \in effects'
        BY <1>2, <2>2, <3>1 DEF Statement
      <4>3. \A i \in 1 .. stmt' - 1 : i \in 1 .. stmt - 1 \/ i = stmt
        BY <2>2, <3>3
      <4>4. QED  BY <1>2, <4>1, <4>2, <4>3
    <3>6. File \ todo' \subseteq recorded'
      BY <1>0, <1>2, <2>2 DEF ProgressInv
    <3>7. pc' = "apply"  BY <1>0, <2>2
    <3>8. QED  BY <3>2, <3>4, <3>5, <3>6, <3>7 DEF ProgressInv
  <2>3. CASE ~Conflicts(c) /\ c.rows # {} /\ todo' = todo \ {f} /\ stmt' = 1 /\ UNCHANGED pc
    <3>1. f \in c.rows
      BY <2>3 DEF c, Command, Transaction, Record, Statement
    <3>2. File \ todo' \subseteq recorded'
      BY <1>0, <1>2, <2>3, <3>1 DEF ProgressInv
    <3>3. \A i : i \notin 1 .. stmt' - 1
      BY <2>3
    <3>4. \A g \in todo' : Statements[g] \in Nat \ {0}
      BY <1>0, <2>3 DEF FieldsOK
    <3>5. \A g \in todo' : stmt' <= Statements[g] + 1
      BY <2>3, <3>4
    <3>6. pc' = "apply"  BY <1>0, <2>3
    <3>7. QED  BY <3>2, <3>3, <3>5, <3>6 DEF ProgressInv
  <2>4. QED  BY <1>1, <2>1, <2>2, <2>3
<1>5. \A d \in orphans' : \E g \in File : Due(d, g)'
  BY <1>1, <1>2, DueStays DEF IInv
<1>6. QED  BY <1>2, <1>3, <1>4, <1>5 DEF IInv

(* A command of an earlier process takes effect, whatever this one does.   *)
LEMMA OrphanStep ==
  ASSUME IInv, NEW c \in orphans, OrphanTakesEffect(c)
  PROVE  IInv'
<1>0. FieldsOK /\ ProgressInv
  BY DEF IInv
<1>1. PICK f \in File : Due(c, f)
  BY DEF IInv
<1>2. Execute(c) /\ orphans' = orphans \ {c} /\ UNCHANGED <<pc, attempt, todo, stmt>>
  BY DEF OrphanTakesEffect
<1>3. /\ effects \subseteq effects' /\ recorded \subseteq recorded'
      /\ effects' \subseteq Schema /\ recorded' \subseteq File
      /\ NeverHalfRecorded' /\ InLexicalOrder'
  BY <1>1, <1>2, ExecuteDue
<1>4. FieldsOK'
  BY <1>0, <1>2, <1>3 DEF FieldsOK
<1>5. ProgressInv'
  <2>1. \A g : IsNext(g)' <=> IsNext(g)
    BY <1>2 DEF IsNext
  <2>2. QED  BY <1>0, <1>2, <1>3, <2>1 DEF ProgressInv
<1>6. \A d \in orphans' : \E g \in File : Due(d, g)'
  BY <1>2, <1>3, DueStays DEF IInv
<1>7. QED  BY <1>3, <1>4, <1>5, <1>6 DEF IInv

LEMMA MigrateStep ==
  ASSUME IInv, [Next]_vars
  PROVE  IInv'
<1>0. FieldsOK /\ ProgressInv /\ Statements \in [File -> Nat \ {0}]
  BY FilesAreNumbers DEF IInv
<1>1. CASE Start \/ Connect \/ ConnectFails \/ ReadFails \/ UNCHANGED vars
  <2>1. UNCHANGED <<todo, stmt, effects, recorded, orphans>> /\ (pc' = pc \/ pc' \notin {"apply", "serve"})
    BY <1>1 DEF Start, Connect, ConnectFails, ReadFails, vars
  <2>2. FieldsOK'
    <3>1. attempt' \in 1 .. Attempts
      BY <1>0, <1>1, MigrateAssumption
        DEF Start, Connect, ConnectFails, ReadFails, MayRetry, vars, FieldsOK, MigrateAssumption
    <3>2. pc' \in {"down", "connect", "read", "apply", "serve"}
      BY <1>0, <1>1 DEF Start, Connect, ConnectFails, ReadFails, vars, FieldsOK
    <3>3. QED  BY <1>0, <2>1, <3>1, <3>2 DEF FieldsOK
  <2>3. ProgressInv'
    BY <1>0, <2>1 DEF ProgressInv, IsNext
  <2>4. QED  BY <2>1, <2>2, <2>3, QuietStep
<1>2. CASE ReadApplied
  <2>1. /\ pc' = "apply" /\ todo' = File \ recorded /\ stmt' = 1
        /\ UNCHANGED <<attempt, effects, recorded, orphans>>
    BY <1>2 DEF ReadApplied, NotApplied
  <2>2. FieldsOK'
    BY <1>0, <2>1 DEF FieldsOK
  <2>3. ProgressInv'
    <3>1. \A i : i \notin 1 .. stmt' - 1
      BY <2>1
    <3>2. \A f \in todo' : stmt' <= Statements[f] + 1
      BY <1>0, <2>1
    <3>3. QED  BY <2>1, <3>1, <3>2 DEF ProgressInv
  <2>4. QED  BY <2>1, <2>2, <2>3, QuietStep
<1>3. CASE Serve
  <2>1. pc = "apply" /\ pc' = "serve" /\ todo = {} /\ UNCHANGED <<attempt, todo, stmt, effects, recorded, orphans>>
    BY <1>3 DEF Serve
  <2>2. FieldsOK' /\ ProgressInv'
    BY <1>0, <2>1 DEF FieldsOK, ProgressInv
  <2>3. QED  BY <2>1, <2>2, QuietStep
<1>4. CASE \/ Kill \/ \E f \in File : ApplyFails(f)
           \/ \E c \in orphans : OrphanIsLost(c)
  <2>1. UNCHANGED <<attempt, todo, stmt, effects, recorded>> /\ pc' \in {"down", pc}
    BY <1>4 DEF Kill, ApplyFails, Stop, OrphanIsLost
  <2>2. ASSUME NEW c \in orphans', c \notin orphans
        PROVE  pc = "apply" /\ \E f \in File : IsNext(f) /\ c = Command(f)
    <3>1. CASE Kill
      <4>1. PICK o \in {{}} \cup {{Command(f)} : f \in {g \in todo : pc = "apply" /\ IsNext(g)}} :
              orphans' = orphans \cup o
        BY <3>1 DEF Kill
      <4>2. c \in o  BY <2>2, <4>1
      <4>3. PICK f \in {g \in todo : pc = "apply" /\ IsNext(g)} : o = {Command(f)}
        BY <4>2
      <4>4. QED  BY <1>0, <4>2, <4>3 DEF FieldsOK
    <3>2. ASSUME NEW f \in File, ApplyFails(f)
          PROVE  pc = "apply" /\ IsNext(f) /\ c = Command(f)
      BY <2>2, <3>2 DEF ApplyFails
    <3>3. ~ \E d \in orphans : OrphanIsLost(d)
      BY <2>2 DEF OrphanIsLost
    <3>4. QED  BY <1>4, <3>1, <3>2, <3>3
  <2>3. \A c \in orphans' : c \in Commands /\ (c \in orphans \/ \E f \in File : Due(c, f))
    BY <1>0, <2>2, CommandIsDue DEF FieldsOK
  <2>4. FieldsOK'
    BY <1>0, <2>1, <2>3 DEF FieldsOK
  <2>5. ProgressInv'
    BY <1>0, <2>1 DEF ProgressInv, IsNext
  <2>6. QED  BY <2>1, <2>3, <2>4, <2>5, QuietStep
<1>5. CASE \E f \in File : Apply(f)
  BY <1>5, ApplyStep
<1>6. CASE \E c \in orphans : OrphanTakesEffect(c)
  BY <1>6, OrphanStep
<1>7. QED
  BY <1>1, <1>2, <1>3, <1>4, <1>5, <1>6 DEF Next, Boot, Trouble

-----------------------------------------------------------------------------
(* The inductive invariant.                                                *)
THEOREM MigrateInvariant == Spec => []IInv
<1>1. QED  BY MigrateInit, MigrateStep, PTL DEF Spec

(* TypeOK. *)
THEOREM MigrateTypeCorrect == Spec => []TypeOK
<1>1. ASSUME IInv  PROVE TypeOK
  <2>1. FieldsOK /\ ProgressInv /\ Statements \in [File -> Nat \ {0}]
    BY <1>1, FilesAreNumbers DEF IInv
  <2>2. \A f \in todo : IsNext(f) /\ f \in NoTx => stmt \in 1 .. Statements[f] + 1
    <3>1. stmt \in Nat \ {0} /\ todo \subseteq File
      BY <2>1 DEF FieldsOK
    <3>2. \A f \in todo : Statements[f] \in Nat
      BY <2>1, <3>1
    <3>3. QED  BY <2>1, <3>1, <3>2 DEF ProgressInv
  <2>3. QED  BY <2>1, <2>2 DEF FieldsOK, TypeOK, Schema
<1>2. QED  BY <1>1, MigrateInvariant, PTL

(* NeverHalfRecorded: a transaction brings a file and its record at once,  *)
(* and a record alone is sent after the last statement.                    *)
THEOREM RecordedIsWhole == Spec => []NeverHalfRecorded
<1>1. IInv => NeverHalfRecorded  BY DEF IInv
<1>2. QED  BY <1>1, MigrateInvariant, PTL

(* InLexicalOrder: what is sent is sent when all files below are recorded, *)
(* and records are never removed.                                          *)
THEOREM FilesInOrder == Spec => []InLexicalOrder
<1>1. IInv => InLexicalOrder  BY DEF IInv
<1>2. QED  BY <1>1, MigrateInvariant, PTL

(* ServesMigrated: the process that serves has seen every file recorded.   *)
THEOREM ServedIsMigrated == Spec => []ServesMigrated
<1>1. ASSUME IInv, pc = "serve"  PROVE UNION {StatementsOf(f) : f \in File} \subseteq effects
  <2>1. File \subseteq recorded
    BY <1>1 DEF IInv, ProgressInv
  <2>2. QED  BY <1>1, <2>1 DEF IInv, NeverHalfRecorded
<1>2. IInv => ServesMigrated  BY <1>1 DEF ServesMigrated
<1>3. QED  BY <1>2, MigrateInvariant, PTL
-----------------------------------------------------------------------------
(* The refinement: what a process sends, whenever it takes effect, is a    *)
(* step of the upgrade, or is there already.                               *)
LEMMA ExecuteIsPromised ==
  ASSUME IInv, NEW c, NEW f \in File, Due(c, f), Execute(c),
         UNCHANGED (pc = "serve")
  PROVE  [Promise!Next]_(Promise!vars)
<1>0. NeverHalfRecorded /\ File \subseteq Nat /\ NoTx \subseteq File
  BY FilesAreNumbers DEF IInv
<1>1. CASE UNCHANGED <<effects, recorded>>
  BY <1>1 DEF Promise!vars
<1>2. CASE ~(UNCHANGED <<effects, recorded>>)
  <2>1. /\ effects' = effects \cup c.effects /\ recorded' = recorded \cup c.rows
        /\ c.rows \cap recorded = {}
    BY <1>2 DEF Execute, Conflicts
  <2>2. f \notin recorded
    <3>1. SUFFICES ASSUME f \in recorded  PROVE FALSE
      OBVIOUS
    <3>2. StatementsOf(f) \subseteq effects
      BY <1>0, <3>1 DEF NeverHalfRecorded
    <3>3. c.rows = {} /\ c.effects \subseteq StatementsOf(f)
      BY <2>1, <3>1 DEF Due, SentFor, Transaction, Statement, Record, StatementsOf
    <3>4. QED  BY <1>2, <2>1, <3>2, <3>3
  <2>3. Promise!IsNext(f)
    BY <2>2 DEF Promise!IsNext, Due
  <2>4. f \in 1..NumFiles
    BY DEF File
  <2>5. CASE f \notin NoTx /\ c = Transaction(f)
    <3>1. Promise!Upgrade(f)
      BY <2>1, <2>3, <2>5
        DEF Promise!Upgrade, Promise!StatementsOf, StatementsOf, Transaction
    <3>2. QED  BY <2>4, <3>1 DEF Promise!Next
  <2>6. ASSUME f \in NoTx, NEW i \in 1 .. Statements[f], c = Statement(f, i)
        PROVE  Promise!Next
    <3>1. <<f, i>> \in Promise!StatementsOf(f)
      BY DEF Promise!StatementsOf
    <3>2. effects' = effects \cup {<<f, i>>} /\ recorded' = recorded
      BY <2>1, <2>6 DEF Statement
    <3>3. Promise!RunStatement(f)
      BY <2>3, <2>6, <3>1, <3>2 DEF Promise!RunStatement
    <3>4. QED  BY <2>4, <3>3 DEF Promise!Next
  <2>7. CASE f \in NoTx /\ c = Record(f) /\ StatementsOf(f) \subseteq effects
    <3>1. effects' = effects /\ recorded' = recorded \cup {f}
      BY <2>1, <2>7 DEF Record
    <3>2. Promise!RecordFile(f)
      BY <2>3, <2>7, <3>1 DEF Promise!RecordFile, Promise!StatementsOf, StatementsOf
    <3>3. QED  BY <2>4, <3>2 DEF Promise!Next
  <2>8. QED  BY <2>5, <2>6, <2>7 DEF Due, SentFor
<1>3. QED  BY <1>1, <1>2

LEMMA StepIsPromised ==
  ASSUME IInv, [Next]_vars
  PROVE  [Promise!Next]_(Promise!vars)
<1>0. FieldsOK /\ ProgressInv
  BY DEF IInv
<1>1. ASSUME UNCHANGED <<effects, recorded>>, pc' # "serve" \/ UNCHANGED pc
      PROVE  [Promise!Next]_(Promise!vars)
  <2>1. CASE UNCHANGED (pc = "serve")
    BY <1>1, <2>1 DEF Promise!vars
  <2>2. CASE pc = "serve" /\ pc' # "serve"
    <3>1. Promise!Stop
      BY <1>1, <2>2 DEF Promise!Stop
    <3>2. QED  BY <3>1 DEF Promise!Next
  <2>3. QED  BY <1>1, <2>1, <2>2
<1>2. CASE Start \/ Connect \/ ConnectFails \/ ReadApplied \/ ReadFails
  BY <1>1, <1>2 DEF Start, Connect, ConnectFails, ReadApplied, ReadFails
<1>3. CASE \/ Kill \/ \E f \in File : ApplyFails(f)
           \/ \E c \in orphans : OrphanIsLost(c)
  BY <1>1, <1>3 DEF Kill, ApplyFails, Stop, OrphanIsLost
<1>4. CASE UNCHANGED vars
  BY <1>1, <1>4 DEF vars
<1>5. CASE Serve
  <2>1. pc = "apply" /\ todo = {} /\ pc' = "serve" /\ UNCHANGED <<effects, recorded>>
    BY <1>5 DEF Serve
  <2>2. recorded = 1..NumFiles
    BY <1>0, <2>1 DEF ProgressInv, FieldsOK, File
  <2>3. Promise!Serve
    BY <2>1, <2>2 DEF Promise!Serve
  <2>4. QED  BY <2>3 DEF Promise!Next
<1>6. ASSUME NEW f \in File, Apply(f)  PROVE [Promise!Next]_(Promise!vars)
  <2>1. pc = "apply" /\ pc' # "serve" /\ IsNext(f) /\ Execute(Command(f))
    BY <1>6 DEF Apply
  <2>2. Due(Command(f), f)
    BY <2>1, CommandIsDue
  <2>3. UNCHANGED (pc = "serve")
    BY <2>1
  <2>4. QED  BY <2>1, <2>2, <2>3, ExecuteIsPromised
<1>7. ASSUME NEW c \in orphans, OrphanTakesEffect(c)  PROVE [Promise!Next]_(Promise!vars)
  <2>1. PICK f \in File : Due(c, f)
    BY DEF IInv
  <2>2. Execute(c) /\ UNCHANGED (pc = "serve")
    BY <1>7 DEF OrphanTakesEffect
  <2>3. QED  BY <2>1, <2>2, ExecuteIsPromised
<1>8. QED
  BY <1>2, <1>3, <1>4, <1>5, <1>6, <1>7 DEF Next, Boot, Trouble

(* ImplementsSchemaUpgrade: whatever processes come and go, together they  *)
(* upgrade the schema file by file (migrate.go:15-19).                     *)
THEOREM UpgradeRefinement == Spec => ImplementsSchemaUpgrade
<1>1. Init => Promise!Init
  BY DEF Init, Promise!Init
<1>2. IInv /\ [Next]_vars => [Promise!Next]_(Promise!vars)
  BY StepIsPromised
<1>3. QED  BY <1>1, <1>2, MigrateInvariant, PTL DEF Spec, ImplementsSchemaUpgrade, Promise!Spec
=============================================================================
