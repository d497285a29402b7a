-------------------------- MODULE ControlPlaneProofs --------------------------
(***************************************************************************)
(* The safety properties of ControlPlane, for any number of administrators *)
(* and requests and any failures.                                          *)
(***************************************************************************)
EXTENDS ControlPlane, TLAPS

Body == [interval : Int, cap : Int, rules : Seq(Metric \X RuleValue)]
Rules == [Metric -> RuleValue]
Snapshot == [rules : Rules \cup {NoRules}, version : Nat, reading : BOOLEAN]

FieldsOK ==
  /\ db \in [interval : 1..3600, cap : 1..1000, rules : Rules]
  /\ db.rules \in past /\ past \subseteq Rules
  /\ pc \in [Admin -> {"idle", "interval", "cap", "rules", "install"}]
  /\ req \in [Admin -> Body]
  /\ cache \in [rules : Rules \cup {NoRules}, cap : Nat]
  /\ snapshot \in [Reloader -> Snapshot]
  /\ dbVersion \in Version /\ cacheVersion \in Version /\ promised \in Version
  /\ answer \in 1..3600 /\ interval \in 1..3600

(* A PUT holds a snapshot from the time its Reload has read to the time it *)
(* has installed.                                                          *)
HoldingInv == \A p \in Admin : pc[p] = "install" <=> snapshot[p].reading

(* Rules with a version were in the table when it had that many writes.    *)
WasStored(rules, version) ==
  /\ version > 0 => rules \in past
  /\ version <= dbVersion.rules
  /\ version = dbVersion.rules => rules = db.rules

VersionsInv ==
  /\ dbVersion.rules > 0
  /\ \A r \in Reloader : snapshot[r].reading => WasStored(snapshot[r].rules, snapshot[r].version)
  /\ WasStored(cache.rules, cacheVersion.rules)
  /\ promised.cap <= cacheVersion.cap /\ cacheVersion.cap <= dbVersion.cap

IInv == FieldsOK /\ HoldingInv /\ VersionsInv

-----------------------------------------------------------------------------
LEMMA ControlPlaneInit == Init => IInv
<1> SUFFICES ASSUME Init  PROVE IInv
  OBVIOUS
<1>1. /\ SeedInterval \in 1..3600 /\ SeedCap \in 1..1000 /\ SeedRules \in Rules /\ DefaultCap \in Nat
  BY ControlPlaneAssumption DEF ControlPlaneAssumption, ValidInterval, ValidCap, Rules
<1>2. None \in Snapshot /\ ~None.reading /\ NoRequest \in Body
  BY DEF None, Snapshot, NoRequest, Body, Unchanged
<1>3. FieldsOK
  BY <1>1, <1>2 DEF Init, FieldsOK, Version
<1>4. HoldingInv
  BY <1>2 DEF Init, HoldingInv, Reloader
<1>5. VersionsInv
  BY <1>2 DEF Init, VersionsInv, WasStored
<1>6. QED  BY <1>3, <1>4, <1>5 DEF IInv

(* A step that leaves the rules of the table and all caches alone; writes  *)
(* of the cap only make the cache older.                                   *)
LEMMA QuietStep ==
  ASSUME IInv, FieldsOK', HoldingInv', db'.rules = db.rules, UNCHANGED <<past, cacheVars>>,
         dbVersion'.rules = dbVersion.rules, dbVersion'.cap >= dbVersion.cap
  PROVE  IInv'
<1>1. dbVersion'.cap \in Nat /\ dbVersion.cap \in Nat /\ cacheVersion.cap \in Nat
  BY DEF IInv, FieldsOK, Version
<1>2. \A rules, version : WasStored(rules, version)' <=> WasStored(rules, version)
  BY DEF WasStored, cacheVars
<1>3. VersionsInv'
  BY <1>1, <1>2 DEF IInv, VersionsInv, cacheVars
<1>4. QED  BY <1>3 DEF IInv

(* What was stored stays so when a rule is written after it.               *)
LEMMA StoreRuleStep ==
  ASSUME IInv, NEW m \in Metric, NEW v \in RuleValue, StoreRule(m, v),
         UNCHANGED <<cacheVars, collectorVars, pc>>, req' \in [Admin -> Body]
  PROVE  IInv'
<1>0. FieldsOK /\ HoldingInv /\ VersionsInv
  BY DEF IInv
<1>1. /\ db' = [db EXCEPT !.rules[m] = v] /\ past' = past \cup {db'.rules}
      /\ dbVersion' = [dbVersion EXCEPT !.rules = @ + 1]
  BY DEF StoreRule
<1>2. db.rules \in Rules /\ db'.rules \in Rules
  BY <1>0, <1>1 DEF FieldsOK, Rules
<1>3. db' \in [interval : 1..3600, cap : 1..1000, rules : Rules]
  BY <1>0, <1>1, <1>2 DEF FieldsOK
<1>4. /\ dbVersion' \in Version /\ dbVersion'.rules = dbVersion.rules + 1 /\ dbVersion'.cap = dbVersion.cap
      /\ dbVersion.rules \in Nat
  BY <1>0, <1>1 DEF FieldsOK, Version
<1>5. FieldsOK'
  <2>1. past' \subseteq Rules /\ db'.rules \in past'
    BY <1>0, <1>1, <1>2 DEF FieldsOK
  <2>2. UNCHANGED <<pc, cache, cacheVersion, snapshot, promised, answer, interval>>
    BY DEF cacheVars, collectorVars
  <2>3. QED  BY <1>0, <1>3, <1>4, <2>1, <2>2 DEF FieldsOK
<1>6. HoldingInv'
  BY <1>0 DEF HoldingInv, cacheVars
<1>7. ASSUME NEW rules, NEW version \in Nat, WasStored(rules, version)
      PROVE  WasStored(rules, version)'
  BY <1>1, <1>4, <1>7 DEF WasStored
<1>8. /\ \A r \in Reloader : snapshot[r].version \in Nat
      /\ cacheVersion.rules \in Nat
  BY <1>0 DEF FieldsOK, Snapshot, Version
<1>9. VersionsInv'
  BY <1>0, <1>4, <1>7, <1>8 DEF VersionsInv, cacheVars
<1>10. QED  BY <1>5, <1>6, <1>9 DEF IInv

(* What Reload reads is what is stored. *)
LEMMA ReadStep ==
  ASSUME IInv, NEW r \in Reloader, Read(r), UNCHANGED <<dbVars, req, cache, cacheVersion, promised, collectorVars>>,
         pc' = IF r \in Admin THEN [pc EXCEPT ![r] = "install"] ELSE pc
  PROVE  IInv'
<1> DEFINE new == [rules |-> db.rules, version |-> dbVersion.rules, reading |-> TRUE]
<1>0. FieldsOK /\ HoldingInv /\ VersionsInv
  BY DEF IInv
<1>1. new \in Snapshot /\ new.reading /\ WasStored(new.rules, new.version)
  BY <1>0 DEF FieldsOK, Snapshot, Version, WasStored
<1>2. snapshot' = [snapshot EXCEPT ![r] = new]
  BY DEF Read
<1> HIDE DEF new
<1>3. FieldsOK'
  BY <1>0, <1>1, <1>2 DEF FieldsOK, dbVars, collectorVars
<1>4. HoldingInv'
  BY <1>0, <1>1, <1>2 DEF FieldsOK, HoldingInv, Reloader
<1>5. \A rules, version : WasStored(rules, version)' <=> WasStored(rules, version)
  BY DEF WasStored, dbVars
<1>6. VersionsInv'
  BY <1>0, <1>1, <1>2, <1>5 DEF FieldsOK, VersionsInv, dbVars
<1>7. QED  BY <1>3, <1>4, <1>6 DEF IInv

(* Install puts what was stored into the cache, and the cap of this        *)
(* moment, or leaves the cap that was there.                               *)
LEMMA InstallStep ==
  ASSUME IInv, NEW r \in Reloader, NEW capRead \in BOOLEAN, Install(r, capRead), snapshot[r].reading,
         UNCHANGED <<dbVars, req, collectorVars>>,
         pc' = IF r \in Admin THEN [pc EXCEPT ![r] = "idle"] ELSE pc,
         promised' \in Version,
         \/ promised'.cap = promised.cap
         \/ capRead /\ promised'.cap = dbVersion.cap
  PROVE  IInv'
<1>0. FieldsOK /\ HoldingInv /\ VersionsInv
  BY DEF IInv
<1>1. /\ snapshot' = [snapshot EXCEPT ![r] = None]
      /\ cache'.rules = snapshot[r].rules /\ cacheVersion'.rules = snapshot[r].version
      /\ cacheVersion'.cap = IF capRead THEN dbVersion.cap ELSE cacheVersion.cap
  BY DEF Install
<1>2. snapshot[r] \in Snapshot /\ None \in Snapshot /\ ~None.reading
  BY <1>0 DEF FieldsOK, None, Snapshot
<1>3. FieldsOK'
  <2>1. cache' \in [rules : Rules \cup {NoRules}, cap : Nat] /\ cacheVersion' \in Version
    <3>1. db.cap \in Nat /\ cache.cap \in Nat /\ dbVersion.cap \in Nat /\ cacheVersion.cap \in Nat
      <4>1. db.cap \in 1..1000  BY <1>0 DEF FieldsOK
      <4>2. db.cap \in Nat  BY <4>1
      <4>3. cache.cap \in Nat  BY <1>0 DEF FieldsOK
      <4>4. dbVersion.cap \in Nat /\ cacheVersion.cap \in Nat  BY <1>0 DEF FieldsOK, Version
      <4>5. QED  BY <4>2, <4>3, <4>4
    <3>2. snapshot[r].rules \in Rules \cup {NoRules} /\ snapshot[r].version \in Nat
      BY <1>2 DEF Snapshot
    <3>3. QED  BY <3>1, <3>2 DEF Install, Version
  <2>2. pc' \in [Admin -> {"idle", "interval", "cap", "rules", "install"}]
    BY <1>0 DEF FieldsOK
  <2>3. snapshot' \in [Reloader -> Snapshot]
    BY <1>0, <1>1, <1>2 DEF FieldsOK
  <2>4. QED  BY <1>0, <2>1, <2>2, <2>3 DEF FieldsOK, dbVars, collectorVars
<1>4. HoldingInv'
  BY <1>0, <1>1, <1>2 DEF FieldsOK, HoldingInv, Reloader
<1>5. \A rules, version : WasStored(rules, version)' <=> WasStored(rules, version)
  BY DEF WasStored, dbVars
<1>6. ASSUME NEW q \in Reloader
      PROVE  (snapshot[q].reading => WasStored(snapshot[q].rules, snapshot[q].version))'
  <2>1. CASE q = r
    BY <1>0, <1>1, <1>2, <2>1 DEF FieldsOK
  <2>2. CASE q # r
    <3>1. snapshot'[q] = snapshot[q]
      BY <1>0, <1>1, <2>2 DEF FieldsOK
    <3>2. QED  BY <1>0, <1>5, <3>1 DEF VersionsInv
  <2>3. QED  BY <2>1, <2>2
<1>7. WasStored(cache.rules, cacheVersion.rules)'
  BY <1>0, <1>1, <1>5 DEF VersionsInv
<1>8. promised'.cap <= cacheVersion'.cap /\ cacheVersion'.cap <= dbVersion'.cap
  <2>1. dbVersion.cap \in Nat /\ cacheVersion.cap \in Nat /\ promised.cap \in Nat
    BY <1>0 DEF FieldsOK, Version
  <2>2. promised.cap <= cacheVersion.cap /\ cacheVersion.cap <= dbVersion.cap /\ dbVersion' = dbVersion
    BY <1>0 DEF VersionsInv, dbVars
  <2>3. QED  BY <1>1, <2>1, <2>2
<1>9. VersionsInv'
  BY <1>0, <1>6, <1>7, <1>8 DEF VersionsInv, dbVars
<1>10. QED  BY <1>3, <1>4, <1>9 DEF IInv

-----------------------------------------------------------------------------
LEMMA PutStep ==
  ASSUME IInv, NEW p \in Admin, PutStart(p) \/ Put(p)
  PROVE  IInv'
<1>0. /\ FieldsOK /\ HoldingInv /\ VersionsInv /\ p \in Reloader
      /\ Requests \subseteq Body
  BY ControlPlaneAssumption DEF IInv, Reloader, ControlPlaneAssumption, Body
<1>1. CASE PutStart(p)
  <2>1. /\ UNCHANGED <<dbVars, cacheVars, collectorVars>> /\ pc[p] = "idle"
        /\ pc' = [pc EXCEPT ![p] = "interval"] /\ req' \in [Admin -> Body]
    BY <1>0, <1>1 DEF PutStart, Goto, FieldsOK
  <2>2. FieldsOK' /\ HoldingInv'
    BY <1>0, <2>1 DEF FieldsOK, HoldingInv, dbVars, cacheVars, collectorVars
  <2>3. dbVersion.cap \in Nat  BY <1>0 DEF FieldsOK, Version
  <2>4. QED  BY <2>1, <2>2, <2>3, QuietStep DEF dbVars
<1>2. CASE PutInterval(p)
  <2>1. /\ UNCHANGED <<dbVersion, past, req, cacheVars, collectorVars>> /\ pc[p] = "interval"
        /\ pc' = [pc EXCEPT ![p] = "cap"] \/ pc' = [pc EXCEPT ![p] = "idle"]
    BY <1>2 DEF PutInterval, Goto
  <2>2. db' \in [interval : 1..3600, cap : 1..1000, rules : Rules] /\ db'.rules = db.rules
    <3>1. \/ db' = db
          \/ ValidInterval(req[p].interval) /\ db' = [db EXCEPT !.interval = req[p].interval]
      BY <1>2 DEF PutInterval
    <3>2. QED  BY <1>0, <3>1 DEF FieldsOK, ValidInterval
  <2>3. FieldsOK' /\ HoldingInv'
    <3>1. pc' \in [Admin -> {"idle", "interval", "cap", "rules", "install"}]
      BY <1>0, <2>1 DEF FieldsOK
    <3>2. FieldsOK'
      BY <1>0, <2>1, <2>2, <3>1 DEF FieldsOK, cacheVars, collectorVars
    <3>3. HoldingInv'
      BY <1>0, <2>1 DEF FieldsOK, HoldingInv, cacheVars
    <3>4. QED  BY <3>2, <3>3
  <2>4. dbVersion.cap \in Nat  BY <1>0 DEF FieldsOK, Version
  <2>5. QED  BY <2>1, <2>2, <2>3, <2>4, QuietStep
<1>3. CASE PutCap(p)
  <2>1. /\ UNCHANGED <<past, req, cacheVars, collectorVars>> /\ pc[p] = "cap"
        /\ pc' = [pc EXCEPT ![p] = "rules"] \/ pc' = [pc EXCEPT ![p] = "idle"]
    BY <1>3 DEF PutCap, Goto
  <2>2. db' \in [interval : 1..3600, cap : 1..1000, rules : Rules] /\ db'.rules = db.rules
    <3>1. db' = db \/ (ValidCap(req[p].cap) /\ db' = [db EXCEPT !.cap = req[p].cap])
      BY <1>3 DEF PutCap
    <3>2. QED  BY <1>0, <3>1 DEF FieldsOK, ValidCap
  <2>3. dbVersion' \in Version /\ dbVersion'.rules = dbVersion.rules /\ dbVersion'.cap >= dbVersion.cap
    <3>1. dbVersion' = dbVersion \/ dbVersion' = [dbVersion EXCEPT !.cap = @ + 1]
      BY <1>3 DEF PutCap
    <3>2. QED  BY <1>0, <3>1 DEF FieldsOK, Version
  <2>4. FieldsOK' /\ HoldingInv'
    <3>1. pc' \in [Admin -> {"idle", "interval", "cap", "rules", "install"}]
      BY <1>0, <2>1 DEF FieldsOK
    <3>2. FieldsOK'
      BY <1>0, <2>1, <2>2, <2>3, <3>1 DEF FieldsOK, cacheVars, collectorVars
    <3>3. HoldingInv'
      BY <1>0, <2>1 DEF FieldsOK, HoldingInv, cacheVars
    <3>4. QED  BY <3>2, <3>3
  <2>5. QED  BY <2>1, <2>2, <2>3, <2>4, QuietStep
<1>4. CASE PutRule(p)
  <2> DEFINE rules == req[p].rules
  <2>1. rules \in Seq(Metric \X RuleValue) /\ rules # <<>>
    BY <1>0, <1>4 DEF PutRule, FieldsOK, Body
  <2>2. Head(rules)[1] \in Metric /\ Head(rules)[2] \in RuleValue /\ Tail(rules) \in Seq(Metric \X RuleValue)
    BY <2>1
  <2>3. CASE /\ StoreRule(Head(rules)[1], Head(rules)[2])
             /\ req' = [req EXCEPT ![p].rules = Tail(@)] /\ UNCHANGED <<pc, bounds>>
    <3>1. req' \in [Admin -> Body]
      <4>1. req \in [Admin -> Body] /\ req[p] \in Body
        BY <1>0 DEF FieldsOK
      <4>2. [req[p] EXCEPT !.rules = Tail(rules)] \in Body
        BY <2>2, <4>1 DEF Body
      <4>3. req' = [req EXCEPT ![p] = [req[p] EXCEPT !.rules = Tail(rules)]]
        BY <2>3, <4>1
      <4>4. QED  BY <4>1, <4>2, <4>3
    <3>2. QED  BY <1>4, <2>2, <2>3, <3>1, StoreRuleStep DEF PutRule
  <2>4. CASE Fail /\ Goto(p, "idle") /\ UNCHANGED <<dbVars, req>>
    <3>1. pc[p] = "rules"  BY <1>4 DEF PutRule
    <3>2. FieldsOK' /\ HoldingInv' /\ UNCHANGED cacheVars
      BY <1>0, <1>4, <2>4, <3>1 DEF PutRule, Goto, FieldsOK, HoldingInv, dbVars, cacheVars, collectorVars
    <3>3. dbVersion.cap \in Nat  BY <1>0 DEF FieldsOK, Version
    <3>4. QED  BY <2>4, <3>2, <3>3, QuietStep DEF dbVars
  <2>5. QED  BY <1>4, <2>3, <2>4 DEF PutRule
<1>5. CASE PutReloadRead(p)
  <2>1. CASE Read(p) /\ Goto(p, "install")
    BY <1>0, <1>5, <2>1, ReadStep DEF PutReloadRead, Goto
  <2>2. CASE Fail /\ Goto(p, "idle") /\ UNCHANGED snapshot
    <3>1. pc[p] = "rules" /\ UNCHANGED <<dbVars, req, cacheVars, collectorVars>>
      BY <1>5, <2>2 DEF PutReloadRead, cacheVars
    <3>2. FieldsOK' /\ HoldingInv'
      BY <1>0, <2>2, <3>1 DEF Goto, FieldsOK, HoldingInv, dbVars, cacheVars, collectorVars
    <3>3. dbVersion.cap \in Nat  BY <1>0 DEF FieldsOK, Version
    <3>4. QED  BY <3>1, <3>2, <3>3, QuietStep DEF dbVars
  <2>3. QED  BY <1>5, <2>1, <2>2 DEF PutReloadRead
<1>6. CASE PutReloadInstall(p)
  <2>1. /\ snapshot[p].reading /\ UNCHANGED <<dbVars, req, collectorVars>>
        /\ pc' = [pc EXCEPT ![p] = "idle"]
    BY <1>0, <1>6 DEF PutReloadInstall, Goto, HoldingInv
  <2>2. LastPromised(p) \in Nat /\ dbVersion \in Version /\ promised \in Version
    BY <1>0 DEF FieldsOK, Snapshot, Version, LastPromised
  <2>3. CASE /\ Install(p, TRUE)
             /\ promised' = [rules |-> LastPromised(p), cap |-> dbVersion.cap]
    <3>1. promised' \in Version /\ promised'.cap = dbVersion.cap
      BY <2>2, <2>3 DEF Version
    <3>2. QED  BY <1>0, <2>1, <2>3, <3>1, InstallStep
  <2>4. CASE /\ Install(p, FALSE)
             /\ promised' = [promised EXCEPT !.rules = LastPromised(p)]
    <3>1. promised' \in Version /\ promised'.cap = promised.cap
      BY <2>2, <2>4 DEF Version
    <3>2. QED  BY <1>0, <2>1, <2>4, <3>1, InstallStep
  <2>5. QED  BY <1>6, <2>3, <2>4 DEF PutReloadInstall
<1>7. QED  BY <1>1, <1>2, <1>3, <1>4, <1>5, <1>6 DEF Put

LEMMA TickStep ==
  ASSUME IInv, Tick
  PROVE  IInv'
<1>0. Ticker \in Reloader /\ Ticker \notin Admin /\ promised \in Version
  BY ControlPlaneAssumption DEF Reloader, ControlPlaneAssumption, IInv, FieldsOK
<1>1. CASE TickRead
  BY <1>0, <1>1, ReadStep DEF TickRead
<1>2. CASE TickInstall
  BY <1>0, <1>2, InstallStep DEF TickInstall
<1>3. CASE TickInstallNoCap
  BY <1>0, <1>3, InstallStep DEF TickInstallNoCap
<1>4. QED  BY <1>1, <1>2, <1>3 DEF Tick

LEMMA RestartStep ==
  ASSUME IInv, Restart
  PROVE  IInv'
<1>0. FieldsOK /\ VersionsInv /\ DefaultCap \in Nat
  BY ControlPlaneAssumption DEF IInv, ControlPlaneAssumption
<1>1. None \in Snapshot /\ ~None.reading /\ NoRequest \in Body
  BY DEF None, Snapshot, NoRequest, Body, Unchanged
<1>2. FieldsOK'
  BY <1>0, <1>1 DEF Restart, FieldsOK, Version, dbVars
<1>3. HoldingInv'
  BY <1>1 DEF Restart, HoldingInv, Reloader
<1>4. dbVersion.rules \in Nat /\ dbVersion.cap \in Nat
  BY <1>0 DEF FieldsOK, Version
<1>5. VersionsInv'
  BY <1>0, <1>1, <1>4 DEF Restart, VersionsInv, WasStored, dbVars
<1>6. QED  BY <1>2, <1>3, <1>5 DEF IInv

LEMMA PollStep ==
  ASSUME IInv, PollRead \/ PollReadFails \/ PollAdopt \/ PollLost \/ UNCHANGED vars
  PROVE  IInv'
<1>0. FieldsOK /\ HoldingInv
  BY DEF IInv
<1>1. UNCHANGED <<dbVars, pc, req, cacheVars>>
  BY DEF PollRead, PollReadFails, PollAdopt, PollLost, vars
<1>2. answer' \in 1..3600 /\ interval' \in 1..3600
  <2>1. answer \in 1..3600 /\ interval \in 1..3600 /\ db.interval \in 1..3600
    BY <1>0 DEF FieldsOK
  <2>2. answer' \in {answer, db.interval, Fallback} /\ interval' \in {interval, Adopt(answer)}
    BY DEF PollRead, PollReadFails, PollAdopt, PollLost, vars, collectorVars
  <2>3. Adopt(answer) \in {answer, interval}  BY DEF Adopt
  <2>4. Fallback \in 1..3600  BY DEF Fallback
  <2>5. answer' \in 1..3600
    <3>1. answer' = answer \/ answer' = db.interval \/ answer' = Fallback
      BY <2>2
    <3>2. CASE answer' = answer  BY <2>1, <3>2
    <3>3. CASE answer' = db.interval  BY <2>1, <3>3
    <3>4. CASE answer' = Fallback  BY <2>4, <3>4
    <3>5. QED  BY <3>1, <3>2, <3>3, <3>4
  <2>6. interval' \in {interval, answer}  BY <2>2, <2>3
  <2>7. QED  BY <2>1, <2>5, <2>6
<1>3. FieldsOK' /\ HoldingInv'
  BY <1>0, <1>1, <1>2 DEF FieldsOK, HoldingInv, dbVars, cacheVars
<1>4. dbVersion.cap \in Nat  BY <1>0 DEF FieldsOK, Version
<1>5. QED  BY <1>1, <1>3, <1>4, QuietStep DEF dbVars

-----------------------------------------------------------------------------
(* The inductive invariant.                                                *)
THEOREM ControlPlaneInvariant == Spec => []IInv
<1>1. IInv /\ [Next]_vars => IInv'
  BY PutStep, TickStep, RestartStep, PollStep DEF Next
<1>2. QED  BY <1>1, ControlPlaneInit, PTL DEF Spec

(* TypeOK. *)
THEOREM ControlPlaneTypeCorrect == Spec => []TypeOK
<1>1. IInv => TypeOK
  BY DEF IInv, FieldsOK, HoldingInv, TypeOK, ValidInterval, ValidCap, Rules
<1>2. QED  BY <1>1, ControlPlaneInvariant, PTL

(* CacheWasStored: what a Reload has read was in the table then, and no    *)
(* version is ever used twice.                                             *)
THEOREM CacheIsFromTable == Spec => []CacheWasStored
<1>1. IInv => CacheWasStored
  BY DEF IInv, VersionsInv, WasStored, CacheWasStored
<1>2. QED  BY <1>1, ControlPlaneInvariant, PTL

(* CapTakesEffect: a PUT promises the cap it has just installed, and later *)
(* Reloads read a later one.                                               *)
THEOREM CapIsInEffect == Spec => []CapTakesEffect
<1>1. ASSUME IInv  PROVE CapTakesEffect
  <2>1. promised.cap <= cacheVersion.cap /\ promised.cap \in Nat /\ cacheVersion.cap \in Nat
    BY <1>1 DEF IInv, VersionsInv, FieldsOK, Version
  <2>2. QED  BY <2>1 DEF CapTakesEffect
<1>2. QED  BY <1>1, ControlPlaneInvariant, PTL

-----------------------------------------------------------------------------
(* BoundsTakeEffect does not hold: a Reload that read before a PUT wrote    *)
(* may install after it.  That is the only way the rules of a PUT go out   *)
(* of effect.                                                              *)
Late(r) == snapshot[r].reading /\ snapshot[r].version < promised.rules

OnlyOverlapUndoes ==
  /\ \A r \in Reloader : ~snapshot[r].reading => ~Late(r)'
  /\ BoundsTakeEffect /\ ~BoundsTakeEffect' =>
       \E r \in Reloader : Late(r) /\ cache'.rules = snapshot[r].rules

PromisedInv == promised.rules <= dbVersion.rules

(* What a step does to the caches and to what has been promised.           *)
Reads(r) == Read(r) /\ UNCHANGED <<dbVersion, cache, cacheVersion, promised>>
Installs(r) ==
  /\ snapshot[r].reading
  /\ Install(r, TRUE) \/ Install(r, FALSE)
  /\ promised'.rules \in {promised.rules, LastPromised(r)}
  /\ UNCHANGED dbVersion

LEMMA CacheSteps ==
  ASSUME IInv, [Next]_vars
  PROVE  \/ UNCHANGED cacheVars /\ dbVersion'.rules >= dbVersion.rules
         \/ \E r \in Reloader : Reads(r) \/ Installs(r)
         \/ Restart
<1> DEFINE Quiet == UNCHANGED cacheVars /\ dbVersion'.rules >= dbVersion.rules
<1>0. /\ dbVersion \in Version /\ promised \in Version /\ dbVersion.rules \in Nat
      /\ Admin \subseteq Reloader /\ Ticker \in Reloader /\ HoldingInv
  BY DEF IInv, FieldsOK, Version, Reloader
<1>1. ASSUME UNCHANGED <<cacheVars, dbVersion>>  PROVE Quiet
  BY <1>0, <1>1
<1>2. ASSUME NEW p \in Admin, PutStart(p) \/ PutInterval(p)  PROVE Quiet
  BY <1>1, <1>2 DEF PutStart, PutInterval, dbVars
<1>3. ASSUME NEW p \in Admin, PutCap(p)  PROVE Quiet
  <2>1. UNCHANGED cacheVars /\ (dbVersion' = dbVersion \/ dbVersion' = [dbVersion EXCEPT !.cap = @ + 1])
    BY <1>3 DEF PutCap
  <2>2. QED  BY <1>0, <2>1 DEF Version
<1>4. ASSUME NEW p \in Admin, PutRule(p)  PROVE Quiet
  <2>1. UNCHANGED cacheVars /\ (dbVersion' = dbVersion \/ dbVersion' = [dbVersion EXCEPT !.rules = @ + 1])
    BY <1>4 DEF PutRule, StoreRule, dbVars
  <2>2. QED  BY <1>0, <2>1 DEF Version
<1>5. ASSUME NEW p \in Admin, PutReloadRead(p)  PROVE Quiet \/ Reads(p)
  BY <1>1, <1>5 DEF PutReloadRead, Reads, dbVars, cacheVars
<1>6. ASSUME NEW p \in Admin, PutReloadInstall(p)  PROVE Installs(p)
  <2>1. snapshot[p].reading /\ dbVersion' = dbVersion
    BY <1>0, <1>6 DEF PutReloadInstall, HoldingInv, dbVars
  <2>2. Install(p, TRUE) \/ Install(p, FALSE)
    BY <1>6 DEF PutReloadInstall
  <2>3. promised'.rules = LastPromised(p)
    <3>1. \/ promised' = [rules |-> LastPromised(p), cap |-> dbVersion.cap]
          \/ promised' = [promised EXCEPT !.rules = LastPromised(p)]
      BY <1>6 DEF PutReloadInstall
    <3>2. QED  BY <1>0, <3>1 DEF Version
  <2>4. QED  BY <2>1, <2>2, <2>3 DEF Installs
<1>7. ASSUME Tick  PROVE Reads(Ticker) \/ Installs(Ticker)
  BY <1>7 DEF Tick, TickRead, TickInstall, TickInstallNoCap, Reads, Installs, dbVars
<1>8. ASSUME PollRead \/ PollReadFails \/ PollAdopt \/ PollLost \/ UNCHANGED vars  PROVE Quiet
  BY <1>1, <1>8 DEF PollRead, PollReadFails, PollAdopt, PollLost, vars, dbVars
<1>9. QED  BY <1>0, <1>2, <1>3, <1>4, <1>5, <1>6, <1>7, <1>8 DEF Next, Put

(* What is promised was read from the table.                               *)
LEMMA PromisedStep ==
  ASSUME IInv, PromisedInv, [Next]_vars
  PROVE  PromisedInv'
<1>0. dbVersion.rules \in Nat /\ dbVersion'.rules \in Nat /\ promised.rules \in Nat
  <2>1. IInv'  BY PutStep, TickStep, RestartStep, PollStep DEF Next
  <2>2. QED  BY <2>1 DEF IInv, FieldsOK, Version
<1>1. CASE UNCHANGED cacheVars /\ dbVersion'.rules >= dbVersion.rules
  BY <1>0, <1>1 DEF PromisedInv, cacheVars
<1>2. CASE \E r \in Reloader : Reads(r)
  BY <1>2 DEF Reads, PromisedInv
<1>3. CASE \E r \in Reloader : Installs(r)
  <2>1. PICK r \in Reloader : Installs(r)
    BY <1>3
  <2>2. snapshot[r].version <= dbVersion.rules
    BY <2>1 DEF IInv, VersionsInv, WasStored, Installs
  <2>3. QED  BY <2>1, <2>2 DEF Installs, LastPromised, PromisedInv
<1>4. CASE Restart
  BY <1>0, <1>4 DEF Restart, PromisedInv
<1>5. QED  BY <1>1, <1>2, <1>3, <1>4, CacheSteps

(* alert.go:63-102, config.go:118-119: a Reload that begins after a PUT is *)
(* done never undoes its rules; they go out of effect only when a Reload   *)
(* that had read before, of the ticker or of another PUT, installs.        *)
THEOREM OnlyOverlapsUndo == Spec => [][OnlyOverlapUndoes]_vars
<1>1. ASSUME IInv, PromisedInv, [Next]_vars  PROVE OnlyOverlapUndoes
  <2>0. /\ snapshot \in [Reloader -> Snapshot]
        /\ \A r \in Reloader : snapshot[r].version \in Nat
        /\ dbVersion.rules \in Nat /\ promised.rules \in Nat /\ cacheVersion.rules \in Nat
    BY <1>1 DEF IInv, FieldsOK, Version, Snapshot
  <2>1. CASE UNCHANGED cacheVars
    BY <2>1 DEF OnlyOverlapUndoes, Late, BoundsTakeEffect, cacheVars
  <2>2. CASE \E r \in Reloader : Reads(r)
    <3>1. PICK r \in Reloader : Reads(r)
      BY <2>2
    <3>2. /\ UNCHANGED <<cache, cacheVersion, promised>>
          /\ snapshot'[r].version = dbVersion.rules
          /\ \A q \in Reloader : q # r => snapshot'[q] = snapshot[q]
      BY <2>0, <3>1 DEF Reads, Read
    <3>3. ~Late(r)'
      BY <1>1, <2>0, <3>2 DEF Late, PromisedInv
    <3>4. QED  BY <3>2, <3>3 DEF OnlyOverlapUndoes, Late, BoundsTakeEffect
  <2>3. CASE \E r \in Reloader : Installs(r)
    <3>1. PICK r \in Reloader : Installs(r)
      BY <2>3
    <3>2. /\ cacheVersion'.rules = snapshot[r].version /\ cache'.rules = snapshot[r].rules
          /\ snapshot' = [snapshot EXCEPT ![r] = None]
      BY <3>1 DEF Installs, Install
    <3>3. \A q \in Reloader : ~snapshot[q].reading => ~Late(q)'
      BY <2>0, <3>2 DEF Late, None
    <3>4. ASSUME ~BoundsTakeEffect'  PROVE Late(r)
      BY <2>0, <3>1, <3>2, <3>4 DEF Installs, LastPromised, BoundsTakeEffect, Late
    <3>5. QED  BY <3>2, <3>3, <3>4 DEF OnlyOverlapUndoes
  <2>4. CASE Restart
    BY <2>4 DEF Restart, OnlyOverlapUndoes, Late, BoundsTakeEffect, None
  <2>5. QED  BY <1>1, <2>1, <2>2, <2>3, <2>4, CacheSteps
<1>2. Init => PromisedInv
  BY DEF Init, PromisedInv
<1>3. QED  BY <1>1, <1>2, PromisedStep, ControlPlaneInvariant, PTL DEF Spec
=============================================================================
