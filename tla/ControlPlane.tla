----------------------------- MODULE ControlPlane -----------------------------
(***************************************************************************)
(* The closed configuration loop: administrators PUT /api/config           *)
(* (api/config.go), the server stores each field in a statement of its own *)
(* and reloads the alerter's cache (alert.go Reload), a ticker reloads it  *)
(* too, and the collector polls GET /api/config and adopts the sampling    *)
(* interval (collector.py config_loop).  Every database statement may      *)
(* fail, MaxFailures times in all.                                         *)
(***************************************************************************)
EXTENDS Integers, Sequences

CONSTANTS
  Metric,        \* metrics with an alert rule
  RuleValue,     \* the rules an administrator may give a metric
  Admin,         \* PUT requests that may run at the same time
  Requests,      \* the bodies they may carry
  SeedInterval, SeedCap, SeedRules,   \* the rows the migrations insert
  DefaultCap,                         \* ALERT_MAX_EMAILS_PER_DAY, handed to alert.New
  MaxPuts, MaxFailures, MaxRestarts   \* bounds

Ticker == "ticker"     \* alert.go Start's goroutine
Reloader == Admin \cup {Ticker}
Unchanged == 0         \* a PUT field of 0 is left alone
FallbackZero == 0      \* faulty variant
Fallback  == 5         \* currentConfig's interval without a row
ValidInterval(i) == i \in 1..3600
ValidCap(c) == c \in 1..1000

ASSUME ControlPlaneAssumption ==
  /\ Requests \subseteq [interval : Int, cap : Int, rules : Seq(Metric \X RuleValue)]
  /\ ValidInterval(SeedInterval) /\ ValidCap(SeedCap)
  /\ SeedRules \in [Metric -> RuleValue]
  /\ Ticker \notin Admin
  /\ DefaultCap \in Nat
  /\ {MaxPuts, MaxFailures, MaxRestarts} \subseteq Nat

VARIABLES
  db,          \* the config and alert_threshold tables
  dbVersion,   \* history: writes to the rules and to the cap so far
  past,        \* history: the rules the table has held
  pc, req,     \* each PUT: the statement it is about to run, and its body
  cache,       \* the alerter's rules and maxPerDay
  cacheVersion,\* history: the writes the cache reflects
  snapshot,    \* what each Reload has read and not yet installed
  promised,    \* history: the writes of the PUTs whose Reload is done
  poll, answer,\* the collector's GET: under way?, and the interval in the answer
  interval,    \* the collector's State.interval
  bounds       \* PUTs, failed statements and server restarts so far

dbVars == <<db, dbVersion, past>>
cacheVars == <<cache, cacheVersion, snapshot, promised>>
collectorVars == <<poll, answer, interval>>
vars == <<dbVars, pc, req, cacheVars, collectorVars, bounds>>

Absent == "absent"     \* the cache's rule for a metric it has none for
NoRules == [m \in Metric |-> Absent]
None == [rules |-> NoRules, version |-> 0, reading |-> FALSE]
NoRequest == [interval |-> Unchanged, cap |-> Unchanged, rules |-> <<>>]

(* A statement fails: connection lost, pool timeout, request cancelled. *)
Fail == bounds.failures < MaxFailures /\ bounds' = [bounds EXCEPT !.failures = @ + 1]
Goto(p, l) == pc' = [pc EXCEPT ![p] = l]

-----------------------------------------------------------------------------
(* handlePutConfig.  Any early return leaves what was written before it.   *)
PutStart(p) ==
  /\ pc[p] = "idle" /\ bounds.puts < MaxPuts
  /\ \E r \in Requests : req' = [req EXCEPT ![p] = r]
  /\ bounds' = [bounds EXCEPT !.puts = @ + 1]
  /\ Goto(p, "interval")
  /\ UNCHANGED <<dbVars, cacheVars, collectorVars>>

PutInterval(p) ==
  /\ pc[p] = "interval"
  /\ LET i == req[p].interval IN
     \/ /\ i = Unchanged
        /\ Goto(p, "cap") /\ UNCHANGED <<db, bounds>>
     \/ /\ i # Unchanged /\ ~ValidInterval(i)
        /\ Goto(p, "idle") /\ UNCHANGED <<db, bounds>>
     \/ /\ i # Unchanged /\ ValidInterval(i)
        /\ db' = [db EXCEPT !.interval = i]
        /\ Goto(p, "cap") /\ UNCHANGED bounds
     \/ /\ i # Unchanged /\ ValidInterval(i) /\ Fail
        /\ Goto(p, "idle") /\ UNCHANGED db
  /\ UNCHANGED <<dbVersion, past, req, cacheVars, collectorVars>>

PutCap(p) ==
  /\ pc[p] = "cap"
  /\ LET c == req[p].cap IN
     \/ /\ c = Unchanged
        /\ Goto(p, "rules") /\ UNCHANGED <<db, dbVersion, bounds>>
     \/ /\ c # Unchanged /\ ~ValidCap(c)
        /\ Goto(p, "idle") /\ UNCHANGED <<db, dbVersion, bounds>>
     \/ /\ c # Unchanged /\ ValidCap(c)
        /\ db' = [db EXCEPT !.cap = c]
        /\ dbVersion' = [dbVersion EXCEPT !.cap = @ + 1]
        /\ Goto(p, "rules") /\ UNCHANGED bounds
     \/ /\ c # Unchanged /\ ValidCap(c) /\ Fail
        /\ Goto(p, "idle") /\ UNCHANGED <<db, dbVersion>>
  /\ UNCHANGED <<past, req, cacheVars, collectorVars>>

StoreRule(m, v) ==
  /\ db' = [db EXCEPT !.rules[m] = v]
  /\ dbVersion' = [dbVersion EXCEPT !.rules = @ + 1]
  /\ past' = past \cup {db'.rules}

PutRule(p) ==
  /\ pc[p] = "rules" /\ req[p].rules # <<>>
  /\ LET m == Head(req[p].rules)[1]
         v == Head(req[p].rules)[2]
     IN \/ /\ StoreRule(m, v)
           /\ req' = [req EXCEPT ![p].rules = Tail(@)]
           /\ UNCHANGED <<pc, bounds>>
        \/ /\ Fail
           /\ Goto(p, "idle") /\ UNCHANGED <<dbVars, req>>
  /\ UNCHANGED <<cacheVars, collectorVars>>

(* Reload reads the rules without the lock ...                             *)
Read(r) ==
  snapshot' = [snapshot EXCEPT ![r] =
                 [rules |-> db.rules, version |-> dbVersion.rules, reading |-> TRUE]]

\* Faulty variants: Reload installs what it could read of the rules; a cap
\* that cannot be read gives way to the default.
InstallPartial(r, capRead) ==
  /\ \E m \in Metric : cache' = [cache EXCEPT !.rules = [snapshot[r].rules EXCEPT ![m] = Absent]]
  /\ cacheVersion' = [cacheVersion EXCEPT !.rules = snapshot[r].version]
  /\ snapshot' = [snapshot EXCEPT ![r] = None]
InstallDefault(r, capRead) ==
  /\ cache' = [rules |-> snapshot[r].rules, cap |-> IF capRead THEN db.cap ELSE DefaultCap]
  /\ cacheVersion' = [rules |-> snapshot[r].version, cap |-> IF capRead THEN dbVersion.cap ELSE 0]
  /\ snapshot' = [snapshot EXCEPT ![r] = None]

(* ... and installs them, and the cap it then reads, with the lock held.   *)
Install(r, capRead) ==
  /\ cache' = [rules |-> snapshot[r].rules, cap |-> IF capRead THEN db.cap ELSE cache.cap]
  /\ cacheVersion' = [rules |-> snapshot[r].version,
                      cap |-> IF capRead THEN dbVersion.cap ELSE cacheVersion.cap]
  /\ snapshot' = [snapshot EXCEPT ![r] = None]

PutReloadRead(p) ==
  /\ pc[p] = "rules" /\ req[p].rules = <<>>
  /\ \/ Read(p) /\ Goto(p, "install") /\ UNCHANGED bounds
     \/ Fail /\ Goto(p, "idle") /\ UNCHANGED snapshot
  /\ UNCHANGED <<dbVars, req, cache, cacheVersion, promised, collectorVars>>

(* The PUT has written every field of its body and reloaded: from here its *)
(* bounds are in effect, for all that the handler knows, and those of the  *)
(* PUTs done before it still are.                                          *)
LastPromised(p) ==
  IF snapshot[p].version > promised.rules THEN snapshot[p].version ELSE promised.rules

PutReloadInstall(p) ==
  /\ pc[p] = "install"
  /\ \/ /\ Install(p, TRUE) /\ UNCHANGED bounds
        /\ promised' = [rules |-> LastPromised(p), cap |-> dbVersion.cap]
     \/ /\ Install(p, FALSE) /\ Fail
        /\ promised' = [promised EXCEPT !.rules = LastPromised(p)]
  /\ Goto(p, "idle")
  /\ UNCHANGED <<dbVars, req, collectorVars>>

-----------------------------------------------------------------------------
(* Alerter.Start: one Reload at a time, every 15 seconds.  A Reload whose  *)
(* first read fails changes nothing, so only its failure is counted.       *)
TickRead ==
  /\ ~snapshot[Ticker].reading
  /\ Read(Ticker)
  /\ UNCHANGED <<dbVars, pc, req, cache, cacheVersion, promised, collectorVars, bounds>>

TickInstall ==
  /\ snapshot[Ticker].reading
  /\ Install(Ticker, TRUE)
  /\ UNCHANGED <<dbVars, pc, req, promised, collectorVars, bounds>>

TickInstallNoCap ==
  /\ snapshot[Ticker].reading
  /\ Install(Ticker, FALSE)
  /\ Fail
  /\ UNCHANGED <<dbVars, pc, req, promised, collectorVars>>

(* The server is killed and starts again: PUTs stop where they are, and    *)
(* New leaves the cache empty until Start's first Reload.                  *)
Restart ==
  /\ bounds.restarts < MaxRestarts
  /\ bounds' = [bounds EXCEPT !.restarts = @ + 1]
  /\ pc' = [p \in Admin |-> "idle"] /\ req' = [p \in Admin |-> NoRequest]
  /\ cache' = [rules |-> NoRules, cap |-> DefaultCap]
  /\ cacheVersion' = [rules |-> 0, cap |-> 0] /\ promised' = cacheVersion'
  /\ snapshot' = [r \in Reloader |-> None]
  /\ poll' = "wait"
  /\ UNCHANGED <<dbVars, answer, interval>>

-----------------------------------------------------------------------------
(* GET /api/config for the collector: currentConfig takes a failed read of *)
(* the interval for a missing row; a failed read of the rules is a 500.    *)
PollRead ==
  /\ poll = "wait"
  /\ poll' = "answered"
  /\ answer' = db.interval
  /\ UNCHANGED <<dbVars, pc, req, cacheVars, interval, bounds>>

PollReadFails ==
  /\ poll = "wait"
  /\ Fail
  /\ poll' = "answered"
  /\ answer' = Fallback
  /\ UNCHANGED <<dbVars, pc, req, cacheVars, interval>>

\* Faulty variant: the collector only ever samples faster.
AdoptIfFaster(i) == IF i > 0 /\ i < interval THEN i ELSE interval
Adopt(i) == IF i > 0 THEN i ELSE interval

(* config_loop, and main before the threads start: adopt a new positive    *)
(* interval; the LS350 logger's fetch_interval does the same.  No answer,  *)
(* or one that is not 200 (handleGetConfig), leaves the interval alone.    *)
PollAdopt ==
  /\ poll = "answered"
  /\ poll' = "wait"
  /\ interval' = Adopt(answer)
  /\ UNCHANGED <<dbVars, pc, req, cacheVars, answer, bounds>>

PollLost ==
  /\ poll = "answered"
  /\ poll' = "wait"
  /\ UNCHANGED <<dbVars, pc, req, cacheVars, answer, interval, bounds>>

-----------------------------------------------------------------------------
Init ==
  /\ db = [interval |-> SeedInterval, cap |-> SeedCap, rules |-> SeedRules]
  /\ dbVersion = [rules |-> 1, cap |-> 1] /\ past = {SeedRules}
  /\ pc = [p \in Admin |-> "idle"]
  /\ req = [p \in Admin |-> NoRequest]
  /\ cache = [rules |-> NoRules, cap |-> DefaultCap]
  /\ cacheVersion = [rules |-> 0, cap |-> 0]
  /\ snapshot = [r \in Reloader |-> None]
  /\ promised = [rules |-> 0, cap |-> 0]
  /\ poll = "wait" /\ answer = SeedInterval
  /\ interval = SeedInterval
  /\ bounds = [puts |-> 0, failures |-> 0, restarts |-> 0]

Put(p) ==
  \/ PutInterval(p) \/ PutCap(p) \/ PutRule(p) \/ PutReloadRead(p) \/ PutReloadInstall(p)
TickOnce == cacheVersion.rules = 0 /\ (TickRead \/ TickInstall)   \* faulty variant
Tick == TickRead \/ TickInstall \/ TickInstallNoCap

Next ==
  \/ \E p \in Admin : PutStart(p) \/ Put(p)
  \/ Tick \/ Restart
  \/ PollRead \/ PollReadFails \/ PollAdopt \/ PollLost

Spec == Init /\ [][Next]_vars

(* Handlers run to their end, the ticker ticks, the collector keeps        *)
(* polling, and a poll that is repeated for ever gets an answer through.   *)
Fairness ==
  /\ \A p \in Admin : WF_vars(Put(p))
  /\ WF_vars(Tick)
  /\ WF_vars(PollRead) /\ SF_vars(PollAdopt)

FairSpec == Spec /\ Fairness

-----------------------------------------------------------------------------
Version == [rules : Nat, cap : Nat]

TypeOK ==
  /\ ValidInterval(db.interval) /\ ValidCap(db.cap) /\ db.rules \in past
  /\ past \subseteq [Metric -> RuleValue]
  /\ pc \in [Admin -> {"idle", "interval", "cap", "rules", "install"}]
  /\ \A p \in Admin : pc[p] = "install" <=> snapshot[p].reading
  /\ {dbVersion, cacheVersion, promised} \subseteq Version
  /\ ValidInterval(answer) /\ ValidInterval(interval) /\ cache.cap \in Nat

(* config.go:106-120: a PUT upserts its rules one at a time while Reloads  *)
(* run; the cache still holds rules that the table held together, never    *)
(* newer than the table's.                                                 *)
CacheWasStored ==
  /\ cacheVersion.rules > 0 => cache.rules \in past
  /\ cacheVersion.rules <= dbVersion.rules
  /\ cacheVersion.rules = dbVersion.rules => cache.rules = db.rules

(* alert.go:91-98: the cap is read with the lock held, so the cap of a PUT *)
(* that is done never gives way to an older one.                           *)
CapTakesEffect == cacheVersion.cap >= promised.cap

(* config.go:118-119, "so new bounds take effect at once": the same of the *)
(* alert rules.                                                            *)
BoundsTakeEffect == cacheVersion.rules >= promised.rules

(* When the administrators are done, the alerter ends up with their rules  *)
(* and cap (alert.go:63-77), however the Reloads overlapped.               *)
CacheConverges == <>[](cache.rules = db.rules /\ cache.cap = db.cap)

(* collector.py:11-12, "the closed control loop": the collector ends up    *)
(* sampling at the stored interval.                                        *)
CollectorFollows == <>[](interval = db.interval)
=============================================================================
