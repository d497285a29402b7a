------------------------------- MODULE Alerter -------------------------------
(***************************************************************************)
(* The alert engine (server/internal/alert/alert.go): ingest requests run  *)
(* Check concurrently over a shared cache of rules, the per-metric alarm   *)
(* state and the daily email counter; each lock section of the code is one *)
(* action, but for Reload's, which asks the database while it holds the    *)
(* lock and keeps every Check waiting.  Rules and the cap change under a   *)
(* running Check, the UTC day turns, and the server restarts and forgets   *)
(* everything but the alert_log table.                                     *)
(*                                                                         *)
(* A nullable bound, and a rule that may be missing, is a set with at most *)
(* one element.  The source of a reading is left out: the alarm state is   *)
(* keyed by metric alone.                                                  *)
(***************************************************************************)
EXTENDS Integers, Sequences, FiniteSets

CONSTANTS
  Metric,       \* metrics with readings
  Worker,       \* ingest requests that may run at the same time
  Batches,      \* the batches of readings a request may carry
  Rules,        \* the rules an administrator may set for a metric
  Caps,         \* the daily caps an administrator may set; 0 is unlimited
  DefaultCap,   \* New's defaultMaxPerDay
  HasNotifiers, \* is an email or Slack notifier configured?
  MaxRequests, MaxReloads, MaxDays, MaxRestarts   \* bounds

Rule == [min : SUBSET Int, max : SUBSET Int, enabled : BOOLEAN]
Reading == [metric : Metric, value : Int]

ASSUME AlerterAssumption ==
  /\ Batches \subseteq Seq(Reading)
  /\ Rules \subseteq Rule
  /\ Caps \subseteq Nat /\ DefaultCap \in Nat
  /\ HasNotifiers \in BOOLEAN /\ IsFiniteSet(Worker)
  /\ {MaxRequests, MaxReloads, MaxRestarts} \subseteq Nat /\ MaxDays \in Nat /\ MaxDays > 0

VARIABLES
  thresholds, maxPerDay,       \* cache of the rules and the cap (Alerter fields)
  reload,                      \* "locked" while a Reload holds a.mu, else "idle"
  state,                       \* metric -> "" | "max" | "min"
  notifyDay, notifyN,          \* the day the counter is for, and the counter
  today,                       \* the UTC day
  pc, queue, rule, event, notified,   \* each worker's place in Check / fire
  alertLog,                    \* row -> how often this process has inserted it
  unlogged,                    \* history: event -> how often its insertion failed
  sent, sentByProcess,         \* history: emails allowed today, by all / this process
  capsToday,                   \* history: the caps in force today
  bounds                       \* requests, reloads and restarts so far

cache   == <<thresholds, maxPerDay, reload>>
counter == <<notifyDay, notifyN>>
working == <<pc, queue, rule, event, notified>>
mails   == <<sent, sentByProcess, capsToday>>
audit   == <<alertLog, unlogged>>
vars == <<cache, state, counter, today, working, audit, mails, bounds>>

NoEvent == [metric |-> "", kind |-> ""]
Recovered == "recovered"
Event == [metric : Metric, kind : {"max", "min", Recovered}]
Row   == [metric : Metric, kind : {"max", "min", Recovered}, notified : BOOLEAN]

(* Evaluate: which bound the value violates, if any; max is tried first. *)
Above(t, value) == t.enabled /\ \E b \in t.max : value > b
Below(t, value) == t.enabled /\ \E b \in t.min : value < b
Evaluate(t, value) ==
  IF Above(t, value) THEN "max" ELSE IF Below(t, value) THEN "min" ELSE ""

\* Faulty variant: one event per violating reading.
EventPerReading(prev, crossed) ==
  IF crossed # "" THEN crossed ELSE IF prev # "" THEN Recovered ELSE ""

(* transition: the event of a reading, given the alarm state it finds.     *)
(* An alarm that flips between min and max alerts again.                   *)
EventKind(prev, crossed) ==
  IF crossed # "" /\ prev # crossed THEN crossed
  ELSE IF crossed = "" /\ prev # "" THEN Recovered
  ELSE ""

CountForever == notifyN                      \* faulty variant: no reset at midnight

(* allowNotify: the counter of a new day starts at 0, lazily.              *)
CountToday == IF today = notifyDay THEN notifyN ELSE 0
AllowedOneMore == maxPerDay = 0 \/ CountToday <= maxPerDay   \* faulty variant
Allowed == maxPerDay = 0 \/ CountToday < maxPerDay

Unlocked == reload = "idle"   \* a.mu can be taken, for reading or writing

(* Check with a new request. *)
Begin(w) ==
  /\ pc[w] = "idle" /\ bounds.requests < MaxRequests
  /\ \E b \in Batches : queue' = [queue EXCEPT ![w] = b]
  /\ pc' = [pc EXCEPT ![w] = "check"]
  /\ bounds' = [bounds EXCEPT !.requests = @ + 1]
  /\ UNCHANGED <<cache, state, counter, today, rule, event, notified, audit, mails>>

\* Faulty variant: a metric without a rule is not skipped.
ReadAnyRule(w) ==
  /\ pc[w] = "check" /\ queue[w] # <<>> /\ Unlocked
  /\ rule' = [rule EXCEPT ![w] = thresholds[Head(queue[w]).metric]]
  /\ pc' = [pc EXCEPT ![w] = "decide"]
  /\ UNCHANGED <<cache, state, counter, today, queue, event, notified, audit, mails, bounds>>

(* Under RLock: the rule for the next reading; without one it is skipped.  *)
ReadRule(w) ==
  /\ pc[w] = "check" /\ queue[w] # <<>> /\ Unlocked
  /\ LET t == thresholds[Head(queue[w]).metric] IN
       IF t = {}
       THEN queue' = [queue EXCEPT ![w] = Tail(@)] /\ UNCHANGED <<pc, rule>>
       ELSE /\ rule' = [rule EXCEPT ![w] = t]
            /\ pc' = [pc EXCEPT ![w] = "decide"]
            /\ UNCHANGED queue
  /\ UNCHANGED <<cache, state, counter, today, event, notified, audit, mails, bounds>>

(* Evaluate against the rule read before, then transition under Lock. *)
Transition(w) ==
  /\ pc[w] = "decide" /\ Unlocked
  /\ \E t \in rule[w] :
     LET r == Head(queue[w])
         crossed == Evaluate(t, r.value)
         kind == EventKind(state[r.metric], crossed)
     IN /\ state' = [state EXCEPT ![r.metric] = crossed]
        /\ queue' = [queue EXCEPT ![w] = Tail(@)]
        /\ IF kind = ""
           THEN /\ pc' = [pc EXCEPT ![w] = "check"]
                /\ UNCHANGED event
           ELSE /\ pc' = [pc EXCEPT ![w] = "allow"]
                /\ event' = [event EXCEPT ![w] = [metric |-> r.metric, kind |-> kind]]
  /\ rule' = [rule EXCEPT ![w] = {}]
  /\ UNCHANGED <<cache, counter, today, notified, audit, mails, bounds>>

(* fire: allowNotify, under Lock, once for all notifiers. *)
Allow(w) ==
  /\ pc[w] = "allow" /\ (HasNotifiers => Unlocked)
  /\ pc' = [pc EXCEPT ![w] = "log"]
  /\ notified' = [notified EXCEPT ![w] = HasNotifiers /\ Allowed]
  /\ IF HasNotifiers /\ maxPerDay > 0
     THEN notifyDay' = today /\ notifyN' = CountToday + (IF Allowed THEN 1 ELSE 0)
     ELSE UNCHANGED counter
  /\ IF notified'[w]
     THEN sent' = sent + 1 /\ sentByProcess' = sentByProcess + 1
     ELSE UNCHANGED <<sent, sentByProcess>>
  /\ UNCHANGED <<cache, state, today, queue, rule, event, audit, capsToday, bounds>>

(* fire: InsertAlertLog with the request's context; a failure is only      *)
(* logged.                                                                 *)
InsertAlertLog(w) ==
  LET row == [metric |-> event[w].metric, kind |-> event[w].kind, notified |-> notified[w]] IN
    \/ alertLog' = [alertLog EXCEPT ![row] = @ + 1] /\ UNCHANGED unlogged
    \/ unlogged' = [unlogged EXCEPT ![event[w]] = @ + 1] /\ UNCHANGED alertLog

(* The notifiers are then started off the request's path. *)
Log(w) ==
  /\ pc[w] = "log"
  /\ InsertAlertLog(w)
  /\ pc' = [pc EXCEPT ![w] = "check"]
  /\ event' = [event EXCEPT ![w] = NoEvent]
  /\ notified' = [notified EXCEPT ![w] = FALSE]
  /\ UNCHANGED <<cache, state, counter, today, queue, rule, mails, bounds>>

End(w) ==
  /\ pc[w] = "check" /\ queue[w] = <<>>
  /\ pc' = [pc EXCEPT ![w] = "idle"]
  /\ UNCHANGED <<cache, state, counter, today, queue, rule, event, notified, audit, mails, bounds>>

(* Reload installs whatever rules the administrator has stored (how it     *)
(* reads them is the subject of ControlPlane) ...                          *)
ReloadLock ==
  /\ Unlocked /\ bounds.reloads < MaxReloads
  /\ reload' = "locked"
  /\ thresholds' \in [Metric -> {{}} \cup {{t} : t \in Rules}]
  /\ bounds' = [bounds EXCEPT !.reloads = @ + 1]
  /\ UNCHANGED <<maxPerDay, state, counter, today, working, audit, mails>>

(* ... and then, still holding the lock, reads the cap; a failed read      *)
(* leaves the old one.                                                     *)
ReadCap ==
  /\ maxPerDay' \in Caps \cup {maxPerDay}
  /\ capsToday' = capsToday \cup {maxPerDay'}

\* Faulty variant: the failed read returns without unlocking.
ReloadReturns ==
  /\ reload = "locked" /\ ReadCap
  /\ reload' = IF maxPerDay' = maxPerDay THEN "locked" ELSE "idle"
  /\ UNCHANGED <<thresholds, state, counter, today, working, audit, sent, sentByProcess, bounds>>

ReloadUnlock ==
  /\ reload = "locked" /\ ReadCap
  /\ reload' = "idle"
  /\ UNCHANGED <<thresholds, state, counter, today, working, audit, sent, sentByProcess, bounds>>

Midnight ==
  /\ today < MaxDays
  /\ today' = today + 1
  /\ sent' = 0 /\ sentByProcess' = 0
  /\ capsToday' = {maxPerDay}
  /\ UNCHANGED <<cache, state, counter, working, audit, bounds>>

(* The server starts (New): nothing is read back from alert_log. *)
Restart ==
  /\ bounds.restarts < MaxRestarts
  /\ bounds' = [bounds EXCEPT !.restarts = @ + 1]
  /\ thresholds' = [m \in Metric |-> {}] /\ maxPerDay' = DefaultCap
  /\ reload' = "idle"
  /\ state' = [m \in Metric |-> ""]
  /\ notifyDay' = 0 /\ notifyN' = 0
  /\ pc' = [w \in Worker |-> "idle"] /\ queue' = [w \in Worker |-> <<>>]
  /\ rule' = [w \in Worker |-> {}] /\ event' = [w \in Worker |-> NoEvent]
  /\ notified' = [w \in Worker |-> FALSE]
  /\ alertLog' = [r \in Row |-> 0] /\ unlogged' = [e \in Event |-> 0]
  /\ sentByProcess' = 0
  /\ capsToday' = capsToday \cup {DefaultCap}
  /\ UNCHANGED <<today, sent>>

Init ==
  /\ thresholds = [m \in Metric |-> {}] /\ maxPerDay = DefaultCap
  /\ reload = "idle"
  /\ state = [m \in Metric |-> ""]
  /\ notifyDay = 0 /\ notifyN = 0 /\ today = 1
  /\ pc = [w \in Worker |-> "idle"] /\ queue = [w \in Worker |-> <<>>]
  /\ rule = [w \in Worker |-> {}] /\ event = [w \in Worker |-> NoEvent]
  /\ notified = [w \in Worker |-> FALSE]
  /\ alertLog = [r \in Row |-> 0] /\ unlogged = [e \in Event |-> 0]
  /\ sent = 0 /\ sentByProcess = 0
  /\ capsToday = {DefaultCap}
  /\ bounds = [requests |-> 0, reloads |-> 0, restarts |-> 0]

Step(w) == ReadRule(w) \/ Transition(w) \/ Allow(w) \/ Log(w) \/ End(w)

Next ==
  \/ \E w \in Worker : Begin(w) \/ Step(w)
  \/ ReloadLock \/ ReloadUnlock \/ Midnight \/ Restart

Spec == Init /\ [][Next]_vars

(* Go's RWMutex lets a waiting reader or writer in after the holder, and   *)
(* the database answers or fails (it has a pool with timeouts).            *)
Fairness ==
  /\ \A w \in Worker : SF_vars(Step(w))
  /\ WF_vars(ReloadUnlock)

FairSpec == Spec /\ Fairness

-----------------------------------------------------------------------------
FieldsOK ==
  /\ thresholds \in [Metric -> SUBSET Rules] /\ maxPerDay \in Nat
  /\ reload \in {"idle", "locked"} /\ state \in [Metric -> {"", "max", "min"}]
  /\ alertLog \in [Row -> Nat] /\ unlogged \in [Event -> Nat]

CountersOK ==
  /\ notifyDay \in Nat /\ notifyN \in Nat /\ today \in Nat /\ today > 0
  /\ sent \in Nat /\ sentByProcess \in Nat /\ capsToday \subseteq Nat

WorkersOK ==
  /\ pc \in [Worker -> {"idle", "check", "decide", "allow", "log"}]
  /\ queue \in [Worker -> Seq(Reading)] /\ rule \in [Worker -> SUBSET Rules]
  /\ event \in [Worker -> Event \cup {NoEvent}] /\ notified \in [Worker -> BOOLEAN]
  /\ \A w \in Worker :
       /\ pc[w] = "decide" => rule[w] # {} /\ queue[w] # <<>>
       /\ pc[w] \in {"allow", "log"} <=> event[w] # NoEvent

TypeOK == FieldsOK /\ CountersOK /\ WorkersOK

(* alert.go:2-5, one event "when a metric crosses out of its safe range ...  *)
(* and one when it returns", "Every transition is recorded in alert_log":  *)
(* the alarms and their audit are those of AlarmLog, whatever Checks       *)
(* overlap.  What a worker still carries is pending.                       *)
Promise == INSTANCE AlarmLog WITH
  alarm <- state,
  pending <- [e \in Event |-> Cardinality({w \in Worker : event[w] = e})],
  recorded <- alertLog,
  lost <- unlogged

ImplementsAlarmLog == Promise!Spec

(* alert.go:121-123: a Check that has begun ends, though it waits for a    *)
(* Reload that waits for the database.                                     *)
CheckEnds == \A w \in Worker : pc[w] # "idle" ~> pc[w] = "idle"

UnderCap(n) == 0 \notin capsToday => \E c \in capsToday : n <= c

(* alert.go:175-178: over one life of the server, no more emails go out on *)
(* a UTC day than the highest cap in force on it.                          *)
CapRespected == UnderCap(sentByProcess)

(* 0005_alert_email_cap.sql:3-5, "a hard ceiling on total alert emails per *)
(* UTC day": the same over all lives of the server on that day.            *)
HardCeiling == UnderCap(sent)

(* alert.go:185-191: an email is suppressed only when that many did go out *)
(* today; yesterday's count never silences an alarm.                       *)
SuppressedOnlyAtCap ==
  [][\A w \in Worker :
       pc[w] = "allow" /\ pc'[w] = "log" /\ HasNotifiers /\ ~notified'[w]
         => maxPerDay > 0 /\ sentByProcess >= maxPerDay]_vars
=============================================================================
