---------------------------- MODULE AlerterProofs ----------------------------
(***************************************************************************)
(* Theorems about Alerter for every set of metrics, workers, rules, caps   *)
(* and batches, and any number of requests, reloads, days and restarts.    *)
(***************************************************************************)
EXTENDS Alerter, FiniteSetTheorems, SequenceTheorems, TLAPS

LEMMA EventIsNot == \A e \in Event : e # NoEvent
<1> SUFFICES ASSUME NEW e \in Event  PROVE e # NoEvent
  OBVIOUS
<1>1. e.kind # ""  BY DEF Event, Recovered
<1>2. NoEvent.kind = ""  BY DEF NoEvent
<1>3. QED  BY <1>1, <1>2

LEMMA HeadOfQueue ==
  ASSUME WorkersOK, NEW w \in Worker, queue[w] # <<>>
  PROVE  /\ Head(queue[w]) \in Reading /\ Tail(queue[w]) \in Seq(Reading)
         /\ Head(queue[w]).metric \in Metric
<1>1. queue[w] \in Seq(Reading)  BY DEF WorkersOK
<1>2. Head(queue[w]) \in Reading /\ Tail(queue[w]) \in Seq(Reading)
  BY <1>1, HeadTailProperties
<1>3. QED  BY <1>2 DEF Reading

(* The place of a worker after a transition. *)
LEMMA AfterTransition ==
  ASSUME NEW w \in Worker, Transition(w), FieldsOK, WorkersOK
  PROVE  /\ \E m \in Metric, to \in {"", "max", "min"} :
              /\ state' = [state EXCEPT ![m] = to]
              /\ \/ /\ to = state[m] /\ pc' = [pc EXCEPT ![w] = "check"]
                    /\ UNCHANGED event
                 \/ /\ to # state[m] /\ pc' = [pc EXCEPT ![w] = "allow"]
                    /\ event' = [event EXCEPT ![w] =
                         [metric |-> m, kind |-> IF to = "" THEN Recovered ELSE to]]
         /\ \E q \in Seq(Reading) : queue' = [queue EXCEPT ![w] = q]
<1> DEFINE r == Head(queue[w])
<1>1. PICK t \in rule[w] :
        LET crossed == Evaluate(t, r.value)
            kind == EventKind(state[r.metric], crossed)
        IN /\ state' = [state EXCEPT ![r.metric] = crossed]
           /\ queue' = [queue EXCEPT ![w] = Tail(@)]
           /\ IF kind = ""
              THEN pc' = [pc EXCEPT ![w] = "check"] /\ UNCHANGED event
              ELSE /\ pc' = [pc EXCEPT ![w] = "allow"]
                   /\ event' = [event EXCEPT ![w] = [metric |-> r.metric, kind |-> kind]]
  BY DEF Transition
<1>2. r.metric \in Metric /\ Tail(queue[w]) \in Seq(Reading)
  BY HeadOfQueue DEF Transition, WorkersOK
<1> DEFINE to == Evaluate(t, r.value)
<1>3. to \in {"", "max", "min"}
  BY DEF Evaluate
<1> HIDE DEF r, to
<1>4. /\ EventKind(state[r.metric], to) = "" <=> to = state[r.metric]
      /\ to # state[r.metric] =>
           EventKind(state[r.metric], to) = IF to = "" THEN Recovered ELSE to
  BY <1>2, <1>3 DEF EventKind, Recovered, FieldsOK
<1>5. QED
  BY <1>1, <1>2, <1>3, <1>4 DEF r, to

-----------------------------------------------------------------------------
LEMMA TypeInit == Init => TypeOK
<1> SUFFICES ASSUME Init  PROVE FieldsOK /\ CountersOK /\ WorkersOK
  BY DEF TypeOK
<1>1. DefaultCap \in Nat
  BY AlerterAssumption DEF AlerterAssumption
<1>2. FieldsOK
  BY <1>1 DEF Init, FieldsOK
<1>3. CountersOK
  <2>1. /\ notifyDay = 0 /\ notifyN = 0 /\ sent = 0 /\ sentByProcess = 0
        /\ today = 1 /\ capsToday = {DefaultCap}
    BY DEF Init
  <2>2. QED  BY <1>1, <2>1 DEF CountersOK
<1>4. <<>> \in Seq(Reading)
  BY EmptySeq
<1>5. WorkersOK
  BY <1>4 DEF Init, WorkersOK
<1>6. QED  BY <1>2, <1>3, <1>5

(* How the daily counter and the mails go on. *)
LEMMA AllowCounts ==
  ASSUME NEW w \in Worker, Allow(w), CountersOK, WorkersOK
  PROVE  /\ CountToday \in Nat /\ UNCHANGED <<today, capsToday, maxPerDay>>
         /\ \/ /\ HasNotifiers /\ maxPerDay > 0
               /\ notifyDay' = today /\ notifyN' = CountToday + (IF Allowed THEN 1 ELSE 0)
            \/ ~(HasNotifiers /\ maxPerDay > 0) /\ UNCHANGED counter
         /\ \/ /\ HasNotifiers /\ Allowed
               /\ sent' = sent + 1 /\ sentByProcess' = sentByProcess + 1
            \/ /\ ~(HasNotifiers /\ Allowed)
               /\ sent' = sent /\ sentByProcess' = sentByProcess
<1>1. CountToday \in Nat  BY DEF CountToday, CountersOK
<1>2. notified'[w] = (HasNotifiers /\ Allowed)  BY DEF Allow, WorkersOK
<1>3. QED  BY <1>1, <1>2 DEF Allow, cache

(* Counting one more of anything leaves a counting function one. *)
LEMMA CountOneMore ==
  ASSUME NEW S, NEW f \in [S -> Nat], NEW x
  PROVE  [f EXCEPT ![x] = @ + 1] \in [S -> Nat]
<1>1. \A n \in Nat : n + 1 \in Nat
  OBVIOUS
<1>2. x \in S => f[x] + 1 \in Nat
  BY <1>1
<1> DEFINE n == f[x] + 1
<1> HIDE DEF n
<1>3. [f EXCEPT ![x] = n] \in [S -> Nat]
  BY <1>2 DEF n
<1>4. QED  BY <1>3 DEF n

LEMMA TypeStep == TypeOK /\ [Next]_vars => TypeOK'
<1> SUFFICES ASSUME FieldsOK, CountersOK, WorkersOK, [Next]_vars
             PROVE  FieldsOK' /\ CountersOK' /\ WorkersOK'
  BY DEF TypeOK
<1>0. UNCHANGED <<counter, today, mails>> => CountersOK'
  BY DEF CountersOK, counter, mails
<1>1. ASSUME NEW w \in Worker, Begin(w)  PROVE FieldsOK' /\ CountersOK' /\ WorkersOK'
  <2>1. FieldsOK'  BY <1>1 DEF Begin, FieldsOK, cache, audit
  <2>2. CountersOK'  BY <1>1, <1>0 DEF Begin
  <2>3. WorkersOK'
    BY <1>1, AlerterAssumption DEF Begin, WorkersOK, AlerterAssumption
  <2>4. QED  BY <2>1, <2>2, <2>3
<1>2. ASSUME NEW w \in Worker, ReadRule(w)  PROVE FieldsOK' /\ CountersOK' /\ WorkersOK'
  <2>1. FieldsOK'  BY <1>2 DEF ReadRule, FieldsOK, cache, audit
  <2>2. CountersOK'  BY <1>2, <1>0 DEF ReadRule
  <2>3. WorkersOK'  BY <1>2, HeadOfQueue DEF ReadRule, WorkersOK, FieldsOK
  <2>4. QED  BY <2>1, <2>2, <2>3
<1>3. ASSUME NEW w \in Worker, Transition(w)  PROVE FieldsOK' /\ CountersOK' /\ WorkersOK'
  <2>1. FieldsOK'
    <3>1. state' \in [Metric -> {"", "max", "min"}]
      BY <1>3, AfterTransition DEF FieldsOK
    <3>2. QED  BY <1>3, <3>1 DEF Transition, FieldsOK, cache, audit
  <2>2. CountersOK'  BY <1>3, <1>0 DEF Transition
  <2>3. WorkersOK'
    <3>1. /\ pc[w] = "decide" /\ rule' = [rule EXCEPT ![w] = {}] /\ UNCHANGED notified
      BY <1>3 DEF Transition
    <3>2. PICK q \in Seq(Reading) : queue' = [queue EXCEPT ![w] = q]
      BY <1>3, AfterTransition
    <3>3. \/ UNCHANGED event /\ pc' = [pc EXCEPT ![w] = "check"]
          \/ \E e \in Event :
               pc' = [pc EXCEPT ![w] = "allow"] /\ event' = [event EXCEPT ![w] = e]
      BY <1>3, AfterTransition DEF Event
    <3>4. QED  BY <3>1, <3>2, <3>3, EventIsNot DEF WorkersOK
  <2>4. QED  BY <2>1, <2>2, <2>3
<1>4. ASSUME NEW w \in Worker, Allow(w)  PROVE FieldsOK' /\ CountersOK' /\ WorkersOK'
  <2>1. FieldsOK'  BY <1>4 DEF Allow, FieldsOK, cache, audit
  <2>2. CountersOK'
    <3>1. CountToday \in Nat /\ UNCHANGED <<today, capsToday>>
      BY <1>4, AllowCounts
    <3>2. notifyDay' \in {notifyDay, today} /\ notifyN' \in {notifyN, CountToday, CountToday + 1}
      BY <1>4, AllowCounts DEF counter
    <3>3. /\ sent' \in {sent, sent + 1}
          /\ sentByProcess' \in {sentByProcess, sentByProcess + 1}
      BY <1>4, AllowCounts
    <3>4. QED  BY <3>1, <3>2, <3>3 DEF CountersOK
  <2>3. WorkersOK'
    <3>1. /\ pc[w] = "allow" /\ pc' = [pc EXCEPT ![w] = "log"]
          /\ UNCHANGED <<queue, rule, event>>
          /\ notified' = [notified EXCEPT ![w] = (HasNotifiers /\ Allowed)]
      BY <1>4 DEF Allow
    <3>2. (HasNotifiers /\ Allowed) \in BOOLEAN
      OBVIOUS
    <3>3. QED  BY <3>1, <3>2 DEF WorkersOK
  <2>4. QED  BY <2>1, <2>2, <2>3
<1>5. ASSUME NEW w \in Worker, Log(w)  PROVE FieldsOK' /\ CountersOK' /\ WorkersOK'
  <2>1. FieldsOK'
    <3>1. alertLog' \in [Row -> Nat] /\ unlogged' \in [Event -> Nat]
      <4> DEFINE row == [metric |-> event[w].metric, kind |-> event[w].kind,
                         notified |-> notified[w]]
      <4>1. \/ alertLog' = [alertLog EXCEPT ![row] = @ + 1] /\ UNCHANGED unlogged
            \/ unlogged' = [unlogged EXCEPT ![event[w]] = @ + 1] /\ UNCHANGED alertLog
        BY <1>5 DEF Log, InsertAlertLog
      <4>2. alertLog \in [Row -> Nat] /\ unlogged \in [Event -> Nat]
        BY DEF FieldsOK
      <4> HIDE DEF row
      <4>3. /\ [alertLog EXCEPT ![row] = @ + 1] \in [Row -> Nat]
            /\ [unlogged EXCEPT ![event[w]] = @ + 1] \in [Event -> Nat]
        BY <4>2, CountOneMore
      <4>4. QED  BY <4>1, <4>2, <4>3
    <3>2. QED  BY <1>5, <3>1 DEF Log, FieldsOK, cache
  <2>2. CountersOK'  BY <1>5, <1>0 DEF Log
  <2>3. WorkersOK'
    <3>1. /\ pc[w] = "log" /\ pc' = [pc EXCEPT ![w] = "check"]
          /\ UNCHANGED <<queue, rule>>
          /\ event' = [event EXCEPT ![w] = NoEvent]
          /\ notified' = [notified EXCEPT ![w] = FALSE]
      BY <1>5 DEF Log
    <3>2. QED  BY <3>1 DEF WorkersOK
  <2>4. QED  BY <2>1, <2>2, <2>3
<1>6. ASSUME NEW w \in Worker, End(w)  PROVE FieldsOK' /\ CountersOK' /\ WorkersOK'
  <2>1. FieldsOK'  BY <1>6 DEF End, FieldsOK, cache, audit
  <2>2. CountersOK'  BY <1>6, <1>0 DEF End
  <2>3. WorkersOK'  BY <1>6 DEF End, WorkersOK
  <2>4. QED  BY <2>1, <2>2, <2>3
<1>7. CASE ReloadLock
  <2>1. FieldsOK'
    <3>1. thresholds' \in [Metric -> {{}} \cup {{t} : t \in Rules}] /\ reload' = "locked"
      BY <1>7 DEF ReloadLock
    <3>2. thresholds' \in [Metric -> SUBSET Rules]
      BY <3>1
    <3>3. QED  BY <1>7, <3>1, <3>2 DEF ReloadLock, FieldsOK, audit
  <2>2. CountersOK'  BY <1>7, <1>0 DEF ReloadLock
  <2>3. WorkersOK'  BY <1>7 DEF ReloadLock, WorkersOK, working
  <2>4. QED  BY <2>1, <2>2, <2>3
<1>8. CASE ReloadUnlock
  <2>1. maxPerDay' \in Nat
    BY <1>8, AlerterAssumption DEF ReloadUnlock, ReadCap, FieldsOK, AlerterAssumption
  <2>2. FieldsOK'  BY <1>8, <2>1 DEF ReloadUnlock, FieldsOK, audit
  <2>3. CountersOK'  BY <1>8, <2>1 DEF ReloadUnlock, ReadCap, CountersOK, counter
  <2>4. WorkersOK'  BY <1>8 DEF ReloadUnlock, WorkersOK, working
  <2>5. QED  BY <2>2, <2>3, <2>4
<1>9. CASE Midnight
  <2>1. FieldsOK'  BY <1>9 DEF Midnight, FieldsOK, cache, audit
  <2>2. maxPerDay \in Nat  BY DEF FieldsOK
  <2>3. CountersOK'  BY <1>9, <2>2 DEF Midnight, CountersOK, counter
  <2>4. WorkersOK'  BY <1>9 DEF Midnight, WorkersOK, working
  <2>5. QED  BY <2>1, <2>3, <2>4
<1>10. CASE Restart
  <2>1. DefaultCap \in Nat
    BY AlerterAssumption DEF AlerterAssumption
  <2>2. FieldsOK'  BY <1>10, <2>1 DEF Restart, FieldsOK
  <2>3. CountersOK'  BY <1>10, <2>1 DEF Restart, CountersOK
  <2>4. <<>> \in Seq(Reading)
    BY EmptySeq
  <2>5. WorkersOK'  BY <1>10, <2>4 DEF Restart, WorkersOK
  <2>6. QED  BY <2>2, <2>3, <2>5
<1>11. CASE UNCHANGED vars
  <2>1. CountersOK'  BY <1>11, <1>0 DEF vars
  <2>2. QED  BY <1>11, <2>1 DEF vars, FieldsOK, WorkersOK, working, audit, cache
<1>12. QED
  BY <1>1, <1>2, <1>3, <1>4, <1>5, <1>6, <1>7, <1>8, <1>9, <1>10, <1>11 DEF Next, Step

(* TypeOK, for all constants. *)
THEOREM AlerterTypeCorrect == Spec => []TypeOK
BY TypeInit, TypeStep, PTL DEF Spec

-----------------------------------------------------------------------------
(* The counter of today never exceeds what this process has sent today,    *)
(* and as long as there was a cap all day it is just that.                 *)
CapInv ==
  /\ maxPerDay \in capsToday
  /\ notifyDay <= today
  /\ CountToday <= sentByProcess
  /\ 0 \notin capsToday => sentByProcess = CountToday
  /\ UnderCap(CountToday)

LEMMA CapInit == Init => CapInv
<1> SUFFICES ASSUME Init  PROVE CapInv
  OBVIOUS
<1>1. /\ notifyDay = 0 /\ notifyN = 0 /\ sentByProcess = 0 /\ today = 1
      /\ maxPerDay = DefaultCap /\ capsToday = {DefaultCap} /\ DefaultCap \in Nat
  BY AlerterAssumption DEF Init, AlerterAssumption
<1>2. QED  BY <1>1 DEF CapInv, CountToday, UnderCap

LEMMA CapStep == TypeOK /\ CapInv /\ [Next]_vars => CapInv'
<1> SUFFICES ASSUME CountersOK, WorkersOK, maxPerDay \in Nat, CapInv, [Next]_vars
             PROVE  CapInv'
  BY DEF TypeOK, FieldsOK
<1>1. ASSUME NEW w \in Worker, Allow(w)  PROVE CapInv'
  <2>1. CASE HasNotifiers /\ maxPerDay > 0
    <3>1. /\ UNCHANGED <<today, capsToday, maxPerDay>> /\ notifyDay' = today
          /\ \/ /\ Allowed /\ notifyN' = CountToday + 1
                /\ sentByProcess' = sentByProcess + 1
             \/ notifyN' = CountToday /\ UNCHANGED sentByProcess
      BY <1>1, <2>1, AllowCounts
    <3>2. CountToday' = notifyN'
      BY <3>1 DEF CountToday
    <3>3. Allowed => UnderCap(CountToday + 1)
      BY <2>1 DEF Allowed, UnderCap, CapInv, CountersOK, CountToday
    <3>4. UnderCap(CountToday)'
      BY <3>1, <3>2, <3>3 DEF UnderCap, CapInv
    <3>5. QED
      BY <3>1, <3>2, <3>4 DEF CapInv, CountersOK, CountToday
  <2>2. CASE ~(HasNotifiers /\ maxPerDay > 0)
    <3>1. UNCHANGED <<today, capsToday, maxPerDay, counter>>
      BY <1>1, <2>2, AllowCounts
    <3>2. /\ sentByProcess' = sentByProcess \/ sentByProcess' = sentByProcess + 1
          /\ 0 \notin capsToday => sentByProcess' = sentByProcess
      BY <1>1, <2>2, AllowCounts DEF CapInv
    <3>3. CountToday' = CountToday
      BY <3>1 DEF CountToday, counter
    <3>4. QED
      BY <3>1, <3>2, <3>3 DEF CapInv, UnderCap, counter, CountersOK, CountToday
  <2>3. QED  BY <2>1, <2>2
<1>2. CASE ReloadUnlock
  <2>1. /\ UNCHANGED <<today, counter, sentByProcess>>
        /\ capsToday' = capsToday \cup {maxPerDay'}
    BY <1>2 DEF ReloadUnlock, ReadCap
  <2>2. CountToday' = CountToday
    BY <2>1 DEF CountToday, counter
  <2>3. QED  BY <2>1, <2>2 DEF CapInv, UnderCap, counter
<1>3. CASE Midnight
  <2>1. /\ UNCHANGED <<maxPerDay, counter>> /\ today' = today + 1
        /\ sentByProcess' = 0 /\ capsToday' = {maxPerDay}
    BY <1>3 DEF Midnight, cache
  <2>2. CountToday' = 0
    BY <2>1 DEF CountToday, counter, CapInv, CountersOK
  <2>3. QED  BY <2>1, <2>2 DEF CapInv, UnderCap, counter, CountersOK
<1>4. CASE Restart
  <2>1. /\ UNCHANGED today /\ notifyDay' = 0 /\ notifyN' = 0 /\ sentByProcess' = 0
        /\ maxPerDay' = DefaultCap /\ capsToday' = capsToday \cup {DefaultCap}
        /\ DefaultCap \in Nat
    BY <1>4, AlerterAssumption DEF Restart, AlerterAssumption
  <2>2. CountToday' = 0
    BY <2>1 DEF CountToday
  <2>3. QED  BY <2>1, <2>2 DEF CapInv, UnderCap, CountersOK
<1>5. ASSUME UNCHANGED <<maxPerDay, counter, today, mails>>  PROVE CapInv'
  BY <1>5 DEF CapInv, CountToday, UnderCap, counter, mails
<1>6. ASSUME NEW w \in Worker, Begin(w) \/ ReadRule(w) \/ Transition(w) \/ Log(w) \/ End(w)
      PROVE  CapInv'
  BY <1>5, <1>6 DEF Begin, ReadRule, Transition, Log, End, cache
<1>7. CASE ReloadLock  BY <1>5, <1>7 DEF ReloadLock
<1>8. CASE UNCHANGED vars  BY <1>5, <1>8 DEF vars, cache
<1>9. QED
  BY <1>1, <1>2, <1>3, <1>4, <1>6, <1>7, <1>8 DEF Next, Step

LEMMA CapInvariance == Spec => [](TypeOK /\ CapInv)
BY TypeInit, TypeStep, CapInit, CapStep, PTL DEF Spec

(* CapRespected: over one life of the server, no more emails on a day than *)
(* the highest cap in force on it.                                         *)
THEOREM CapHolds == Spec => []CapRespected
<1>1. TypeOK /\ CapInv => CapRespected
  BY DEF CapInv, CapRespected, UnderCap
<1>2. QED  BY <1>1, CapInvariance, PTL

(* The finding of run alerter_restart, measured: a restart forgets how many *)
(* emails went out today, so each life of the server may send up to the    *)
(* highest cap of the day again, and no more than that.                    *)
AtMostToday(h) == \A c \in capsToday : 0 < c /\ c <= h

CeilingPerLife ==
  \A h \in Nat : AtMostToday(h) => sent <= (bounds.restarts + 1) * h

LivesInv ==
  /\ bounds \in [requests : Nat, reloads : Nat, restarts : 0..MaxRestarts]
  /\ bounds.restarts = 0 => sent = sentByProcess
  /\ \A h \in Nat : AtMostToday(h) => sent - sentByProcess <= bounds.restarts * h

LEMMA LivesInit == Init => LivesInv
<1> SUFFICES ASSUME Init  PROVE LivesInv
  OBVIOUS
<1>1. /\ bounds = [requests |-> 0, reloads |-> 0, restarts |-> 0]
      /\ sent = 0 /\ sentByProcess = 0 /\ MaxRestarts \in Nat
  BY AlerterAssumption DEF Init, AlerterAssumption
<1>2. \A h \in Nat : sent - sentByProcess <= bounds.restarts * h
  BY <1>1
<1>3. QED  BY <1>1, <1>2 DEF LivesInv

(* A life that ends has sent no more than the highest cap of the day.      *)
LEMMA LifeAtMost ==
  ASSUME CountersOK, CapInv, NEW h \in Nat, AtMostToday(h)
  PROVE  sentByProcess <= h
<1>1. 0 \notin capsToday
  BY DEF AtMostToday
<1>2. PICK c \in capsToday : sentByProcess <= c
  BY <1>1 DEF CapInv, UnderCap
<1>3. QED  BY <1>2 DEF AtMostToday, CountersOK

LEMMA LivesStep == TypeOK /\ CapInv /\ LivesInv /\ [Next]_vars => LivesInv'
<1> SUFFICES ASSUME CountersOK, WorkersOK, maxPerDay \in Nat, CapInv, LivesInv, [Next]_vars
             PROVE  LivesInv'
  BY DEF TypeOK, FieldsOK
<1>1. sent \in Nat /\ sentByProcess \in Nat /\ bounds.restarts \in Nat
  BY DEF CountersOK, LivesInv
<1>2. ASSUME \/ UNCHANGED <<sent, sentByProcess>>
             \/ sent' = sent + 1 /\ sentByProcess' = sentByProcess + 1,
             capsToday \subseteq capsToday', bounds'.restarts = bounds.restarts,
             bounds' \in [requests : Nat, reloads : Nat, restarts : 0..MaxRestarts]
      PROVE  LivesInv'
  <2>1. sent' - sentByProcess' = sent - sentByProcess /\ (sent = sentByProcess => sent' = sentByProcess')
    BY <1>1, <1>2
  <2>2. \A h \in Nat : AtMostToday(h)' => AtMostToday(h)
    BY <1>2 DEF AtMostToday
  <2>3. QED  BY <1>2, <2>1, <2>2 DEF LivesInv
<1>3. ASSUME NEW w \in Worker, Allow(w)  PROVE LivesInv'
  <2>1. UNCHANGED <<capsToday, bounds>>
    BY <1>3 DEF Allow
  <2>2. \/ UNCHANGED <<sent, sentByProcess>>
        \/ sent' = sent + 1 /\ sentByProcess' = sentByProcess + 1
    BY <1>3, AllowCounts
  <2>3. QED  BY <1>2, <2>1, <2>2 DEF LivesInv
<1>4. CASE Midnight
  <2>1. UNCHANGED bounds /\ sent' = 0 /\ sentByProcess' = 0
    BY <1>4 DEF Midnight
  <2>2. \A h \in Nat : bounds.restarts * h \in Nat
    BY <1>1
  <2>3. \A h \in Nat : sent' - sentByProcess' <= bounds'.restarts * h
    BY <2>1, <2>2
  <2>4. QED  BY <2>1, <2>3 DEF LivesInv
<1>5. CASE Restart
  <2>1. /\ bounds' = [bounds EXCEPT !.restarts = @ + 1] /\ bounds.restarts < MaxRestarts
        /\ sent' = sent /\ sentByProcess' = 0 /\ capsToday \subseteq capsToday'
    BY <1>5 DEF Restart
  <2>2. /\ bounds'.restarts = bounds.restarts + 1
        /\ bounds' \in [requests : Nat, reloads : Nat, restarts : 0..MaxRestarts]
    <3>1. MaxRestarts \in Nat
      BY AlerterAssumption DEF AlerterAssumption
    <3>2. QED  BY <2>1, <3>1 DEF LivesInv
  <2>3. ASSUME NEW h \in Nat, AtMostToday(h)'
        PROVE  sent' - sentByProcess' <= bounds'.restarts * h
    <3>1. AtMostToday(h)
      BY <2>1, <2>3 DEF AtMostToday
    <3>2. sentByProcess <= h /\ sent - sentByProcess <= bounds.restarts * h
      BY <3>1, LifeAtMost DEF LivesInv
    <3>3. bounds.restarts * h \in Nat /\ (bounds.restarts + 1) * h = bounds.restarts * h + h
      BY <1>1
    <3>4. QED  BY <1>1, <2>1, <2>2, <3>2, <3>3
  <2>4. QED  BY <1>1, <2>2, <2>3 DEF LivesInv
<1>6. ASSUME NEW w \in Worker, Begin(w)  PROVE LivesInv'
  <2>1. UNCHANGED mails /\ bounds' = [bounds EXCEPT !.requests = @ + 1]
    BY <1>6 DEF Begin
  <2>2. QED  BY <1>2, <2>1 DEF LivesInv, mails
<1>7. CASE ReloadLock
  <2>1. UNCHANGED mails /\ bounds' = [bounds EXCEPT !.reloads = @ + 1]
    BY <1>7 DEF ReloadLock
  <2>2. QED  BY <1>2, <2>1 DEF LivesInv, mails
<1>8. CASE ReloadUnlock
  <2>1. UNCHANGED <<sent, sentByProcess, bounds>> /\ capsToday \subseteq capsToday'
    BY <1>8 DEF ReloadUnlock, ReadCap
  <2>2. QED  BY <1>2, <2>1 DEF LivesInv
<1>9. ASSUME UNCHANGED <<mails, bounds>>  PROVE LivesInv'
  BY <1>2, <1>9 DEF LivesInv, mails
<1>10. ASSUME NEW w \in Worker, ReadRule(w) \/ Transition(w) \/ Log(w) \/ End(w)
       PROVE  LivesInv'
  BY <1>9, <1>10 DEF ReadRule, Transition, Log, End
<1>11. CASE UNCHANGED vars
  BY <1>9, <1>11 DEF vars
<1>12. QED
  BY <1>3, <1>4, <1>5, <1>6, <1>7, <1>8, <1>10, <1>11 DEF Next, Step

LEMMA LivesInvariance == Spec => [](TypeOK /\ CapInv /\ LivesInv)
BY TypeInit, TypeStep, CapInit, CapStep, LivesInit, LivesStep, PTL DEF Spec

(* 0005_alert_email_cap.sql:3-5, "a hard ceiling on total alert emails per *)
(* UTC day", holds as many times over as the server has lived: each        *)
(* restart adds at most the highest cap of the day (alert.go:185-192).     *)
THEOREM CeilingTimesLives == Spec => []CeilingPerLife
<1>1. TypeOK /\ CapInv /\ LivesInv => CeilingPerLife
  <2> SUFFICES ASSUME CountersOK, CapInv, LivesInv, NEW h \in Nat, AtMostToday(h)
               PROVE  sent <= (bounds.restarts + 1) * h
    BY DEF TypeOK, CeilingPerLife
  <2>1. sentByProcess <= h /\ sent - sentByProcess <= bounds.restarts * h
    BY LifeAtMost DEF LivesInv
  <2>2. sent \in Nat /\ sentByProcess \in Nat /\ bounds.restarts \in Nat
    BY DEF CountersOK, LivesInv
  <2>3. bounds.restarts * h \in Nat /\ (bounds.restarts + 1) * h = bounds.restarts * h + h
    BY <2>2
  <2>4. QED  BY <2>1, <2>2, <2>3
<1>2. QED  BY <1>1, LivesInvariance, PTL

(* The same ceiling is hard as long as the server is not restarted: the    *)
(* lost counter is the only way past it (alert.go:51-60, New).             *)
THEOREM HardWithoutRestart ==
  ASSUME MaxRestarts = 0
  PROVE  Spec => []HardCeiling
<1>1. TypeOK /\ CapInv /\ LivesInv => HardCeiling
  <2>1. LivesInv => bounds.restarts = 0
    BY DEF LivesInv
  <2>2. QED  BY <2>1 DEF LivesInv, CapInv, HardCeiling, UnderCap
<1>2. QED  BY <1>1, LivesInvariance, PTL

(* SuppressedOnlyAtCap: an email is suppressed only when as many as the    *)
(* cap went out today.                                                     *)
THEOREM SilencedOnlyAtCap == Spec => SuppressedOnlyAtCap
<1> DEFINE A == \A w \in Worker :
                  pc[w] = "allow" /\ pc'[w] = "log" /\ HasNotifiers /\ ~notified'[w]
                    => maxPerDay > 0 /\ sentByProcess >= maxPerDay
<1>1. ASSUME TypeOK, CapInv, [Next]_vars  PROVE A \/ UNCHANGED vars
  <2> SUFFICES ASSUME NEW w \in Worker, Next,
                      pc[w] = "allow", pc'[w] = "log", HasNotifiers, ~notified'[w]
               PROVE  maxPerDay > 0 /\ sentByProcess >= maxPerDay
    BY <1>1
  <2>1. Allow(w)
    <3>1. ASSUME NEW v \in Worker, Begin(v) \/ ReadRule(v) \/ Transition(v) \/ Log(v) \/ End(v)
          PROVE  FALSE
      BY <1>1, <3>1 DEF Begin, ReadRule, Transition, Log, End, TypeOK, FieldsOK, WorkersOK, CountersOK
    <3>2. ASSUME NEW v \in Worker, Allow(v)  PROVE v = w
      BY <1>1, <3>2 DEF Allow, TypeOK, FieldsOK, WorkersOK, CountersOK
    <3>3. ~ReloadLock /\ ~ReloadUnlock /\ ~Midnight /\ ~Restart
      BY <1>1 DEF ReloadLock, ReloadUnlock, Midnight, Restart, working, TypeOK, FieldsOK, WorkersOK, CountersOK
    <3>4. QED  BY <3>1, <3>2, <3>3 DEF Next, Step
  <2>2. ~Allowed  BY <1>1, <2>1 DEF Allow, TypeOK, WorkersOK
  <2>3. maxPerDay \in Nat /\ sentByProcess \in Nat /\ CountToday \in Nat
    BY <1>1 DEF TypeOK, FieldsOK, CountersOK, CountToday
  <2>4. CountToday <= sentByProcess
    BY <1>1 DEF CapInv
  <2>5. QED  BY <2>2, <2>3, <2>4 DEF Allowed
<1>2. QED  BY <1>1, CapInvariance, PTL DEF Spec, SuppressedOnlyAtCap

-----------------------------------------------------------------------------
(* Refinement of AlarmLog.  What workers carry is counted. *)

Carrying(e) == {w \in Worker : event[w] = e}

LEMMA CarryingFinite ==
  \A e : IsFiniteSet(Carrying(e)) /\ Cardinality(Carrying(e)) \in Nat
BY AlerterAssumption, FS_Subset, FS_CardinalityType DEF Carrying, AlerterAssumption

(* A worker takes an event up. *)
LEMMA TakesUp ==
  ASSUME NEW w \in Worker, NEW e \in Event, WorkersOK,
         event[w] = NoEvent, event' = [event EXCEPT ![w] = e]
  PROVE  [d \in Event |-> Cardinality(Carrying(d))]'
           = [[d \in Event |-> Cardinality(Carrying(d))] EXCEPT ![e] = @ + 1]
<1>1. Carrying(e)' = Carrying(e) \cup {w} /\ w \notin Carrying(e)
  BY EventIsNot DEF Carrying, WorkersOK
<1>2. ASSUME NEW d \in Event, d # e  PROVE Carrying(d)' = Carrying(d)
  BY <1>2, EventIsNot DEF Carrying, WorkersOK
<1>3. Cardinality(Carrying(e)') = Cardinality(Carrying(e)) + 1
  BY <1>1, CarryingFinite, FS_AddElement
<1>4. QED  BY <1>2, <1>3

(* A worker puts its event down. *)
LEMMA PutsDown ==
  ASSUME NEW w \in Worker, NEW e \in Event, WorkersOK,
         event[w] = e, event' = [event EXCEPT ![w] = NoEvent]
  PROVE  /\ Cardinality(Carrying(e)) > 0
         /\ [d \in Event |-> Cardinality(Carrying(d))]'
             = [[d \in Event |-> Cardinality(Carrying(d))] EXCEPT ![e] = @ - 1]
<1>1. Carrying(e)' = Carrying(e) \ {w} /\ w \in Carrying(e)
  BY EventIsNot DEF Carrying, WorkersOK
<1>2. ASSUME NEW d \in Event, d # e  PROVE Carrying(d)' = Carrying(d)
  BY <1>2, EventIsNot DEF Carrying, WorkersOK
<1>3. Cardinality(Carrying(e)') = Cardinality(Carrying(e)) - 1
  BY <1>1, CarryingFinite, FS_RemoveElement
<1>4. Cardinality(Carrying(e)) > 0
  BY <1>1, CarryingFinite, FS_EmptySet
<1>5. QED  BY <1>2, <1>3, <1>4

LEMMA StepIsPromised ==
  ASSUME TypeOK, [Next]_vars
  PROVE  [Promise!Next]_(Promise!vars)
<1> DEFINE held == [e \in Event |-> Cardinality(Carrying(e))]
<1> USE DEF TypeOK
<1>0. /\ Promise!Event = Event /\ Promise!Row = Row
      /\ Promise!vars = <<state, held, alertLog, unlogged>>
  BY DEF Promise!Event, Promise!Row, Event, Row, Recovered, Promise!vars, Carrying
<1>1. ASSUME UNCHANGED <<state, event, audit>>  PROVE UNCHANGED Promise!vars
  BY <1>1 DEF Promise!vars, audit
<1>2. ASSUME NEW w \in Worker, Transition(w)  PROVE [Promise!Next]_(Promise!vars)
  <2>1. PICK m \in Metric, to \in {"", "max", "min"} :
          /\ state' = [state EXCEPT ![m] = to]
          /\ \/ /\ to = state[m] /\ pc' = [pc EXCEPT ![w] = "check"]
                /\ UNCHANGED event
             \/ /\ to # state[m] /\ pc' = [pc EXCEPT ![w] = "allow"]
                /\ event' = [event EXCEPT ![w] =
                     [metric |-> m, kind |-> IF to = "" THEN Recovered ELSE to]]
    BY <1>2, AfterTransition
  <2>2. UNCHANGED audit /\ event[w] = NoEvent
    BY <1>2 DEF Transition, WorkersOK
  <2>3. CASE to = state[m] /\ UNCHANGED event
    <3>1. state' = state  BY <2>1, <2>3 DEF FieldsOK
    <3>2. QED  BY <1>1, <2>2, <2>3, <3>1
  <2>4. CASE /\ to # state[m]
             /\ event' = [event EXCEPT ![w] =
                  [metric |-> m, kind |-> IF to = "" THEN Recovered ELSE to]]
    <3> DEFINE e == [metric |-> m, kind |-> IF to = "" THEN Recovered ELSE to]
    <3>1. e \in Event  BY DEF Event
    <3> HIDE DEF e
    <3>2. held' = [held EXCEPT ![e] = @ + 1]
      BY <2>2, <2>4, <3>1, TakesUp DEF e
    <3>3. Promise!Change(m, to)
      BY <2>1, <2>2, <2>4, <3>2 DEF Promise!Change, e, Recovered, audit, Carrying, Event, Promise!Event
    <3>4. QED  BY <3>3 DEF Promise!Next
  <2>5. QED  BY <2>1, <2>3, <2>4
<1>3. ASSUME NEW w \in Worker, Log(w)  PROVE [Promise!Next]_(Promise!vars)
  <2> DEFINE e == event[w]
             row == [metric |-> e.metric, kind |-> e.kind, notified |-> notified[w]]
  <2>1. /\ event[w] # NoEvent /\ event' = [event EXCEPT ![w] = NoEvent]
        /\ UNCHANGED state
        /\ \/ alertLog' = [alertLog EXCEPT ![row] = @ + 1] /\ UNCHANGED unlogged
           \/ unlogged' = [unlogged EXCEPT ![e] = @ + 1] /\ UNCHANGED alertLog
    BY <1>3 DEF Log, InsertAlertLog, WorkersOK
  <2>2. e \in Event /\ held[e] > 0 /\ held' = [held EXCEPT ![e] = @ - 1]
    <3>1. e \in Event  BY <2>1 DEF WorkersOK
    <3>2. QED  BY <2>1, <3>1, PutsDown
  <2>3. row \in Row /\ row.metric = e.metric /\ row.kind = e.kind
    BY <2>2 DEF Row, Event, WorkersOK
  <2>4. Promise!Record(e) \/ Promise!Lose(e)
    BY <1>0, <2>1, <2>2, <2>3 DEF Promise!Record, Promise!Lose, Carrying
  <2>5. QED  BY <1>0, <2>2, <2>4 DEF Promise!Next
<1>4. CASE Restart
  <2>1. event' = [w \in Worker |-> NoEvent]
    BY <1>4 DEF Restart
  <2>2. ASSUME NEW e \in Event  PROVE Cardinality(Carrying(e)') = 0
    <3>1. Carrying(e)' = {}  BY <2>1, EventIsNot DEF Carrying
    <3>2. QED  BY <3>1, FS_EmptySet
  <2>3. held' = [e \in Event |-> 0]
    BY <2>2
  <2>4. Promise!Restart
    BY <1>0, <1>4, <2>3 DEF Promise!Restart, Promise!Quiet, Restart, Carrying
  <2>5. QED  BY <2>4 DEF Promise!Next
<1>5. ASSUME NEW w \in Worker, Begin(w) \/ ReadRule(w) \/ Allow(w) \/ End(w)
      PROVE  UNCHANGED Promise!vars
  BY <1>1, <1>5 DEF Begin, ReadRule, Allow, End
<1>6. ASSUME ReloadLock \/ ReloadUnlock \/ Midnight \/ UNCHANGED vars
      PROVE  UNCHANGED Promise!vars
  BY <1>1, <1>6 DEF ReloadLock, ReloadUnlock, Midnight, vars, working
<1>7. QED  BY <1>2, <1>3, <1>4, <1>5, <1>6 DEF Next, Step

LEMMA InitIsPromised == Init => Promise!Init
<1> SUFFICES ASSUME Init  PROVE Promise!Init
  OBVIOUS
<1>1. ASSUME NEW e \in Event  PROVE Cardinality(Carrying(e)) = 0
  <2>1. Carrying(e) = {}  BY EventIsNot DEF Carrying, Init
  <2>2. QED  BY <2>1, FS_EmptySet
<1>2. Promise!Event = Event /\ Promise!Row = Row
  BY DEF Promise!Event, Promise!Row, Event, Row, Recovered
<1>3. QED
  BY <1>1, <1>2 DEF Init, Promise!Init, Promise!Quiet, Carrying

(* ImplementsAlarmLog: every step of the engine changes an alarm and makes *)
(* its event, records or loses a pending one, is the restart, or is        *)
(* invisible.                                                              *)
THEOREM AlarmRefinement == Spec => ImplementsAlarmLog
<1>1. Init => Promise!Init  BY InitIsPromised
<1>2. TypeOK /\ [Next]_vars => [Promise!Next]_(Promise!vars)
  BY StepIsPromised
<1>3. QED
  BY <1>1, <1>2, AlerterTypeCorrect, PTL DEF Spec, ImplementsAlarmLog, Promise!Spec
=============================================================================
