-------------------------------- MODULE Series --------------------------------
(***************************************************************************)
(* The read side: GET /api/series (api/series.go) averages the readings of *)
(* a channel over steps (store.go QuerySeries), from two rollups           *)
(* (migrations 0002 to 0004) that policies refresh in the background while *)
(* live and late readings come in.                                         *)
(*                                                                         *)
(* One channel.  Readings are never changed or deleted, so what a rollup   *)
(* has materialized is the set of readings it has seen.  Below its         *)
(* watermark a rollup answers from what is materialized, from there on     *)
(* from the readings (real-time aggregation).  Other channels share the    *)
(* watermark.  Time is in ticks; an average is a pair <<sum, count>>.      *)
(***************************************************************************)
EXTENDS Integers, FiniteSets, Functions

CONSTANTS
  TicksPerSecond,
  SecondsPerMinute,   \* 60, smaller in small instances
  StartOffset, EndOffset,   \* of each rollup's refresh policy
  Value,              \* values of readings
  Queries,            \* from, to and step of GET /api/series
  MaxTime, MaxRows    \* bounds

View == {"readings_1s", "readings_1m"}
Unit == {"s", "m", "h", "d"}
Step == [n : 0..9999, unit : Unit]            \* stepPattern

(* parseTimeRange answers 400 unless from is before to; time_bucket refuses *)
(* a width of 0.                                                           *)
ValidQuery(q) ==
  /\ {q.from, q.to} \subseteq Nat /\ q.from < q.to
  /\ q.step \in Step /\ q.step.n > 0

ASSUME SeriesAssumption ==
  /\ TicksPerSecond \in Nat \ {0} /\ SecondsPerMinute \in Nat \ {0, 1}
  /\ StartOffset \in [View -> Nat] /\ EndOffset \in [View -> Nat]
  /\ Value \subseteq Int
  /\ \A q \in Queries : ValidQuery(q)
  /\ MaxTime \in Nat /\ MaxRows \in Nat

VARIABLES
  now,        \* the time
  rows,       \* the channel's readings
  seen,       \* each rollup: readings in its materialized buckets
  watermark   \* each rollup: end of its materialized buckets

vars == <<now, rows, seen, watermark>>

Row == [ts : Nat, value : Value]

-----------------------------------------------------------------------------
(* Steps *)

Minute == SecondsPerMinute
Hour == 60 * Minute
Day  == 24 * Hour

UnitSeconds(unit) ==
  IF unit = "s" THEN 1 ELSE IF unit = "m" THEN Minute ELSE IF unit = "h" THEN Hour ELSE Day
StepSeconds(step) == step.n * UnitSeconds(step.unit)

(* resolveStep without a valid request, for a range of `span' seconds.     *)
AutoStep(span) ==
  IF      span <= Hour   THEN [n |-> 5,  unit |-> "s"]
  ELSE IF span <= 6*Hour THEN [n |-> 30, unit |-> "s"]
  ELSE IF span <= Day    THEN [n |-> 2,  unit |-> "m"]
  ELSE IF span <= 7*Day  THEN [n |-> 15, unit |-> "m"]
  ELSE IF span <= 31*Day THEN [n |-> 1,  unit |-> "h"]
  ELSE                        [n |-> 6,  unit |-> "h"]

(* QuerySeries: the rollup that answers a step of at least a second.       *)
ViewOf(step) == IF StepSeconds(step) >= Minute THEN "readings_1m" ELSE "readings_1s"
Width(v) == TicksPerSecond * (IF v = "readings_1m" THEN Minute ELSE 1)

-----------------------------------------------------------------------------
(* time_bucket, and averages as fractions *)

Bucket(t, width) == (t \div width) * width
SumOf(S) == SumFunction([x \in S |-> x.value])

\* Faulty variant: the average of the averages.
MeanOfMeans(S) ==
  <<SumFunction([x \in S |-> (x.sum * 60) \div x.n]), 60 * Cardinality(S)>>

(* sum(avg_value * n_value) / sum(n_value), where avg_value is sum / n.    *)
WeightedMean(S) ==
  <<SumFunction([x \in S |-> x.sum]), SumFunction([x \in S |-> x.n])>>

(* What a SELECT on a rollup sees: the view, with materialized_only off.   *)
Visible(v) == {r \in seen[v] : r.ts < watermark[v]} \cup {r \in rows : r.ts >= watermark[v]}

RollupRows(v) ==
  LET In(b) == {r \in Visible(v) : Bucket(r.ts, Width(v)) = b}
  IN {[bucket |-> b, sum |-> SumOf(In(b)), n |-> Cardinality(In(b))] :
        b \in {Bucket(r.ts, Width(v)) : r \in Visible(v)}}

(* querySeriesRollup *)
Answer(q) ==
  LET w == TicksPerSecond * StepSeconds(q.step)
      found == {x \in RollupRows(ViewOf(q.step)) : q.from <= x.bucket /\ x.bucket < q.to}
      In(b) == {x \in found : Bucket(x.bucket, w) = b}
  IN {[ts |-> b, mean |-> WeightedMean(In(b))] : b \in {Bucket(x.bucket, w) : x \in found}}

(* querySeriesRaw *)
RawAnswer(q) ==
  LET w == TicksPerSecond * StepSeconds(q.step)
      found == {r \in rows : q.from <= r.ts /\ r.ts < q.to}
      In(b) == {r \in found : Bucket(r.ts, w) = b}
  IN {[ts |-> b, mean |-> <<SumOf(In(b)), Cardinality(In(b))>>] :
        b \in {Bucket(r.ts, w) : r \in found}}

-----------------------------------------------------------------------------
(* A reading arrives, live or late (an outage, the backfill). *)
Insert(r) ==
  /\ Cardinality(rows) < MaxRows
  /\ r.ts <= now /\ \A s \in rows : s.ts # r.ts
  /\ rows' = rows \cup {r}
  /\ UNCHANGED <<now, seen, watermark>>

\* Faulty variants of the policies' windows: only what was never materialized;
\* only the last bucket; unaligned; up to now.
WindowFromWatermark(v) == watermark[v]
WindowLastBucket(v) ==
  IF now < EndOffset[v] + Width(v) THEN 0 ELSE Bucket(now - EndOffset[v] - Width(v), Width(v))

(* The whole buckets between now - start_offset and now - end_offset.      *)
WindowStart(v) ==
  IF now <= StartOffset[v] THEN 0
  ELSE Bucket(now - StartOffset[v] + Width(v) - 1, Width(v))

WindowEndUnaligned(v) == IF now <= EndOffset[v] THEN 0 ELSE now - EndOffset[v]
WindowEndNow(v) == Bucket(now, Width(v)) + Width(v)
WindowEnd(v) == IF now <= EndOffset[v] THEN 0 ELSE Bucket(now - EndOffset[v], Width(v))

(* A run of the policy materializes the buckets of the window again; the   *)
(* watermark becomes the end of the last bucket that holds a reading, of   *)
(* this channel or of another.                                             *)
Refresh(v) ==
  LET window == {r \in rows : WindowStart(v) <= r.ts /\ r.ts < WindowEnd(v)}
  IN /\ WindowStart(v) < WindowEnd(v)
     /\ seen' = [seen EXCEPT ![v] = @ \cup window]
     /\ \E m \in watermark[v] .. WindowEnd(v) :
          /\ m = WindowEnd(v) \/ Bucket(m, Width(v)) = m
          /\ \A r \in window : r.ts < m
          /\ watermark' = [watermark EXCEPT ![v] = m]
     /\ UNCHANGED <<now, rows>>

Tick ==
  /\ now < MaxTime
  /\ now' = now + 1
  /\ UNCHANGED <<rows, seen, watermark>>

Init ==
  /\ now = 0 /\ rows = {}
  /\ seen = [v \in View |-> {}] /\ watermark = [v \in View |-> 0]

Next ==
  \/ \E t \in 0..MaxTime, x \in Value : Insert([ts |-> t, value |-> x])
  \/ \E v \in View : Refresh(v)
  \/ Tick

Spec == Init /\ [][Next]_vars

(* The policies run on their schedules.  Sources need not send. *)
FairSpec == Spec /\ \A v \in View : WF_vars(Refresh(v))

-----------------------------------------------------------------------------
TypeOK ==
  /\ now \in 0..MaxTime /\ rows \subseteq Row
  /\ seen \in [View -> SUBSET rows]
  /\ watermark \in [View -> Nat]
  /\ \A v \in View : Bucket(watermark[v], Width(v)) = watermark[v]

SameSeries(A, B) ==
  /\ {a.ts : a \in A} = {b.ts : b \in B}
  /\ \A a \in A, b \in B : a.ts = b.ts => a.mean[1] * b.mean[2] = b.mean[1] * a.mean[2]

Shown(q) == \A r \in rows : q.from <= r.ts /\ r.ts < q.to => r \in Visible(ViewOf(q.step))
WholeBuckets(q) == \A t \in {q.from, q.to} : t % Width(ViewOf(q.step)) = 0
WholeSteps(q) == (TicksPerSecond * StepSeconds(q.step)) % Width(ViewOf(q.step)) = 0

(* store.go:157-159: when range and step are made of whole buckets, the    *)
(* averages from a rollup, materialized or not, are those of the readings. *)
ExactOnWholeSteps ==
  \A q \in Queries :
    Shown(q) /\ WholeBuckets(q) /\ WholeSteps(q) => SameSeries(Answer(q), RawAnswer(q))

(* store.go:157-159, "weighted by their row counts, so the coarser average *)
(* is exact": the same for every coarser step.                             *)
CoarserAverageExact ==
  \A q \in Queries : Shown(q) /\ WholeBuckets(q) => SameSeries(Answer(q), RawAnswer(q))

(* 0002:8-10, "queries never miss live points", and 0004:7-9: a reading    *)
(* that arrives within end_offset is shown at once.                        *)
LiveRowsShown ==
  \A v \in View : \A r \in rows : r.ts >= now - EndOffset[v] => r \in Visible(v)

(* 0002:29-31: a refresh that moves the watermark hides no reading, if its *)
(* bucket is not older than start_offset.                                  *)
ShownStaysShown ==
  [][\A v \in View : \A r \in Visible(v) :
       r.ts >= now - StartOffset[v] + Width(v) => r \in Visible(v)']_vars

(* 0002:27-31: a late reading, too, is shown by the policy's next run,     *)
(* unless its bucket is older than start_offset by then.                   *)
LateRowsShown ==
  \A v \in View :
    []<>(\A r \in rows : r.ts >= now - StartOffset[v] + Width(v) => r \in Visible(v))
=============================================================================
