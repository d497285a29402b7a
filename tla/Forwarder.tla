------------------------------ MODULE Forwarder ------------------------------
(***************************************************************************)
(* Two programs bring the readings of InfluxDB to the server: the          *)
(* forwarder (forwarder/forwarder.py) posts the last point of each series  *)
(* at every poll and never repeats a post; the backfill                    *)
(* (forwarder/backfill.py) reads the retained window day by day and ends   *)
(* at the first failure.  They run side by side while the clock advances,  *)
(* points are recorded and old ones expire.                                *)
(*                                                                         *)
(* The unit of time is one poll.  Points is all that is ever recorded,     *)
(* each at its own time, of series that TEMP_MAP and PRESSURE_MAP name.    *)
(* `off' is a gauge that reads zero or less.  The server deduplicates, so  *)
(* that its readings are a set of points.                                  *)
(***************************************************************************)
EXTENDS Integers, FiniteSets

CONSTANTS
  Temperature, Pressure,   \* the series of TEMP_MAP and PRESSURE_MAP
  Points,
  Lookback,     \* FORWARDER_LOOKBACK
  Retention,    \* how long InfluxDB keeps a point
  Day, Days,    \* the length of a day, BACKFILL_DAYS
  FillBatch,    \* BACKFILL_BATCH
  Horizon, MaxFailures, MaxRuns   \* bounds: of time, failures, backfills

Series == Temperature \cup Pressure
Point  == [series : Series, ts : Nat, off : BOOLEAN]

ASSUME ForwarderAssumption ==
  /\ Points \subseteq Point /\ Temperature \cap Pressure = {}
  /\ \A p, q \in Points : p.series = q.series /\ p.ts = q.ts => p = q
  /\ {Lookback, Retention, Day, Days, FillBatch} \subseteq Nat \ {0}
  /\ Lookback < Retention
  /\ {Horizon, MaxFailures, MaxRuns} \subseteq Nat

VARIABLES
  now,
  stored,            \* the server's readings of these series
  poll, found,       \* the forwarder: pc, and the batch of this poll
  fill,              \* the backfill: pc, window, day; history: when it began
  pending,           \* its batch
  failures, runs

fwdVars  == <<poll, found>>
fillVars == <<fill, pending, runs>>
feedVars == <<now, stored, fwdVars, fillVars, failures>>

Fails == failures < MaxFailures /\ failures' = failures + 1

(* What a query of InfluxDB returns: range(start: LOOKBACK) |> last() for  *)
(* each series, and range(start, stop), which leaves out its stop.         *)
Retained(p) == p.ts <= now /\ now - p.ts < Retention
Recent(s)   == {p \in Points : p.series = s /\ Retained(p) /\ now - p.ts <= Lookback}
Lasts(S)    == UNION {{p \in Recent(s) : \A q \in Recent(s) : q.ts <= p.ts} : s \in S}
Between(S, from, to) ==
  {p \in Points : p.series \in S /\ Retained(p) /\ from <= p.ts /\ p.ts < to}

On(ps) == {p \in ps : ~p.off}      \* drop_nonpositive, val <= 0

-----------------------------------------------------------------------------
(* forwarder.py.  A query that fails skips what comes after it in the      *)
(* `try', and what was collected before it is posted.                      *)
CollectTemperatures ==
  /\ poll = "temperatures"
  /\ \/ found' = Lasts(Temperature) /\ poll' = "pressures" /\ UNCHANGED failures
     \/ Fails /\ found' = {} /\ poll' = "post"
  /\ UNCHANGED <<now, stored, fillVars>>

Replaced(ps) == ps                     \* faulty variant: `batch =', not `+='
Extended(ps) == found \cup ps

CollectPressures ==
  /\ poll = "pressures"
  /\ \/ found' = Extended(On(Lasts(Pressure))) /\ UNCHANGED failures
     \/ Fails /\ UNCHANGED found
  /\ poll' = "post"
  /\ UNCHANGED <<now, stored, fillVars>>

(* The batch is posted once.  A post that fails is logged; when it timed   *)
(* out the server may have stored the batch all the same.                  *)
PostFound ==
  /\ poll = "post" /\ poll' = "asleep" /\ found' = {}
  /\ \/ stored' = stored \cup found /\ UNCHANGED failures
     \/ found # {} /\ Fails /\ stored' \in {stored, stored \cup found}
  /\ UNCHANGED <<now, fillVars>>

(* time.sleep(POLL_SECONDS): the clock advances to the next poll.          *)
Tick ==
  /\ now < Horizon /\ now' = now + 1
  /\ poll = "asleep" /\ poll' = "temperatures"
  /\ UNCHANGED <<stored, found, fillVars, failures>>

-----------------------------------------------------------------------------
(* backfill.py *)
NoFill == [pc |-> "idle", end |-> 0, day |-> 0, began |-> 0]

StartFill ==
  /\ fill.pc \in {"idle", "done"} /\ runs < MaxRuns /\ runs' = runs + 1
  /\ fill' = [pc |-> "temperatures", end |-> now + 1, day |-> now + 1 - Days * Day, began |-> now]
  /\ UNCHANGED <<now, stored, fwdVars, pending, failures>>

DayEnd == IF fill.day + Day <= fill.end THEN fill.day + Day ELSE fill.end
LastDay == DayEnd = fill.end

FillTemperatures ==
  /\ fill.pc = "temperatures"
  /\ pending' = pending \cup Between(Temperature, fill.day, DayEnd)
  /\ fill' = [fill EXCEPT !.pc = "pressures"]
  /\ UNCHANGED <<now, stored, fwdVars, runs, failures>>

Full(batch) == Cardinality(batch) >= FillBatch
FlushOnlyFull == Full(pending')        \* faulty variant: no flush at the end
MustFlush == Full(pending') \/ LastDay

NextDay == IF LastDay THEN [fill EXCEPT !.pc = "done"]
           ELSE [fill EXCEPT !.pc = "temperatures", !.day = DayEnd]

FillPressures ==
  /\ fill.pc = "pressures"
  /\ pending' = pending \cup On(Between(Pressure, fill.day, DayEnd))
  /\ fill' = IF MustFlush THEN [fill EXCEPT !.pc = "flush"] ELSE NextDay
  /\ UNCHANGED <<now, stored, fwdVars, runs, failures>>

(* flush: chunks of FillBatch readings, and what is left of them.          *)
Chunks == {c \in SUBSET pending : \/ Cardinality(c) = FillBatch
                                  \/ c = pending /\ c # {} /\ ~Full(c)}

FlushChunk ==
  /\ fill.pc = "flush"
  /\ \E c \in Chunks : stored' = stored \cup c /\ pending' = pending \ c
  /\ UNCHANGED <<now, fwdVars, fill, runs, failures>>

FlushDone ==
  /\ fill.pc = "flush" /\ pending = {}
  /\ fill' = NextDay
  /\ UNCHANGED <<now, stored, fwdVars, pending, runs, failures>>

(* The exception of a query, of session.post (whose chunk may be stored    *)
(* when it timed out) or of raise_for_status ends the program.             *)
FillEnds ==
  /\ fill.pc \notin {"idle", "done"}
  /\ Fails
  /\ stored' \in {stored} \cup {stored \cup c : c \in IF fill.pc = "flush" THEN Chunks ELSE {}}
  /\ fill' = NoFill /\ pending' = {}
  /\ UNCHANGED <<now, fwdVars, runs>>

-----------------------------------------------------------------------------
FeedInit ==
  /\ now = 0 /\ stored = {}
  /\ poll = "temperatures" /\ found = {}
  /\ fill = NoFill /\ pending = {} /\ runs = 0
  /\ failures = 0

FeedNext ==
  \/ CollectTemperatures \/ CollectPressures \/ PostFound \/ Tick
  \/ StartFill \/ FillTemperatures \/ FillPressures \/ FlushChunk \/ FlushDone \/ FillEnds

FeedSpec == FeedInit /\ [][FeedNext]_feedVars

-----------------------------------------------------------------------------
Wanted(p) == p.series \in Temperature \/ ~p.off

(* forwarder.py:11-14 and 116-125: no post is repeated, but the next poll  *)
(* reads the last point again.  A point that stayed the last of its series *)
(* for more polls than have failed is stored, unless all the polls of its  *)
(* lookback failed.                                                        *)
LastPointArrives ==
  \A p \in Points :
    /\ Wanted(p) /\ failures <= Lookback
    /\ now > p.ts + failures
    /\ \A q \in Points : q.series = p.series /\ q.ts > p.ts => q.ts > p.ts + failures
    => p \in stored

(* backfill.py:3-8, "the entire retained window ... so nothing is lost":   *)
(* when a backfill is done, every point of its window that was recorded    *)
(* when it began and is still retained is stored, also those whose post    *)
(* the forwarder did not repeat and those an aborted backfill left out.    *)
BackfillComplete ==
  fill.pc = "done" =>
    \A p \in Points :
      /\ Wanted(p) /\ Retained(p)
      /\ p.ts <= fill.began /\ p.ts >= fill.end - Days * Day
      => p \in stored
=============================================================================
