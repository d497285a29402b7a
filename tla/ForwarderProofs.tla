--------------------------- MODULE ForwarderProofs ---------------------------
(***************************************************************************)
(* BackfillComplete and LastPointArrives of Forwarder, for any points,     *)
(* lookback, retention, days and chunks, and any number of failures.       *)
(***************************************************************************)
EXTENDS Forwarder, TLAPS

FieldsOK ==
  /\ now \in Nat /\ failures \in Nat
  /\ poll \in {"temperatures", "pressures", "post", "asleep"}
  /\ fill \in [pc : {"idle", "temperatures", "pressures", "flush", "done"},
               end : Int, day : Int, began : Nat]

(* The points of S before `to' that a backfill owes.                       *)
InWindow(p) == p.ts <= fill.began /\ p.ts >= fill.end - Days * Day
Swept(S, to) ==
  \A p \in Points : p.series \in S /\ Wanted(p) /\ Retained(p) /\ InWindow(p) /\ p.ts < to
                      => p \in stored \cup pending

(* A backfill has the days behind it in its batch or stored.               *)
FillInv ==
  /\ fill.began <= now
  /\ fill.pc # "idle" => fill.end = fill.began + 1
  /\ fill.pc = "temperatures" => Swept(Series, fill.day)
  /\ fill.pc = "pressures" => Swept(Temperature, DayEnd) /\ Swept(Pressure, fill.day)
  /\ fill.pc = "flush" => Swept(Series, DayEnd)
  /\ BackfillComplete

(* The forwarder could have posted p at n polls at least: while it was the *)
(* last point of its series, and in the lookback.                          *)
LastFor(p, n) ==
  /\ n <= now - p.ts + 1 /\ n <= Lookback + 1
  /\ \A q \in Points : q.series = p.series /\ q.ts > p.ts => q.ts >= p.ts + n

(* The poll under way can still bring p.                                   *)
Coming(p) ==
  \/ poll = "temperatures"
  \/ poll = "pressures" /\ (p.series \in Pressure \/ p \in found)
  \/ poll = "post" /\ p \in found

(* A point that is missing at the server has cost a failure in each of     *)
(* these polls, but for the one under way.                                 *)
PollInv ==
  \A p \in Points : Wanted(p) /\ p \notin stored /\ p.ts <= now =>
    \A n \in Nat : LastFor(p, n) =>
      failures >= n \/ (n = now - p.ts + 1 /\ failures >= n - 1 /\ Coming(p))

IInv == FieldsOK /\ FillInv /\ PollInv

-----------------------------------------------------------------------------
LEMMA PointFields ==
  ASSUME NEW p \in Points
  PROVE  /\ p.series \in Series /\ p.ts \in Nat /\ p.off \in BOOLEAN
         /\ p.series \in Pressure /\ Wanted(p) => ~p.off
BY ForwarderAssumption DEF ForwarderAssumption, Point, Series, Wanted

LEMMA ConstantsAre ==
  /\ Lookback \in Nat \ {0} /\ Retention \in Nat \ {0} /\ Lookback < Retention
  /\ Day \in Nat \ {0} /\ Days \in Nat \ {0} /\ Days * Day \in Nat
<1>1. Lookback \in Nat \ {0} /\ Retention \in Nat \ {0} /\ Lookback < Retention
  BY ForwarderAssumption DEF ForwarderAssumption
<1>2. Day \in Nat \ {0} /\ Days \in Nat \ {0}
  BY ForwarderAssumption DEF ForwarderAssumption
<1>3. Days * Day \in Nat  BY <1>2
<1>4. QED  BY <1>1, <1>2, <1>3

LEMMA DayEndIs ==
  ASSUME FieldsOK
  PROVE  DayEnd \in Int /\ DayEnd <= fill.end
BY ConstantsAre DEF FieldsOK, DayEnd

(* A point that no other has replaced is what a query of its series finds. *)
LEMMA LastIsFound ==
  ASSUME now \in Nat, NEW p \in Points, p.ts <= now, LastFor(p, now - p.ts + 1), NEW S, p.series \in S
  PROVE  p \in Lasts(S)
<1>1. p.ts \in Nat /\ Lookback \in Nat /\ Retention \in Nat /\ Lookback < Retention
  BY PointFields, ConstantsAre
<1>2. now - p.ts <= Lookback
  BY <1>1 DEF LastFor
<1>3. p \in Recent(p.series)
  BY <1>1, <1>2 DEF Recent, Retained
<1>4. ASSUME NEW q \in Recent(p.series)  PROVE q.ts <= p.ts
  <2>1. q \in Points /\ q.series = p.series /\ q.ts <= now /\ q.ts \in Nat
    BY <1>4, PointFields DEF Recent, Retained
  <2>2. q.ts > p.ts => q.ts >= p.ts + (now - p.ts + 1)
    BY <2>1 DEF LastFor
  <2>3. QED  BY <1>1, <2>1, <2>2
<1>5. QED  BY <1>3, <1>4 DEF Lasts

LEMMA FeedInitInv == FeedInit => IInv
<1> SUFFICES ASSUME FeedInit  PROVE IInv
  OBVIOUS
<1>1. FieldsOK /\ FillInv
  BY DEF FeedInit, FieldsOK, FillInv, NoFill, BackfillComplete
<1>2. ASSUME NEW p \in Points, p.ts <= now, NEW n \in Nat, LastFor(p, n)
      PROVE  failures >= n \/ (n = now - p.ts + 1 /\ failures >= n - 1 /\ Coming(p))
  <2>1. p.ts = 0 /\ now = 0 /\ failures = 0 /\ poll = "temperatures"
    BY <1>2, PointFields DEF FeedInit
  <2>2. n <= 1
    BY <1>2, <2>1 DEF LastFor
  <2>3. QED  BY <2>1, <2>2 DEF Coming
<1>3. QED  BY <1>1, <1>2 DEF IInv, PollInv

(* What is retained of a window was retained before.                       *)
LEMMA SweptKeeps ==
  ASSUME FieldsOK, now' \in {now, now + 1}, stored \cup pending \subseteq stored' \cup pending',
         fill'.began = fill.began, fill'.end = fill.end, fill.began <= now
  PROVE  \A S, to : Swept(S, to) => Swept(S, to)'
<1> SUFFICES ASSUME NEW S, NEW to, Swept(S, to),
                    NEW p \in Points, p.series \in S, Wanted(p), Retained(p)', InWindow(p)', p.ts < to
             PROVE  p \in stored' \cup pending'
  BY DEF Swept
<1>1. InWindow(p)
  BY DEF InWindow
<1>2. Retained(p)
  <2>1. p.ts \in Nat /\ p.ts <= fill.began /\ fill.began \in Nat /\ now \in Nat /\ Retention \in Nat
    BY <1>1, PointFields, ConstantsAre DEF InWindow, FieldsOK
  <2>2. now' - p.ts < Retention
    BY DEF Retained
  <2>3. QED  BY <2>1, <2>2 DEF Retained
<1>3. QED  BY <1>1, <1>2 DEF Swept

LEMMA DoneKeeps ==
  ASSUME FieldsOK, BackfillComplete, now' \in {now, now + 1}, stored \subseteq stored',
         fill'.pc = "done" => fill' = fill, fill.began <= now
  PROVE  BackfillComplete'
<1> SUFFICES ASSUME fill' = fill, fill.pc = "done", NEW p \in Points, Wanted(p), Retained(p)',
                    p.ts <= fill.began, p.ts >= fill.end - Days * Day
             PROVE  p \in stored'
  BY DEF BackfillComplete
<1>1. Retained(p)
  <2>1. p.ts \in Nat /\ fill.began \in Nat /\ now \in Nat /\ Retention \in Nat
    BY PointFields, ConstantsAre DEF FieldsOK
  <2>2. now' - p.ts < Retention
    BY DEF Retained
  <2>3. QED  BY <2>1, <2>2 DEF Retained
<1>2. QED  BY <1>1 DEF BackfillComplete

(* Steps of the forwarder leave a backfill what it has.                    *)
LEMMA FillKeeps ==
  ASSUME FieldsOK, FillInv, now' \in {now, now + 1}, stored \subseteq stored',
         UNCHANGED <<fill, pending>>
  PROVE  FillInv'
<1>1. \A S, to : Swept(S, to) => Swept(S, to)'
  BY SweptKeeps DEF FillInv
<1>2. BackfillComplete'
  BY DoneKeeps DEF FillInv
<1>3. DayEnd' = DayEnd
  BY DEF DayEnd
<1>4. fill'.began <= now'
  BY DEF FieldsOK, FillInv
<1>5. (fill.pc = "pressures" => Swept(Temperature, DayEnd) /\ Swept(Pressure, fill.day))'
  BY <1>1, <1>3 DEF FillInv
<1>6. (fill.pc = "flush" => Swept(Series, DayEnd))'
  BY <1>1, <1>3 DEF FillInv
<1>7. QED  BY <1>1, <1>2, <1>4, <1>5, <1>6 DEF FillInv

(* Steps of the backfill leave the forwarder what it has.                  *)
LEMMA PollKeeps ==
  ASSUME FieldsOK, PollInv, UNCHANGED <<now, poll, found>>, stored \subseteq stored',
         failures' \in {failures, failures + 1}
  PROVE  PollInv'
<1> SUFFICES ASSUME NEW p \in Points, Wanted(p), p \notin stored', p.ts <= now,
                    NEW n \in Nat, LastFor(p, n)
             PROVE  failures' >= n \/ (n = now - p.ts + 1 /\ failures' >= n - 1 /\ Coming(p))
  BY DEF PollInv, LastFor, Coming
<1>1. failures >= n \/ (n = now - p.ts + 1 /\ failures >= n - 1 /\ Coming(p))
  BY DEF PollInv
<1>2. failures \in Nat  BY DEF FieldsOK
<1>3. QED  BY <1>1, <1>2

LEMMA CollectTemperaturesStep ==
  ASSUME IInv, CollectTemperatures
  PROVE  IInv'
<1>1. /\ FieldsOK /\ FillInv /\ PollInv /\ poll = "temperatures"
      /\ UNCHANGED <<now, stored, fill, pending>> /\ now \in Nat /\ failures \in Nat
  BY DEF IInv, CollectTemperatures, fillVars, FieldsOK
<1>2. failures' \in {failures, failures + 1}
  BY DEF CollectTemperatures, Fails
<1>3. FieldsOK'
  BY <1>1, <1>2 DEF FieldsOK, CollectTemperatures
<1>4. PollInv'
  <2> SUFFICES ASSUME NEW p \in Points, Wanted(p), p \notin stored, p.ts <= now,
                      NEW n \in Nat, LastFor(p, n)
               PROVE  failures' >= n \/ (n = now - p.ts + 1 /\ failures' >= n - 1 /\ Coming(p)')
    BY <1>1 DEF PollInv, LastFor
  <2>1. failures >= n \/ (n = now - p.ts + 1 /\ failures >= n - 1)
    BY <1>1 DEF PollInv
  <2>2. CASE failures >= n \/ failures' = failures + 1
    BY <1>1, <1>2, <2>1, <2>2
  <2>3. CASE n = now - p.ts + 1 /\ failures >= n - 1 /\ failures' # failures + 1
    <3>1. found' = Lasts(Temperature) /\ poll' = "pressures" /\ failures' = failures
      BY <1>1, <2>3 DEF CollectTemperatures, Fails
    <3>2. p.series \in Temperature => p \in Lasts(Temperature)
      BY <1>1, <2>3, LastIsFound
    <3>3. p.series \in Temperature \/ p.series \in Pressure
      BY PointFields DEF Series
    <3>4. QED  BY <2>3, <3>1, <3>2, <3>3 DEF Coming
  <2>4. QED  BY <2>1, <2>2, <2>3
<1>5. FillInv'
  BY <1>1, FillKeeps
<1>6. QED  BY <1>3, <1>4, <1>5 DEF IInv

LEMMA CollectPressuresStep ==
  ASSUME IInv, CollectPressures
  PROVE  IInv'
<1>1. /\ FieldsOK /\ FillInv /\ PollInv /\ poll = "pressures" /\ poll' = "post"
      /\ UNCHANGED <<now, stored, fill, pending>> /\ now \in Nat /\ failures \in Nat
  BY DEF IInv, CollectPressures, fillVars, FieldsOK
<1>2. failures' \in {failures, failures + 1}
  BY DEF CollectPressures, Fails
<1>3. FieldsOK'
  BY <1>1, <1>2 DEF FieldsOK
<1>4. PollInv'
  <2> SUFFICES ASSUME NEW p \in Points, Wanted(p), p \notin stored, p.ts <= now,
                      NEW n \in Nat, LastFor(p, n)
               PROVE  failures' >= n \/ (n = now - p.ts + 1 /\ failures' >= n - 1 /\ Coming(p)')
    BY <1>1 DEF PollInv, LastFor
  <2>1. failures >= n \/ (n = now - p.ts + 1 /\ failures >= n - 1 /\ Coming(p))
    BY <1>1 DEF PollInv
  <2>2. CASE failures >= n \/ failures' = failures + 1
    BY <1>1, <1>2, <2>1, <2>2
  <2>3. CASE n = now - p.ts + 1 /\ failures >= n - 1 /\ Coming(p) /\ failures' # failures + 1
    <3>1. found' = found \cup On(Lasts(Pressure)) /\ failures' = failures
      BY <1>1, <2>3 DEF CollectPressures, Fails, Extended
    <3>2. p.series \in Pressure => p \in On(Lasts(Pressure))
      <4>1. p.series \in Pressure => p \in Lasts(Pressure)
        BY <1>1, <2>3, LastIsFound
      <4>2. QED  BY <4>1, PointFields DEF On
    <3>3. p.series \in Pressure \/ p \in found
      BY <1>1, <2>3 DEF Coming
    <3>4. QED  BY <1>1, <2>3, <3>1, <3>2, <3>3 DEF Coming
  <2>4. QED  BY <2>1, <2>2, <2>3
<1>5. FillInv'
  BY <1>1, FillKeeps
<1>6. QED  BY <1>3, <1>4, <1>5 DEF IInv

LEMMA PostFoundStep ==
  ASSUME IInv, PostFound
  PROVE  IInv'
<1>1. /\ FieldsOK /\ FillInv /\ PollInv /\ poll = "post" /\ poll' = "asleep"
      /\ UNCHANGED <<now, fill, pending>> /\ now \in Nat /\ failures \in Nat
      /\ stored \subseteq stored'
  BY DEF IInv, PostFound, fillVars, FieldsOK
<1>2. failures' \in {failures, failures + 1}
  BY DEF PostFound, Fails
<1>3. FieldsOK'
  BY <1>1, <1>2 DEF FieldsOK
<1>4. PollInv'
  <2> SUFFICES ASSUME NEW p \in Points, Wanted(p), p \notin stored', p.ts <= now,
                      NEW n \in Nat, LastFor(p, n)
               PROVE  failures' >= n
    BY <1>1 DEF PollInv, LastFor
  <2>1. failures >= n \/ (failures >= n - 1 /\ p \in found)
    <3>1. p \notin stored  BY <1>1
    <3>2. failures >= n \/ (failures >= n - 1 /\ Coming(p))
      BY <1>1, <3>1 DEF PollInv
    <3>3. QED  BY <1>1, <3>2 DEF Coming
  <2>2. failures' = failures => p \notin found
    BY <1>1 DEF PostFound, Fails
  <2>3. QED  BY <1>1, <1>2, <2>1, <2>2
<1>5. FillInv'
  BY <1>1, FillKeeps
<1>6. QED  BY <1>3, <1>4, <1>5 DEF IInv

(* One poll later, one more chance.                                        *)
LEMMA TickStep ==
  ASSUME IInv, Tick
  PROVE  IInv'
<1>1. /\ FieldsOK /\ FillInv /\ PollInv /\ poll = "asleep" /\ poll' = "temperatures"
      /\ UNCHANGED <<stored, fill, pending, failures>> /\ now \in Nat /\ failures \in Nat /\ now' = now + 1
  BY DEF IInv, Tick, fillVars, FieldsOK
<1>2. FieldsOK'
  BY <1>1 DEF FieldsOK
<1>3. PollInv'
  <2> SUFFICES ASSUME NEW p \in Points, Wanted(p), p \notin stored', p.ts <= now',
                      NEW n \in Nat, LastFor(p, n)'
               PROVE  failures' >= n \/ (n = now' - p.ts + 1 /\ failures' >= n - 1 /\ Coming(p)')
    BY DEF PollInv
  <2>0. Coming(p)' /\ p \notin stored /\ p.ts <= now + 1
    BY <1>1 DEF Coming
  <2>1. /\ n <= now + 1 - p.ts + 1 /\ n <= Lookback + 1 /\ p.ts \in Nat /\ Lookback \in Nat
        /\ \A q \in Points : q.series = p.series /\ q.ts > p.ts => q.ts >= p.ts + n
    BY <1>1, PointFields, ConstantsAre DEF LastFor
  <2>2. CASE p.ts = now + 1
    BY <1>1, <2>0, <2>1, <2>2
  <2>3. CASE p.ts <= now /\ n <= now - p.ts + 1
    <3>1. LastFor(p, n)
      BY <2>1, <2>3 DEF LastFor
    <3>2. failures >= n
      BY <1>1, <2>0, <2>3, <3>1 DEF PollInv, Coming
    <3>3. QED  BY <1>1, <3>2
  <2>4. CASE p.ts <= now /\ n = now + 1 - p.ts + 1
    <3>1. n - 1 \in Nat /\ n - 1 <= now - p.ts + 1
      BY <1>1, <2>1, <2>4
    <3>2. \A q \in Points : q.series = p.series /\ q.ts > p.ts => q.ts >= p.ts + (n - 1)
      BY <2>1, PointFields
    <3>3. LastFor(p, n - 1)
      BY <2>1, <3>1, <3>2 DEF LastFor
    <3>4. failures >= n - 1
      BY <1>1, <2>0, <2>4, <3>1, <3>3 DEF PollInv, Coming
    <3>5. n = now' - p.ts + 1
      <4>1. p.ts \in Nat /\ now \in Nat /\ now' = now + 1 /\ n = now + 1 - p.ts + 1
        BY <1>1, <2>1, <2>4
      <4>2. QED  BY <4>1
    <3>6. failures' >= n - 1
      BY <1>1, <3>4
    <3>7. QED  BY <2>0, <3>5, <3>6
  <2>5. QED  BY <1>1, <2>0, <2>1, <2>2, <2>3, <2>4
<1>4. FillInv'
  BY <1>1, FillKeeps
<1>5. QED  BY <1>2, <1>3, <1>4 DEF IInv

-----------------------------------------------------------------------------
(* The backfill. *)
LEMMA StartFillStep ==
  ASSUME IInv, StartFill
  PROVE  IInv'
<1>1. /\ FieldsOK /\ PollInv /\ UNCHANGED <<now, stored, poll, found, pending, failures>>
      /\ now \in Nat
      /\ fill' = [pc |-> "temperatures", end |-> now + 1, day |-> now + 1 - Days * Day, began |-> now]
  BY DEF IInv, StartFill, fwdVars, FieldsOK
<1>2. FieldsOK'
  BY <1>1, ConstantsAre DEF FieldsOK
<1>3. PollInv'
  BY <1>1, PollKeeps
<1>4. Swept(Series, fill.day)'
  <2>1. fill'.day = fill'.end - Days * Day /\ fill'.day \in Int
    BY <1>1, ConstantsAre
  <2>2. \A p \in Points : ~(p.ts >= fill'.day /\ p.ts < fill'.day)
    BY <2>1, PointFields
  <2>3. QED  BY <2>1, <2>2 DEF Swept, InWindow
<1>5. FillInv'
  BY <1>1, <1>4 DEF FillInv, BackfillComplete
<1>6. QED  BY <1>2, <1>3, <1>5 DEF IInv

(* A day that was read adds to what is swept.                              *)
LEMMA DaySwept ==
  ASSUME FieldsOK, fill.began <= now, NEW S, Swept(S, fill.day), now' = now, stored' = stored,
         fill'.began = fill.began, fill'.end = fill.end,
         \A p \in Between(S, fill.day, DayEnd) : Wanted(p) => p \in pending', pending \subseteq pending'
  PROVE  \A d : d = DayEnd => Swept(S, d)'
<1> SUFFICES ASSUME NEW p \in Points, p.series \in S, Wanted(p), Retained(p), InWindow(p), p.ts < DayEnd
             PROVE  p \in stored' \cup pending'
  BY DEF Swept, Retained, InWindow
<1>1. p.ts \in Nat /\ fill.day \in Int
  BY PointFields DEF FieldsOK
<1>2. CASE p.ts < fill.day
  BY <1>2 DEF Swept
<1>3. CASE p.ts >= fill.day
  BY <1>1, <1>3 DEF Between
<1>4. QED  BY <1>1, <1>2, <1>3

LEMMA FillTemperaturesStep ==
  ASSUME IInv, FillTemperatures
  PROVE  IInv'
<1>1. /\ FieldsOK /\ FillInv /\ PollInv /\ fill.pc = "temperatures"
      /\ UNCHANGED <<now, stored, poll, found, failures>>
      /\ pending' = pending \cup Between(Temperature, fill.day, DayEnd)
      /\ fill' = [fill EXCEPT !.pc = "pressures"]
  BY DEF IInv, FillTemperatures, fwdVars
<1>2. /\ fill'.pc = "pressures" /\ fill'.began = fill.began /\ fill'.end = fill.end /\ fill'.day = fill.day
      /\ fill' \in [pc : {"idle", "temperatures", "pressures", "flush", "done"}, end : Int, day : Int, began : Nat]
  BY <1>1 DEF FieldsOK
<1>3. FieldsOK'
  BY <1>1, <1>2 DEF FieldsOK
<1>4. PollInv'
  BY <1>1, PollKeeps
<1>5. DayEnd' = DayEnd
  BY <1>2 DEF DayEnd
<1>6. Swept(Temperature, fill.day) /\ Swept(Pressure, fill.day)
  BY <1>1 DEF FillInv, Swept, Series
<1>7. Swept(Temperature, DayEnd)'
  <2>1. \A d : d = DayEnd => Swept(Temperature, d)'
    BY <1>1, <1>2, <1>6, DaySwept DEF FillInv
  <2>2. QED  BY <1>5, <2>1
<1>8. Swept(Pressure, fill.day)'
  <2>1. Swept(Pressure, fill.day) => \A d : d = fill.day => Swept(Pressure, d)'
    BY <1>1, <1>2, SweptKeeps DEF FillInv
  <2>2. QED  BY <1>2, <1>6, <2>1
<1>9. FillInv'
  BY <1>1, <1>2, <1>7, <1>8 DEF FillInv, BackfillComplete
<1>10. QED  BY <1>3, <1>4, <1>9 DEF IInv

LEMMA FillPressuresStep ==
  ASSUME IInv, FillPressures
  PROVE  IInv'
<1>1. /\ FieldsOK /\ FillInv /\ PollInv /\ fill.pc = "pressures"
      /\ UNCHANGED <<now, stored, poll, found, failures>> /\ fill.began <= now
      /\ pending' = pending \cup On(Between(Pressure, fill.day, DayEnd))
      /\ fill' = IF MustFlush THEN [fill EXCEPT !.pc = "flush"] ELSE NextDay
      /\ fill.end = fill.began + 1 /\ fill.began \in Nat /\ fill.end \in Int /\ DayEnd \in Int
  BY DayEndIs DEF IInv, FillPressures, fwdVars, FieldsOK, FillInv
<1>2. \/ /\ fill'.pc = "flush" /\ fill'.began = fill.began /\ fill'.end = fill.end /\ fill'.day = fill.day
         /\ fill' \in [pc : {"idle", "temperatures", "pressures", "flush", "done"}, end : Int, day : Int, began : Nat]
      \/ /\ fill'.pc = "temperatures" /\ fill'.began = fill.began /\ fill'.end = fill.end /\ fill'.day = DayEnd
         /\ fill' \in [pc : {"idle", "temperatures", "pressures", "flush", "done"}, end : Int, day : Int, began : Nat]
  <2>1. CASE MustFlush
    BY <1>1, <2>1 DEF FieldsOK
  <2>2. CASE ~MustFlush
    <3>1. fill' = [fill EXCEPT !.pc = "temperatures", !.day = DayEnd]
      BY <1>1, <2>2 DEF MustFlush, NextDay
    <3>2. QED  BY <1>1, <3>1 DEF FieldsOK
  <2>3. QED  BY <2>1, <2>2
<1>3. FieldsOK'
  BY <1>1, <1>2 DEF FieldsOK
<1>4. PollInv'
  BY <1>1, PollKeeps
<1>5. \A d : d = DayEnd => Swept(Series, d)'
  <2>1. \A d : d = DayEnd => Swept(Temperature, d)'
    <3>1. Swept(Temperature, DayEnd)
      BY <1>1 DEF FillInv
    <3>2. \A S, to : Swept(S, to) => Swept(S, to)'
      BY <1>1, <1>2, SweptKeeps
    <3>3. QED  BY <3>1, <3>2
  <2>2. \A p \in Between(Pressure, fill.day, DayEnd) : Wanted(p) => p \in pending'
    BY <1>1, PointFields DEF Between, On
  <2>3. Swept(Pressure, fill.day)
    BY <1>1 DEF FillInv
  <2>4. \A d : d = DayEnd => Swept(Pressure, d)'
    BY <1>1, <1>2, <2>2, <2>3, DaySwept
  <2>5. QED  BY <2>1, <2>4 DEF Swept, Series
<1>6. fill'.pc = "flush" => DayEnd' = DayEnd
  BY <1>2 DEF DayEnd
<1>7. FillInv'
  <2>1. CASE fill'.pc = "flush"
    <3>1. Swept(Series, DayEnd)'
      BY <1>5, <1>6, <2>1
    <3>2. QED  BY <1>1, <1>2, <2>1, <3>1 DEF FillInv, BackfillComplete
  <2>2. CASE fill'.pc = "temperatures" /\ fill'.day = DayEnd
    <3>1. Swept(Series, fill.day)'
      BY <1>5, <2>2
    <3>2. QED  BY <1>1, <1>2, <2>2, <3>1 DEF FillInv, BackfillComplete
  <2>3. QED  BY <1>2, <2>1, <2>2
<1>8. QED  BY <1>3, <1>4, <1>7 DEF IInv

LEMMA FlushChunkStep ==
  ASSUME IInv, FlushChunk
  PROVE  IInv'
<1>1. /\ FieldsOK /\ FillInv /\ PollInv /\ fill.pc = "flush"
      /\ UNCHANGED <<now, poll, found, failures, fill>> /\ fill.began <= now
      /\ \E c \in Chunks : stored' = stored \cup c /\ pending' = pending \ c
  BY DEF IInv, FlushChunk, fwdVars, FillInv
<1>2. stored \subseteq stored' /\ stored \cup pending \subseteq stored' \cup pending'
  BY <1>1 DEF Chunks
<1>3. FieldsOK'
  BY <1>1 DEF FieldsOK
<1>4. PollInv'
  BY <1>1, <1>2, PollKeeps
<1>5. DayEnd' = DayEnd
  BY <1>1 DEF DayEnd
<1>6. Swept(Series, DayEnd)'
  <2>1. \A S, to : Swept(S, to) => Swept(S, to)'
    BY <1>1, <1>2, SweptKeeps
  <2>2. QED  BY <1>1, <1>5, <2>1 DEF FillInv
<1>7. FillInv'
  BY <1>1, <1>6 DEF FillInv, BackfillComplete
<1>8. QED  BY <1>3, <1>4, <1>7 DEF IInv

LEMMA FlushDoneStep ==
  ASSUME IInv, FlushDone
  PROVE  IInv'
<1>1. /\ FieldsOK /\ FillInv /\ PollInv /\ fill.pc = "flush" /\ pending = {}
      /\ UNCHANGED <<now, stored, poll, found, failures, pending>> /\ fill.began <= now
      /\ fill' = NextDay /\ Swept(Series, DayEnd)
      /\ fill.end = fill.began + 1 /\ fill.began \in Nat /\ fill.end \in Int /\ DayEnd \in Int
  BY DayEndIs DEF IInv, FlushDone, fwdVars, FieldsOK, FillInv
<1>2. \/ /\ LastDay /\ fill'.pc = "done" /\ fill'.began = fill.began /\ fill'.end = fill.end
         /\ fill' \in [pc : {"idle", "temperatures", "pressures", "flush", "done"}, end : Int, day : Int, began : Nat]
      \/ /\ fill'.pc = "temperatures" /\ fill'.began = fill.began /\ fill'.end = fill.end /\ fill'.day = DayEnd
         /\ fill' \in [pc : {"idle", "temperatures", "pressures", "flush", "done"}, end : Int, day : Int, began : Nat]
  <2>1. CASE LastDay
    BY <1>1, <2>1 DEF FieldsOK, NextDay
  <2>2. CASE ~LastDay
    <3>1. fill' = [fill EXCEPT !.pc = "temperatures", !.day = DayEnd]
      BY <1>1, <2>2 DEF NextDay
    <3>2. QED  BY <1>1, <3>1 DEF FieldsOK
  <2>3. QED  BY <2>1, <2>2
<1>3. FieldsOK'
  BY <1>1, <1>2 DEF FieldsOK
<1>4. PollInv'
  BY <1>1, PollKeeps
<1>5. \A d : d = DayEnd => Swept(Series, d)'
  <2>1. \A S, to : Swept(S, to) => Swept(S, to)'
    BY <1>1, <1>2, SweptKeeps
  <2>2. QED  BY <1>1, <2>1
<1>6. FillInv'
  <2>1. CASE LastDay /\ fill'.pc = "done"
    <3>1. DayEnd = fill.end
      BY <2>1 DEF LastDay
    <3>2. ASSUME NEW p \in Points, Wanted(p), Retained(p)', p.ts <= fill'.began, p.ts >= fill'.end - Days * Day
          PROVE  p \in stored'
      <4>1. p.ts \in Nat /\ p.series \in Series
        BY PointFields
      <4>2. Swept(Series, fill.end)'
        BY <1>2, <1>5, <3>1
      <4>3. InWindow(p)'
        BY <3>2 DEF InWindow
      <4>4. p.ts < fill.end
        BY <1>1, <1>2, <3>2, <4>1
      <4>5. fill'.end = fill.end
        BY <1>2
      <4>6. p \in stored' \cup pending'
        BY <3>2, <4>1, <4>2, <4>3, <4>4, <4>5 DEF Swept
      <4>7. QED  BY <1>1, <4>6
    <3>3. BackfillComplete'
      BY <3>2 DEF BackfillComplete
    <3>4. QED  BY <1>1, <1>2, <2>1, <3>3 DEF FillInv
  <2>2. CASE fill'.pc = "temperatures" /\ fill'.day = DayEnd
    <3>1. Swept(Series, fill.day)'
      BY <1>5, <2>2
    <3>2. QED  BY <1>1, <1>2, <2>2, <3>1 DEF FillInv, BackfillComplete
  <2>3. QED  BY <1>2, <2>1, <2>2
<1>7. QED  BY <1>3, <1>4, <1>6 DEF IInv

LEMMA FillEndsStep ==
  ASSUME IInv, FillEnds
  PROVE  IInv'
<1>1. /\ FieldsOK /\ PollInv /\ UNCHANGED <<now, poll, found>> /\ now \in Nat /\ failures \in Nat
      /\ failures' = failures + 1 /\ fill' = NoFill /\ stored \subseteq stored'
  BY DEF IInv, FillEnds, fwdVars, Fails, FieldsOK
<1>2. FieldsOK'
  BY <1>1 DEF FieldsOK, NoFill
<1>3. PollInv'
  BY <1>1, PollKeeps
<1>4. FillInv'
  BY <1>1 DEF FillInv, NoFill, BackfillComplete
<1>5. QED  BY <1>2, <1>3, <1>4 DEF IInv

-----------------------------------------------------------------------------
(* The inductive invariant.                                                *)
THEOREM FeedInvariant == FeedSpec => []IInv
<1>1. IInv /\ [FeedNext]_feedVars => IInv'
  <2> SUFFICES ASSUME IInv, [FeedNext]_feedVars  PROVE IInv'
    OBVIOUS
  <2>1. CASE FeedNext
    BY <2>1, CollectTemperaturesStep, CollectPressuresStep, PostFoundStep, TickStep, StartFillStep,
       FillTemperaturesStep, FillPressuresStep, FlushChunkStep, FlushDoneStep, FillEndsStep DEF FeedNext
  <2>2. CASE UNCHANGED feedVars
    <3>1. UNCHANGED <<now, stored, poll, found, fill, pending, failures>>
      BY <2>2 DEF feedVars, fwdVars, fillVars
    <3>2. FieldsOK /\ FillInv /\ PollInv  BY DEF IInv
    <3>3. FieldsOK'  BY <3>1, <3>2 DEF FieldsOK
    <3>4. PollInv'
      BY <3>1, <3>2, PollKeeps
    <3>5. FillInv'
      BY <3>1, <3>2, FillKeeps
    <3>6. QED  BY <3>3, <3>4, <3>5 DEF IInv
  <2>3. QED  BY <2>1, <2>2
<1>2. QED  BY <1>1, FeedInitInv, PTL DEF FeedSpec

(* backfill.py:3-8: BackfillComplete, a backfill that is done leaves no     *)
(* retained point of its window behind, whatever failed before it and       *)
(* whatever runs beside it.                                                *)
THEOREM BackfillLeavesNoGap == FeedSpec => []BackfillComplete
<1>1. IInv => BackfillComplete  BY DEF IInv, FillInv
<1>2. QED  BY <1>1, FeedInvariant, PTL

(* forwarder.py:11-14: LastPointArrives, a point that was the last of its   *)
(* series for more polls than have failed is stored.                       *)
THEOREM LastPointsArrive == FeedSpec => []LastPointArrives
<1>1. IInv => LastPointArrives
  <2> SUFFICES ASSUME IInv, NEW p \in Points, Wanted(p), failures <= Lookback, now > p.ts + failures,
                      \A q \in Points : q.series = p.series /\ q.ts > p.ts => q.ts > p.ts + failures,
                      p \notin stored
               PROVE  FALSE
    BY DEF LastPointArrives
  <2>1. p.ts \in Nat /\ failures \in Nat /\ now \in Nat /\ Lookback \in Nat
    BY PointFields, ConstantsAre DEF IInv, FieldsOK
  <2>2. LastFor(p, failures + 1)
    BY <2>1, PointFields DEF LastFor
  <2>3. /\ p.ts <= now /\ failures + 1 \in Nat /\ ~(failures >= failures + 1)
        /\ failures + 1 # now - p.ts + 1
    BY <2>1
  <2>4. QED  BY <2>2, <2>3 DEF IInv, PollInv
<1>2. QED  BY <1>1, FeedInvariant, PTL
=============================================================================
