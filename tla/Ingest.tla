------------------------------- MODULE Ingest -------------------------------
(***************************************************************************)
(* POST /ingest end to end: sources send batches and may time out, send    *)
(* again or start over; each request has a handler goroutine               *)
(* (api/ingest.go) that inserts the batch in chunks of its own statement   *)
(* each (store.go InsertReadings), counts the new rows (metricsx.go) and   *)
(* hands all readings to the alerter.  GET /metrics (api/ops.go) reads the *)
(* counters and the table at different times.                              *)
(*                                                                         *)
(* Alert rules do not change here, so a reading is simply high or not, and *)
(* an alarm is on or off; module Alerter has the rest of the engine.       *)
(***************************************************************************)
EXTENDS Integers, Sequences, FiniteSets

CONSTANTS
  Client,     \* the programs that post: collector, forwarder, LS350 logger
  Source,     \* the names of sources
  Token,
  Tokens,     \* INGEST_TOKENS: pairs of a source and a token, in order
  Metric,
  Worker,     \* handler goroutines
  Backlog,    \* what each client sends, in order
  Retries,    \* does the client send a batch again until it is answered?
  ChunkRows,  \* maxRowsPerStmt
  MaxFailures, MaxTimeouts, MaxRestarts   \* bounds

NoWorker == "none"
NoSource == ""    \* a reading whose body names no source
Reading == [source : Source, metric : Metric, ts : Nat \ {0}, high : BOOLEAN]
Sample  == [source : Source \cup {NoSource}, metric : Metric, ts : Nat \ {0}, high : BOOLEAN]

(* Of what validateReading checks, the source stands for all: the rest is   *)
(* refused alike.  An empty batch is answered 200 and changes nothing; it   *)
(* is left out.                                                             *)
Batch   == [token : Token, samples : Seq(Sample)]
KeyOf(r) == <<r.source, r.metric, r.ts>>
RowsOf(s) == {s[i] : i \in DOMAIN s}

ASSUME IngestAssumption ==
  /\ Tokens \in Seq([source : Source, token : Token])
  /\ Backlog \in [Client -> Seq(Batch)]
  /\ \A c \in Client : \A i \in DOMAIN Backlog[c] : Backlog[c][i].samples # <<>>
  /\ Retries \in [Client -> BOOLEAN]
  /\ ChunkRows \in Nat \ {0}
  /\ IsFiniteSet(Worker) /\ NoWorker \notin Worker
  /\ {MaxFailures, MaxTimeouts, MaxRestarts} \subseteq Nat

-----------------------------------------------------------------------------
(* Tokens.  A source, or nothing, is a set with at most one element.       *)

PairsOf(t) == {i \in DOMAIN Tokens : Tokens[i].token = t}

\* Faulty variant: what the search met last is returned, matched or not.
LastSource(t) == {Tokens[Len(Tokens)].source}

(* parseIngestTokens and SourceForToken: of two pairs with the same token  *)
(* the later one holds.                                                    *)
SourceForToken(t) ==
  {Tokens[i].source : i \in {i \in PairsOf(t) : \A j \in PairsOf(t) : j <= i}}

(* validateReading: a source in the body must be the token's.              *)
Accepts(t, samples) ==
  \A i \in DOMAIN samples : samples[i].source \in SourceForToken(t) \cup {NoSource}

(* handleIngest: the readings of a batch, with the source of its token.    *)
ReadingsOf(b) ==
  LET batch == Backlog[b[1]][b[2]]
      source == CHOOSE x \in SourceForToken(batch.token) : TRUE
  IN [i \in DOMAIN batch.samples |-> [batch.samples[i] EXCEPT !.source = source]]

Authorized(c) == {i \in DOMAIN Backlog[c] : SourceForToken(Backlog[c][i].token) # {}}

(* A source sends the value of (metric, ts) it has recorded, always the     *)
(* same.                                                                    *)
ASSUME RecordedOnce ==
  \A c, d \in Client : \A i \in Authorized(c), j \in Authorized(d) :
    \A r \in RowsOf(ReadingsOf(<<c, i>>)), q \in RowsOf(ReadingsOf(<<d, j>>)) :
      KeyOf(r) = KeyOf(q) => r = q

VARIABLES
  table,               \* the readings table
  rows,                \* Tracker.perSource's rows; Tracker.total is their sum
  alarm, events,       \* Alerter.state; history: transitions of each metric
  req,                 \* each handler: pc, whose batch, next reading, rows inserted
  pos, wait,           \* each client: batch to send, handler it waits for
  acked, refused,      \* history: batches answered 200, and 400 or 401
  checked,             \* history: readings handed to the alerter
  base, uncounted,     \* history: rows older than the server; rows of failed requests
  report,              \* the answer of GET /metrics
  bounds

tracker == <<rows, uncounted>>
alerter == <<alarm, events, checked>>
clients == <<pos, wait, acked, refused>>
vars == <<table, tracker, alerter, req, clients, base, report, bounds>>

Idle == [pc |-> "idle", batch |-> <<>>, at |-> 1, inserted |-> 0]
Zero == [s \in Source |-> 0]
NoReport == [pc |-> "idle", rows |-> Zero]

SumOver(f) == Cardinality(UNION {{x} \X (1..f[x]) : x \in DOMAIN f})
Spend(b) == bounds' = [bounds EXCEPT ![b] = @ + 1]
BatchOf(w) == Backlog[req[w].batch[1]][req[w].batch[2]]
Readings(w) == ReadingsOf(req[w].batch)
SourceOf(w) == CHOOSE x \in SourceForToken(BatchOf(w).token) : TRUE

-----------------------------------------------------------------------------
(* The clients.  One that does not retry (the forwarder, the LS350 logger) *)
(* goes on with its next batch whatever the answer.                        *)
Send(c, w) ==
  /\ wait[c] = NoWorker /\ pos[c] \in DOMAIN Backlog[c]
  /\ req[w].pc = "idle"
  /\ req' = [req EXCEPT ![w] = [Idle EXCEPT !.pc = "validate", !.batch = <<c, pos[c]>>]]
  /\ wait' = [wait EXCEPT ![c] = w]
  /\ UNCHANGED <<table, tracker, alerter, pos, acked, refused, base, report, bounds>>

\* Faulty variants: every failure is permanent; the client waits for ever.
NoAnswerDrops(c) ==
  /\ pos' = [pos EXCEPT ![c] = @ + 1]
  /\ wait' = [wait EXCEPT ![c] = NoWorker]
NoAnswerWaits(c) == pos' = [pos EXCEPT ![c] = @ + 1] /\ UNCHANGED wait

NoAnswer(c) ==
  /\ pos' = [pos EXCEPT ![c] = IF Retries[c] THEN @ ELSE @ + 1]
  /\ wait' = [wait EXCEPT ![c] = NoWorker]

(* The client has waited long enough; the handler knows nothing of it.     *)
Timeout(c) ==
  /\ wait[c] # NoWorker /\ bounds.timeouts < MaxTimeouts
  /\ NoAnswer(c)
  /\ Spend("timeouts")
  /\ UNCHANGED <<table, tracker, alerter, req, acked, refused, base, report>>

(* The handler ends, and its answer reaches the client if that still waits. *)
Reply(w, status) ==
  LET c == req[w].batch[1] IN
  /\ req' = [req EXCEPT ![w] = Idle]
  /\ IF wait[c] # w THEN UNCHANGED clients
     ELSE CASE status = 200 -> /\ acked' = acked \cup {req[w].batch}
                               /\ pos' = [pos EXCEPT ![c] = @ + 1]
                               /\ wait' = [wait EXCEPT ![c] = NoWorker]
                               /\ UNCHANGED refused
            [] status \in {400, 401} ->
                               /\ refused' = refused \cup {req[w].batch}
                               /\ pos' = [pos EXCEPT ![c] = @ + 1]
                               /\ wait' = [wait EXCEPT ![c] = NoWorker]
                               /\ UNCHANGED acked
            [] status = 500 -> NoAnswer(c) /\ UNCHANGED <<acked, refused>>

-----------------------------------------------------------------------------
(* handleIngest *)

Authenticated(w) == SourceForToken(BatchOf(w).token) # {}   \* requireIngestToken
Valid(w) == Accepts(BatchOf(w).token, BatchOf(w).samples)

(* Everything is validated before anything is inserted. *)
Validate(w) ==
  /\ req[w].pc = "validate"
  /\ \/ ~Authenticated(w) /\ Reply(w, 401)
     \/ Authenticated(w) /\ ~Valid(w) /\ Reply(w, 400)
     \/ /\ Authenticated(w) /\ Valid(w)
        /\ req' = [req EXCEPT ![w].pc = "insert"]
        /\ UNCHANGED clients
  /\ UNCHANGED <<table, tracker, alerter, base, report, bounds>>

(* The rows of the next chunk that ON CONFLICT DO NOTHING does not skip.   *)
ChunkEnd(w) ==
  LET n == Len(BatchOf(w).samples)
      end == req[w].at + ChunkRows - 1
  IN IF end > n THEN n ELSE end
Chunk(w) == {Readings(w)[i] : i \in req[w].at .. ChunkEnd(w)}
NewRows(w) == {r \in Chunk(w) : \A q \in table : KeyOf(q) # KeyOf(r)}

ReceivedRows(w) == Cardinality(Chunk(w))     \* faulty variant: duplicates count
RowsAffected(w) == Cardinality(NewRows(w))

InsertChunk(w) ==
  /\ req[w].pc = "insert" /\ req[w].at <= Len(BatchOf(w).samples)
  /\ table' = table \cup NewRows(w)
  /\ req' = [req EXCEPT ![w].at = ChunkEnd(w) + 1,
                        ![w].inserted = @ + RowsAffected(w)]
  /\ UNCHANGED <<tracker, alerter, clients, base, report, bounds>>

BadRequest == 400                            \* faulty variant
InternalServerError == 500

(* The statement fails, before or after it committed; the chunks before it *)
(* stay, and their rows are not counted.                                   *)
InsertFails(w) ==
  /\ req[w].pc = "insert" /\ req[w].at <= Len(BatchOf(w).samples)
  /\ bounds.failures < MaxFailures /\ Spend("failures")
  /\ \E new \in {{}, NewRows(w)} :
       /\ table' = table \cup new
       /\ uncounted' = [uncounted EXCEPT ![SourceOf(w)] = @ + req[w].inserted + Cardinality(new)]
  /\ Reply(w, InternalServerError)
  /\ UNCHANGED <<rows, alerter, base, report>>

FirstToCheckIfNew(w) ==                      \* faulty variant: duplicates skip the alerter
  IF req[w].inserted > 0 THEN 1 ELSE Len(BatchOf(w).samples) + 1
FirstToCheck(w) == 1

RecordIngest(w) ==
  /\ req[w].pc = "insert" /\ req[w].at > Len(BatchOf(w).samples)
  /\ rows' = [rows EXCEPT ![SourceOf(w)] = @ + req[w].inserted]
  /\ req' = [req EXCEPT ![w].pc = "check", ![w].at = FirstToCheck(w), ![w].inserted = 0]
  /\ UNCHANGED <<table, uncounted, alerter, clients, base, report, bounds>>

(* Alerter.Check, one reading at a time, duplicates included.              *)
CheckReading(w) ==
  /\ req[w].pc = "check" /\ req[w].at <= Len(BatchOf(w).samples)
  /\ LET r == Readings(w)[req[w].at] IN
       /\ alarm' = [alarm EXCEPT ![r.metric] = r.high]
       /\ events' = [events EXCEPT ![r.metric] = IF alarm[r.metric] = r.high THEN @ ELSE @ + 1]
       /\ checked' = checked \cup {r}
  /\ req' = [req EXCEPT ![w].at = @ + 1]
  /\ UNCHANGED <<table, tracker, clients, base, report, bounds>>

Respond(w) ==
  /\ req[w].pc = "check" /\ req[w].at > Len(BatchOf(w).samples)
  /\ Reply(w, 200)
  /\ UNCHANGED <<table, tracker, alerter, base, report, bounds>>

-----------------------------------------------------------------------------
(* handleMetrics: the counters first, the table later, in two queries that *)
(* show it as it then is (Total, LastSeen); the second ends in the answer. *)
Snapshot ==
  /\ report.pc = "idle"
  /\ report' = [pc |-> "count", rows |-> rows]
  /\ UNCHANGED <<table, tracker, alerter, req, clients, base, bounds>>

Total == Cardinality(table)
LastSeen(s) == {r.ts : r \in {r \in table : r.source = s /\
                                 \A q \in table : q.source = s => q.ts <= r.ts}}

TotalRows ==
  /\ report.pc = "count"
  /\ report' = [report EXCEPT !.pc = "last"]
  /\ UNCHANGED <<table, tracker, alerter, req, clients, base, bounds>>

SourceLastSeen ==
  /\ report.pc = "last"
  /\ report' = NoReport
  /\ UNCHANGED <<table, tracker, alerter, req, clients, base, bounds>>

(* A query that fails leaves its fields out of an answer of status 200.    *)
MetricsQueryFails ==
  /\ report.pc \in {"count", "last"}
  /\ bounds.failures < MaxFailures /\ Spend("failures")
  /\ report' = NoReport
  /\ UNCHANGED <<table, tracker, alerter, req, clients, base>>

-----------------------------------------------------------------------------
(* The server is killed and starts again with nothing but the table.       *)
Restart ==
  /\ bounds.restarts < MaxRestarts /\ Spend("restarts")
  /\ rows' = Zero /\ uncounted' = Zero /\ base' = table
  /\ alarm' = [m \in Metric |-> FALSE] /\ events' = [m \in Metric |-> 0]
  /\ req' = [w \in Worker |-> Idle]
  /\ pos' = [c \in Client |->
               IF wait[c] = NoWorker \/ Retries[c] THEN pos[c] ELSE pos[c] + 1]
  /\ wait' = [c \in Client |-> NoWorker]
  /\ report' = NoReport
  /\ UNCHANGED <<table, checked, acked, refused>>

Init ==
  /\ table = {} /\ base = {}
  /\ rows = Zero /\ uncounted = Zero
  /\ alarm = [m \in Metric |-> FALSE] /\ events = [m \in Metric |-> 0]
  /\ checked = {}
  /\ req = [w \in Worker |-> Idle]
  /\ pos = [c \in Client |-> 1] /\ wait = [c \in Client |-> NoWorker]
  /\ acked = {} /\ refused = {}
  /\ report = NoReport
  /\ bounds = [failures |-> 0, timeouts |-> 0, restarts |-> 0]

Handle(w) ==
  \/ Validate(w) \/ InsertChunk(w) \/ InsertFails(w) \/ RecordIngest(w)
  \/ CheckReading(w) \/ Respond(w)

Next ==
  \/ \E c \in Client : (\E w \in Worker : Send(c, w)) \/ Timeout(c)
  \/ \E w \in Worker : Handle(w)
  \/ Snapshot \/ TotalRows \/ SourceLastSeen \/ MetricsQueryFails
  \/ Restart

Spec == Init /\ [][Next]_vars

(* Some handler goes on while one can, and some client that has a batch    *)
(* sends it.  With finitely many requests that is as good as each.          *)
Fairness == WF_vars(\E w \in Worker : Handle(w)) /\ WF_vars(\E c \in Client, w \in Worker : Send(c, w))

FairSpec == Spec /\ Fairness

-----------------------------------------------------------------------------
TypeOK ==
  /\ table \subseteq Reading /\ base \subseteq table /\ checked \subseteq table
  /\ {rows, uncounted, report.rows} \subseteq [Source -> Nat]
  /\ alarm \in [Metric -> BOOLEAN] /\ events \in [Metric -> Nat]
  /\ \A w \in Worker :
       /\ req[w].pc \in {"idle", "validate", "insert", "check"}
       /\ req[w].pc # "idle" => req[w].at \in 1 .. Len(BatchOf(w).samples) + 1
       /\ req[w].inserted \in 0 .. Cardinality(table)
  /\ \A c \in Client :
       /\ pos[c] \in 1 .. Len(Backlog[c]) + 1
       /\ wait[c] # NoWorker => req[wait[c]].batch = <<c, pos[c]>>
  /\ report.pc \in {"idle", "count", "last"}
  /\ bounds.failures \in 0..MaxFailures /\ bounds.timeouts \in 0..MaxTimeouts
  /\ bounds.restarts \in 0..MaxRestarts

Handled(b) == RowsOf(ReadingsOf(b)) \subseteq table \cap checked

(* ingest.go:78-90: 200 means that every reading of the batch is in the    *)
(* table and went through the alerter, also when an earlier request for    *)
(* the same batch failed half way and this one found only duplicates.  So  *)
(* a client that retries (collector.py:150-166) is past a batch that       *)
(* passes validation only when all of it was handled, whatever timed out,  *)
(* failed or was killed in between.                                        *)
AckedIsHandled ==
  /\ \A b \in acked : Handled(b)
  /\ \A c \in Client : Retries[c] =>
       \A i \in Authorized(c) :
         i < pos[c] /\ Accepts(Backlog[c][i].token, Backlog[c][i].samples) => Handled(<<c, i>>)

Times(samples) == {<<x.metric, x.ts>> : x \in RowsOf(samples)}

(* ingest.go:64-76, middleware.go:19-31: a batch refused for its token or  *)
(* any of its readings leaves no reading behind, also when its answer is   *)
(* late or lost: each row is one of a batch that no answer ever refused.   *)
RefusedLeavesNothing ==
  \A r \in table : \E c \in Client : \E i \in Authorized(c) :
    <<c, i>> \notin refused /\ r \in RowsOf(ReadingsOf(<<c, i>>))

(* ingest.go:34-36, "a token bound to ... can only ever write that source": *)
(* whatever sources the bodies name, each row was sent with a token that    *)
(* the configuration gives to the row's source.                             *)
OwnSourceOnly ==
  \A r \in table : \E c \in Client : \E i \in DOMAIN Backlog[c], p \in DOMAIN Tokens :
    /\ Tokens[p] = [source |-> r.source, token |-> Backlog[c][i].token]
    /\ <<r.metric, r.ts>> \in Times(Backlog[c][i].samples)

InFlight(s) ==
  SumOver([w \in {w \in Worker : req[w].pc # "idle" /\ SourceForToken(BatchOf(w).token) = {s}} |->
             req[w].inserted])

(* store.go:68-72 and metricsx.go:39-49: over overlapping and repeated     *)
(* requests each row of this process is counted once, for its own source,  *)
(* or belongs to a request that failed.                                    *)
CountedOnce ==
  \A s \in Source :
    rows[s] + InFlight(s) + uncounted[s] = Cardinality({r \in table \ base : r.source = s})

(* ops.go:39-65: an answer of GET /metrics whose queries succeed never      *)
(* shows more rows ingested than the table holds, and a source with rows    *)
(* has a last time, though its parts are read at three moments.             *)
MetricsConsistent ==
  /\ report.pc = "count" => SumOver(report.rows) <= Total
  /\ report.pc = "last" => \A s \in Source : report.rows[s] > 0 => LastSeen(s) # {}

(* What clients that retry send with a token that is known. *)
Retried ==
  UNION {UNION {RowsOf(ReadingsOf(<<c, i>>)) : i \in Authorized(c)} :
           c \in {c \in Client : Retries[c]}}

(* ingest.go:85-88: readings stored by a request that failed afterwards    *)
(* still reach the alerter, as a client that retries sends them again.     *)
StoredIsChecked == []<>(table \cap Retried \subseteq checked)

(* How often the stored series of a metric changes between high and not.   *)
Crossings(m) ==
  LET stored == {r \in table : r.metric = m}
      Before(r) == {q \in stored : q.ts < r.ts}
      WasHigh(r) == \E q \in Before(r) : q.high /\ \A p \in Before(r) : p.ts <= q.ts
  IN Cardinality({r \in stored : r.high # WasHigh(r)})

(* alert.go:2-4, one email when a metric crosses out of its range and one  *)
(* when it returns, and forwarder.py:11-14, posting an unchanged point     *)
(* again is harmless: no more events than crossings in the data.           *)
OneEventPerCrossing == \A m \in Metric : events[m] <= Crossings(m)
=============================================================================
