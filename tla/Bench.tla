-------------------------------- MODULE Bench --------------------------------
(***************************************************************************)
(* The load harness `bench producers' (bench/main.go, bench/commands.go):  *)
(* producers run at once, each with a pool of workers that claim the next  *)
(* request, fill a batch from one global sequence, post it and count the   *)
(* outcome; the producers' counts are merged, and the rows that landed are *)
(* told by the total of GET /metrics before and after.  `bench ingest' is  *)
(* the case of one producer.                                               *)
(*                                                                         *)
(* Scheduling and latencies are left out, and the samples with them: every *)
(* one is counted as ok or as an error.  A row is its source, which is the *)
(* producer, and its timestamp, which is the number drawn from the         *)
(* sequence.                                                               *)
(***************************************************************************)
EXTENDS Integers, FiniteSets

CONSTANTS
  Producer,       \* the entries of the tokens file
  Worker,         \* a producer's workers
  Flags,          \* the command lines considered
  MaxOtherRows,   \* bound: rows of other sources that arrive meanwhile
  MaxCountFails   \* bound: counts that fail

(* The first n entries of the file, the workers of -concurrency-per (one   *)
(* at least, or nothing is sent), totalReqPer and -batch.                  *)
Flag == [producers : SUBSET Producer, workers : (SUBSET Worker) \ {{}},
         requests : Nat \ {0}, batch : Nat \ {0}]

ASSUME BenchAssumption ==
  /\ IsFiniteSet(Producer) /\ IsFiniteSet(Worker) /\ Flags \subseteq Flag
  /\ MaxOtherRows \in Nat /\ MaxCountFails \in Nat

VARIABLES
  flags,
  main,            \* cmdProducers: "before", "load", "after" or "done"
  before, after,   \* the two counts
  next, seq,       \* runLoad's next of each producer; the global sequence
  worker,          \* each worker: pc, claimed request, numbers drawn
  ok, errs,        \* latencyStats of each producer
  merging, mergedOk,    \* each producer's goroutine at its merge; merged.ok
  landed,          \* rows of the producers in the readings table
  others,          \* how many rows of other sources it holds
  late,            \* rows of requests that timed out and may still land
  sent,            \* history: producer, request and number of each reading sent
  countFails

counts == <<before, after, countFails>>
stats  == <<ok, errs>>
merge  == <<merging, mergedOk>>
rows   == <<landed, others, late>>
benchVars == <<flags, main, counts, next, seq, worker, stats, merge, rows, sent>>

Loads == flags.producers \X flags.workers
Free == [pc |-> "claim", request |-> 0, drawn |-> {}]

-----------------------------------------------------------------------------
(* dbTotalRows: -1 without an answer, 0 when the server could not count.   *)
Unanswered == -1
Uncounted == 0
Total == Cardinality(landed) + others

CountRows(n) ==
  \/ n = Total /\ UNCHANGED countFails
  \/ n \in {Unanswered, Uncounted} /\ countFails < MaxCountFails /\ countFails' = countFails + 1

CountBefore ==
  /\ main = "before" /\ main' = "load"
  /\ CountRows(before')
  /\ UNCHANGED <<flags, after, next, seq, worker, stats, merge, rows, sent>>

(* After wg.Wait and a second in which late rows may or may not land.      *)
CountAfter ==
  /\ main = "load" /\ \A p \in flags.producers : merging[p].pc = "done"
  /\ main' = "done"
  /\ CountRows(after')
  /\ UNCHANGED <<flags, before, next, seq, worker, stats, merge, rows, sent>>

-----------------------------------------------------------------------------
(* A worker of runLoad. *)

\* Faulty variant: the bound is checked with > instead of >=.
ClaimOneMore(l) ==
  LET p == l[1] IN
  /\ main = "load" /\ worker[l].pc = "claim"
  /\ next' = [next EXCEPT ![p] = @ + 1]
  /\ worker' = [worker EXCEPT ![l] =
       IF next[p] > flags.requests THEN [Free EXCEPT !.pc = "exited"]
       ELSE [pc |-> "draw", request |-> next[p], drawn |-> {}]]
  /\ UNCHANGED <<flags, main, counts, seq, stats, merge, rows, sent>>

(* atomic.AddInt64(&next, 1) - 1 *)
Claim(l) ==
  LET p == l[1] IN
  /\ main = "load" /\ worker[l].pc = "claim"
  /\ next' = [next EXCEPT ![p] = @ + 1]
  /\ worker' = [worker EXCEPT ![l] =
       IF next[p] >= flags.requests THEN [Free EXCEPT !.pc = "exited"]
       ELSE [pc |-> "draw", request |-> next[p], drawn |-> {}]]
  /\ UNCHANGED <<flags, main, counts, seq, stats, merge, rows, sent>>

NumberInBatch(l) == Cardinality(worker[l].drawn) + 1   \* faulty variant: not global
NumberDrawn(l) == seq + 1

(* atomic.AddInt64(&seq, 1), for each reading of the batch.                *)
Draw(l) ==
  /\ worker[l].pc = "draw" /\ Cardinality(worker[l].drawn) < flags.batch
  /\ seq' = seq + 1
  /\ worker' = [worker EXCEPT ![l].drawn = @ \cup {NumberDrawn(l)}]
  /\ UNCHANGED <<flags, main, counts, next, stats, merge, rows, sent>>

RowsOf(l) == {[source |-> l[1], ts |-> n] : n \in worker[l].drawn}

(* client.Do and stats.add, whose counters nothing reads before wg.Wait:   *)
(* a response below 300; no response or an error, and nothing stored; or   *)
(* a timeout, after which the server may still store the batch.            *)
Send(l) ==
  LET p == l[1] IN
  /\ worker[l].pc = "draw" /\ Cardinality(worker[l].drawn) = flags.batch
  /\ sent' = sent \cup {[source |-> p, request |-> worker[l].request, ts |-> n] :
                          n \in worker[l].drawn}
  /\ worker' = [worker EXCEPT ![l] = Free]
  /\ \/ /\ landed' = landed \cup RowsOf(l) /\ UNCHANGED late
        /\ ok' = [ok EXCEPT ![p] = @ + 1] /\ UNCHANGED errs
     \/ /\ late' \in {late, late \cup {RowsOf(l)}} /\ UNCHANGED landed
        /\ errs' = [errs EXCEPT ![p] = @ + 1] /\ UNCHANGED ok
  /\ UNCHANGED <<flags, main, counts, next, seq, merge, others>>

-----------------------------------------------------------------------------
(* The goroutine of a producer, when its runLoad returns.  `merged.ok +=   *)
(* st.ok' stands outside the lock: it reads, and later writes (a data      *)
(* race, of words that are written whole).  merged.errs goes the same way. *)
MergeRead(p) ==
  /\ merging[p].pc = "load" /\ main = "load"
  /\ \A w \in flags.workers : worker[<<p, w>>].pc = "exited"
  /\ merging' = [merging EXCEPT ![p] = [pc |-> "write", read |-> mergedOk]]
  /\ UNCHANGED <<flags, main, counts, next, seq, worker, stats, mergedOk, rows, sent>>

MergeWrite(p) ==
  /\ merging[p].pc = "write"
  /\ mergedOk' = merging[p].read + ok[p]
  /\ merging' = [merging EXCEPT ![p].pc = "done"]
  /\ UNCHANGED <<flags, main, counts, next, seq, worker, stats, rows, sent>>

-----------------------------------------------------------------------------
(* The server meanwhile. *)
OtherRow ==
  /\ others < MaxOtherRows /\ others' = others + 1
  /\ UNCHANGED <<flags, main, counts, next, seq, worker, stats, merge, landed, late, sent>>

LateLands ==
  /\ \E b \in late : late' = late \ {b} /\ landed' = landed \cup b
  /\ UNCHANGED <<flags, main, counts, next, seq, worker, stats, merge, others, sent>>

BenchInit ==
  /\ flags \in Flags
  /\ main = "before" /\ before = 0 /\ after = 0 /\ countFails = 0
  /\ next = [p \in Producer |-> 0] /\ seq = 0
  /\ worker = [l \in Producer \X Worker |-> Free]
  /\ ok = [p \in Producer |-> 0] /\ errs = ok
  /\ merging = [p \in Producer |-> [pc |-> "load", read |-> 0]] /\ mergedOk = 0
  /\ landed = {} /\ others = 0 /\ late = {} /\ sent = {}

BenchNext ==
  \/ CountBefore \/ CountAfter \/ OtherRow \/ LateLands
  \/ \E l \in Loads : Claim(l) \/ Draw(l) \/ Send(l)
  \/ \E p \in flags.producers : MergeRead(p) \/ MergeWrite(p)

BenchSpec == BenchInit /\ [][BenchNext]_benchVars

-----------------------------------------------------------------------------
(* main.go:112-140 and 146-148: however the workers overlap, every request *)
(* is made once, no two of their readings share a timestamp, and at the    *)
(* end each has been counted.                                              *)
SentOnce ==
  /\ \A x, y \in sent : x.source = y.source /\ x.ts = y.ts => x = y
  /\ \A p \in flags.producers : merging[p].pc # "load" =>
       /\ ok[p] + errs[p] = flags.requests
       /\ {x.request : x \in {x \in sent : x.source = p}} = 0 .. flags.requests - 1

(* main.go:157-160 and commands.go:126-140: the report never claims more   *)
(* than landed.  When both counts succeed, db_rows_delta covers the rows   *)
(* of the requests reported ok; rows of other sources and of requests that *)
(* timed out come on top, and the race of the merge only loses counts.     *)
DeltaCoversOk ==
  main = "done" /\ countFails = 0 => mergedOk * flags.batch <= after - before
=============================================================================
