------------------------------ MODULE Collector ------------------------------
(***************************************************************************)
(* The edge collector (collector/collector.py) over its on-disk queue      *)
(* (collector/buffer.py): an acquisition thread that journals batches, a   *)
(* sender thread that drains them oldest first over a network that loses,  *)
(* delays and repeats requests, and a process that is killed or stopped    *)
(* and started again at any point.                                         *)
(*                                                                         *)
(* A batch is the number of the reader.read() call that produced it, so    *)
(* "older" is "<".  A file of the buffer directory is a record of its      *)
(* index (the number in its name) and its batch.  A .tmp file is invisible *)
(* to glob("*.json"), so it is only the program counter "write".           *)
(***************************************************************************)
EXTENDS Integers, FiniteSets

CONSTANTS
  MaxBatches,   \* Settings.buffer_max_batches: 0 is an unbounded buffer
  MaxAttempts,  \* Settings.max_attempts: POSTs of a batch per sweep
  Rejects,      \* may the server answer 4xx (other than 408 and 429)?
  MaxReads,     \* bound: batches acquired
  MaxRestarts   \* bound: times the process is killed or told to stop

ASSUME CollectorAssumption ==
  /\ MaxBatches \in Nat
  /\ MaxAttempts \in Nat \ {0}
  /\ Rejects \in BOOLEAN
  /\ MaxReads \in Nat
  /\ MaxRestarts \in Nat

VARIABLES
  disk,       \* the *.json files of the buffer directory
  up, stop,   \* is the process running; has a signal set the stop event
  counter, dropped,            \* DiskBuffer._counter and DiskBuffer.dropped
  acq, victims, idx,           \* acquisition thread: pc, enqueue's `pending', `idx'
  sender, todo, cur, attempt,  \* sender thread: pc, rest of `pending', `path' and its batch
  copies,     \* batches with a request the client gave up on that may still arrive
  stored,     \* batches in the server's readings table
  refused,    \* batches the server has answered 4xx
  journaled, evicted,          \* history: batches ever on disk; batches dropped by enqueue
  reads, restarts              \* counts of batches acquired and of restarts

durable  == <<disk, journaled, evicted>>
buffer   == <<counter, dropped>>
acqVars  == <<acq, victims, idx>>
sndVars  == <<sender, todo, cur, attempt>>
netVars  == <<copies, stored, refused>>
procVars == <<up, stop, restarts>>
vars == <<durable, buffer, acqVars, sndVars, netVars, procVars, reads>>

Batch == Nat \ {0}
File  == [idx : Nat, batch : Batch]
NoFile == [idx |-> 0, batch |-> 1]   \* `path' before the first sweep

-----------------------------------------------------------------------------
(* buffer.py *)

IsListed(i, S) == i \in S                        \* faulty variant: not sorted
Pending == {f.idx : f \in disk}                 \* DiskBuffer.pending
Listed == {f.idx : f \in todo}
IsOldest(i, S) == i \in S /\ \A j \in S : i <= j \* head of the sorted list
Without(i) == {f \in disk : f.idx # i}           \* DiskBuffer.remove: a missing file is fine
ContentOf(i) == {f \in disk : f.idx = i}         \* DiskBuffer.load: empty is FileNotFoundError

CounterFromZero(c) == c = 0                      \* faulty variant: no scan at start

(* _init_counter: one past the highest index on disk, 0 on an empty directory. *)
IsInitCounter(c) ==
  /\ c \in {0} \cup {f.idx + 1 : f \in disk}
  /\ \A f \in disk : f.idx < c

(* The three parts of enqueue.  Its listing is taken once; the sender may  *)
(* remove files while it evicts from that listing.                         *)
AcqRead ==
  /\ up /\ ~stop /\ acq = "idle" /\ reads < MaxReads
  /\ reads' = reads + 1
  /\ victims' = IF MaxBatches > 0 THEN Pending ELSE {}
  /\ acq' = "enqueue"
  /\ UNCHANGED <<durable, buffer, idx, sndVars, netVars, procVars>>

FullTooLate == MaxBatches > 0 /\ Cardinality(victims) > MaxBatches \* faulty variant
Full == MaxBatches > 0 /\ Cardinality(victims) >= MaxBatches
NotCounted == UNCHANGED dropped                                    \* faulty variant
CountDrop == dropped' = dropped + 1

AcqEvict ==
  /\ up /\ acq = "enqueue" /\ Full
  /\ \E i \in victims :
       /\ IsOldest(i, victims)
       /\ victims' = victims \ {i}
       /\ disk' = Without(i)
       /\ evicted' = evicted \cup {f.batch : f \in ContentOf(i)}
  /\ CountDrop
  /\ UNCHANGED <<journaled, counter, acq, idx, sndVars, netVars, procVars, reads>>

AcqName ==
  /\ up /\ acq = "enqueue" /\ ~Full
  /\ idx' = counter
  /\ counter' = counter + 1
  /\ victims' = {}
  /\ acq' = "write"
  /\ UNCHANGED <<durable, dropped, sndVars, netVars, procVars, reads>>

AcqReplace ==
  /\ up /\ acq = "write"
  /\ disk' = Without(idx) \cup {[idx |-> idx, batch |-> reads]}
  /\ journaled' = journaled \cup {reads}
  /\ acq' = "idle"
  /\ UNCHANGED <<evicted, buffer, victims, idx, sndVars, netVars, procVars, reads>>

(* write_text or os.replace raises (a full disk): no handler, the thread    *)
(* ends, the batch is lost with it, and the rest of the process goes on.   *)
AcqDies ==
  /\ up /\ acq = "write"
  /\ acq' = "dead"
  /\ UNCHANGED <<durable, buffer, victims, idx, sndVars, netVars, procVars, reads>>

AcqExit ==
  /\ up /\ stop /\ acq = "idle"
  /\ acq' = "exited"
  /\ UNCHANGED <<durable, buffer, victims, idx, sndVars, netVars, procVars, reads>>

-----------------------------------------------------------------------------
(* sender_loop and post_batch *)

(* `while not stop.is_set()': list the directory; an empty one is polled.  *)
(* The listing has names only; the batches in todo are history.            *)
SndScan ==
  /\ up /\ ~stop /\ sender = "scan"
  /\ todo' = disk
  /\ sender' = IF disk = {} THEN "scan" ELSE "sweep"
  /\ UNCHANGED <<durable, buffer, acqVars, cur, attempt, netVars, procVars, reads>>

StayAt(f) == f \in todo /\ UNCHANGED todo         \* faulty variant
Advance(f) == todo' = todo \ {f}

(* `for path in pending': load has no handler, so a file that is gone by   *)
(* now raises and ends the thread.                                         *)
SndLoad ==
  /\ up /\ ~stop /\ sender = "sweep"
  /\ \E f \in todo :
       /\ IsOldest(f.idx, Listed)
       /\ Advance(f)
       /\ \/ \E g \in ContentOf(f.idx) : cur' = g /\ sender' = "post"
          \/ ContentOf(f.idx) = {} /\ cur' = f /\ sender' = "dead"
  /\ attempt' = 1
  /\ UNCHANGED <<durable, buffer, acqVars, netVars, procVars, reads>>

SndSweepDone ==
  /\ up /\ sender = "sweep" /\ todo = {}
  /\ sender' = "scan"
  /\ UNCHANGED <<durable, buffer, acqVars, todo, cur, attempt, netVars, procVars, reads>>

SndExit ==
  /\ up /\ stop /\ sender \in {"scan", "sweep"}
  /\ sender' = "exited"
  /\ todo' = {}
  /\ UNCHANGED <<durable, buffer, acqVars, cur, attempt, netVars, procVars, reads>>

\* Faulty variants: one attempt too many; a batch is given up after the last
\* attempt; the sweep goes on with the next file; the thread returns.
OneMoreAttempt == sender' = IF attempt <= MaxAttempts THEN "backoff" ELSE "scan"
GiveUpAfterLast == sender' = IF attempt < MaxAttempts THEN "backoff" ELSE "rejected"
SkipAfterLast == sender' = IF attempt < MaxAttempts THEN "backoff" ELSE "sweep"
ReturnAfterLast == sender' = IF attempt < MaxAttempts THEN "backoff" ELSE "exited"

(* The attempt failed: wait and try again, or return TRANSIENT after the last. *)
FailedAttempt ==
  sender' = IF attempt < MaxAttempts THEN "backoff" ELSE "scan"

(* status < 300: the batch is committed and the reply arrives. *)
PostOk ==
  /\ up /\ sender = "post"
  /\ stored' = stored \cup {cur.batch}
  /\ sender' = "acked"
  /\ UNCHANGED <<durable, buffer, acqVars, todo, cur, attempt, copies, refused, procVars, reads>>

(* 408, 429, 5xx, or no connection, with nothing stored.  (A 5xx after the *)
(* rows are committed is PostAmbiguous and then LateApply.)                *)
PostFailed ==
  /\ up /\ sender = "post"
  /\ FailedAttempt
  /\ UNCHANGED <<durable, buffer, acqVars, todo, cur, attempt, netVars, procVars, reads>>

(* Timeout, or the connection broke after the request was sent: the client *)
(* cannot tell whether the server stores this copy, or when.               *)
PostAmbiguous ==
  /\ up /\ sender = "post"
  /\ copies' = copies \cup {cur.batch}
  /\ FailedAttempt
  /\ UNCHANGED <<durable, buffer, acqVars, todo, cur, attempt, stored, refused, procVars, reads>>

PostRejected ==
  /\ up /\ sender = "post" /\ Rejects
  /\ refused' = refused \cup {cur.batch}
  /\ sender' = "rejected"
  /\ UNCHANGED <<durable, buffer, acqVars, todo, cur, attempt, copies, stored, procVars, reads>>

(* stop.wait(delay): the delay passes, or the stop event cuts it short.    *)
SndBackoff ==
  /\ up /\ sender = "backoff"
  /\ IF stop THEN sender' = "scan" /\ attempt' = attempt
             ELSE sender' = "post" /\ attempt' = attempt + 1
  /\ UNCHANGED <<durable, buffer, acqVars, todo, cur, netVars, procVars, reads>>

(* OK and PERMANENT both remove the file and go on with the sweep. *)
SndRemove ==
  /\ up /\ sender \in {"acked", "rejected"}
  /\ disk' = Without(cur.idx)
  /\ sender' = "sweep"
  /\ UNCHANGED <<journaled, evicted, buffer, acqVars, todo, cur, attempt, netVars, procVars, reads>>

-----------------------------------------------------------------------------
(* Requests still under way: the server commits one, or it is lost. *)
LateApply(b) ==
  /\ stored' = stored \cup {b}
  /\ copies' = copies \ {b}
  /\ UNCHANGED <<durable, buffer, acqVars, sndVars, refused, procVars, reads>>

CopyLost(b) ==
  /\ copies' = copies \ {b}
  /\ UNCHANGED <<durable, buffer, acqVars, sndVars, stored, refused, procVars, reads>>

(* main: a signal sets the stop event; the process ends when its threads   *)
(* have; it can also be killed at any moment.  Only the directory stays.   *)
Signal ==
  /\ up /\ ~stop /\ restarts < MaxRestarts
  /\ stop' = TRUE
  /\ restarts' = restarts + 1
  /\ UNCHANGED <<durable, buffer, acqVars, sndVars, netVars, up, reads>>

Halt ==
  /\ up' = FALSE /\ stop' = FALSE
  /\ counter' = 0 /\ dropped' = 0
  /\ acq' = "idle" /\ victims' = {} /\ idx' = 0
  /\ sender' = "scan" /\ todo' = {} /\ cur' = NoFile /\ attempt' = 1
  /\ UNCHANGED <<durable, netVars, reads>>

Exit ==
  /\ up /\ acq \in {"exited", "dead"} /\ sender \in {"exited", "dead"}
  /\ stop
  /\ Halt
  /\ UNCHANGED restarts

Crash ==
  /\ up /\ restarts < MaxRestarts
  /\ Halt
  /\ restarts' = restarts + 1

Boot ==
  /\ ~up
  /\ up' = TRUE
  /\ \E c \in {0} \cup {f.idx + 1 : f \in disk} : IsInitCounter(c) /\ counter' = c
  /\ UNCHANGED <<durable, dropped, acqVars, sndVars, netVars, stop, restarts, reads>>

-----------------------------------------------------------------------------
Init ==
  /\ disk = {} /\ journaled = {} /\ evicted = {}
  /\ up = TRUE /\ stop = FALSE
  /\ counter = 0 /\ dropped = 0
  /\ acq = "idle" /\ victims = {} /\ idx = 0
  /\ sender = "scan" /\ todo = {} /\ cur = NoFile /\ attempt = 1
  /\ copies = {} /\ stored = {} /\ refused = {}
  /\ reads = 0 /\ restarts = 0

Acquisition == AcqRead \/ AcqEvict \/ AcqName \/ AcqReplace \/ AcqDies \/ AcqExit
Post == PostOk \/ PostFailed \/ PostAmbiguous \/ PostRejected
Sender ==
  SndScan \/ SndLoad \/ SndSweepDone \/ SndExit \/ SndBackoff \/ SndRemove \/ Post
Network == \E b \in copies : LateApply(b) \/ CopyLost(b)
Process == Signal \/ Exit \/ Crash \/ Boot

Next == Acquisition \/ Sender \/ Network \/ Process

Spec == Init /\ [][Next]_vars

(* The threads run, every POST ends (HTTP_TIMEOUT_SECONDS), a supervisor   *)
(* starts the process again, and a server that is tried for ever answers.  *)
Fairness ==
  /\ WF_vars(Acquisition)
  /\ WF_vars(Sender)
  /\ SF_vars(PostOk)
  /\ WF_vars(Exit)
  /\ WF_vars(Boot)

FairSpec == Spec /\ Fairness

-----------------------------------------------------------------------------
Settled == stored \cup refused \cup evicted

TypeOK ==
  /\ disk \subseteq File /\ IsFiniteSet(disk)
  /\ journaled \subseteq Batch /\ evicted \subseteq Batch
  /\ up \in BOOLEAN /\ stop \in BOOLEAN
  /\ counter \in Nat /\ dropped \in Nat
  /\ acq \in {"idle", "enqueue", "write", "exited", "dead"}
  /\ victims \subseteq Nat /\ IsFiniteSet(victims) /\ idx \in Nat
  /\ sender \in {"scan", "sweep", "post", "backoff", "acked", "rejected", "exited", "dead"}
  /\ todo \subseteq File /\ cur \in File /\ attempt \in 1..MaxAttempts
  /\ sender = "backoff" => attempt < MaxAttempts
  /\ copies \subseteq Batch /\ stored \subseteq Batch /\ refused \subseteq Batch
  /\ acq \in {"enqueue", "write"} => reads > 0
  /\ reads \in 0..MaxReads /\ restarts \in 0..MaxRestarts

(* buffer.py:5-7, "no data loss across network drops or crashes": a batch  *)
(* that reached the disk is still there, or stored, or given up openly.    *)
NoSilentLoss == journaled \subseteq {f.batch : f \in disk} \cup Settled

(* buffer.py:8-9: index order of the files is chronological order, also    *)
(* after _init_counter has restarted the numbering; no index is used twice. *)
ChronologicalNames ==
  \A f, g \in disk : f.idx <= g.idx <=> f.batch <= g.batch

(* collector.py:14-16, "never skips a batch it could not deliver ...       *)
(* strictly in order": what the server holds has nothing missing below it  *)
(* but what was given up.                                                  *)
DeliveredInOrder ==
  \A b \in stored : \A a \in journaled : a < b => a \in Settled

(* collector.py:150, a load without a handler: only an eviction by enqueue *)
(* can take a file away from the sender's listing, so what ends the thread  *)
(* is that this very file was evicted (not a kill, a dead acquisition      *)
(* thread, a file it removed itself, or an index used again).               *)
SenderDiesOnlyByEviction == sender = "dead" => cur.batch \in evicted

(* Without a bound nothing is evicted, and the sender never dies.          *)
SenderSurvives == sender # "dead"

(* buffer.py:30-33: the bound on queued batches holds although enqueue     *)
(* evicts from a listing that the sender shortens behind it.               *)
CapacityRespected == MaxBatches > 0 => Cardinality(disk) <= MaxBatches

(* buffer.py:33-34, "drops are counted so the loss is visible": a file     *)
(* leaves the disk after the server's answer, or is counted in `dropped'.  *)
RemovedOnlyWhenAnswered ==
  [][\A f \in disk \ disk' :
       f.batch \in stored \cup refused \/ dropped' = dropped + 1]_vars

(* Detailed steps against the promise: the collector settles batches in    *)
(* the order it journaled them (collector.py:9-10, 14-16).                 *)
Promise == INSTANCE DeliveryQueue WITH
  accepted <- journaled,
  delivered <- stored,
  abandoned <- (refused \cup evicted) \ stored

ImplementsDeliveryQueue == Promise!Spec

(* Every journaled batch is in the end stored, refused or counted as       *)
(* dropped, whatever the network does, wherever the process is killed and  *)
(* although the acquisition thread may be gone, unless the sender has died *)
(* of an eviction (collector.py:150).                                      *)
EventuallySettled ==
  \A b \in 1..MaxReads : b \in journaled ~> b \in Settled \/ sender = "dead"

Waiting == disk # {} \/ acq \in {"enqueue", "write"}
Answered == sender \in {"acked", "rejected"}

(* buffer.py:31-33, "keeping the freshest data flowing once delivery       *)
(* recovers": a collector that goes on acquiring and has batches on disk,   *)
(* or is replacing evicted ones, gets an answer for one again and again;    *)
(* that old ones are evicted does not stand for it.                        *)
FreshDataKeepsFlowing == []<>(Waiting /\ acq # "dead" => Answered)
=============================================================================
