--------------------------- MODULE CollectorProofs ---------------------------
(***************************************************************************)
(* Theorems about Collector for every buffer bound, number of attempts,    *)
(* batches and restarts.                                                   *)
(***************************************************************************)
EXTENDS Collector, FiniteSetTheorems, TLAPS

Sending == sender \in {"post", "backoff", "acked", "rejected"}
Acquiring == acq \in {"enqueue", "write"}

(* A process that is down holds nothing in memory. *)
DownInv == ~up => acq = "idle" /\ sender = "scan"

(* Every file holds a journaled batch, below the next index, and the       *)
(* index order of files is the order of their batches.                     *)
FilesInv ==
  /\ \A f \in disk : f.batch \in journaled
  /\ up => \A f \in disk : f.idx < counter
  /\ acq = "write" => idx < counter /\ \A f \in disk : f.idx < idx
  /\ ChronologicalNames

(* The batch in the acquisition thread's hands is newer than all on disk,  *)
(* and enqueue's listing has no gap below any of its entries.              *)
AcqInv ==
  /\ Acquiring => reads > 0
  /\ \A b \in journaled : b <= reads /\ (Acquiring => b < reads)
  /\ acq = "enqueue" => \A f \in disk, i \in victims : f.idx < i => f.idx \in victims

(* Neither has the sender's listing, but for the file it is sending; that  *)
(* file is the oldest on disk, or is gone and its batch settled.           *)
SweepInv ==
  sender = "sweep" \/ Sending =>
    /\ \A i \in Listed : i < counter /\ (acq = "write" => i < idx)
    /\ \A f, g \in todo : f.idx = g.idx => f = g
    /\ \A f \in disk, i \in Listed :
         f.idx < i => f.idx \in Listed \/ (Sending /\ f.idx = cur.idx)

SendingInv ==
  Sending =>
    /\ cur.batch \in journaled /\ cur.idx \notin Listed
    /\ cur.idx < counter /\ (acq = "write" => cur.idx < idx)
    /\ \A f \in disk : cur.idx <= f.idx /\ (f.idx = cur.idx => f = cur)
    /\ cur \in disk \/ cur.batch \in Settled
    /\ sender = "acked" => cur.batch \in stored
    /\ sender = "rejected" => cur.batch \in refused

(* What is settled is a prefix of what is journaled, and a request still   *)
(* under way carries a batch with nothing unsettled below it.              *)
SettledInv ==
  /\ NoSilentLoss
  /\ Settled \cup copies \subseteq journaled
  /\ \A b \in Settled \cup copies : \A a \in journaled : a < b => a \in Settled

(* Without a bound nothing is evicted.  Of the files of its listing the     *)
(* sender removes the one it has sent, so each of the rest is there or was *)
(* evicted, and so was the one whose load ended the thread.                *)
EvictionInv ==
  /\ MaxBatches = 0 => victims = {} /\ evicted = {}
  /\ sender = "sweep" \/ Sending => \A f \in todo : f \in disk \/ f.batch \in evicted
  /\ sender = "dead" => cur.batch \in evicted

IInv ==
  /\ TypeOK /\ DownInv /\ FilesInv /\ AcqInv
  /\ SweepInv /\ SendingInv /\ SettledInv /\ EvictionInv

-----------------------------------------------------------------------------
(* The listing of a finite directory is finite, and as long as the         *)
(* directory when no index is used twice.                                  *)
LEMMA PendingFinite ==
  ASSUME IsFiniteSet(disk)
  PROVE  /\ IsFiniteSet(Pending)
         /\ ChronologicalNames /\ disk \subseteq File
              => Cardinality(Pending) = Cardinality(disk)
<1> DEFINE name == [f \in disk |-> f.idx]
<1>1. name \in Surjection(disk, Pending)
  BY DEF Surjection, Pending
<1>2. ASSUME ChronologicalNames, disk \subseteq File
      PROVE  name \in Injection(disk, Pending)
  <2>1. ASSUME NEW f \in disk, NEW g \in disk, f.idx = g.idx
        PROVE  f = g
    BY <1>2, <2>1 DEF ChronologicalNames, File, Batch
  <2>2. QED  BY <2>1 DEF Injection, IsInjective, Pending
<1>3. QED  BY <1>1, <1>2, FS_Surjection

(* Every variable keeps its type, across all actions. *)
LEMMA TypeStep == TypeOK /\ [Next]_vars => TypeOK'
<1> SUFFICES ASSUME TypeOK, [Next]_vars PROVE TypeOK'
  OBVIOUS
<1> USE CollectorAssumption DEF TypeOK, File, Batch
<1>1. CASE AcqRead
  <2>1. IsFiniteSet(victims')  BY <1>1, PendingFinite, FS_EmptySet DEF AcqRead
  <2>2. victims' \subseteq Nat  BY <1>1 DEF AcqRead, Pending
  <2>3. QED
    BY <1>1, <2>1, <2>2 DEF AcqRead, durable, buffer, sndVars, netVars, procVars
<1>2. CASE AcqEvict
  <2>1. IsFiniteSet(victims') /\ IsFiniteSet(disk')
    BY <1>2, FS_Subset, FS_RemoveElement DEF AcqEvict, Full, CountDrop, Without
  <2>2. disk' \subseteq disk /\ victims' \subseteq victims
    BY <1>2 DEF AcqEvict, Full, CountDrop, Without
  <2>3. evicted' \subseteq Batch
    BY <1>2 DEF AcqEvict, Full, CountDrop, ContentOf
  <2>4. QED
    BY <1>2, <2>1, <2>2, <2>3 DEF AcqEvict, Full, CountDrop, sndVars, netVars, procVars
<1>3. CASE AcqName
  <2>1. IsFiniteSet(victims')  BY <1>3, FS_EmptySet DEF AcqName, Full
  <2>2. QED
    BY <1>3, <2>1 DEF AcqName, Full, durable, sndVars, netVars, procVars
<1>4. CASE AcqReplace
  <2>1. IsFiniteSet(disk')
    BY <1>4, FS_Subset, FS_AddElement DEF AcqReplace, Without
  <2>2. QED
    BY <1>4, <2>1 DEF AcqReplace, Without, buffer, sndVars, netVars, procVars
<1>5. CASE AcqDies \/ AcqExit
  BY <1>5 DEF AcqDies, AcqExit, durable, buffer, sndVars, netVars, procVars
<1>6. CASE SndScan
  <2>1. Pending \subseteq Nat  BY DEF Pending
  <2>2. QED
    BY <1>6, <2>1 DEF SndScan, durable, buffer, acqVars, netVars, procVars
<1>7. CASE SndLoad
  BY <1>7 DEF SndLoad, Advance, ContentOf, durable, buffer, acqVars, netVars, procVars
<1>8. CASE SndSweepDone \/ SndExit
  BY <1>8 DEF SndSweepDone, SndExit, durable, buffer, acqVars, netVars, procVars
<1>9. CASE SndBackoff
  BY <1>9 DEF SndBackoff, durable, buffer, acqVars, netVars, procVars
<1>10. CASE SndRemove
  <2>1. IsFiniteSet(disk')  BY <1>10, FS_Subset DEF SndRemove, Without
  <2>2. QED
    BY <1>10, <2>1 DEF SndRemove, Without, buffer, acqVars, netVars, procVars
<1>11. CASE Post
  BY <1>11 DEF Post, PostOk, PostFailed, PostAmbiguous, PostRejected, FailedAttempt,
               durable, buffer, acqVars, netVars, procVars
<1>12. CASE Network
  BY <1>12 DEF Network, LateApply, CopyLost, durable, buffer, acqVars, sndVars, procVars
<1>13. CASE Signal
  BY <1>13 DEF Signal, durable, buffer, acqVars, sndVars, netVars
<1>14. CASE Exit \/ Crash
  <2>1. IsFiniteSet(victims')  BY <1>14, FS_EmptySet DEF Exit, Crash, Halt
  <2>2. restarts' \in 0..MaxRestarts  BY <1>14 DEF Exit, Crash
  <2>3. Halt  BY <1>14 DEF Exit, Crash
  <2>4. cur' \in File  BY <2>3 DEF Halt, NoFile
  <2>5. attempt' \in 1..MaxAttempts  BY <2>3 DEF Halt
  <2>6. QED
    BY <2>1, <2>2, <2>3, <2>4, <2>5 DEF Halt, durable, netVars
<1>15. CASE Boot
  BY <1>15 DEF Boot, durable, acqVars, sndVars, netVars
<1>16. CASE UNCHANGED vars
  BY <1>16 DEF vars, durable, buffer, acqVars, sndVars, netVars, procVars
<1>17. QED
  BY <1>1, <1>2, <1>3, <1>4, <1>5, <1>6, <1>7, <1>8, <1>9, <1>10, <1>11, <1>12,
     <1>13, <1>14, <1>15, <1>16 DEF Next, Acquisition, Sender, Process
-----------------------------------------------------------------------------
(* Nothing older than the batch being sent is still owed to the server. *)
LEMMA SendingPrefix ==
  ASSUME IInv, Sending, NEW a \in journaled, a < cur.batch
  PROVE  a \in Settled
<1> USE DEF IInv, TypeOK, File, Batch
<1>1. CASE cur \in disk
  <2>1. SUFFICES ASSUME a \notin Settled PROVE FALSE
    OBVIOUS
  <2>2. PICK g \in disk : g.batch = a
    BY <2>1 DEF SettledInv, NoSilentLoss
  <2>3. g.idx < cur.idx
    BY <1>1, <2>2 DEF FilesInv, ChronologicalNames
  <2>4. QED  BY <2>2, <2>3 DEF SendingInv
<1>2. CASE cur.batch \in Settled
  BY <1>2 DEF SettledInv
<1>3. QED  BY <1>1, <1>2 DEF SendingInv

(* Nor is anything older than the file that enqueue evicts. *)
LEMMA EvictedPrefix ==
  ASSUME IInv, acq = "enqueue",
         NEW i, IsOldest(i, victims), NEW f \in ContentOf(i),
         NEW a \in journaled, a < f.batch
  PROVE  a \in Settled
<1> USE DEF IInv, TypeOK, File, Batch
<1>1. SUFFICES ASSUME a \notin Settled PROVE FALSE
  OBVIOUS
<1>2. PICK g \in disk : g.batch = a
  BY <1>1 DEF SettledInv, NoSilentLoss
<1>3. f \in disk /\ f.idx = i /\ i \in victims
  BY DEF ContentOf, IsOldest
<1>4. g.idx < i
  BY <1>2, <1>3 DEF FilesInv, ChronologicalNames
<1>5. QED  BY <1>2, <1>3, <1>4 DEF AcqInv, IsOldest

-----------------------------------------------------------------------------
(* Every action keeps the invariant.  Under each action there is one step  *)
(* for the parts it leaves alone and one for each part it can disturb.     *)
LEMMA InvStep == IInv /\ [Next]_vars => IInv'
<1> SUFFICES ASSUME IInv, [Next]_vars PROVE IInv'
  OBVIOUS
<1>0. TypeOK'  BY TypeStep DEF IInv
<1> USE CollectorAssumption DEF IInv, TypeOK, File, Batch, Sending, Acquiring, Listed
<1>1. CASE AcqRead
  <2> USE <1>1 DEF AcqRead, durable, buffer, sndVars, netVars, procVars
  <2>1. DownInv' /\ FilesInv' /\ SweepInv' /\ SendingInv' /\ SettledInv'
    BY DEF DownInv, FilesInv, ChronologicalNames, SweepInv, SendingInv,
           SettledInv, NoSilentLoss, Settled
  <2>2. AcqInv'  BY DEF AcqInv, Pending
  <2>3. EvictionInv'  BY DEF EvictionInv, Pending
  <2>4. QED  BY <1>0, <2>1, <2>2, <2>3
<1>2. CASE AcqEvict
  <2> USE <1>2 DEF AcqEvict, Full, CountDrop, Without, sndVars, netVars, procVars
  <2>1. DownInv' /\ FilesInv'
    BY DEF DownInv, FilesInv, ChronologicalNames
  <2>2. AcqInv'  BY DEF AcqInv, IsOldest
  <2>3. SweepInv'  BY DEF SweepInv
  <2>4. SendingInv'  BY DEF SendingInv, Settled, ContentOf
  <2>5. SettledInv'
    <3>1. PICK i \in victims :
            /\ IsOldest(i, victims) /\ disk' = Without(i)
            /\ evicted' = evicted \cup {f.batch : f \in ContentOf(i)}
      OBVIOUS
    <3>2. ASSUME NEW f \in disk PROVE f \in disk' \/ f.batch \in Settled'
      BY <3>1 DEF Settled, ContentOf
    <3>3. NoSilentLoss'
      BY <3>2 DEF SettledInv, NoSilentLoss, Settled
    <3>4. (Settled \cup copies \subseteq journaled)'
      <4>1. {f.batch : f \in ContentOf(i)} \subseteq journaled
        BY DEF ContentOf, FilesInv
      <4>2. QED  BY <3>1, <4>1 DEF SettledInv, Settled
    <3>5. ASSUME NEW b \in Settled' \cup copies', NEW a \in journaled', a < b
          PROVE  a \in Settled'
      BY <3>1, <3>5, EvictedPrefix DEF SettledInv, Settled
    <3>6. QED  BY <3>3, <3>4, <3>5 DEF SettledInv
  <2>6. EvictionInv'
    <3>1. PICK i \in victims :
            disk' = Without(i) /\ evicted' = evicted \cup {f.batch : f \in ContentOf(i)}
      OBVIOUS
    <3>2. \A f \in disk : f \in disk' \/ f.batch \in evicted'
      BY <3>1 DEF ContentOf
    <3>3. MaxBatches # 0 /\ evicted \subseteq evicted'
      BY <3>1
    <3>4. QED  BY <3>2, <3>3 DEF EvictionInv
  <2>7. QED  BY <1>0, <2>1, <2>2, <2>3, <2>4, <2>5, <2>6
<1>3. CASE AcqName
  <2> USE <1>3 DEF AcqName, Full, durable, sndVars, netVars, procVars
  <2>1. DownInv' /\ AcqInv' /\ SettledInv' /\ EvictionInv'
    BY DEF DownInv, AcqInv, SettledInv, NoSilentLoss, Settled, EvictionInv, Pending
  <2>2. FilesInv'  BY DEF FilesInv, ChronologicalNames
  <2>3. SweepInv'  BY DEF SweepInv
  <2>4. SendingInv'  BY DEF SendingInv, Settled
  <2>5. QED  BY <1>0, <2>1, <2>2, <2>3, <2>4
<1>4. CASE AcqReplace
  <2> USE <1>4 DEF AcqReplace, Without, buffer, sndVars, netVars, procVars
  <2>1. DownInv' /\ AcqInv'  BY DEF DownInv, AcqInv
  <2>2. disk' = disk \cup {[idx |-> idx, batch |-> reads]}
    BY DEF FilesInv
  <2>3. FilesInv'  BY <2>2 DEF FilesInv, ChronologicalNames, AcqInv, DownInv
  <2>4. SweepInv'  BY <2>2 DEF SweepInv, FilesInv
  <2>5. SendingInv'  BY <2>2 DEF SendingInv, Settled, FilesInv
  <2>6. SettledInv'
    <3>1. \A b \in Settled \cup copies : b < reads
      BY DEF SettledInv, AcqInv
    <3>2. reads \in {f.batch : f \in disk'} /\ disk \subseteq disk'
      <4> DEFINE new == [idx |-> idx, batch |-> reads]
      <4>1. new \in disk' /\ new.batch = reads  BY <2>2
      <4>2. QED  BY <2>2, <4>1
    <3>3. NoSilentLoss'
      BY <3>2 DEF SettledInv, NoSilentLoss, Settled
    <3>4. QED  BY <3>1, <3>3 DEF SettledInv, Settled
  <2>7. EvictionInv'  BY <2>2 DEF EvictionInv, Pending
  <2>8. QED  BY <1>0, <2>1, <2>3, <2>4, <2>5, <2>6, <2>7
<1>5. CASE AcqDies \/ AcqExit
  BY <1>0, <1>5 DEF AcqDies, AcqExit, durable, buffer, sndVars, netVars, procVars, DownInv,
     FilesInv, ChronologicalNames, AcqInv, SweepInv, SendingInv, SettledInv,
     NoSilentLoss, Settled, EvictionInv, Pending
<1>6. CASE SndScan
  <2> USE <1>6 DEF SndScan, Pending, durable, buffer, acqVars, netVars, procVars
  <2>1. DownInv' /\ FilesInv' /\ AcqInv' /\ SendingInv' /\ SettledInv'
    BY DEF DownInv, FilesInv, ChronologicalNames, AcqInv, SendingInv,
           SettledInv, NoSilentLoss, Settled
  <2>2. SweepInv'  BY DEF SweepInv, FilesInv, ChronologicalNames
  <2>3. EvictionInv'  BY DEF EvictionInv
  <2>4. QED  BY <1>0, <2>1, <2>2, <2>3
<1>7. CASE SndLoad
  <2> USE <1>7 DEF SndLoad, Advance, ContentOf, durable, buffer, acqVars, netVars, procVars
  <2>1. DownInv' /\ FilesInv' /\ AcqInv' /\ SettledInv'
    BY DEF DownInv, FilesInv, ChronologicalNames, AcqInv,
           SettledInv, NoSilentLoss, Settled
  <2>2. SweepInv'  BY DEF SweepInv, IsOldest
  <2>3. SendingInv'
    <3>1. SUFFICES ASSUME sender' = "post" PROVE SendingInv'
      BY DEF SendingInv
    <3>2. PICK f \in todo : IsOldest(f.idx, Listed) /\ todo' = todo \ {f} /\ cur' \in ContentOf(f.idx)
      BY <3>1
    <3>3. cur' \in disk /\ cur'.idx = f.idx /\ f.idx \in Listed
      BY <3>2
    <3>4. \A g \in disk : f.idx <= g.idx
      BY <3>2, <3>3 DEF SweepInv, IsOldest
    <3>5. \A g \in disk : g.idx = f.idx => g = cur'
      BY <3>3 DEF FilesInv, ChronologicalNames
    <3>6. f.idx < counter /\ (acq = "write" => f.idx < idx) /\ cur'.batch \in journaled
      BY <3>2, <3>3 DEF SweepInv, FilesInv
    <3>7. f.idx \notin Listed'
      BY <3>2 DEF SweepInv
    <3>8. QED
      BY <3>1, <3>2, <3>3, <3>4, <3>5, <3>6, <3>7 DEF SendingInv
  <2>4. EvictionInv'  BY DEF EvictionInv, Pending
  <2>5. QED  BY <1>0, <2>1, <2>2, <2>3, <2>4
<1>8. CASE SndSweepDone \/ SndExit
  BY <1>0, <1>8 DEF SndSweepDone, SndExit, durable, buffer, acqVars, netVars, procVars,
     DownInv, FilesInv, ChronologicalNames, AcqInv, SweepInv, SendingInv, SettledInv,
     NoSilentLoss, Settled, EvictionInv, Pending
<1>9. CASE SndBackoff
  BY <1>0, <1>9 DEF SndBackoff, durable, buffer, acqVars, netVars, procVars, DownInv,
     FilesInv, ChronologicalNames, AcqInv, SweepInv, SendingInv, SettledInv,
     NoSilentLoss, Settled, EvictionInv, Pending
<1>10. CASE SndRemove
  <2> USE <1>10 DEF SndRemove, Without, buffer, acqVars, netVars, procVars
  <2>1. DownInv' /\ FilesInv' /\ AcqInv' /\ SendingInv'
    BY DEF DownInv, FilesInv, ChronologicalNames, AcqInv, SendingInv
  <2>2. SweepInv'  BY DEF SweepInv
  <2>3. SettledInv'  BY DEF SettledInv, NoSilentLoss, Settled, SendingInv
  <2>4. EvictionInv'  BY DEF EvictionInv, Pending, SendingInv
  <2>5. QED  BY <1>0, <2>1, <2>2, <2>3, <2>4
<1>11. CASE Post
  <2> USE <1>11 DEF Post, PostOk, PostFailed, PostAmbiguous, PostRejected, FailedAttempt,
                    durable, buffer, acqVars, netVars, procVars
  <2>1. DownInv' /\ FilesInv' /\ AcqInv' /\ EvictionInv'
    BY DEF DownInv, FilesInv, ChronologicalNames, AcqInv, EvictionInv, Pending
  <2>2. SweepInv'  BY DEF SweepInv
  <2>3. SendingInv'  BY DEF SendingInv, Settled
  <2>4. SettledInv'
    <3>1. \A a \in journaled : a < cur.batch => a \in Settled
      BY SendingPrefix
    <3>2. cur.batch \in journaled /\ Settled \subseteq Settled'
      BY DEF SendingInv, Settled
    <3>3. /\ (Settled \cup copies)' \subseteq Settled \cup copies \cup {cur.batch}
          /\ journaled' = journaled /\ disk' = disk
      BY DEF Settled
    <3>4. QED  BY <3>1, <3>2, <3>3 DEF SettledInv, NoSilentLoss
  <2>5. QED  BY <1>0, <2>1, <2>2, <2>3, <2>4
<1>12. CASE Network
  <2> USE DEF durable, buffer, acqVars, sndVars, procVars
  <2>1. /\ UNCHANGED <<durable, buffer, acqVars, sndVars, refused, procVars, reads>>
        /\ Settled \subseteq Settled' /\ stored \subseteq stored'
        /\ Settled' \cup copies' \subseteq Settled \cup copies
    BY <1>12 DEF Network, LateApply, CopyLost, Settled
  <2>2. DownInv' /\ FilesInv' /\ AcqInv' /\ SweepInv' /\ EvictionInv'
    BY <2>1 DEF DownInv, FilesInv, ChronologicalNames, AcqInv, SweepInv, EvictionInv, Pending
  <2>3. SendingInv' /\ SettledInv'
    BY <2>1 DEF SendingInv, SettledInv, NoSilentLoss
  <2>4. QED  BY <1>0, <2>1, <2>2, <2>3
<1>13. CASE Signal
  BY <1>0, <1>13 DEF Signal, durable, buffer, acqVars, sndVars, netVars, DownInv,
     FilesInv, ChronologicalNames, AcqInv, SweepInv, SendingInv, SettledInv,
     NoSilentLoss, Settled, EvictionInv, Pending
<1>14. CASE Exit \/ Crash
  BY <1>0, <1>14 DEF Exit, Crash, Halt, durable, netVars, DownInv,
     FilesInv, ChronologicalNames, AcqInv, SweepInv, SendingInv, SettledInv,
     NoSilentLoss, Settled, EvictionInv
<1>15. CASE Boot
  <2> USE <1>15 DEF Boot, durable, acqVars, sndVars, netVars, DownInv
  <2>1. DownInv' /\ AcqInv' /\ SweepInv' /\ SendingInv' /\ SettledInv' /\ EvictionInv'
    BY DEF AcqInv, SweepInv, SendingInv, SettledInv, NoSilentLoss, Settled,
           EvictionInv, Pending
  <2>2. FilesInv'  BY DEF FilesInv, ChronologicalNames, IsInitCounter
  <2>3. QED  BY <1>0, <2>1, <2>2
<1>16. CASE UNCHANGED vars
  BY <1>0, <1>16 DEF vars, durable, buffer, acqVars, sndVars, netVars, procVars, DownInv,
     FilesInv, ChronologicalNames, AcqInv, SweepInv, SendingInv, SettledInv,
     NoSilentLoss, Settled, EvictionInv, Pending
<1>17. QED
  BY <1>1, <1>2, <1>3, <1>4, <1>5, <1>6, <1>7, <1>8, <1>9, <1>10, <1>11, <1>12,
     <1>13, <1>14, <1>15, <1>16 DEF Next, Acquisition, Sender, Process

(* An empty directory and no process memory satisfy it. *)
LEMMA InvInit == Init => IInv
<1> SUFFICES ASSUME Init PROVE IInv
  OBVIOUS
<1> USE DEF Init, Sending, Acquiring, Listed
<1>1. cur \in File  BY DEF NoFile, File, Batch
<1>2. IsFiniteSet(disk) /\ IsFiniteSet(victims)  BY FS_EmptySet
<1>3. /\ attempt \in 1..MaxAttempts
      /\ reads \in 0..MaxReads /\ restarts \in 0..MaxRestarts
  BY CollectorAssumption
<1>4. /\ disk \subseteq File /\ victims \subseteq Nat /\ todo \subseteq Nat
      /\ journaled \subseteq Batch /\ evicted \subseteq Batch
      /\ copies \subseteq Batch /\ stored \subseteq Batch /\ refused \subseteq Batch
  OBVIOUS
<1>5. TypeOK  BY <1>1, <1>2, <1>3, <1>4, Zenon DEF TypeOK
<1>6. QED
  BY <1>5 DEF IInv, DownInv, FilesInv, ChronologicalNames, AcqInv, SweepInv,
              SendingInv, SettledInv, NoSilentLoss, Settled, EvictionInv

(* The invariant holds of every behaviour of the collector. *)
THEOREM Invariance == Spec => []IInv
<1>1. QED  BY InvInit, InvStep, PTL DEF Spec

-----------------------------------------------------------------------------
(* Type correctness: the reachable states are those TypeOK describes. *)
THEOREM TypeCorrect == Spec => []TypeOK
<1>1. IInv => TypeOK  BY DEF IInv
<1>2. QED  BY <1>1, Invariance, PTL

(* "No data loss across network drops or crashes" (buffer.py:5-7), of      *)
(* every directory bound and every number of crashes.                      *)
THEOREM LossFree == Spec => []NoSilentLoss
<1>1. IInv => NoSilentLoss  BY DEF IInv, SettledInv
<1>2. QED  BY <1>1, Invariance, PTL

(* File name order is chronological order (buffer.py:8-9), whatever        *)
(* indices _init_counter resumes from.                                     *)
THEOREM NamesInOrder == Spec => []ChronologicalNames
<1>1. IInv => ChronologicalNames  BY DEF IInv, FilesInv
<1>2. QED  BY <1>1, Invariance, PTL

(* Delivery is strictly in order (collector.py:14-16): below a stored      *)
(* batch nothing is missing but what was given up.                         *)
THEOREM InOrder == Spec => []DeliveredInOrder
<1>1. IInv => DeliveredInOrder  BY DEF IInv, SettledInv, DeliveredInOrder, Settled
<1>2. QED  BY <1>1, Invariance, PTL

(* The sender's unguarded load (collector.py:150) misses its file only     *)
(* when enqueue has evicted a batch, for every bound.                      *)
THEOREM DiesOnlyByEviction == Spec => []SenderDiesOnlyByEviction
<1>1. IInv => SenderDiesOnlyByEviction
  BY DEF IInv, EvictionInv, SenderDiesOnlyByEviction
<1>2. QED  BY <1>1, Invariance, PTL

(* With an unbounded buffer it never does.                                 *)
THEOREM UnboundedSenderSurvives ==
  ASSUME MaxBatches = 0
  PROVE  Spec => []SenderSurvives
<1>1. IInv => SenderSurvives  BY DEF IInv, EvictionInv, SenderSurvives
<1>2. QED  BY <1>1, Invariance, PTL

-----------------------------------------------------------------------------
(* What enqueue relies on to keep the bound: the directory it saw covers   *)
(* the directory there is, so evicting from the former makes room.         *)
CapInv ==
  MaxBatches > 0 =>
    /\ Cardinality(disk) <= MaxBatches
    /\ acq = "enqueue" => Pending \subseteq victims
    /\ acq = "write" => Cardinality(disk) < MaxBatches

(* CapInv is kept by every step: only enqueue adds a file, after evicting. *)
LEMMA CapStep == IInv /\ CapInv /\ [Next]_vars => CapInv'
<1> SUFFICES ASSUME IInv, CapInv, [Next]_vars, MaxBatches > 0 PROVE CapInv'
  BY DEF CapInv
<1> USE CollectorAssumption DEF IInv, TypeOK, CapInv
<1>0. ASSUME NEW S \in SUBSET disk
      PROVE  /\ IsFiniteSet(S) /\ Cardinality(S) \in Nat
             /\ Cardinality(disk) \in Nat /\ Cardinality(S) <= Cardinality(disk)
  BY FS_Subset, FS_CardinalityType
<1>1. CASE AcqRead
  BY <1>1 DEF AcqRead, Pending, durable
<1>2. CASE AcqEvict
  <2>1. disk' \in SUBSET disk  BY <1>2 DEF AcqEvict, Full, CountDrop, Without
  <2>2. acq = "enqueue" /\ acq' = "enqueue" /\ Pending' \subseteq victims'
    BY <1>2 DEF AcqEvict, Full, CountDrop, Without, Pending
  <2>3. Cardinality(disk') <= MaxBatches  BY <2>1, <1>0
  <2>4. QED  BY <2>2, <2>3
<1>3. CASE AcqName
  <2>1. Cardinality(Pending) = Cardinality(disk)
    BY PendingFinite DEF FilesInv
  <2>2. Pending \in SUBSET victims /\ ~Full
    BY <1>3 DEF AcqName
  <2>3. Cardinality(Pending) <= Cardinality(victims) /\ Cardinality(victims) \in Nat
    BY <2>2, FS_Subset, FS_CardinalityType
  <2>4. Cardinality(victims) < MaxBatches
    BY <2>2, <2>3 DEF Full, CollectorAssumption
  <2>5. Cardinality(disk) < MaxBatches
    BY <2>1, <2>3, <2>4, <1>0
  <2>6. QED  BY <1>3, <2>5 DEF AcqName, durable
<1>4. CASE AcqReplace
  <2> DEFINE kept == Without(idx)  new == [idx |-> idx, batch |-> reads]
  <2>1. kept \in SUBSET disk  BY DEF Without
  <2>2. /\ IsFiniteSet(kept) /\ Cardinality(kept) \in Nat
        /\ Cardinality(disk) \in Nat /\ Cardinality(kept) <= Cardinality(disk)
    BY <2>1, <1>0
  <2>3. Cardinality(kept \cup {new})
          = IF new \in kept THEN Cardinality(kept) ELSE Cardinality(kept) + 1
    BY <2>2, FS_AddElement
  <2>4. disk' = kept \cup {new} /\ acq = "write" /\ acq' = "idle"
    BY <1>4 DEF AcqReplace
  <2> HIDE DEF kept, new
  <2>5. Cardinality(disk') <= MaxBatches
    BY <2>2, <2>3, <2>4
  <2>6. QED  BY <2>4, <2>5
<1>5. CASE SndRemove
  <2>1. disk' \in SUBSET disk /\ Pending' \subseteq Pending
    BY <1>5 DEF SndRemove, Without, Pending
  <2>2. Cardinality(disk') <= Cardinality(disk) /\ Cardinality(disk') \in Nat
        /\ Cardinality(disk) \in Nat
    BY <2>1, <1>0
  <2>3. UNCHANGED <<acq, victims>>  BY <1>5 DEF SndRemove, acqVars
  <2>4. QED  BY <2>1, <2>2, <2>3
<1>6. CASE /\ UNCHANGED disk
           /\ (acq' = acq /\ victims' = victims) \/ acq' \in {"idle", "exited", "dead"}
  BY <1>6 DEF Pending
<1>7. QED
  BY <1>1, <1>2, <1>3, <1>4, <1>5, <1>6
  DEF Next, Acquisition, Sender, Post, Network, Process, AcqDies, AcqExit, SndScan, SndLoad, Advance,
      SndSweepDone, SndExit, SndBackoff, PostOk, PostFailed, PostAmbiguous,
      PostRejected, LateApply, CopyLost, Signal, Exit, Crash, Halt, Boot,
      vars, durable, acqVars

(* The bound on queued batches (buffer.py:30-33) holds for every bound.    *)
THEOREM Capacity == Spec => []CapacityRespected
<1>1. Init => CapInv
  BY FS_EmptySet, CollectorAssumption DEF Init, CapInv
<1>2. CapInv => CapacityRespected  BY DEF CapInv, CapacityRespected
<1>3. QED  BY <1>1, <1>2, CapStep, Invariance, PTL DEF Spec

-----------------------------------------------------------------------------
(* A file leaves the directory only after the server's answer, or counted  *)
(* as a drop (buffer.py:33-34).                                            *)
THEOREM AnsweredOrCounted == Spec => RemovedOnlyWhenAnswered
<1> DEFINE Justified ==
      \A f \in disk \ disk' :
        f.batch \in stored \cup refused \/ dropped' = dropped + 1
<1>1. IInv /\ [Next]_vars => [Justified]_vars
  <2> SUFFICES ASSUME IInv, Next PROVE Justified
    OBVIOUS
  <2>1. CASE AcqEvict
    BY <2>1 DEF AcqEvict, Full, CountDrop
  <2>2. CASE AcqReplace
    BY <2>2 DEF AcqReplace, Without, IInv, FilesInv, TypeOK, File
  <2>3. CASE SndRemove
    BY <2>3 DEF SndRemove, Without, IInv, SendingInv, Sending
  <2>4. CASE UNCHANGED disk
    BY <2>4
  <2>5. QED
    BY <2>1, <2>2, <2>3, <2>4
    DEF Next, Acquisition, Sender, Post, Network, Process, AcqRead, AcqName, Full, AcqDies, AcqExit,
        SndScan, SndLoad, Advance, SndSweepDone, SndExit, SndBackoff, PostOk, PostFailed,
        PostAmbiguous, PostRejected, LateApply, CopyLost, Signal, Exit, Crash, Halt,
        Boot, durable
<1>2. QED
  BY <1>1, Invariance, PTL DEF Spec, RemovedOnlyWhenAnswered

-----------------------------------------------------------------------------
(* The collector implements DeliveryQueue.  A step that settles a batch    *)
(* not settled before is Deliver, Abandon or TurnUp; all steps but those   *)
(* and AcqReplace (Accept) leave the promise's variables alone.            *)
Abandoned == (refused \cup evicted) \ stored

(* The promise's open batches are the journaled ones not yet settled. *)
LEMMA UnsettledIs == Promise!Unsettled = journaled \ Settled
  BY DEF Promise!Unsettled, Settled

(* Each step of the collector is a step of the promise, or stutters. *)
LEMMA StepIsPromised ==
  ASSUME IInv, [Next]_vars
  PROVE  [Promise!Next]_(Promise!vars)
<1> USE DEF Promise!vars
<1>1. CASE AcqReplace
  <2>1. \A a \in journaled : a < reads
    BY <1>1 DEF AcqReplace, IInv, AcqInv, Acquiring
  <2>2. /\ journaled' = journaled \cup {reads}
        /\ stored' = stored /\ Abandoned' = Abandoned
    BY <1>1 DEF AcqReplace, netVars, Abandoned
  <2>3. Promise!Accept(reads)
    BY <2>1, <2>2 DEF Promise!Accept, Abandoned
  <2>4. QED  BY <2>2, <2>3 DEF Promise!Next
<1>2. ASSUME NEW b \in journaled, \A a \in journaled : a < b => a \in Settled,
             journaled' = journaled,
             \/ stored' = stored \cup {b} /\ UNCHANGED <<refused, evicted>>
             \/ (refused \cup evicted)' = (refused \cup evicted) \cup {b} /\ UNCHANGED stored
      PROVE  [Promise!Next]_(Promise!vars)
  <2>1. b \notin Settled => Promise!IsNext(b)
    BY <1>2, UnsettledIs DEF Promise!IsNext, IInv, TypeOK, Batch
  <2>2. CASE stored' = stored \cup {b} /\ UNCHANGED <<refused, evicted>>
    <3>1. b \notin Settled => Promise!Deliver(b)
      BY <1>2, <2>1, <2>2 DEF Promise!Deliver, Settled
    <3>2. b \in Settled /\ b \notin stored => Promise!TurnUp(b)
      BY <1>2, <2>2 DEF Promise!TurnUp, Settled
    <3>3. b \in stored => UNCHANGED Promise!vars
      BY <1>2, <2>2
    <3>4. QED  BY <3>1, <3>2, <3>3 DEF Promise!Next
  <2>3. CASE (refused \cup evicted)' = (refused \cup evicted) \cup {b} /\ UNCHANGED stored
    <3>1. b \notin Settled => Promise!Abandon(b)
      BY <1>2, <2>1, <2>3 DEF Promise!Abandon, Settled
    <3>2. b \in Settled => UNCHANGED Promise!vars
      BY <1>2, <2>3 DEF Settled
    <3>3. QED  BY <3>1, <3>2 DEF Promise!Next
  <2>4. QED  BY <1>2, <2>2, <2>3
<1>3. CASE AcqEvict
  <2>1. PICK i \in victims :
          IsOldest(i, victims) /\ evicted' = evicted \cup {f.batch : f \in ContentOf(i)}
    BY <1>3 DEF AcqEvict, Full, CountDrop
  <2>2. acq = "enqueue" /\ UNCHANGED <<journaled, stored, refused>>
    BY <1>3 DEF AcqEvict, Full, CountDrop, netVars
  <2>3. CASE ContentOf(i) = {}
    BY <2>1, <2>2, <2>3
  <2>4. ASSUME NEW f \in ContentOf(i)
        PROVE  [Promise!Next]_(Promise!vars)
    <3>1. ContentOf(i) = {f}
      BY DEF ContentOf, IInv, TypeOK, File, Batch, FilesInv, ChronologicalNames
    <3>2. f.batch \in journaled /\ evicted' = evicted \cup {f.batch}
      BY <2>1, <3>1 DEF ContentOf, IInv, FilesInv
    <3>3. \A a \in journaled : a < f.batch => a \in Settled
      BY <2>1, <2>2, EvictedPrefix
    <3>4. QED  BY <1>2, <2>2, <3>2, <3>3
  <2>5. QED  BY <2>3, <2>4
<1>4. CASE PostOk \/ PostRejected
  <2>1. Sending /\ cur.batch \in journaled
    BY <1>4 DEF PostOk, PostRejected, Sending, IInv, SendingInv
  <2>2. \A a \in journaled : a < cur.batch => a \in Settled
    BY <2>1, SendingPrefix
  <2>3. QED
    BY <1>2, <1>4, <2>1, <2>2 DEF PostOk, PostRejected, durable
<1>5. ASSUME NEW b \in copies, LateApply(b)
      PROVE  [Promise!Next]_(Promise!vars)
  BY <1>2, <1>5 DEF LateApply, durable, IInv, SettledInv
<1>6. CASE UNCHANGED <<journaled, evicted, stored, refused>>
  BY <1>6
<1>7. QED
  BY <1>1, <1>3, <1>4, <1>5, <1>6
  DEF Next, Acquisition, Sender, Post, Network, Process, AcqRead, AcqName, Full, AcqDies, AcqExit,
      SndScan, SndLoad, Advance, SndSweepDone, SndExit, SndBackoff, SndRemove, PostFailed,
      PostAmbiguous, CopyLost, Signal, Exit, Crash, Halt, Boot, vars, durable, netVars

(* What the docstrings promise is what the threads, the disk, the network  *)
(* and the restarts together do.                                           *)
THEOREM Refinement == Spec => ImplementsDeliveryQueue
<1>1. Init => Promise!Init  BY DEF Init, Promise!Init
<1>2. IInv /\ [Next]_vars => [Promise!Next]_(Promise!vars)
  BY StepIsPromised
<1>3. QED
  BY <1>1, <1>2, Invariance, PTL DEF Spec, ImplementsDeliveryQueue, Promise!Spec
=============================================================================
