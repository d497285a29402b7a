----------------------------- MODULE IngestProofs -----------------------------
(***************************************************************************)
(* The safety properties of Ingest, for any clients, tokens, batches and   *)
(* chunks.                                                                 *)
(***************************************************************************)
EXTENDS Ingest, FiniteSetTheorems, TLAPS

(* The batches of the clients, and those whose token is known.             *)
Index == {b \in Client \X Nat : b[2] \in DOMAIN Backlog[b[1]]}
Known == {b \in Index : b[2] \in Authorized(b[1])}
Samples(b) == Backlog[b[1]][b[2]].samples
SourceOfBatch(b) == CHOOSE x \in SourceForToken(Backlog[b[1]][b[2]].token) : TRUE

Request == [pc : {"idle", "validate", "insert", "check"}, batch : Index \cup {<<>>},
            at : Nat \ {0}, inserted : Nat]

FieldsOK ==
  /\ table \subseteq Reading /\ IsFiniteSet(table)
  /\ base \subseteq table /\ checked \subseteq table
  /\ rows \in [Source -> Nat] /\ uncounted \in [Source -> Nat]
  /\ alarm \in [Metric -> BOOLEAN] /\ events \in [Metric -> Nat]
  /\ req \in [Worker -> Request]
  /\ report \in [pc : {"idle", "count", "last"}, rows : [Source -> Nat]]
  /\ bounds \in [failures : 0..MaxFailures, timeouts : 0..MaxTimeouts, restarts : 0..MaxRestarts]

(* A handler that has passed validation has a known source; what it has    *)
(* passed is in the table, and what it has checked was handed to the       *)
(* alerter; only one that inserts holds rows that are not counted yet.     *)
HandlerOK(q) ==
  /\ q.pc = "idle" => q = Idle
  /\ q.pc # "idle" => q.batch \in Index /\ q.at <= Len(Samples(q.batch)) + 1
  /\ q.pc = "validate" => q.at = 1
  /\ q.pc \in {"insert", "check"} => q.batch \in Known
  /\ q.pc # "insert" => q.inserted = 0
  /\ q.inserted <= Cardinality(table)
  /\ \A i \in 1 .. Len(Samples(q.batch)) :
       /\ q.pc = "check" \/ (q.pc = "insert" /\ i < q.at) => ReadingsOf(q.batch)[i] \in table
       /\ q.pc = "check" /\ i < q.at => ReadingsOf(q.batch)[i] \in checked

HandlersInv == \A w \in Worker : HandlerOK(req[w])

ClientsInv ==
  /\ wait \in [Client -> Worker \cup {NoWorker}] /\ pos \in [Client -> Nat]
  /\ \A c \in Client :
       /\ pos[c] \in 1 .. Len(Backlog[c]) + 1
       /\ wait[c] # NoWorker => req[wait[c]].batch = <<c, pos[c]>> /\ pos[c] \in DOMAIN Backlog[c]

(* Every row is a reading of a known batch.                                *)
TableInv == \A r \in table : \E b \in Known : r \in RowsOf(ReadingsOf(b))

AckedHandled == \A b \in acked : Handled(b)
AckedInv == acked \subseteq Known /\ AckedHandled

IInv == FieldsOK /\ HandlersInv /\ ClientsInv /\ TableInv /\ AckedInv

-----------------------------------------------------------------------------
(* A token stands for at most one source.                                  *)
LEMMA OneSource ==
  ASSUME NEW t
  PROVE  /\ SourceForToken(t) \subseteq Source
         /\ \A x, y \in SourceForToken(t) : x = y
         /\ \A x \in SourceForToken(t) :
              \E p \in DOMAIN Tokens : Tokens[p] = [source |-> x, token |-> t]
<1> DEFINE Pair == [source : Source, token : Token]
<1>1. Tokens \in Seq(Pair)
  BY IngestAssumption DEF IngestAssumption
<1>2. PairsOf(t) \subseteq 1 .. Len(Tokens) /\ DOMAIN Tokens = 1 .. Len(Tokens)
  BY <1>1 DEF PairsOf
<1>3. ASSUME NEW i \in PairsOf(t)
      PROVE  /\ Tokens[i] \in Pair
             /\ Tokens[i].token = t /\ i \in DOMAIN Tokens
  <2>1. i \in 1 .. Len(Tokens)  BY <1>2
  <2>2. Tokens[i] \in Pair
    <3> HIDE DEF Pair
    <3>1. QED  BY <1>1, <2>1
  <2>3. QED  BY <1>2, <2>2 DEF PairsOf
<1>4. \A i, j \in PairsOf(t) : i <= j /\ j <= i => i = j
  BY <1>2
<1>5. \A i \in PairsOf(t) : Tokens[i] = [source |-> Tokens[i].source, token |-> t]
  BY <1>3
<1>6. QED  BY <1>3, <1>4, <1>5 DEF SourceForToken

LEMMA IndexIsBatch ==
  ASSUME NEW b \in Index
  PROVE  /\ Samples(b) \in Seq(Sample) /\ Len(Samples(b)) \in Nat \ {0}
         /\ DOMAIN Samples(b) = 1 .. Len(Samples(b))
         /\ b[1] \in Client /\ b = <<b[1], b[2]>>
<1>1. b[1] \in Client /\ b[2] \in DOMAIN Backlog[b[1]] /\ b = <<b[1], b[2]>>
  BY DEF Index
<1>2. Backlog[b[1]] \in Seq(Batch) /\ Samples(b) # <<>>
  BY <1>1, IngestAssumption DEF IngestAssumption, Samples
<1>3. Backlog[b[1]][b[2]] \in Batch
  BY <1>1, <1>2
<1>4. Samples(b) \in Seq(Sample)
  BY <1>3 DEF Samples, Batch
<1>5. QED  BY <1>1, <1>2, <1>4

LEMMA KnownReadings ==
  ASSUME NEW b \in Known
  PROVE  /\ SourceOfBatch(b) \in Source
         /\ SourceForToken(Backlog[b[1]][b[2]].token) = {SourceOfBatch(b)}
         /\ DOMAIN ReadingsOf(b) = 1 .. Len(Samples(b))
         /\ \A i \in 1 .. Len(Samples(b)) :
              /\ ReadingsOf(b)[i] \in Reading /\ ReadingsOf(b)[i].source = SourceOfBatch(b)
              /\ ReadingsOf(b)[i].metric = Samples(b)[i].metric
              /\ ReadingsOf(b)[i].ts = Samples(b)[i].ts
         /\ RowsOf(ReadingsOf(b)) = {ReadingsOf(b)[i] : i \in 1 .. Len(Samples(b))}
<1> DEFINE S == SourceForToken(Backlog[b[1]][b[2]].token)
<1>1. b \in Index /\ S # {}
  BY DEF Known, Authorized
<1>2. SourceOfBatch(b) \in S
  BY <1>1 DEF SourceOfBatch
<1>3. SourceOfBatch(b) \in Source /\ S = {SourceOfBatch(b)}
  BY <1>2, OneSource
<1>4. ReadingsOf(b) = [i \in 1 .. Len(Samples(b)) |-> [Samples(b)[i] EXCEPT !.source = SourceOfBatch(b)]]
  BY <1>1, IndexIsBatch DEF ReadingsOf, Samples, SourceOfBatch
<1>5. ASSUME NEW i \in 1 .. Len(Samples(b))
      PROVE  /\ ReadingsOf(b)[i] \in Reading /\ ReadingsOf(b)[i].source = SourceOfBatch(b)
             /\ ReadingsOf(b)[i].metric = Samples(b)[i].metric
             /\ ReadingsOf(b)[i].ts = Samples(b)[i].ts
  <2>1. Samples(b)[i] \in Sample
    BY <1>1, IndexIsBatch
  <2>2. QED  BY <1>3, <1>4, <2>1 DEF Sample, Reading
<1>6. QED  BY <1>3, <1>4, <1>5 DEF RowsOf

(* Readings of known batches with the same key are the same.               *)
LEMMA SameKeySameReading ==
  ASSUME NEW b \in Known, NEW d \in Known,
         NEW r \in RowsOf(ReadingsOf(b)), NEW q \in RowsOf(ReadingsOf(d)), KeyOf(r) = KeyOf(q)
  PROVE  r = q
<1>1. /\ b[1] \in Client /\ b[2] \in Authorized(b[1]) /\ b = <<b[1], b[2]>>
      /\ d[1] \in Client /\ d[2] \in Authorized(d[1]) /\ d = <<d[1], d[2]>>
  BY DEF Known, Index
<1>2. \A i \in Authorized(b[1]), j \in Authorized(d[1]) :
        \A x \in RowsOf(ReadingsOf(<<b[1], i>>)), y \in RowsOf(ReadingsOf(<<d[1], j>>)) :
          KeyOf(x) = KeyOf(y) => x = y
  BY <1>1, RecordedOnce DEF RecordedOnce
<1>3. \A x \in RowsOf(ReadingsOf(<<b[1], b[2]>>)), y \in RowsOf(ReadingsOf(<<d[1], d[2]>>)) :
        KeyOf(x) = KeyOf(y) => x = y
  BY <1>1, <1>2
<1>4. \A x \in RowsOf(ReadingsOf(b)), y \in RowsOf(ReadingsOf(d)) : KeyOf(x) = KeyOf(y) => x = y
  BY <1>1, <1>3
<1>5. QED  BY <1>4

-----------------------------------------------------------------------------
LEMMA IngestInit == Init => IInv
<1> SUFFICES ASSUME Init  PROVE IInv
  OBVIOUS
<1>1. Idle \in Request /\ Zero \in [Source -> Nat]
  BY DEF Idle, Request, Zero
<1>2. IsFiniteSet({}) /\ Cardinality({}) = 0
  BY FS_EmptySet
<1>3. bounds \in [failures : 0..MaxFailures, timeouts : 0..MaxTimeouts, restarts : 0..MaxRestarts]
  BY IngestAssumption DEF IngestAssumption, Init
<1>4. FieldsOK
  BY <1>1, <1>2, <1>3 DEF Init, FieldsOK, NoReport
<1>5. HandlersInv
  BY <1>2 DEF Init, HandlersInv, HandlerOK, Idle
<1>6. ClientsInv
  <2>1. \A c \in Client : Len(Backlog[c]) \in Nat
    BY IngestAssumption DEF IngestAssumption
  <2>2. QED  BY <2>1 DEF Init, ClientsInv
<1>7. TableInv /\ AckedInv
  BY DEF Init, TableInv, AckedInv, AckedHandled, Handled
<1>8. QED  BY <1>4, <1>5, <1>6, <1>7 DEF IInv

(* What is true of a handler stays true when rows and checks are added.    *)
LEMMA HandlersMove ==
  ASSUME IInv, NEW w \in Worker, NEW new \in Request, req' = [req EXCEPT ![w] = new],
         table \subseteq table', IsFiniteSet(table'), checked \subseteq checked', HandlerOK(new)'
  PROVE  HandlersInv' /\ req' \in [Worker -> Request]
<1>0. req \in [Worker -> Request] /\ HandlersInv /\ IsFiniteSet(table)
  BY DEF IInv, FieldsOK
<1>1. /\ Cardinality(table) <= Cardinality(table')
      /\ Cardinality(table) \in Nat /\ Cardinality(table') \in Nat
  BY <1>0, FS_Subset, FS_CardinalityType
<1>2. ASSUME NEW q \in Request, HandlerOK(q)  PROVE HandlerOK(q)'
  <2>1. q.inserted \in Nat  BY DEF Request
  <2>2. q.inserted <= Cardinality(table')
    BY <1>1, <1>2, <2>1 DEF HandlerOK
  <2>3. QED  BY <1>2, <2>2 DEF HandlerOK
<1>3. ASSUME NEW v \in Worker  PROVE HandlerOK(req[v])'
  <2>1. CASE v = w
    BY <1>0, <2>1
  <2>2. CASE v # w
    BY <1>0, <1>2, <2>2 DEF HandlersInv
  <2>3. QED  BY <2>1, <2>2
<1>4. QED  BY <1>0, <1>3 DEF HandlersInv

LEMMA IdleIsOK ==
  ASSUME IsFiniteSet(table)
  PROVE  HandlerOK(Idle) /\ Idle \in Request
BY FS_CardinalityType DEF HandlerOK, Idle, Request

(* An answer reaches the client that waits for it, and no other.           *)
LEMMA ReplyStep ==
  ASSUME IInv, NEW w \in Worker, req[w].pc # "idle",
         NEW status \in {200, 400, 401, 500}, Reply(w, status)
  PROVE  /\ req' = [req EXCEPT ![w] = Idle] /\ ClientsInv'
         /\ acked' = acked \/ (status = 200 /\ acked' = acked \cup {req[w].batch})
<1> DEFINE c == req[w].batch[1]
<1>0. /\ FieldsOK /\ HandlersInv /\ ClientsInv
      /\ c \in Client /\ req' = [req EXCEPT ![w] = Idle] /\ req \in [Worker -> Request]
  BY IndexIsBatch DEF IInv, FieldsOK, HandlersInv, HandlerOK, Reply
<1>1. \/ UNCHANGED clients /\ wait[c] # w
      \/ /\ wait' = [wait EXCEPT ![c] = NoWorker] /\ wait[c] = w
         /\ pos' = [pos EXCEPT ![c] = @ + 1] \/ pos' = [pos EXCEPT ![c] = @]
         /\ acked' = acked \/ (status = 200 /\ acked' = acked \cup {req[w].batch})
  <2>1. CASE wait[c] # w
    BY <2>1 DEF Reply
  <2>2. CASE wait[c] = w /\ status = 200
    BY <2>2 DEF Reply
  <2>3. CASE wait[c] = w /\ status \in {400, 401}
    <3>1. pos' = [pos EXCEPT ![c] = @ + 1] /\ wait' = [wait EXCEPT ![c] = NoWorker] /\ acked' = acked
      <4>1. CASE status = 400  BY <2>3, <4>1 DEF Reply
      <4>2. CASE status = 401  BY <2>3, <4>2 DEF Reply
      <4>3. QED  BY <2>3, <4>1, <4>2
    <3>2. QED  BY <2>3, <3>1
  <2>4. CASE wait[c] = w /\ status = 500
    <3>1. NoAnswer(c) /\ UNCHANGED acked
      BY <2>4 DEF Reply
    <3>2. QED  BY <2>4, <3>1 DEF NoAnswer
  <2>5. QED  BY <2>1, <2>2, <2>3, <2>4
<1> HIDE DEF c
<1>2. \A d \in Client : wait[d] = w => d = c
  <2>1. NoWorker \notin Worker  BY IngestAssumption DEF IngestAssumption
  <2>2. ASSUME NEW d \in Client, wait[d] = w  PROVE d = c
    <3>1. req[w].batch = <<d, pos[d]>>
      BY <1>0, <2>1, <2>2 DEF ClientsInv
    <3>2. QED  BY <3>1 DEF c
  <2>3. QED  BY <2>2
<1>3. /\ wait' \in [Client -> Worker \cup {NoWorker}] /\ pos' \in [Client -> Nat]
      /\ \A d \in Client : d # c => wait'[d] = wait[d] /\ pos'[d] = pos[d]
      /\ wait[c] # w => wait'[c] = wait[c] /\ pos'[c] = pos[c]
      /\ wait[c] = w => wait'[c] = NoWorker /\ pos'[c] \in {pos[c], pos[c] + 1}
  BY <1>0, <1>1 DEF ClientsInv, clients
<1>4. ASSUME NEW d \in Client
      PROVE  /\ pos'[d] \in 1 .. Len(Backlog[d]) + 1
             /\ wait'[d] # NoWorker =>
                  req'[wait'[d]].batch = <<d, pos'[d]>> /\ pos'[d] \in DOMAIN Backlog[d]
  <2>1. CASE wait[d] # w
    <3>1. wait'[d] = wait[d] /\ pos'[d] = pos[d]
      BY <1>3, <2>1
    <3>2. wait[d] # NoWorker => req'[wait[d]] = req[wait[d]]
      BY <1>0, <2>1 DEF ClientsInv
    <3>3. QED  BY <1>0, <3>1, <3>2 DEF ClientsInv
  <2>2. CASE wait[d] = w
    <3>1. wait[d] # NoWorker
      BY <2>2, IngestAssumption DEF IngestAssumption
    <3>2. Backlog[d] \in Seq(Batch)
      BY IngestAssumption DEF IngestAssumption
    <3>3. pos[d] \in 1 .. Len(Backlog[d]) /\ Len(Backlog[d]) \in Nat
      BY <1>0, <3>1, <3>2 DEF ClientsInv
    <3>4. d = c  BY <1>2, <2>2
    <3>5. QED  BY <1>3, <2>2, <3>3, <3>4
  <2>3. QED  BY <2>1, <2>2
<1>5. ClientsInv'
  BY <1>3, <1>4 DEF ClientsInv
<1>6. QED  BY <1>0, <1>1, <1>5 DEF clients

-----------------------------------------------------------------------------
(* A chunk.  What ON CONFLICT DO NOTHING skips is in the table.            *)
LEMMA ChunkFacts ==
  ASSUME IInv, NEW w \in Worker, req[w].pc = "insert", req[w].at <= Len(BatchOf(w).samples)
  PROVE  /\ ChunkEnd(w) \in req[w].at .. Len(BatchOf(w).samples)
         /\ Chunk(w) \subseteq table \cup NewRows(w)
         /\ NewRows(w) \subseteq RowsOf(Readings(w)) \cap Reading
         /\ NewRows(w) \cap table = {}
         /\ \A r \in NewRows(w) : r.source = SourceOf(w)
         /\ IsFiniteSet(NewRows(w)) /\ IsFiniteSet(table \cup NewRows(w))
         /\ Cardinality(table \cup NewRows(w)) = Cardinality(table) + Cardinality(NewRows(w))
<1> DEFINE b == req[w].batch
           n == Len(Samples(b))
           at == req[w].at
<1>0. /\ b \in Known /\ b \in Index /\ n \in Nat \ {0} /\ at \in Nat \ {0} /\ at <= n
      /\ ChunkRows \in Nat \ {0} /\ FieldsOK /\ TableInv
      /\ BatchOf(w).samples = Samples(b) /\ Readings(w) = ReadingsOf(b) /\ SourceOf(w) = SourceOfBatch(b)
  BY IndexIsBatch, IngestAssumption DEF IInv, FieldsOK, Request, HandlersInv, HandlerOK,
     IngestAssumption, BatchOf, Samples, Readings, SourceOf, SourceOfBatch, Known
<1> HIDE DEF b, n, at
<1>1. ChunkEnd(w) \in at .. n
  BY <1>0 DEF ChunkEnd, n, at
<1>2. /\ \A i \in 1 .. n : /\ Readings(w)[i] \in Reading /\ Readings(w)[i] \in RowsOf(Readings(w))
                          /\ Readings(w)[i].source = SourceOf(w)
  BY <1>0, KnownReadings DEF n
<1>3. \A i \in at .. ChunkEnd(w) : i \in 1 .. n
  BY <1>0, <1>1
<1>4. /\ Chunk(w) \subseteq RowsOf(Readings(w)) \cap Reading
      /\ \A r \in Chunk(w) : r.source = SourceOf(w)
  BY <1>2, <1>3 DEF Chunk, at
<1>5. ASSUME NEW r \in Chunk(w), r \notin NewRows(w)  PROVE r \in table
  <2>1. PICK q \in table : KeyOf(q) = KeyOf(r)
    BY <1>5 DEF NewRows
  <2>2. PICK d \in Known : q \in RowsOf(ReadingsOf(d))
    BY <1>0 DEF TableInv
  <2>3. r \in RowsOf(ReadingsOf(b))
    BY <1>0, <1>4
  <2>4. q = r  BY <1>0, <2>1, <2>2, <2>3, SameKeySameReading
  <2>5. QED  BY <2>4
<1>6. NewRows(w) \subseteq Chunk(w) /\ NewRows(w) \cap table = {}
  BY DEF NewRows
<1>7. IsFiniteSet(Chunk(w))
  <2> DEFINE f == [i \in at .. ChunkEnd(w) |-> Readings(w)[i]]
  <2>1. f \in Surjection(at .. ChunkEnd(w), Chunk(w))
    BY DEF Surjection, Chunk, at
  <2>2. IsFiniteSet(at .. ChunkEnd(w))
    BY <1>0, <1>1, FS_Interval
  <2>3. QED  BY <2>1, <2>2, FS_Surjection
<1>8. IsFiniteSet(NewRows(w)) /\ IsFiniteSet(table)
  BY <1>0, <1>6, <1>7, FS_Subset DEF FieldsOK
<1>9. /\ IsFiniteSet(table \cup NewRows(w))
      /\ Cardinality(table \cup NewRows(w)) = Cardinality(table) + Cardinality(NewRows(w))
  <2>1. table \cap NewRows(w) = {}  BY <1>6
  <2>2. Cardinality(table \cap NewRows(w)) = 0  BY <2>1, FS_EmptySet
  <2>3. Cardinality(table) \in Nat /\ Cardinality(NewRows(w)) \in Nat
    BY <1>8, FS_CardinalityType
  <2>4. /\ IsFiniteSet(table \cup NewRows(w))
        /\ Cardinality(table \cup NewRows(w)) =
             Cardinality(table) + Cardinality(NewRows(w)) - Cardinality(table \cap NewRows(w))
    BY <1>8, FS_Union
  <2>5. QED  BY <2>2, <2>3, <2>4
<1>10. QED  BY <1>0, <1>1, <1>4, <1>5, <1>6, <1>8, <1>9 DEF n, at

LEMMA TableGrows ==
  ASSUME IInv, NEW w \in Worker, req[w].batch \in Known,
         table' \in {table, table \cup NewRows(w)}, NewRows(w) \subseteq RowsOf(Readings(w))
  PROVE  TableInv'
BY DEF IInv, TableInv, Readings

(* acked keeps its promise while the table and checked grow.               *)
LEMMA AckedKeeps ==
  ASSUME IInv, table \subseteq table', checked \subseteq checked', acked' = acked
  PROVE  AckedInv'
BY DEF IInv, AckedInv, AckedHandled, Handled

-----------------------------------------------------------------------------
(* The steps.  A handler that goes on keeps its batch, and its client.     *)
LEMMA ClientsKeep ==
  ASSUME IInv, NEW w \in Worker, NEW new \in Request, req' = [req EXCEPT ![w] = new],
         new.batch = req[w].batch, UNCHANGED clients
  PROVE  ClientsInv'
<1>1. req \in [Worker -> Request] /\ ClientsInv
  BY DEF IInv, FieldsOK
<1>2. \A v \in Worker : req'[v].batch = req[v].batch
  BY <1>1
<1>3. \A c \in Client : wait[c] # NoWorker => wait[c] \in Worker
  BY <1>1 DEF ClientsInv
<1>4. QED  BY <1>1, <1>2, <1>3 DEF ClientsInv, clients

(* A handler that ends leaves the others as they are.                      *)
LEMMA HandlerEnds ==
  ASSUME IInv, NEW w \in Worker, req[w].pc # "idle",
         NEW status \in {200, 400, 401, 500}, Reply(w, status),
         table \subseteq table', IsFiniteSet(table'), checked \subseteq checked'
  PROVE  /\ HandlersInv' /\ req' \in [Worker -> Request] /\ ClientsInv'
         /\ acked' = acked \/ (status = 200 /\ acked' = acked \cup {req[w].batch})
<1>1. Idle \in Request /\ HandlerOK(Idle)'
  BY FS_CardinalityType DEF HandlerOK, Idle, Request
<1>2. QED  BY <1>1, ReplyStep, HandlersMove

(* Nothing is done more often than its bound allows.                       *)
LEMMA SpendStep ==
  ASSUME FieldsOK
  PROVE  LET Bounds == [failures : 0..MaxFailures, timeouts : 0..MaxTimeouts, restarts : 0..MaxRestarts]
         IN /\ bounds.failures < MaxFailures /\ Spend("failures") => bounds' \in Bounds
            /\ bounds.timeouts < MaxTimeouts /\ Spend("timeouts") => bounds' \in Bounds
            /\ bounds.restarts < MaxRestarts /\ Spend("restarts") => bounds' \in Bounds
<1>1. MaxFailures \in Nat /\ MaxTimeouts \in Nat /\ MaxRestarts \in Nat
  BY IngestAssumption DEF IngestAssumption
<1>2. bounds \in [failures : 0..MaxFailures, timeouts : 0..MaxTimeouts, restarts : 0..MaxRestarts]
  BY DEF FieldsOK
<1>3. bounds.failures < MaxFailures => bounds.failures + 1 \in 0..MaxFailures
  BY <1>1, <1>2
<1>4. bounds.timeouts < MaxTimeouts => bounds.timeouts + 1 \in 0..MaxTimeouts
  BY <1>1, <1>2
<1>5. bounds.restarts < MaxRestarts => bounds.restarts + 1 \in 0..MaxRestarts
  BY <1>1, <1>2
<1>6. QED  BY <1>2, <1>3, <1>4, <1>5 DEF Spend

LEMMA SendStep ==
  ASSUME IInv, NEW c \in Client, NEW w \in Worker, Send(c, w)
  PROVE  IInv'
<1>0. PICK new : new = [Idle EXCEPT !.pc = "validate", !.batch = <<c, pos[c]>>]
  OBVIOUS
<1>1. /\ FieldsOK /\ ClientsInv /\ HandlersInv /\ TableInv /\ AckedInv
      /\ req[w] = Idle /\ pos[c] \in Nat /\ <<c, pos[c]>> \in Index
      /\ req' = [req EXCEPT ![w] = new] /\ wait' = [wait EXCEPT ![c] = w] /\ pos' = pos
  BY <1>0 DEF IInv, Send, HandlersInv, HandlerOK, ClientsInv, Index
<1>2. new = [pc |-> "validate", batch |-> <<c, pos[c]>>, at |-> 1, inserted |-> 0]
  <2>1. [Idle EXCEPT !.pc = "validate"] = [pc |-> "validate", batch |-> <<>>, at |-> 1, inserted |-> 0]
    BY DEF Idle
  <2>2. new = [[Idle EXCEPT !.pc = "validate"] EXCEPT !.batch = <<c, pos[c]>>]
    BY <1>0
  <2>3. QED  BY <2>1, <2>2
<1>3. new \in Request
  BY <1>1, <1>2 DEF Request
<1>4. IsFiniteSet(table') /\ table' = table /\ checked' = checked /\ acked' = acked
  BY <1>1 DEF FieldsOK, Send, alerter
<1>5. HandlerOK(new)'
  <2>1. Cardinality(table') \in Nat  BY <1>4, FS_CardinalityType
  <2>2. Len(Samples(new.batch)) \in Nat /\ new.batch \in Index
    BY <1>1, <1>2, IndexIsBatch
  <2>3. QED  BY <1>2, <2>1, <2>2 DEF HandlerOK
<1>6. HandlersInv' /\ req' \in [Worker -> Request]
  BY <1>1, <1>3, <1>4, <1>5, HandlersMove
<1>7. ClientsInv'
  <2>1. \A d \in Client : wait[d] # w
    <3>1. ASSUME NEW d \in Client, wait[d] = w  PROVE FALSE
      <4>1. req[w].batch = <<d, pos[d]>>
        BY <1>1, <3>1, IngestAssumption DEF ClientsInv, IngestAssumption
      <4>2. QED  BY <1>1, <4>1 DEF Idle
    <3>2. QED  BY <3>1
  <2>2. wait' \in [Client -> Worker \cup {NoWorker}] /\ pos' \in [Client -> Nat]
    BY <1>1 DEF ClientsInv
  <2>3. ASSUME NEW d \in Client
        PROVE  /\ pos'[d] \in 1 .. Len(Backlog[d]) + 1
               /\ wait'[d] # NoWorker =>
                    req'[wait'[d]].batch = <<d, pos'[d]>> /\ pos'[d] \in DOMAIN Backlog[d]
    <3>1. CASE d = c
      <4>1. wait'[d] = w /\ req'[w].batch = <<c, pos[c]>> /\ pos[c] \in DOMAIN Backlog[c]
        BY <1>1, <1>2, <3>1 DEF ClientsInv, FieldsOK, Send
      <4>2. QED  BY <1>1, <3>1, <4>1 DEF ClientsInv
    <3>2. CASE d # c
      <4>1. wait'[d] = wait[d]  BY <1>1, <3>2 DEF ClientsInv
      <4>2. wait[d] # NoWorker => wait[d] \in Worker /\ wait[d] # w
        BY <1>1, <2>1 DEF ClientsInv
      <4>3. wait[d] # NoWorker => req'[wait[d]] = req[wait[d]]
        BY <1>1, <4>2 DEF FieldsOK
      <4>4. QED  BY <1>1, <4>1, <4>3 DEF ClientsInv
    <3>3. QED  BY <3>1, <3>2
  <2>4. QED  BY <2>2, <2>3 DEF ClientsInv
<1>8. FieldsOK'
  BY <1>1, <1>6 DEF FieldsOK, Send, tracker, alerter
<1>9. TableInv' /\ AckedInv'
  BY <1>1, <1>4 DEF TableInv, AckedInv, AckedHandled, Handled
<1>10. QED  BY <1>6, <1>7, <1>8, <1>9 DEF IInv

LEMMA TimeoutStep ==
  ASSUME IInv, NEW c \in Client, Timeout(c)
  PROVE  IInv'
<1>1. /\ FieldsOK /\ ClientsInv /\ HandlersInv /\ TableInv /\ AckedInv
      /\ UNCHANGED <<table, rows, uncounted, alarm, events, checked, req, acked, base, report>>
      /\ pos[c] \in Nat /\ pos[c] \in DOMAIN Backlog[c] /\ Backlog[c] \in Seq(Batch)
      /\ wait' = [wait EXCEPT ![c] = NoWorker]
      /\ pos' = [pos EXCEPT ![c] = IF Retries[c] THEN @ ELSE @ + 1]
  BY IngestAssumption DEF IInv, Timeout, ClientsInv, tracker, alerter, IngestAssumption, NoAnswer
<1>2. bounds' \in [failures : 0..MaxFailures, timeouts : 0..MaxTimeouts, restarts : 0..MaxRestarts]
  BY SpendStep DEF IInv, FieldsOK, Timeout
<1>3. ClientsInv'
  <2>1. pos[c] \in 1 .. Len(Backlog[c]) /\ Len(Backlog[c]) \in Nat
    BY <1>1
  <2>2. wait' \in [Client -> Worker \cup {NoWorker}] /\ pos' \in [Client -> Nat]
    BY <1>1 DEF ClientsInv
  <2>3. wait'[c] = NoWorker /\ pos'[c] \in {pos[c], pos[c] + 1}
    BY <1>1 DEF ClientsInv
  <2>4. pos'[c] \in 1 .. Len(Backlog[c]) + 1
    BY <2>1, <2>3
  <2>5. \A d \in Client : d # c => wait'[d] = wait[d] /\ pos'[d] = pos[d]
    BY <1>1 DEF ClientsInv
  <2>6. QED  BY <1>1, <2>2, <2>3, <2>4, <2>5 DEF ClientsInv
<1>4. QED  BY <1>1, <1>2, <1>3 DEF IInv, FieldsOK, HandlersInv, HandlerOK, TableInv, AckedInv, AckedHandled, Handled


LEMMA ValidateStep ==
  ASSUME IInv, NEW w \in Worker, Validate(w)
  PROVE  IInv'
<1>1. /\ FieldsOK /\ ClientsInv /\ HandlersInv /\ TableInv /\ AckedInv /\ req[w].pc = "validate"
      /\ UNCHANGED <<table, rows, uncounted, alarm, events, checked, base, report, bounds>>
      /\ IsFiniteSet(table') /\ req[w] \in Request /\ HandlerOK(req[w])
  BY DEF IInv, FieldsOK, HandlersInv, Validate, tracker, alerter
<1>2. req[w].batch \in Index /\ req[w].at = 1 /\ req[w].inserted = 0
  BY <1>1 DEF HandlerOK
<1>3. HandlersInv' /\ req' \in [Worker -> Request] /\ ClientsInv' /\ acked' = acked
  <2>1. ASSUME NEW status \in {400, 401}, Reply(w, status)
        PROVE  HandlersInv' /\ req' \in [Worker -> Request] /\ ClientsInv' /\ acked' = acked
    BY <1>1, <2>1, HandlerEnds
  <2>2. CASE /\ Authenticated(w) /\ req' = [req EXCEPT ![w].pc = "insert"]
             /\ UNCHANGED clients
    <3>1. PICK new : new = [pc |-> "insert", batch |-> req[w].batch, at |-> 1, inserted |-> 0]
      OBVIOUS
    <3>2. new \in Request /\ new.batch = req[w].batch
      BY <1>2, <3>1 DEF Request
    <3>3. [req[w] EXCEPT !.pc = "insert"] = new
      BY <1>1, <1>2, <3>1 DEF Request
    <3>4. req' = [req EXCEPT ![w] = new]
      BY <1>1, <2>2, <3>3 DEF FieldsOK
    <3>5. req[w].batch \in Known
      <4>1. req[w].batch[2] \in DOMAIN Backlog[req[w].batch[1]]
        BY <1>2 DEF Index
      <4>2. QED  BY <1>2, <2>2, <4>1 DEF Known, Authorized, Authenticated, BatchOf
    <3>6. HandlerOK(new)'
      <4>1. Cardinality(table') \in Nat  BY <1>1, FS_CardinalityType
      <4>2. Len(Samples(new.batch)) \in Nat
        BY <1>2, <3>1, IndexIsBatch
      <4>3. QED  BY <1>2, <3>1, <3>5, <4>1, <4>2 DEF HandlerOK
    <3>7. QED  BY <1>1, <2>2, <3>2, <3>4, <3>6, HandlersMove, ClientsKeep DEF clients
  <2>3. QED  BY <2>1, <2>2 DEF Validate
<1>4. FieldsOK' /\ TableInv' /\ AckedInv'
  BY <1>1, <1>3 DEF FieldsOK, TableInv, AckedInv, AckedHandled, Handled
<1>5. QED  BY <1>3, <1>4 DEF IInv

LEMMA InsertChunkStep ==
  ASSUME IInv, NEW w \in Worker, InsertChunk(w)
  PROVE  IInv'
<1> DEFINE b == req[w].batch
           k == Cardinality(NewRows(w))
<1>1. /\ FieldsOK /\ ClientsInv /\ HandlersInv /\ TableInv /\ AckedInv
      /\ req[w].pc = "insert" /\ req[w].at <= Len(BatchOf(w).samples)
      /\ UNCHANGED <<rows, uncounted, alarm, events, checked, base, report, bounds, clients>>
      /\ table' = table \cup NewRows(w) /\ req[w] \in Request /\ HandlerOK(req[w])
      /\ req' = [req EXCEPT ![w].at = ChunkEnd(w) + 1, ![w].inserted = @ + k]
  BY DEF IInv, FieldsOK, HandlersInv, InsertChunk, tracker, alerter, RowsAffected
<1>2. /\ b \in Known /\ b \in Index /\ BatchOf(w).samples = Samples(b) /\ Readings(w) = ReadingsOf(b)
      /\ Len(Samples(b)) \in Nat /\ req[w].at \in Nat \ {0} /\ req[w].inserted \in Nat
      /\ req[w].inserted <= Cardinality(table)
  BY <1>1, IndexIsBatch DEF HandlerOK, Request, Known, BatchOf, Samples, Readings
<1>3. /\ ChunkEnd(w) \in req[w].at .. Len(Samples(b))
      /\ Chunk(w) \subseteq table'
      /\ NewRows(w) \subseteq RowsOf(Readings(w)) \cap Reading
      /\ IsFiniteSet(NewRows(w)) /\ IsFiniteSet(table')
      /\ Cardinality(table') = Cardinality(table) + k
  BY <1>1, <1>2, ChunkFacts
<1>4. k \in Nat /\ Cardinality(table) \in Nat
  BY <1>1, <1>3, FS_CardinalityType DEF FieldsOK
<1>5. PICK new : new = [pc |-> "insert", batch |-> b, at |-> ChunkEnd(w) + 1, inserted |-> req[w].inserted + k]
  OBVIOUS
<1>6. /\ new \in Request /\ new.batch = req[w].batch
      /\ req' = [req EXCEPT ![w] = new]
  <2>1. ChunkEnd(w) + 1 \in Nat \ {0} /\ req[w].inserted + k \in Nat
    BY <1>2, <1>3, <1>4
  <2>2. new \in Request /\ new.batch = req[w].batch
    BY <1>2, <1>5, <2>1 DEF Request
  <2>3. [[req[w] EXCEPT !.at = ChunkEnd(w) + 1] EXCEPT !.inserted = @ + k] = new
    <3> HIDE DEF k
    <3>1. req[w] = [pc |-> "insert", batch |-> b, at |-> req[w].at, inserted |-> req[w].inserted]
      BY <1>1 DEF Request
    <3>2. [req[w] EXCEPT !.at = ChunkEnd(w) + 1] =
            [pc |-> "insert", batch |-> b, at |-> ChunkEnd(w) + 1, inserted |-> req[w].inserted]
      BY <3>1
    <3>3. [[pc |-> "insert", batch |-> b, at |-> ChunkEnd(w) + 1, inserted |-> req[w].inserted]
             EXCEPT !.inserted = @ + k] = new
      BY <1>5
    <3>4. QED  BY <3>2, <3>3
  <2>4. req' = [req EXCEPT ![w] = [[req[w] EXCEPT !.at = ChunkEnd(w) + 1] EXCEPT !.inserted = @ + k]]
    BY <1>1 DEF FieldsOK
  <2>5. QED  BY <2>2, <2>3, <2>4
<1>7. HandlerOK(new)'
  <2>1. new.inserted <= Cardinality(table')
    BY <1>2, <1>3, <1>4, <1>5
  <2>2. new.at <= Len(Samples(b)) + 1
    BY <1>2, <1>3, <1>5
  <2>3. ASSUME NEW i \in 1 .. Len(Samples(b)), i < new.at
        PROVE  ReadingsOf(b)[i] \in table'
    <3>1. CASE i < req[w].at
      BY <1>1, <1>2, <3>1 DEF HandlerOK
    <3>2. CASE ~(i < req[w].at)
      <4>1. i \in req[w].at .. ChunkEnd(w)
        BY <1>2, <1>3, <1>5, <2>3, <3>2
      <4>2. ReadingsOf(b)[i] \in Chunk(w)
        BY <1>2, <4>1 DEF Chunk
      <4>3. QED  BY <1>3, <4>2
    <3>3. QED  BY <3>1, <3>2
  <2> HIDE DEF b, k
  <2>4. new.pc = "insert" /\ new.batch = b  BY <1>5
  <2>5. QED  BY <1>2, <2>1, <2>2, <2>3, <2>4 DEF HandlerOK
<1>8. HandlersInv' /\ req' \in [Worker -> Request] /\ ClientsInv'
  <2>1. table \subseteq table' /\ checked \subseteq checked' /\ UNCHANGED clients
    BY <1>1
  <2>2. QED  BY <1>3, <1>6, <1>7, <2>1, HandlersMove, ClientsKeep
<1>9. FieldsOK'
  BY <1>1, <1>3, <1>8 DEF FieldsOK
<1>10. TableInv' /\ AckedInv'
  BY <1>1, <1>2, <1>3, TableGrows, AckedKeeps DEF clients
<1>11. QED  BY <1>8, <1>9, <1>10 DEF IInv

LEMMA SourceKnown ==
  ASSUME NEW w \in Worker, req[w].batch \in Known
  PROVE  SourceOf(w) \in Source /\ SourceForToken(BatchOf(w).token) = {SourceOf(w)}
BY KnownReadings DEF SourceOf, SourceOfBatch, BatchOf

LEMMA AddTo ==
  ASSUME NEW f \in [Source -> Nat], NEW s \in Source, NEW n \in Nat
  PROVE  [f EXCEPT ![s] = @ + n] \in [Source -> Nat]
OBVIOUS

LEMMA InsertFailsStep ==
  ASSUME IInv, NEW w \in Worker, InsertFails(w)
  PROVE  IInv'
<1>1. /\ FieldsOK /\ HandlersInv /\ TableInv /\ AckedInv
      /\ req[w].pc = "insert" /\ req[w].at <= Len(BatchOf(w).samples)
      /\ UNCHANGED <<rows, alarm, events, checked, base, report>>
      /\ Reply(w, 500) /\ req[w] \in Request /\ HandlerOK(req[w])
      /\ bounds.failures < MaxFailures /\ Spend("failures")
  BY DEF IInv, FieldsOK, HandlersInv, InsertFails, alerter, InternalServerError
<1>2. PICK new \in {{}, NewRows(w)} :
        /\ table' = table \cup new
        /\ uncounted' = [uncounted EXCEPT ![SourceOf(w)] = @ + req[w].inserted + Cardinality(new)]
  BY DEF InsertFails
<1>3. /\ NewRows(w) \subseteq RowsOf(Readings(w)) \cap Reading
      /\ IsFiniteSet(NewRows(w)) /\ IsFiniteSet(table \cup NewRows(w)) /\ req[w].batch \in Known
  BY <1>1, ChunkFacts DEF HandlerOK
<1>4. /\ table' \in {table, table \cup NewRows(w)} /\ IsFiniteSet(table') /\ table \subseteq table'
      /\ table' \subseteq Reading
  BY <1>1, <1>2, <1>3 DEF FieldsOK
<1>5. HandlersInv' /\ req' \in [Worker -> Request] /\ ClientsInv' /\ acked' = acked
  BY <1>1, <1>4, HandlerEnds
<1>6. uncounted' \in [Source -> Nat]
  <2>1. Cardinality(new) \in Nat
    BY <1>3, FS_EmptySet, FS_CardinalityType
  <2>2. req[w].inserted \in Nat /\ uncounted \in [Source -> Nat] /\ SourceOf(w) \in Source
    BY <1>1, <1>3, SourceKnown DEF Request, FieldsOK
  <2>3. uncounted[SourceOf(w)] + req[w].inserted + Cardinality(new) \in Nat
    BY <2>1, <2>2
  <2>4. QED  BY <1>2, <2>2, <2>3
<1>7. bounds' \in [failures : 0..MaxFailures, timeouts : 0..MaxTimeouts, restarts : 0..MaxRestarts]
  BY <1>1, SpendStep
<1>8. FieldsOK'
  BY <1>1, <1>4, <1>5, <1>6, <1>7 DEF FieldsOK
<1>9. TableInv' /\ AckedInv'
  BY <1>1, <1>3, <1>4, <1>5, TableGrows, AckedKeeps
<1>10. QED  BY <1>5, <1>8, <1>9 DEF IInv

LEMMA RecordIngestStep ==
  ASSUME IInv, NEW w \in Worker, RecordIngest(w)
  PROVE  IInv'
<1> DEFINE b == req[w].batch
<1>1. /\ FieldsOK /\ HandlersInv /\ TableInv /\ AckedInv
      /\ req[w].pc = "insert" /\ req[w].at > Len(BatchOf(w).samples)
      /\ UNCHANGED <<table, uncounted, alarm, events, checked, base, report, bounds, clients>>
      /\ req[w] \in Request /\ HandlerOK(req[w]) /\ IsFiniteSet(table')
      /\ rows' = [rows EXCEPT ![SourceOf(w)] = @ + req[w].inserted]
      /\ req' = [req EXCEPT ![w].pc = "check", ![w].at = 1, ![w].inserted = 0]
  BY DEF IInv, FieldsOK, HandlersInv, RecordIngest, alerter, FirstToCheck
<1>2. /\ b \in Known /\ b \in Index /\ BatchOf(w).samples = Samples(b)
      /\ Len(Samples(b)) \in Nat /\ req[w].at \in Nat /\ req[w].inserted \in Nat
  BY <1>1, IndexIsBatch DEF HandlerOK, Request, Known, BatchOf, Samples
<1>3. PICK new : new = [pc |-> "check", batch |-> b, at |-> 1, inserted |-> 0]
  OBVIOUS
<1>4. /\ new \in Request /\ new.batch = req[w].batch
      /\ req' = [req EXCEPT ![w] = new]
  <2>1. new \in Request /\ new.batch = req[w].batch
    BY <1>2, <1>3 DEF Request
  <2>2. [[[req[w] EXCEPT !.pc = "check"] EXCEPT !.at = 1] EXCEPT !.inserted = 0] = new
    <3>1. [req[w] EXCEPT !.pc = "check"] =
            [pc |-> "check", batch |-> b, at |-> req[w].at, inserted |-> req[w].inserted]
      BY <1>1 DEF Request
    <3>2. [[pc |-> "check", batch |-> b, at |-> req[w].at, inserted |-> req[w].inserted] EXCEPT !.at = 1]
            = [pc |-> "check", batch |-> b, at |-> 1, inserted |-> req[w].inserted]
      OBVIOUS
    <3>3. [[pc |-> "check", batch |-> b, at |-> 1, inserted |-> req[w].inserted] EXCEPT !.inserted = 0] = new
      BY <1>3
    <3>4. QED  BY <3>1, <3>2, <3>3
  <2>3. req' = [req EXCEPT ![w] = [[[req[w] EXCEPT !.pc = "check"] EXCEPT !.at = 1] EXCEPT !.inserted = 0]]
    BY <1>1 DEF FieldsOK
  <2>4. QED  BY <2>1, <2>2, <2>3
<1>5. HandlerOK(new)'
  <2>1. Cardinality(table') \in Nat  BY <1>1, FS_CardinalityType
  <2>2. \A i \in 1 .. Len(Samples(b)) : i < req[w].at
    BY <1>1, <1>2
  <2>3. \A i \in 1 .. Len(Samples(b)) : ReadingsOf(b)[i] \in table'
    BY <1>1, <2>2 DEF HandlerOK
  <2> HIDE DEF b
  <2>4. QED  BY <1>2, <1>3, <2>1, <2>3 DEF HandlerOK
<1>6. HandlersInv' /\ req' \in [Worker -> Request] /\ ClientsInv'
  BY <1>1, <1>4, <1>5, HandlersMove, ClientsKeep
<1>7. rows' \in [Source -> Nat]
  BY <1>1, <1>2, SourceKnown, AddTo DEF FieldsOK
<1>8. FieldsOK' /\ TableInv' /\ AckedInv'
  BY <1>1, <1>6, <1>7, AckedKeeps DEF FieldsOK, TableInv, clients
<1>9. QED  BY <1>6, <1>8 DEF IInv

LEMMA CheckReadingStep ==
  ASSUME IInv, NEW w \in Worker, CheckReading(w)
  PROVE  IInv'
<1> DEFINE b == req[w].batch
           r == ReadingsOf(b)[req[w].at]
<1>1. /\ FieldsOK /\ HandlersInv /\ TableInv /\ AckedInv
      /\ req[w].pc = "check" /\ req[w].at <= Len(BatchOf(w).samples)
      /\ UNCHANGED <<table, rows, uncounted, base, report, bounds, clients>>
      /\ req[w] \in Request /\ HandlerOK(req[w]) /\ IsFiniteSet(table')
      /\ checked' = checked \cup {r}
      /\ alarm' = [alarm EXCEPT ![r.metric] = r.high]
      /\ events' = [events EXCEPT ![r.metric] = IF alarm[r.metric] = r.high THEN @ ELSE @ + 1]
      /\ req' = [req EXCEPT ![w].at = @ + 1]
  BY DEF IInv, FieldsOK, HandlersInv, CheckReading, tracker, Readings
<1>2. /\ b \in Known /\ b \in Index /\ BatchOf(w).samples = Samples(b)
      /\ Len(Samples(b)) \in Nat /\ req[w].at \in Nat \ {0} /\ req[w].inserted = 0
  BY <1>1, IndexIsBatch DEF HandlerOK, Request, Known, BatchOf, Samples
<1>3. req[w].at \in 1 .. Len(Samples(b))
  BY <1>1, <1>2
<1>4. r \in table /\ r \in Reading
  BY <1>1, <1>2, <1>3, KnownReadings DEF HandlerOK
<1>5. PICK new : new = [pc |-> "check", batch |-> b, at |-> req[w].at + 1, inserted |-> 0]
  OBVIOUS
<1>6. /\ new \in Request /\ new.batch = req[w].batch
      /\ req' = [req EXCEPT ![w] = new]
  <2>1. new \in Request /\ new.batch = req[w].batch
    BY <1>2, <1>5 DEF Request
  <2>2. [req[w] EXCEPT !.at = req[w].at + 1] = new
    BY <1>1, <1>2, <1>5 DEF Request
  <2>3. req' = [req EXCEPT ![w] = [req[w] EXCEPT !.at = req[w].at + 1]]
    BY <1>1 DEF FieldsOK
  <2>4. QED  BY <2>1, <2>2, <2>3
<1>7. HandlerOK(new)'
  <2>1. Cardinality(table') \in Nat  BY <1>1, FS_CardinalityType
  <2>2. \A i \in 1 .. Len(Samples(b)) : ReadingsOf(b)[i] \in table'
    BY <1>1 DEF HandlerOK
  <2>3. ASSUME NEW i \in 1 .. Len(Samples(b)), i < new.at
        PROVE  ReadingsOf(b)[i] \in checked'
    <3>1. CASE i < req[w].at
      BY <1>1, <3>1 DEF HandlerOK
    <3>2. CASE i = req[w].at
      BY <1>1, <3>2
    <3>3. QED  BY <1>2, <1>5, <2>3, <3>1, <3>2
  <2>4. new.at <= Len(Samples(b)) + 1
    BY <1>3, <1>2, <1>5
  <2> HIDE DEF b
  <2>5. new.pc = "check" /\ new.batch = b /\ new.inserted = 0  BY <1>5
  <2>6. QED  BY <1>2, <2>1, <2>2, <2>3, <2>4, <2>5 DEF HandlerOK
<1>8. HandlersInv' /\ req' \in [Worker -> Request] /\ ClientsInv'
  BY <1>1, <1>6, <1>7, HandlersMove, ClientsKeep
<1>9. alarm' \in [Metric -> BOOLEAN] /\ events' \in [Metric -> Nat] /\ checked' \subseteq table'
  <2> HIDE DEF r
  <2>1. r.metric \in Metric /\ r.high \in BOOLEAN
    BY <1>4 DEF Reading
  <2>2. QED  BY <1>1, <1>4, <2>1 DEF FieldsOK
<1>10. FieldsOK' /\ TableInv' /\ AckedInv'
  BY <1>1, <1>8, <1>9, AckedKeeps DEF FieldsOK, TableInv, clients
<1>11. QED  BY <1>8, <1>10 DEF IInv

LEMMA RespondStep ==
  ASSUME IInv, NEW w \in Worker, Respond(w)
  PROVE  IInv'
<1> DEFINE b == req[w].batch
<1>1. /\ FieldsOK /\ HandlersInv /\ TableInv /\ AckedInv
      /\ req[w].pc = "check" /\ req[w].at > Len(BatchOf(w).samples)
      /\ UNCHANGED <<table, rows, uncounted, alarm, events, checked, base, report, bounds>>
      /\ req[w] \in Request /\ HandlerOK(req[w]) /\ IsFiniteSet(table') /\ Reply(w, 200)
  BY DEF IInv, FieldsOK, HandlersInv, Respond, tracker, alerter
<1>2. HandlersInv' /\ req' \in [Worker -> Request] /\ ClientsInv' /\ acked' \in {acked, acked \cup {b}}
  BY <1>1, HandlerEnds
<1>3. /\ b \in Known /\ BatchOf(w).samples = Samples(b)
      /\ Len(Samples(b)) \in Nat /\ req[w].at \in Nat
  BY <1>1, IndexIsBatch DEF HandlerOK, Request, Known, BatchOf, Samples
<1>4. RowsOf(ReadingsOf(b)) \subseteq table \cap checked
  <2>1. \A i \in 1 .. Len(Samples(b)) : i < req[w].at
    BY <1>1, <1>3
  <2>2. \A i \in 1 .. Len(Samples(b)) : ReadingsOf(b)[i] \in table \cap checked
    BY <1>1, <2>1 DEF HandlerOK
  <2>3. QED  BY <1>3, <2>2, KnownReadings
<1>5. FieldsOK' /\ TableInv' /\ AckedInv'
  BY <1>1, <1>2, <1>3, <1>4 DEF FieldsOK, TableInv, AckedInv, AckedHandled, Handled
<1>6. QED  BY <1>2, <1>5 DEF IInv

LEMMA MetricsStep ==
  ASSUME IInv, Snapshot \/ TotalRows \/ SourceLastSeen \/ MetricsQueryFails
  PROVE  IInv'
<1>1. /\ FieldsOK /\ HandlersInv /\ ClientsInv /\ TableInv /\ AckedInv
      /\ UNCHANGED <<table, rows, uncounted, alarm, events, checked, req, pos, wait, acked, base>>
  BY DEF IInv, Snapshot, TotalRows, SourceLastSeen, MetricsQueryFails, tracker, alerter, clients
<1>2. report' \in [pc : {"idle", "count", "last"}, rows : [Source -> Nat]]
  BY <1>1 DEF FieldsOK, Snapshot, TotalRows, SourceLastSeen, MetricsQueryFails, NoReport, Zero
<1>3. bounds' \in [failures : 0..MaxFailures, timeouts : 0..MaxTimeouts, restarts : 0..MaxRestarts]
  <2>1. CASE Snapshot \/ TotalRows \/ SourceLastSeen
    BY <1>1, <2>1 DEF FieldsOK, Snapshot, TotalRows, SourceLastSeen
  <2>2. CASE MetricsQueryFails
    BY <1>1, <2>2, SpendStep DEF MetricsQueryFails
  <2>3. QED  BY <2>1, <2>2
<1>4. FieldsOK' /\ HandlersInv' /\ ClientsInv' /\ TableInv' /\ AckedInv'
  BY <1>1, <1>2, <1>3 DEF FieldsOK, HandlersInv, HandlerOK, ClientsInv, TableInv, AckedInv, AckedHandled, Handled
<1>5. QED  BY <1>4 DEF IInv

LEMMA RestartStep ==
  ASSUME IInv, Restart
  PROVE  IInv'
<1>1. /\ FieldsOK /\ HandlersInv /\ ClientsInv /\ TableInv /\ AckedInv
      /\ UNCHANGED <<table, checked, acked>>
      /\ rows' = Zero /\ uncounted' = Zero /\ base' = table /\ report' = NoReport
      /\ alarm' = [m \in Metric |-> FALSE] /\ events' = [m \in Metric |-> 0]
      /\ req' = [w \in Worker |-> Idle] /\ wait' = [c \in Client |-> NoWorker]
      /\ pos' = [c \in Client |-> IF wait[c] = NoWorker \/ Retries[c] THEN pos[c] ELSE pos[c] + 1]
      /\ IsFiniteSet(table')
  BY DEF IInv, FieldsOK, Restart
<1>2. Idle \in Request /\ HandlerOK(Idle)' /\ Zero \in [Source -> Nat]
  BY <1>1, FS_CardinalityType DEF HandlerOK, Idle, Request, Zero
<1>3. bounds' \in [failures : 0..MaxFailures, timeouts : 0..MaxTimeouts, restarts : 0..MaxRestarts]
  BY <1>1, SpendStep DEF Restart
<1>4. FieldsOK'
  BY <1>1, <1>2, <1>3 DEF FieldsOK, NoReport
<1>5. HandlersInv'
  BY <1>1, <1>2 DEF HandlersInv
<1>6. ClientsInv'
  <2>1. ASSUME NEW c \in Client  PROVE pos'[c] \in Nat /\ pos'[c] \in 1 .. Len(Backlog[c]) + 1
    <3>1. Backlog[c] \in Seq(Batch) /\ Len(Backlog[c]) \in Nat
      BY IngestAssumption DEF IngestAssumption
    <3>2. CASE pos'[c] = pos[c]
      BY <1>1, <3>2 DEF ClientsInv
    <3>3. CASE wait[c] # NoWorker /\ pos'[c] = pos[c] + 1
      <4>1. pos[c] \in 1 .. Len(Backlog[c])
        BY <1>1, <3>1, <3>3 DEF ClientsInv
      <4>2. QED  BY <3>1, <3>3, <4>1
    <3>4. QED  BY <1>1, <3>2, <3>3
  <2>2. QED  BY <1>1, <2>1 DEF ClientsInv
<1>7. TableInv' /\ AckedInv'
  BY <1>1 DEF TableInv, AckedInv, AckedHandled, Handled
<1>8. QED  BY <1>4, <1>5, <1>6, <1>7 DEF IInv

LEMMA IngestStep == IInv /\ [Next]_vars => IInv'
<1>1. SUFFICES ASSUME IInv, [Next]_vars  PROVE IInv'
  OBVIOUS
<1>2. CASE \E c \in Client, w \in Worker : Send(c, w)
  BY <1>1, <1>2, SendStep
<1>3. CASE \E c \in Client : Timeout(c)
  BY <1>1, <1>3, TimeoutStep
<1>4. CASE \E w \in Worker : Handle(w)
  <2>1. PICK w \in Worker : Handle(w)  BY <1>4
  <2>2. QED
    BY <1>1, <2>1, ValidateStep, InsertChunkStep, InsertFailsStep, RecordIngestStep,
       CheckReadingStep, RespondStep DEF Handle
<1>5. CASE Snapshot \/ TotalRows \/ SourceLastSeen \/ MetricsQueryFails
  BY <1>1, <1>5, MetricsStep
<1>6. CASE Restart
  BY <1>1, <1>6, RestartStep
<1>7. CASE UNCHANGED vars
  <2>1. UNCHANGED <<table, rows, uncounted, alarm, events, checked, req, pos, wait, acked, base, report, bounds>>
    BY <1>7 DEF vars, tracker, alerter, clients
  <2>2. QED
    BY <1>1, <2>1 DEF IInv, FieldsOK, HandlersInv, HandlerOK, ClientsInv, TableInv, AckedInv, AckedHandled, Handled
<1>8. QED  BY <1>1, <1>2, <1>3, <1>4, <1>5, <1>6, <1>7 DEF Next

(* IInv holds of every behaviour.                                          *)
THEOREM IngestInvariant == Spec => []IInv
<1>1. Init => IInv  BY IngestInit
<1>2. IInv /\ [Next]_vars => IInv'  BY IngestStep
<1>3. QED  BY <1>1, <1>2, PTL DEF Spec

(* api/ingest.go, metricsx.go, ops.go: TypeOK, every state has the expected *)
(* types, and a client waits only for a handler that has its batch.         *)
THEOREM IngestTypeCorrect == Spec => []TypeOK
<1>1. IInv => TypeOK
  <2> SUFFICES ASSUME IInv  PROVE TypeOK
    OBVIOUS
  <2>1. FieldsOK /\ HandlersInv /\ ClientsInv
    BY DEF IInv
  <2>2. ASSUME NEW w \in Worker
        PROVE  /\ req[w].pc \in {"idle", "validate", "insert", "check"}
               /\ req[w].pc # "idle" => req[w].at \in 1 .. Len(BatchOf(w).samples) + 1
               /\ req[w].inserted \in 0 .. Cardinality(table)
    <3>1. req[w] \in Request /\ HandlerOK(req[w])
      BY <2>1 DEF FieldsOK, HandlersInv
    <3>2. req[w].pc \in {"idle", "validate", "insert", "check"} /\ req[w].inserted \in Nat /\ req[w].at \in Nat \ {0}
      BY <3>1 DEF Request
    <3>3. Cardinality(table) \in Nat
      BY <2>1, FS_CardinalityType DEF FieldsOK
    <3>4. ASSUME req[w].pc # "idle"  PROVE req[w].at \in 1 .. Len(BatchOf(w).samples) + 1
      <4>1. /\ req[w].batch \in Index /\ req[w].at <= Len(Samples(req[w].batch)) + 1
            /\ BatchOf(w).samples = Samples(req[w].batch)
        BY <3>1, <3>4 DEF HandlerOK, BatchOf, Samples
      <4>2. Len(Samples(req[w].batch)) \in Nat
        BY <4>1, IndexIsBatch
      <4>3. QED  BY <3>2, <4>1, <4>2
    <3>5. req[w].inserted <= Cardinality(table)
      BY <3>1 DEF HandlerOK
    <3>6. QED  BY <3>2, <3>3, <3>4, <3>5
  <2>3. {rows, uncounted, report.rows} \subseteq [Source -> Nat] /\ report.pc \in {"idle", "count", "last"}
    BY <2>1 DEF FieldsOK
  <2>4. bounds.failures \in 0..MaxFailures /\ bounds.timeouts \in 0..MaxTimeouts /\ bounds.restarts \in 0..MaxRestarts
    BY <2>1 DEF FieldsOK
  <2>5. QED  BY <2>1, <2>2, <2>3, <2>4 DEF TypeOK, FieldsOK, ClientsInv
<1>2. QED  BY <1>1, IngestInvariant, PTL

(* ingest.go:34-36: OwnSourceOnly, a token writes no source but its own,    *)
(* whatever tokens are configured and whatever sources batches name.        *)
THEOREM TokensWriteTheirSource == Spec => []OwnSourceOnly
<1>1. IInv => OwnSourceOnly
  <2> SUFFICES ASSUME IInv, NEW r \in table
               PROVE  \E c \in Client : \E i \in DOMAIN Backlog[c], p \in DOMAIN Tokens :
                        /\ Tokens[p] = [source |-> r.source, token |-> Backlog[c][i].token]
                        /\ <<r.metric, r.ts>> \in Times(Backlog[c][i].samples)
    BY DEF OwnSourceOnly
  <2>1. PICK b \in Known : r \in RowsOf(ReadingsOf(b))
    BY DEF IInv, TableInv
  <2>2. b \in Index /\ b[1] \in Client /\ b[2] \in DOMAIN Backlog[b[1]]
    BY DEF Known, Index
  <2>3. PICK i \in 1 .. Len(Samples(b)) : r = ReadingsOf(b)[i]
    BY <2>1, KnownReadings
  <2>4. /\ r.source = SourceOfBatch(b)
        /\ r.metric = Samples(b)[i].metric /\ r.ts = Samples(b)[i].ts
    BY <2>3, KnownReadings
  <2>5. r.source \in SourceForToken(Backlog[b[1]][b[2]].token)
    BY <2>4, KnownReadings
  <2>6. PICK p \in DOMAIN Tokens : Tokens[p] = [source |-> r.source, token |-> Backlog[b[1]][b[2]].token]
    BY <2>5, OneSource
  <2>7. <<r.metric, r.ts>> \in Times(Backlog[b[1]][b[2]].samples)
    BY <2>2, <2>4, IndexIsBatch DEF Times, RowsOf, Samples
  <2>8. QED  BY <2>2, <2>6, <2>7
<1>2. QED  BY <1>1, IngestInvariant, PTL

-----------------------------------------------------------------------------
(* Counting.  What a handler has inserted for s and not counted yet; all   *)
(* of these, a pair for each row; the rows of s since the server started.  *)
Amount(q, s) ==
  IF q.pc = "insert" /\ SourceForToken(Backlog[q.batch[1]][q.batch[2]].token) = {s}
  THEN q.inserted ELSE 0
Pile(R, s) == {p \in Worker \X Nat : p[2] \in 1 .. Amount(R[p[1]], s)}
RowsOfSource(s) == {r \in table : r.source = s}
Own(s) == {r \in table \ base : r.source = s}

CountInv ==
  \A s \in Source : rows[s] + Cardinality(Pile(req, s)) + uncounted[s] = Cardinality(Own(s))

(* The snapshot of the counters under way is covered by the table.         *)
ReportInv ==
  report.pc # "idle" =>
    \A s \in Source : report.rows[s] <= Cardinality(RowsOfSource(s))

LEMMA AmountType ==
  ASSUME NEW q \in Request, NEW s
  PROVE  Amount(q, s) \in Nat /\ Amount(q, s) <= q.inserted
BY DEF Amount, Request

LEMMA PileFinite ==
  ASSUME NEW R \in [Worker -> Request], NEW n \in Nat, \A w \in Worker : R[w].inserted <= n, NEW s
  PROVE  IsFiniteSet(Pile(R, s))
<1>1. IsFiniteSet(Worker) /\ IsFiniteSet(1 .. n)
  BY FS_Interval, IngestAssumption DEF IngestAssumption
<1>2. IsFiniteSet(Worker \X (1 .. n))
  BY <1>1, FS_Product
<1>3. ASSUME NEW p \in Pile(R, s)  PROVE p \in Worker \X (1 .. n)
  <2>1. p[1] \in Worker /\ p[2] \in Nat /\ p = <<p[1], p[2]>> /\ p[2] \in 1 .. Amount(R[p[1]], s)
    BY <1>3 DEF Pile
  <2>2. /\ Amount(R[p[1]], s) \in Nat /\ Amount(R[p[1]], s) <= R[p[1]].inserted
        /\ R[p[1]].inserted <= n /\ R[p[1]].inserted \in Nat
    BY <2>1, AmountType DEF Request
  <2>3. p[2] \in 1 .. n
    BY <2>1, <2>2
  <2>4. QED  BY <2>1, <2>3
<1>4. Pile(R, s) \in SUBSET (Worker \X (1 .. n))
  BY <1>3
<1>5. QED  BY <1>2, <1>4, FS_Subset

(* What one handler does changes the count by its own amount.              *)
LEMMA PileStep ==
  ASSUME NEW R \in [Worker -> Request], NEW Q \in [Worker -> Request], NEW n \in Nat,
         \A v \in Worker : R[v].inserted <= n /\ Q[v].inserted <= n,
         NEW w \in Worker, \A v \in Worker : v # w => Q[v] = R[v], NEW s
  PROVE  /\ Cardinality(Pile(R, s)) \in Nat /\ Cardinality(Pile(Q, s)) \in Nat
         /\ Amount(R[w], s) \in Nat /\ Amount(Q[w], s) \in Nat
         /\ Cardinality(Pile(Q, s)) + Amount(R[w], s) = Cardinality(Pile(R, s)) + Amount(Q[w], s)
<1> DEFINE Rest == {p \in Pile(R, s) : p[1] # w}
           One(k) == {w} \X (1 .. k)
<1>1. IsFiniteSet(Pile(R, s)) /\ IsFiniteSet(Pile(Q, s))
  BY PileFinite
<1>2. Amount(R[w], s) \in Nat /\ Amount(Q[w], s) \in Nat
  BY AmountType
<1>3. ASSUME NEW k \in Nat  PROVE IsFiniteSet(One(k)) /\ Cardinality(One(k)) = k
  <2>1. IsFiniteSet(1 .. k) /\ Cardinality(1 .. k) = k
    BY FS_Interval
  <2>2. IsFiniteSet({w}) /\ Cardinality({w}) = 1
    BY FS_Singleton
  <2>3. IsFiniteSet(One(k)) /\ Cardinality(One(k)) = Cardinality({w}) * Cardinality(1 .. k)
    BY <2>1, <2>2, FS_Product
  <2>4. QED  BY <2>1, <2>2, <2>3
<1>4. /\ Pile(R, s) = Rest \cup One(Amount(R[w], s))
      /\ Pile(Q, s) = Rest \cup One(Amount(Q[w], s))
  BY <1>2 DEF Pile
<1>5. IsFiniteSet(Rest)
  BY <1>1, FS_Subset
<1>6. ASSUME NEW k \in Nat  PROVE Cardinality(Rest \cup One(k)) = Cardinality(Rest) + k
  <2>1. Rest \cap One(k) = {}
    OBVIOUS
  <2>2. Cardinality(Rest \cap One(k)) = 0
    BY <2>1, FS_EmptySet
  <2>3. Cardinality(Rest \cup One(k)) = Cardinality(Rest) + Cardinality(One(k)) - Cardinality(Rest \cap One(k))
    BY <1>3, <1>5, FS_Union
  <2>4. Cardinality(Rest) \in Nat
    BY <1>5, FS_CardinalityType
  <2> HIDE DEF Rest, One
  <2>5. QED  BY <1>3, <2>2, <2>3, <2>4
<1>7. /\ Cardinality(Rest) \in Nat /\ Cardinality(Pile(R, s)) \in Nat /\ Cardinality(Pile(Q, s)) \in Nat
  BY <1>1, <1>5, FS_CardinalityType
<1>8. /\ Cardinality(Pile(R, s)) = Cardinality(Rest) + Amount(R[w], s)
      /\ Cardinality(Pile(Q, s)) = Cardinality(Rest) + Amount(Q[w], s)
  BY <1>2, <1>4, <1>6
<1> HIDE DEF Rest, One
<1>9. QED  BY <1>2, <1>7, <1>8

(* PileStep for a step of the system.                                      *)
LEMMA CarriedStep ==
  ASSUME IInv, IInv', NEW w \in Worker, \A v \in Worker : v # w => req'[v] = req[v], NEW s \in Source
  PROVE  /\ Cardinality(Pile(req, s)) \in Nat /\ Cardinality(Pile(req', s)) \in Nat
         /\ Amount(req[w], s) \in Nat /\ Amount(req'[w], s) \in Nat
         /\ Cardinality(Pile(req', s)) + Amount(req[w], s) = Cardinality(Pile(req, s)) + Amount(req'[w], s)
<1>1. /\ req \in [Worker -> Request] /\ req' \in [Worker -> Request]
      /\ Cardinality(table) \in Nat /\ Cardinality(table') \in Nat
      /\ \A v \in Worker : req[v].inserted <= Cardinality(table) /\ req'[v].inserted <= Cardinality(table')
  BY FS_CardinalityType DEF IInv, FieldsOK, HandlersInv, HandlerOK
<1>2. PICK n \in Nat : Cardinality(table) <= n /\ Cardinality(table') <= n
  BY <1>1
<1>3. \A v \in Worker : req[v].inserted \in Nat /\ req'[v].inserted \in Nat
  BY <1>1 DEF Request
<1>4. \A v \in Worker : req[v].inserted <= n /\ req'[v].inserted <= n
  BY <1>1, <1>2, <1>3
<1>5. QED  BY <1>1, <1>4, PileStep

LEMMA OwnFinite ==
  ASSUME IInv, NEW s
  PROVE  /\ IsFiniteSet(Own(s)) /\ Cardinality(Own(s)) \in Nat
         /\ IsFiniteSet(RowsOfSource(s)) /\ Cardinality(RowsOfSource(s)) \in Nat
         /\ Cardinality(Own(s)) <= Cardinality(RowsOfSource(s))
<1>1. IsFiniteSet(table) /\ RowsOfSource(s) \in SUBSET table /\ Own(s) \in SUBSET RowsOfSource(s)
  BY DEF IInv, FieldsOK, RowsOfSource, Own
<1>2. IsFiniteSet(RowsOfSource(s))  BY <1>1, FS_Subset
<1>3. QED  BY <1>1, <1>2, FS_Subset, FS_CardinalityType

(* New rows add to what their source owns, and to nothing else.            *)
LEMMA OwnGrows ==
  ASSUME IInv, NEW x, NEW new, IsFiniteSet(new), new \cap table = {}, \A r \in new : r.source = x,
         table' = table \cup new, base' = base, NEW s
  PROVE  Cardinality(Own(s)') = Cardinality(Own(s)) + (IF s = x THEN Cardinality(new) ELSE 0)
<1>1. base \subseteq table
  BY DEF IInv, FieldsOK
<1>2. CASE s = x
  <2>1. Own(s)' = Own(s) \cup new /\ Own(s) \cap new = {}
    BY <1>1, <1>2 DEF Own
  <2>2. Cardinality(Own(s) \cap new) = 0
    BY <2>1, FS_EmptySet
  <2>3. Cardinality(Own(s) \cup new) = Cardinality(Own(s)) + Cardinality(new) - Cardinality(Own(s) \cap new)
    BY OwnFinite, FS_Union
  <2>4. Cardinality(Own(s)) \in Nat /\ Cardinality(new) \in Nat
    BY OwnFinite, FS_CardinalityType
  <2>5. QED  BY <1>2, <2>1, <2>2, <2>3, <2>4
<1>3. CASE s # x
  <2>1. Own(s)' = Own(s)
    BY <1>1, <1>3 DEF Own
  <2>2. QED  BY <1>3, <2>1, OwnFinite
<1>4. QED  BY <1>2, <1>3

(* A step of a handler that neither adds nor counts a row.                 *)
LEMMA CountQuiet ==
  ASSUME IInv, IInv', CountInv, NEW w \in Worker, \A v \in Worker : v # w => req'[v] = req[v],
         UNCHANGED <<table, base, rows, uncounted>>,
         req[w].pc = "insert" => req[w].inserted = 0, req'[w].pc = "insert" => req'[w].inserted = 0
  PROVE  CountInv'
<1>1. ASSUME NEW s \in Source
      PROVE  (rows[s] + Cardinality(Pile(req, s)) + uncounted[s] = Cardinality(Own(s)))'
  <2>1. Amount(req[w], s) = 0 /\ Amount(req'[w], s) = 0
    BY DEF Amount
  <2>2. Cardinality(Pile(req', s)) = Cardinality(Pile(req, s))
    BY <2>1, CarriedStep
  <2>3. Own(s)' = Own(s)
    BY DEF Own
  <2>4. QED  BY <2>2, <2>3 DEF CountInv
<1>2. QED  BY <1>1 DEF CountInv

LEMMA CountInsert ==
  ASSUME IInv, IInv', CountInv, NEW w \in Worker, InsertChunk(w)
  PROVE  CountInv'
<1>1. /\ req \in [Worker -> Request] /\ req[w].pc = "insert" /\ req[w].batch \in Known
      /\ req[w].inserted \in Nat
      /\ rows \in [Source -> Nat] /\ uncounted \in [Source -> Nat]
  BY DEF IInv, FieldsOK, HandlersInv, HandlerOK, InsertChunk, Request
<1>2. /\ IsFiniteSet(NewRows(w)) /\ NewRows(w) \cap table = {}
      /\ \A r \in NewRows(w) : r.source = SourceOf(w)
  BY ChunkFacts DEF InsertChunk
<1>3. Cardinality(NewRows(w)) \in Nat
  BY <1>2, FS_CardinalityType
<1>4. /\ \A v \in Worker : v # w => req'[v] = req[v]
      /\ req'[w].pc = "insert" /\ req'[w].batch = req[w].batch
      /\ req'[w].inserted = req[w].inserted + Cardinality(NewRows(w))
  <2>1. req' = [req EXCEPT ![w] = [[req[w] EXCEPT !.at = ChunkEnd(w) + 1] EXCEPT !.inserted = @ + RowsAffected(w)]]
    BY <1>1 DEF InsertChunk
  <2>2. req[w] \in Request  BY <1>1
  <2>3. req'[w] = [[req[w] EXCEPT !.at = ChunkEnd(w) + 1] EXCEPT !.inserted = @ + RowsAffected(w)]
    BY <1>1, <2>1
  <2>4. \A v \in Worker : v # w => req'[v] = req[v]
    BY <1>1, <2>1
  <2>5. QED  BY <1>1, <2>2, <2>3, <2>4 DEF RowsAffected, Request
<1>5. /\ table' = table \cup NewRows(w) /\ base' = base
      /\ rows' = rows /\ uncounted' = uncounted
  BY DEF InsertChunk, tracker
<1>6. SourceForToken(Backlog[req[w].batch[1]][req[w].batch[2]].token) = {SourceOf(w)}
  BY <1>1, SourceKnown DEF BatchOf
<1>7. ASSUME NEW s \in Source
      PROVE  (rows[s] + Cardinality(Pile(req, s)) + uncounted[s] = Cardinality(Own(s)))'
  <2> DEFINE k == IF s = SourceOf(w) THEN Cardinality(NewRows(w)) ELSE 0
  <2>1. Amount(req'[w], s) = Amount(req[w], s) + k
    <3>1. Amount(req[w], s) = IF s = SourceOf(w) THEN req[w].inserted ELSE 0
      BY <1>1, <1>6 DEF Amount
    <3>2. Amount(req'[w], s) = IF s = SourceOf(w) THEN req'[w].inserted ELSE 0
      BY <1>4, <1>6 DEF Amount
    <3>3. QED  BY <1>1, <1>3, <1>4, <3>1, <3>2
  <2>2. Cardinality(Own(s)') = Cardinality(Own(s)) + k
    BY <1>2, <1>5, OwnGrows
  <2>3. k \in Nat /\ Cardinality(Own(s)) \in Nat /\ rows[s] \in Nat /\ uncounted[s] \in Nat
    BY <1>1, <1>3, OwnFinite
  <2>4. rows[s] + Cardinality(Pile(req, s)) + uncounted[s] = Cardinality(Own(s))
    BY DEF CountInv
  <2> HIDE DEF k
  <2>5. /\ Cardinality(Pile(req, s)) \in Nat /\ Cardinality(Pile(req', s)) \in Nat
        /\ Amount(req[w], s) \in Nat
        /\ Cardinality(Pile(req', s)) + Amount(req[w], s) = Cardinality(Pile(req, s)) + Amount(req'[w], s)
    BY <1>4, CarriedStep
  <2>6. Cardinality(Pile(req', s)) = Cardinality(Pile(req, s)) + k
    BY <2>1, <2>3, <2>5
  <2>7. QED  BY <1>5, <2>2, <2>3, <2>4, <2>5, <2>6
<1>8. QED  BY <1>7 DEF CountInv

LEMMA CountFails ==
  ASSUME IInv, IInv', CountInv, NEW w \in Worker, InsertFails(w)
  PROVE  CountInv'
<1>1. /\ req \in [Worker -> Request] /\ req[w].pc = "insert" /\ req[w].batch \in Known
      /\ req[w].inserted \in Nat
      /\ rows \in [Source -> Nat] /\ uncounted \in [Source -> Nat]
  BY DEF IInv, FieldsOK, HandlersInv, HandlerOK, InsertFails, Request
<1>2. PICK new \in {{}, NewRows(w)} :
        /\ table' = table \cup new
        /\ uncounted' = [uncounted EXCEPT ![SourceOf(w)] = @ + req[w].inserted + Cardinality(new)]
  BY DEF InsertFails
<1>3. /\ IsFiniteSet(new) /\ new \cap table = {}
      /\ \A r \in new : r.source = SourceOf(w)
  <2>1. /\ IsFiniteSet(NewRows(w)) /\ NewRows(w) \cap table = {}
        /\ \A r \in NewRows(w) : r.source = SourceOf(w)
    BY ChunkFacts DEF InsertFails
  <2>2. QED  BY <1>2, <2>1, FS_EmptySet
<1>4. Cardinality(new) \in Nat
  BY <1>3, FS_CardinalityType
<1>5. req' = [req EXCEPT ![w] = Idle] /\ base' = base /\ rows' = rows
  BY <1>1, ReplyStep DEF InsertFails, InternalServerError
<1>6. /\ \A v \in Worker : v # w => req'[v] = req[v]
      /\ req'[w].pc = "idle"
  BY <1>1, <1>5 DEF Idle
<1>7. /\ SourceForToken(Backlog[req[w].batch[1]][req[w].batch[2]].token) = {SourceOf(w)}
      /\ SourceOf(w) \in Source
  BY <1>1, SourceKnown DEF BatchOf
<1>8. ASSUME NEW s \in Source
      PROVE  (rows[s] + Cardinality(Pile(req, s)) + uncounted[s] = Cardinality(Own(s)))'
  <2> DEFINE k == IF s = SourceOf(w) THEN Cardinality(new) ELSE 0
             a == Amount(req[w], s)
  <2>1. Amount(req'[w], s) = 0
    BY <1>6 DEF Amount
  <2>2. Cardinality(Own(s)') = Cardinality(Own(s)) + k
    BY <1>2, <1>3, <1>5, OwnGrows
  <2>3. k \in Nat /\ Cardinality(Own(s)) \in Nat /\ rows[s] \in Nat /\ uncounted[s] \in Nat
    BY <1>1, <1>4, OwnFinite
  <2>4. rows[s] + Cardinality(Pile(req, s)) + uncounted[s] = Cardinality(Own(s))
    BY DEF CountInv
  <2>5. /\ Cardinality(Pile(req, s)) \in Nat /\ Cardinality(Pile(req', s)) \in Nat
        /\ a \in Nat
        /\ Cardinality(Pile(req', s)) + a = Cardinality(Pile(req, s)) + Amount(req'[w], s)
    BY <1>6, CarriedStep
  <2>6. uncounted'[s] = uncounted[s] + a + k
    <3>1. a = IF s = SourceOf(w) THEN req[w].inserted ELSE 0
      BY <1>1, <1>7 DEF Amount
    <3> HIDE DEF a
    <3>2. uncounted'[s] = IF s = SourceOf(w) THEN uncounted[s] + req[w].inserted + Cardinality(new) ELSE uncounted[s]
      BY <1>1, <1>2, <1>7
    <3>3. QED  BY <1>1, <1>4, <2>3, <3>1, <3>2
  <2> HIDE DEF k, a
  <2>7. Cardinality(Pile(req', s)) + a = Cardinality(Pile(req, s))
    BY <2>1, <2>5
  <2>8. QED  BY <1>5, <2>2, <2>3, <2>4, <2>5, <2>6, <2>7
<1>9. QED  BY <1>8 DEF CountInv

LEMMA CountRecord ==
  ASSUME IInv, IInv', CountInv, NEW w \in Worker, RecordIngest(w)
  PROVE  CountInv'
<1>1. /\ req \in [Worker -> Request] /\ req[w].pc = "insert" /\ req[w].batch \in Known
      /\ req[w].inserted \in Nat
      /\ rows \in [Source -> Nat] /\ uncounted \in [Source -> Nat]
  BY DEF IInv, FieldsOK, HandlersInv, HandlerOK, RecordIngest, Request
<1>2. /\ UNCHANGED <<table, base, uncounted>>
      /\ rows' = [rows EXCEPT ![SourceOf(w)] = @ + req[w].inserted]
  BY DEF RecordIngest
<1>3. /\ \A v \in Worker : v # w => req'[v] = req[v]
      /\ req'[w].pc = "check"
  <2>1. req' = [req EXCEPT ![w] = [[[req[w] EXCEPT !.pc = "check"] EXCEPT !.at = FirstToCheck(w)] EXCEPT !.inserted = 0]]
    BY <1>1 DEF RecordIngest
  <2>2. req[w] \in Request  BY <1>1
  <2>3. req'[w] = [[[req[w] EXCEPT !.pc = "check"] EXCEPT !.at = FirstToCheck(w)] EXCEPT !.inserted = 0]
    BY <1>1, <2>1
  <2>4. \A v \in Worker : v # w => req'[v] = req[v]
    BY <1>1, <2>1
  <2>5. QED  BY <2>2, <2>3, <2>4 DEF Request
<1>4. /\ SourceForToken(Backlog[req[w].batch[1]][req[w].batch[2]].token) = {SourceOf(w)}
      /\ SourceOf(w) \in Source
  BY <1>1, SourceKnown DEF BatchOf
<1>5. ASSUME NEW s \in Source
      PROVE  (rows[s] + Cardinality(Pile(req, s)) + uncounted[s] = Cardinality(Own(s)))'
  <2> DEFINE a == Amount(req[w], s)
  <2>1. Amount(req'[w], s) = 0
    BY <1>3 DEF Amount
  <2>2. Own(s)' = Own(s)
    BY <1>2 DEF Own
  <2>3. rows[s] + Cardinality(Pile(req, s)) + uncounted[s] = Cardinality(Own(s))
    BY DEF CountInv
  <2>4. /\ Cardinality(Pile(req, s)) \in Nat /\ Cardinality(Pile(req', s)) \in Nat
        /\ a \in Nat
        /\ Cardinality(Pile(req', s)) + a = Cardinality(Pile(req, s)) + Amount(req'[w], s)
    BY <1>3, CarriedStep
  <2>5. rows'[s] = rows[s] + a
    <3>1. a = IF s = SourceOf(w) THEN req[w].inserted ELSE 0
      BY <1>1, <1>4 DEF Amount
    <3> HIDE DEF a
    <3>2. QED  BY <1>1, <1>2, <1>4, <3>1
  <2>6. rows[s] \in Nat /\ uncounted[s] \in Nat  BY <1>1
  <2> HIDE DEF a
  <2>7. Cardinality(Pile(req', s)) + a = Cardinality(Pile(req, s))
    BY <2>1, <2>4
  <2>8. QED  BY <1>2, <2>2, <2>3, <2>4, <2>5, <2>6, <2>7
<1>6. QED  BY <1>5 DEF CountInv

LEMMA CountInit == Init => CountInv
<1> SUFFICES ASSUME Init, NEW s \in Source
             PROVE  rows[s] + Cardinality(Pile(req, s)) + uncounted[s] = Cardinality(Own(s))
  BY DEF CountInv
<1>1. \A w \in Worker : Amount(req[w], s) = 0
  BY DEF Init, Amount, Idle
<1>2. Pile(req, s) = {} /\ Own(s) = {}
  BY <1>1 DEF Pile, Own, Init
<1>3. Cardinality(Pile(req, s)) = 0 /\ Cardinality(Own(s)) = 0
  BY <1>2, FS_EmptySet
<1>4. rows[s] = 0 /\ uncounted[s] = 0
  BY DEF Init, Zero
<1>5. QED  BY <1>3, <1>4

LEMMA CountStep == IInv /\ IInv' /\ CountInv /\ [Next]_vars => CountInv'
<1>1. SUFFICES ASSUME IInv, IInv', CountInv, [Next]_vars  PROVE CountInv'
  OBVIOUS
<1>2. req \in [Worker -> Request] /\ \A w \in Worker : HandlerOK(req[w])
  BY <1>1 DEF IInv, FieldsOK, HandlersInv
<1>3. CASE UNCHANGED <<table, base, rows, uncounted, req>>
  BY <1>1, <1>3 DEF CountInv, Own
<1>4. ASSUME NEW c \in Client, NEW w \in Worker, Send(c, w)  PROVE CountInv'
  <2>1. /\ req[w].pc = "idle" /\ req'[w].pc = "validate"
        /\ \A v \in Worker : v # w => req'[v] = req[v]
    BY <1>2, <1>4 DEF Send, Idle
  <2>2. UNCHANGED <<table, base, rows, uncounted>>
    BY <1>4 DEF Send, tracker
  <2>3. QED  BY <1>1, <2>1, <2>2, CountQuiet
<1>5. ASSUME NEW w \in Worker, Validate(w)  PROVE CountInv'
  <2>1. UNCHANGED <<table, base, rows, uncounted>> /\ req[w].pc = "validate" /\ req[w].inserted = 0
    BY <1>2, <1>5 DEF Validate, tracker, HandlerOK
  <2>2. /\ \A v \in Worker : v # w => req'[v] = req[v]
        /\ req'[w].inserted = 0
    <3>1. CASE req' = [req EXCEPT ![w] = Idle]
      BY <1>2, <3>1 DEF Idle
    <3>2. CASE req' = [req EXCEPT ![w].pc = "insert"]
      <4>1. req'[w] = [req[w] EXCEPT !.pc = "insert"] /\ req[w] \in Request
        BY <1>2, <3>2
      <4>2. QED  BY <1>2, <2>1, <3>2, <4>1 DEF Request
    <3>3. QED  BY <1>5, <3>1, <3>2 DEF Validate, Reply
  <2>3. QED  BY <1>1, <2>1, <2>2, CountQuiet
<1>6. ASSUME NEW w \in Worker, CheckReading(w)  PROVE CountInv'
  <2>1. /\ req[w].pc = "check" /\ req' = [req EXCEPT ![w] = [req[w] EXCEPT !.at = @ + 1]]
        /\ UNCHANGED <<table, base, rows, uncounted>>
    BY <1>2, <1>6 DEF CheckReading, tracker
  <2>2. req'[w] = [req[w] EXCEPT !.at = @ + 1] /\ req[w] \in Request
    BY <1>2, <2>1
  <2>3. req'[w].pc = "check" /\ \A v \in Worker : v # w => req'[v] = req[v]
    BY <1>2, <2>1, <2>2 DEF Request
  <2>4. QED  BY <1>1, <2>1, <2>3, CountQuiet
<1>7. ASSUME NEW w \in Worker, Respond(w)  PROVE CountInv'
  <2>1. /\ req[w].pc = "check" /\ req' = [req EXCEPT ![w] = Idle]
        /\ UNCHANGED <<table, base, rows, uncounted>>
    BY <1>7 DEF Respond, Reply, tracker
  <2>2. req'[w].pc = "idle" /\ \A v \in Worker : v # w => req'[v] = req[v]
    BY <1>2, <2>1 DEF Idle
  <2>3. QED  BY <1>1, <2>1, <2>2, CountQuiet
<1>8. CASE Restart
  <2>1. ASSUME NEW s \in Source
        PROVE  (rows[s] + Cardinality(Pile(req, s)) + uncounted[s] = Cardinality(Own(s)))'
    <3>1. \A w \in Worker : Amount(req'[w], s) = 0
      BY <1>8 DEF Restart, Amount, Idle
    <3>2. Pile(req', s) = {} /\ Own(s)' = {}
      BY <1>8, <3>1 DEF Pile, Own, Restart
    <3>3. Cardinality(Pile(req', s)) = 0 /\ Cardinality(Own(s)') = 0
      BY <3>2, FS_EmptySet
    <3>4. rows'[s] = 0 /\ uncounted'[s] = 0
      BY <1>8 DEF Restart, Zero
    <3>5. QED  BY <3>3, <3>4
  <2>2. QED  BY <2>1 DEF CountInv
<1>9. CASE UNCHANGED vars
  BY <1>3, <1>9 DEF vars, tracker
<1>10. CASE (\E c \in Client : Timeout(c)) \/ Snapshot \/ TotalRows \/ SourceLastSeen \/ MetricsQueryFails
  BY <1>3, <1>10 DEF Timeout, Snapshot, TotalRows, SourceLastSeen, MetricsQueryFails, tracker
<1>11. CASE \E w \in Worker : Handle(w)
  BY <1>1, <1>5, <1>6, <1>7, <1>11, CountInsert, CountFails, CountRecord DEF Handle
<1>12. QED  BY <1>1, <1>4, <1>8, <1>9, <1>10, <1>11 DEF Next

LEMMA CountInvariant == Spec => [](IInv /\ CountInv)
<1>1. Init => IInv /\ CountInv  BY IngestInit, CountInit
<1>2. IInv /\ CountInv /\ [Next]_vars => (IInv /\ CountInv)'
  BY IngestStep, CountStep
<1>3. QED  BY <1>1, <1>2, PTL DEF Spec

(* store.go:68-72, metricsx.go:39-49: CountedOnce, every row of this        *)
(* process is counted once and for its own source, is about to be, or       *)
(* belongs to a request that failed.                                        *)
THEOREM RowsCountedOnce == Spec => []CountedOnce
<1>1. IInv /\ CountInv => CountedOnce
  <2> SUFFICES ASSUME IInv, CountInv, NEW s \in Source
               PROVE  rows[s] + InFlight(s) + uncounted[s] = Cardinality(Own(s))
    BY DEF CountedOnce, Own
  <2> DEFINE W == {w \in Worker : req[w].pc # "idle" /\ SourceForToken(BatchOf(w).token) = {s}}
             f == [w \in W |-> req[w].inserted]
             P == UNION {{x} \X (1 .. f[x]) : x \in DOMAIN f}
  <2>1. \A w \in Worker : req[w].pc # "insert" => req[w].inserted = 0
    BY DEF IInv, HandlersInv, HandlerOK
  <2>2. ASSUME NEW w \in Worker
        PROVE  1 .. Amount(req[w], s) = IF w \in W THEN 1 .. f[w] ELSE {}
    <3>1. CASE w \in W /\ req[w].pc = "insert"
      BY <3>1 DEF Amount, BatchOf
    <3>2. CASE w \in W /\ req[w].pc # "insert"
      BY <2>1, <3>2 DEF Amount
    <3>3. CASE w \notin W
      <4>1. ~(req[w].pc = "insert" /\ SourceForToken(Backlog[req[w].batch[1]][req[w].batch[2]].token) = {s})
        BY <3>3 DEF BatchOf
      <4>2. Amount(req[w], s) = 0
        BY <4>1 DEF Amount
      <4>3. QED  BY <3>3, <4>2
    <3>4. QED  BY <3>1, <3>2, <3>3
  <2>3. ASSUME NEW p \in Pile(req, s)  PROVE p \in P
    <3>1. p[1] \in Worker /\ p = <<p[1], p[2]>> /\ p[2] \in 1 .. Amount(req[p[1]], s)
      BY DEF Pile
    <3>2. p[1] \in W /\ p[2] \in 1 .. f[p[1]]
      BY <2>2, <3>1
    <3> HIDE DEF W
    <3>3. p \in {p[1]} \X (1 .. f[p[1]]) /\ p[1] \in DOMAIN f
      BY <3>1, <3>2
    <3>4. QED  BY <3>3
  <2>4. ASSUME NEW p \in P  PROVE p \in Pile(req, s)
    <3>1. PICK x \in DOMAIN f : p \in {x} \X (1 .. f[x])
      OBVIOUS
    <3>2. x \in W /\ x \in Worker /\ p = <<x, p[2]>> /\ p[2] \in 1 .. Amount(req[x], s)
      <4>1. x \in W /\ x \in Worker
        BY <3>1
      <4>2. p = <<x, p[2]>> /\ p[2] \in 1 .. f[x]
        <5> HIDE DEF f
        <5>1. QED  BY <3>1
      <4>3. 1 .. f[x] = 1 .. Amount(req[x], s)
        BY <2>2, <4>1
      <4>4. QED  BY <4>1, <4>2, <4>3
    <3>3. p[2] \in Nat
      <4>1. Amount(req[x], s) \in Nat
        BY <3>2, AmountType DEF IInv, FieldsOK
      <4>2. QED  BY <3>2, <4>1
    <3>4. QED  BY <3>2, <3>3 DEF Pile
  <2>5. InFlight(s) = Cardinality(Pile(req, s))
    BY <2>3, <2>4 DEF InFlight, SumOver
  <2>6. QED  BY <2>5 DEF CountInv
<1>2. QED  BY <1>1, CountInvariant, PTL

-----------------------------------------------------------------------------
(* GET /metrics.  One bound for each source bounds the sum.                *)
LEMMA SumBound ==
  ASSUME IInv, NEW f \in [Source -> Nat], \A s \in Source : f[s] <= Cardinality(RowsOfSource(s))
  PROVE  SumOver(f) <= Cardinality(table)
<1> DEFINE B == [s \in Source |-> CHOOSE b : b \in Bijection(1 .. Cardinality(RowsOfSource(s)), RowsOfSource(s))]
           P == UNION {{x} \X (1 .. f[x]) : x \in DOMAIN f}
           G == [p \in P |-> B[p[1]][p[2]]]
<1>1. ASSUME NEW s \in Source
      PROVE  /\ Cardinality(RowsOfSource(s)) \in Nat
             /\ B[s] \in Bijection(1 .. Cardinality(RowsOfSource(s)), RowsOfSource(s))
  <2>1. IsFiniteSet(RowsOfSource(s))
    BY OwnFinite
  <2>2. ExistsBijection(1 .. Cardinality(RowsOfSource(s)), RowsOfSource(s))
    BY <2>1, FS_CardinalityType
  <2>3. QED  BY <2>1, <2>2, FS_CardinalityType DEF ExistsBijection
<1> HIDE DEF B
<1>2. ASSUME NEW s \in Source
      PROVE  /\ \A i \in 1 .. f[s] : B[s][i] \in RowsOfSource(s)
             /\ \A i, j \in 1 .. f[s] : B[s][i] = B[s][j] => i = j
  <2>1. \A i \in 1 .. f[s] : i \in 1 .. Cardinality(RowsOfSource(s))
    BY <1>1
  <2>2. /\ B[s] \in [1 .. Cardinality(RowsOfSource(s)) -> RowsOfSource(s)]
        /\ \A i, j \in 1 .. Cardinality(RowsOfSource(s)) : B[s][i] = B[s][j] => i = j
    BY <1>1 DEF Bijection, Injection, IsInjective
  <2>3. QED  BY <2>1, <2>2
<1>3. ASSUME NEW p \in P
      PROVE  p[1] \in Source /\ p[2] \in 1 .. f[p[1]] /\ p = <<p[1], p[2]>>
  <2>1. PICK x \in DOMAIN f : p \in {x} \X (1 .. f[x])
    BY <1>3
  <2>2. QED  BY <2>1
<1> HIDE DEF P
<1>4. ASSUME NEW p \in P
      PROVE  G[p] \in table /\ G[p].source = p[1]
  BY <1>2, <1>3 DEF RowsOfSource
<1>5. ASSUME NEW p \in P, NEW q \in P, G[p] = G[q]
      PROVE  p = q
  <2>1. p[1] = q[1]
    BY <1>4, <1>5
  <2>2. B[p[1]][p[2]] = B[p[1]][q[2]]
    BY <1>5, <2>1
  <2>3. QED  BY <1>2, <1>3, <2>1, <2>2
<1>6. G \in Injection(P, table)
  <2>1. G \in [P -> table]
    BY <1>4
  <2>2. IsInjective(G)
    BY <1>5 DEF IsInjective
  <2>3. QED  BY <2>1, <2>2 DEF Injection
<1>7. IsFiniteSet(table)
  BY DEF IInv, FieldsOK
<1>8. Cardinality(P) <= Cardinality(table)
  BY <1>6, <1>7, FS_Injection
<1>9. QED  BY <1>8 DEF P, SumOver

(* A finite set of readings has a first and a last one in time.            *)
LEMMA Highest ==
  ASSUME NEW S, IsFiniteSet(S), S # {}, NEW f \in [S -> Int]
  PROVE  \E x \in S : \A y \in S : f[y] <= f[x]
<1> DEFINE Above(x) == {y \in S : f[y] > f[x]}
           A == {Above(x) : x \in S}
<1>1. A \subseteq FiniteSubsetsOf(S) /\ A # {}
  <2>1. \A x \in S : IsFiniteSet(Above(x)) /\ Above(x) \in SUBSET S
    BY FS_Subset
  <2>2. \A a \in A : a \in FiniteSubsetsOf(S)
    BY <2>1 DEF FiniteSubsetsOf
  <2>3. PICK x \in S : TRUE  OBVIOUS
  <2>4. Above(x) \in A  OBVIOUS
  <2> HIDE DEF A
  <2>5. QED  BY <2>2, <2>4
<1>2. PICK a \in A : \A b \in A : ~(<<b, a>> \in StrictSubsetOrdering(S))
  <2> HIDE DEF A
  <2>1. QED  BY <1>1, WFMin, FS_StrictSubsetOrderingWellFounded
<1>3. PICK x \in S : a = Above(x)
  OBVIOUS
<1>4. ASSUME NEW y \in S, f[y] > f[x]  PROVE FALSE
  <2>1. Above(y) \subseteq Above(x)
    BY <1>4
  <2>2. y \in Above(x) /\ y \notin Above(y)
    BY <1>4
  <2>3. <<Above(y), Above(x)>> \in StrictSubsetOrdering(S)
    BY <2>1, <2>2 DEF StrictSubsetOrdering
  <2>4. QED  BY <1>2, <1>3, <2>3
<1>5. QED  BY <1>4

LEMMA FirstAndLast ==
  ASSUME NEW S, IsFiniteSet(S), S # {}, \A r \in S : r.ts \in Nat
  PROVE  /\ \E r \in S : \A q \in S : r.ts <= q.ts
         /\ \E r \in S : \A q \in S : q.ts <= r.ts
<1>1. \E r \in S : \A q \in S : q.ts <= r.ts
  <2> DEFINE f == [r \in S |-> r.ts]
  <2>1. f \in [S -> Int] /\ \A r \in S : f[r] = r.ts  OBVIOUS
  <2> HIDE DEF f
  <2>2. \E x \in S : \A y \in S : f[y] <= f[x]  BY <2>1, Highest
  <2>3. QED  BY <2>1, <2>2
<1>2. \E r \in S : \A q \in S : r.ts <= q.ts
  <2> DEFINE f == [r \in S |-> 0 - r.ts]
  <2>1. f \in [S -> Int] /\ \A r \in S : f[r] = 0 - r.ts  OBVIOUS
  <2> HIDE DEF f
  <2>2. PICK x \in S : \A y \in S : f[y] <= f[x]  BY <2>1, Highest
  <2>3. \A y \in S : x.ts <= y.ts
    <3>1. ASSUME NEW y \in S  PROVE x.ts <= y.ts
      <4>1. 0 - y.ts <= 0 - x.ts  BY <2>1, <2>2
      <4>2. QED  BY <4>1
    <3>2. QED  BY <3>1
  <2>4. QED  BY <2>3
<1>3. QED  BY <1>1, <1>2

(* A source that has rows has a last one.                                  *)
LEMMA HasLast ==
  ASSUME IInv, NEW s \in Source, RowsOfSource(s) # {}
  PROVE  LastSeen(s) # {}
<1>1. /\ IsFiniteSet(RowsOfSource(s))
      /\ \A r \in RowsOfSource(s) : r.ts \in Nat /\ r \in table /\ r.source = s
  BY OwnFinite DEF IInv, FieldsOK, Reading, RowsOfSource
<1>2. PICK r \in RowsOfSource(s) : \A q \in RowsOfSource(s) : q.ts <= r.ts
  BY <1>1, FirstAndLast
<1>3. r \in {x \in table : x.source = s /\ \A q \in table : q.source = s => q.ts <= x.ts}
  BY <1>1, <1>2 DEF RowsOfSource
<1>4. QED  BY <1>3 DEF LastSeen

(* The table only grows under a report.                                    *)
LEMMA ReportStep == IInv /\ IInv' /\ CountInv /\ ReportInv /\ [Next]_vars => ReportInv'
<1>1. SUFFICES ASSUME IInv, IInv', CountInv, ReportInv, [Next]_vars, report'.pc # "idle"
               PROVE  \A s \in Source : report'.rows[s] <= Cardinality(RowsOfSource(s)')
  BY DEF ReportInv
<1>2. table \subseteq table'
  BY <1>1 DEF Next, Send, Timeout, Handle, Validate, InsertChunk, InsertFails, RecordIngest,
     CheckReading, Respond, Snapshot, TotalRows, SourceLastSeen, MetricsQueryFails, Restart, vars
<1>3. ASSUME NEW s \in Source
      PROVE  /\ Cardinality(RowsOfSource(s)) \in Nat /\ Cardinality(RowsOfSource(s)') \in Nat
             /\ Cardinality(RowsOfSource(s)) <= Cardinality(RowsOfSource(s)')
  <2>1. RowsOfSource(s) \in SUBSET (RowsOfSource(s)')
    BY <1>2 DEF RowsOfSource
  <2>2. RowsOfSource(s)' \in SUBSET table' /\ IsFiniteSet(table')
    BY <1>1 DEF RowsOfSource, IInv, FieldsOK
  <2>3. IsFiniteSet(RowsOfSource(s)')
    BY <2>2, FS_Subset
  <2>4. QED  BY <1>1, <2>1, <2>3, OwnFinite, FS_Subset, FS_CardinalityType
<1>4. ASSUME NEW s \in Source
      PROVE  /\ rows[s] \in Nat /\ report.rows[s] \in Nat
             /\ rows[s] <= Cardinality(RowsOfSource(s))
  <2>1. rows[s] \in Nat /\ uncounted[s] \in Nat /\ report.rows[s] \in Nat
    BY <1>1 DEF IInv, FieldsOK
  <2>2. Cardinality(Pile(req, s)) \in Nat
    <3>1. /\ req \in [Worker -> Request] /\ Cardinality(table) \in Nat
          /\ \A w \in Worker : req[w].inserted <= Cardinality(table)
      BY <1>1, FS_CardinalityType DEF IInv, FieldsOK, HandlersInv, HandlerOK
    <3>2. QED  BY <3>1, PileFinite, FS_CardinalityType
  <2>3. rows[s] + Cardinality(Pile(req, s)) + uncounted[s] = Cardinality(Own(s))
    BY <1>1 DEF CountInv
  <2>4. /\ Cardinality(Own(s)) \in Nat /\ Cardinality(RowsOfSource(s)) \in Nat
        /\ Cardinality(Own(s)) <= Cardinality(RowsOfSource(s))
    BY <1>1, OwnFinite
  <2>5. QED  BY <2>1, <2>2, <2>3, <2>4
<1>5. CASE Snapshot
  <2>1. report'.rows = rows
    BY <1>5 DEF Snapshot
  <2>2. QED  BY <1>3, <1>4, <2>1
<1>6. CASE report' = report
  BY <1>1, <1>3, <1>4, <1>6 DEF ReportInv
<1>7. CASE TotalRows
  <2>1. report.pc = "count" /\ report'.rows = report.rows
    BY <1>1, <1>7 DEF TotalRows, IInv, FieldsOK
  <2>2. QED  BY <1>1, <1>3, <1>4, <2>1 DEF ReportInv
<1>8. CASE SourceLastSeen \/ MetricsQueryFails \/ Restart
  BY <1>1, <1>8 DEF SourceLastSeen, MetricsQueryFails, Restart, NoReport
<1>9. CASE \/ \E c \in Client : (\E w \in Worker : Send(c, w)) \/ Timeout(c)
           \/ \E w \in Worker : Handle(w)
           \/ UNCHANGED vars
  BY <1>6, <1>9 DEF Send, Timeout, Handle, Validate, InsertChunk, InsertFails, RecordIngest,
     CheckReading, Respond, vars
<1>10. QED  BY <1>1, <1>5, <1>7, <1>8, <1>9 DEF Next

LEMMA ReportInvariant == Spec => [](IInv /\ CountInv /\ ReportInv)
<1>1. Init => IInv /\ CountInv /\ ReportInv
  BY IngestInit, CountInit DEF Init, ReportInv, NoReport
<1>2. IInv /\ CountInv /\ ReportInv /\ [Next]_vars => (IInv /\ CountInv /\ ReportInv)'
  BY IngestStep, CountStep, ReportStep
<1>3. QED  BY <1>1, <1>2, PTL DEF Spec

(* ops.go:39-65: MetricsConsistent, an answer of GET /metrics never shows   *)
(* more rows ingested than the table holds, and a source with rows has a    *)
(* last time.                                                              *)
THEOREM MetricsAreConsistent == Spec => []MetricsConsistent
<1>1. IInv /\ CountInv /\ ReportInv => MetricsConsistent
  <2> SUFFICES ASSUME IInv, CountInv, ReportInv  PROVE MetricsConsistent
    OBVIOUS
  <2>1. report.rows \in [Source -> Nat]
    BY DEF IInv, FieldsOK
  <2>2. ASSUME report.pc = "count"  PROVE SumOver(report.rows) <= Total
    BY <2>1, <2>2, SumBound DEF ReportInv, Total
  <2>3. ASSUME report.pc = "last", NEW s \in Source, report.rows[s] > 0
        PROVE  LastSeen(s) # {}
    <3>1. report.rows[s] <= Cardinality(RowsOfSource(s))
      BY <2>3 DEF ReportInv
    <3>2. Cardinality(RowsOfSource(s)) \in Nat /\ report.rows[s] \in Nat
      BY <2>1, OwnFinite
    <3>3. Cardinality(RowsOfSource(s)) # 0
      BY <2>3, <3>1, <3>2
    <3>4. RowsOfSource(s) # {}
      BY <3>3, FS_EmptySet
    <3>5. QED  BY <3>4, HasLast
  <2>4. QED  BY <2>2, <2>3 DEF MetricsConsistent
<1>2. QED  BY <1>1, ReportInvariant, PTL

-----------------------------------------------------------------------------
(* RefusedLeavesNothing: a handler inserts for a batch that validation     *)
(* accepts, and what it accepts does not change, so that no answer of 400  *)
(* or 401 is for such a batch.                                             *)
Accepted == {b \in Known : Accepts(Backlog[b[1]][b[2]].token, Samples(b))}

RefusedInv ==
  /\ \A w \in Worker : req[w].pc \in {"insert", "check"} => req[w].batch \in Accepted
  /\ \A r \in table : \E b \in Accepted : r \in RowsOf(ReadingsOf(b))
  /\ refused \cap Accepted = {}

(* A step that stores nothing, refuses nothing and moves no handler into   *)
(* insert or check.                                                        *)
LEMMA RefusedKeeps ==
  ASSUME RefusedInv, table' = table, refused' \cap Accepted = {},
         \A w \in Worker : \/ req'[w].pc \notin {"insert", "check"}
                           \/ req[w].pc \in {"insert", "check"} /\ req'[w].batch = req[w].batch
  PROVE  RefusedInv'
BY DEF RefusedInv, Accepted, Known, Index, Authorized, Samples

LEMMA AcceptedIs == Accepted' = Accepted
BY DEF Accepted, Known, Index, Authorized, Samples

LEMMA RefusedHandle ==
  ASSUME IInv, RefusedInv, NEW w \in Worker, Handle(w)
  PROVE  RefusedInv'
<1> DEFINE b == req[w].batch
<1>1. /\ req \in [Worker -> Request] /\ HandlerOK(req[w]) /\ req[w].pc # "idle"
      /\ \A v \in Worker : req[v].pc \in {"idle", "validate", "insert", "check"}
  BY DEF IInv, FieldsOK, HandlersInv, Handle, Validate, InsertChunk, InsertFails, RecordIngest,
         CheckReading, Respond, Request
<1>2. ASSUME NEW status \in {200, 400, 401, 500}, Reply(w, status)
      PROVE  /\ \A v \in Worker : v # w => req'[v] = req[v]
             /\ req'[w].pc = "idle"
             /\ refused' = refused \/ (status \in {400, 401} /\ refused' = refused \cup {b})
  <2>1. req' = [req EXCEPT ![w] = Idle]
    BY <1>2 DEF Reply
  <2>2. refused' = refused \/ (status \in {400, 401} /\ refused' = refused \cup {b})
    <3>1. CASE wait[b[1]] # w
      BY <1>2, <3>1 DEF Reply, clients
    <3>2. CASE wait[b[1]] = w /\ status = 200
      BY <1>2, <3>2 DEF Reply
    <3>3. CASE wait[b[1]] = w /\ status \in {400, 401}
      BY <1>2, <3>3 DEF Reply
    <3>4. CASE wait[b[1]] = w /\ status = 500
      BY <1>2, <3>4 DEF Reply
    <3>5. QED  BY <3>1, <3>2, <3>3, <3>4
  <2>3. QED  BY <1>1, <2>1, <2>2 DEF Idle
<1>3. CASE Validate(w)
  <2>1. b \in Index /\ b[1] \in Client
    BY <1>1, <1>3 DEF HandlerOK, Validate, Index
  <2>2. b \in Accepted <=> Authenticated(w) /\ Valid(w)
    BY <2>1 DEF Accepted, Known, Authorized, Index, Authenticated, Valid, BatchOf, Samples
  <2>3. CASE \E status \in {400, 401} : Reply(w, status) /\ b \notin Accepted
    <3>1. refused' \cap Accepted = {}
      BY <1>2, <2>3 DEF RefusedInv
    <3>2. table' = table  BY <1>3 DEF Validate
    <3>3. QED  BY <1>2, <2>3, <3>1, <3>2, RefusedKeeps
  <2>4. CASE /\ Authenticated(w) /\ Valid(w)
             /\ req' = [req EXCEPT ![w].pc = "insert"] /\ UNCHANGED clients
    <3>1. \A v \in Worker : req'[v].batch = req[v].batch /\ (v # w => req'[v] = req[v])
      BY <1>1, <2>4 DEF Request
    <3>2. table' = table /\ refused' = refused
      BY <1>3, <2>4 DEF Validate, clients
    <3>3. \A v \in Worker : req'[v].pc \in {"insert", "check"} => req'[v].batch \in Accepted
      BY <2>2, <2>4, <3>1 DEF RefusedInv
    <3>4. QED  BY <3>2, <3>3, AcceptedIs DEF RefusedInv
  <2>5. QED  BY <1>3, <2>2, <2>3, <2>4 DEF Validate
<1>4. ASSUME req[w].pc = "insert", NEW new \in {{}, NewRows(w)}, table' = table \cup new,
             req[w].at <= Len(BatchOf(w).samples)
      PROVE  /\ b \in Accepted
             /\ \A r \in table' : \E d \in Accepted : r \in RowsOf(ReadingsOf(d))
  <2>1. b \in Accepted  BY <1>4 DEF RefusedInv
  <2>2. new \subseteq RowsOf(ReadingsOf(b))
    BY <1>4, ChunkFacts DEF Readings
  <2> HIDE DEF b
  <2>3. QED  BY <1>4, <2>1, <2>2 DEF RefusedInv
<1>5. CASE InsertChunk(w)
  <2>1. /\ \A r \in table' : \E d \in Accepted : r \in RowsOf(ReadingsOf(d))
    BY <1>4, <1>5 DEF InsertChunk
  <2>2. \A v \in Worker : req'[v].batch = req[v].batch /\ req'[v].pc = req[v].pc
    BY <1>1, <1>5 DEF InsertChunk, Request
  <2>3. refused' = refused
    BY <1>5 DEF InsertChunk, clients
  <2>4. QED  BY <2>1, <2>2, <2>3, AcceptedIs DEF RefusedInv
<1>6. CASE InsertFails(w)
  <2>1. PICK new \in {{}, NewRows(w)} : table' = table \cup new
    BY <1>6 DEF InsertFails
  <2>2. \A r \in table' : \E d \in Accepted : r \in RowsOf(ReadingsOf(d))
    BY <1>4, <1>6, <2>1 DEF InsertFails
  <2>3. Reply(w, 500)  BY <1>6 DEF InsertFails, InternalServerError
  <2>4. refused' = refused  BY <1>2, <2>3
  <2>5. QED  BY <1>2, <2>2, <2>3, <2>4, AcceptedIs DEF RefusedInv
<1>7. CASE RecordIngest(w) \/ CheckReading(w)
  <2>1. req[w].pc \in {"insert", "check"} /\ table' = table /\ refused' = refused
    BY <1>7 DEF RecordIngest, CheckReading, clients
  <2>2. \A v \in Worker : v # w => req'[v] = req[v]
    BY <1>1, <1>7 DEF RecordIngest, CheckReading
  <2>3. req'[w].batch = req[w].batch
    <3>1. CASE RecordIngest(w)
      BY <1>1, <3>1 DEF RecordIngest, Request
    <3>2. CASE CheckReading(w)
      BY <1>1, <3>2 DEF CheckReading, Request
    <3>3. QED  BY <1>7, <3>1, <3>2
  <2>4. refused' \cap Accepted = {}  BY <2>1 DEF RefusedInv
  <2>5. QED  BY <2>1, <2>2, <2>3, <2>4, RefusedKeeps
<1>8. CASE Respond(w)
  <2>1. table' = table /\ Reply(w, 200)  BY <1>8 DEF Respond
  <2>2. refused' \cap Accepted = {}  BY <1>2, <2>1 DEF RefusedInv
  <2>3. QED  BY <1>2, <2>1, <2>2, RefusedKeeps
<1>9. QED  BY <1>3, <1>5, <1>6, <1>7, <1>8 DEF Handle

LEMMA RefusedStep ==
  ASSUME IInv, RefusedInv, [Next]_vars
  PROVE  RefusedInv'
<1>1. req \in [Worker -> Request] /\ refused \cap Accepted = {}
  BY DEF IInv, FieldsOK, RefusedInv
<1>2. CASE \E c \in Client, w \in Worker : Send(c, w)
  <2>1. PICK c \in Client, w \in Worker : Send(c, w)
    BY <1>2
  <2>2. /\ table' = table /\ refused' = refused
        /\ \A v \in Worker : v # w => req'[v] = req[v]
        /\ req'[w].pc = "validate"
    BY <1>1, <2>1 DEF Send, Idle
  <2>3. QED  BY <1>1, <2>2, RefusedKeeps
<1>3. CASE \E w \in Worker : Handle(w)
  BY <1>3, RefusedHandle
<1>4. CASE Restart
  <2>1. table' = table /\ refused' = refused /\ \A v \in Worker : req'[v].pc = "idle"
    BY <1>4 DEF Restart, Idle
  <2>2. QED  BY <1>1, <2>1, RefusedKeeps
<1>5. CASE \/ \E c \in Client : Timeout(c)
           \/ Snapshot \/ TotalRows \/ SourceLastSeen \/ MetricsQueryFails \/ UNCHANGED vars
  <2>1. table' = table /\ refused' = refused /\ req' = req
    BY <1>5 DEF Timeout, NoAnswer, Snapshot, TotalRows, SourceLastSeen, MetricsQueryFails, clients, vars
  <2>2. QED  BY <1>1, <2>1, AcceptedIs DEF RefusedInv
<1>6. QED  BY <1>2, <1>3, <1>4, <1>5 DEF Next

LEMMA RefusedInvariant == Spec => []RefusedInv
<1>1. Init => RefusedInv
  BY DEF Init, RefusedInv, Idle
<1>2. QED  BY <1>1, RefusedStep, IngestInvariant, PTL DEF Spec

(* RefusedLeavesNothing: the batch that stored a row was accepted, so it   *)
(* is not among the refused.                                               *)
THEOREM RefusedAreNotStored == Spec => []RefusedLeavesNothing
<1>1. ASSUME RefusedInv  PROVE RefusedLeavesNothing
  <2>1. SUFFICES ASSUME NEW r \in table
                 PROVE  \E c \in Client : \E i \in Authorized(c) :
                          <<c, i>> \notin refused /\ r \in RowsOf(ReadingsOf(<<c, i>>))
    BY DEF RefusedLeavesNothing
  <2>2. PICK b \in Accepted : r \in RowsOf(ReadingsOf(b))
    BY <1>1 DEF RefusedInv
  <2>3. b[1] \in Client /\ b[2] \in Authorized(b[1]) /\ b = <<b[1], b[2]>> /\ b \notin refused
    BY <1>1, <2>2 DEF RefusedInv, Accepted, Known, Index
  <2>4. <<b[1], b[2]>> \notin refused /\ r \in RowsOf(ReadingsOf(<<b[1], b[2]>>))
    BY <2>2, <2>3
  <2>5. QED  BY <2>3, <2>4
<1>2. QED  BY <1>1, RefusedInvariant, PTL

-----------------------------------------------------------------------------
(* AckedIsHandled: a client that retries goes on only when it is answered, *)
(* and answers and what was handled for them stay.                         *)
AnsweredInv ==
  \A c \in Client : Retries[c] => \A i \in 1 .. pos[c] - 1 : <<c, i>> \in acked \cup refused

(* A client keeps its place, or goes on when its batch has been answered.  *)
GoesOn(c) ==
  \/ pos'[c] = pos[c]
  \/ pos'[c] = pos[c] + 1 /\ <<c, pos[c]>> \in acked' \cup refused'

LEMMA AnsweredKeeps ==
  ASSUME ClientsInv, AnsweredInv, acked \subseteq acked', refused \subseteq refused',
         \A c \in Client : Retries[c] => GoesOn(c)
  PROVE  AnsweredInv'
<1>1. SUFFICES ASSUME NEW c \in Client, Retries[c], NEW i \in 1 .. pos'[c] - 1
               PROVE  <<c, i>> \in acked' \cup refused'
  BY DEF AnsweredInv
<1>2. pos[c] \in Nat /\ GoesOn(c)
  BY <1>1 DEF ClientsInv
<1>3. CASE i \in 1 .. pos[c] - 1
  BY <1>1, <1>3 DEF AnsweredInv
<1>4. CASE i \notin 1 .. pos[c] - 1
  <2>1. pos'[c] = pos[c] + 1 /\ i = pos[c]
    BY <1>2, <1>4 DEF GoesOn
  <2>2. QED  BY <1>2, <2>1 DEF GoesOn
<1>5. QED  BY <1>3, <1>4

(* No answer, of any status, makes a client that retries go past a batch   *)
(* that was not answered for good.                                         *)
LEMMA ReplyGoesOn ==
  ASSUME IInv, NEW w \in Worker, req[w].pc # "idle",
         NEW status \in {200, 400, 401, 500}, Reply(w, status)
  PROVE  /\ acked \subseteq acked' /\ refused \subseteq refused'
         /\ \A c \in Client : Retries[c] => GoesOn(c)
<1> DEFINE d == req[w].batch[1]
<1>1. /\ ClientsInv /\ NoWorker \notin Worker
      /\ d \in Client /\ pos \in [Client -> Nat]
      /\ wait[d] = w => req[w].batch = <<d, pos[d]>>
  <2>1. ClientsInv /\ HandlerOK(req[w]) /\ NoWorker \notin Worker
    BY IngestAssumption DEF IInv, HandlersInv, IngestAssumption
  <2>2. d \in Client  BY <2>1, IndexIsBatch DEF HandlerOK
  <2>3. QED  BY <2>1, <2>2 DEF ClientsInv
<1>2. CASE wait[d] # w
  BY <1>2 DEF Reply, clients, GoesOn
<1>3. CASE wait[d] = w /\ status = 200
  <2>1. /\ acked' = acked \cup {req[w].batch} /\ refused' = refused
        /\ pos' = [pos EXCEPT ![d] = @ + 1]
    BY <1>3 DEF Reply
  <2> HIDE DEF d
  <2>2. QED  BY <1>1, <1>3, <2>1 DEF GoesOn
<1>4. CASE wait[d] = w /\ status \in {400, 401}
  <2>1. /\ refused' = refused \cup {req[w].batch} /\ acked' = acked
        /\ pos' = [pos EXCEPT ![d] = @ + 1]
    <3>1. CASE status = 400  BY <1>4, <3>1 DEF Reply
    <3>2. CASE status = 401  BY <1>4, <3>2 DEF Reply
    <3>3. QED  BY <1>4, <3>1, <3>2
  <2> HIDE DEF d
  <2>2. QED  BY <1>1, <1>4, <2>1 DEF GoesOn
<1>5. CASE wait[d] = w /\ status = 500
  <2>1. /\ acked' = acked /\ refused' = refused
        /\ pos' = [pos EXCEPT ![d] = IF Retries[d] THEN @ ELSE @ + 1]
    BY <1>5 DEF Reply, NoAnswer
  <2> HIDE DEF d
  <2>2. QED  BY <1>1, <2>1 DEF GoesOn
<1>6. QED  BY <1>2, <1>3, <1>4, <1>5

LEMMA AnsweredStep ==
  ASSUME IInv, AnsweredInv, [Next]_vars
  PROVE  AnsweredInv'
<1> DEFINE Quiet == /\ acked \subseteq acked' /\ refused \subseteq refused'
                    /\ \A c \in Client : Retries[c] => GoesOn(c)
<1>0. ClientsInv /\ pos \in [Client -> Nat]
  BY DEF IInv, ClientsInv
<1>1. ASSUME UNCHANGED clients  PROVE Quiet
  BY <1>1 DEF clients, GoesOn
<1>2. ASSUME NEW c \in Client, Timeout(c)  PROVE Quiet
  BY <1>0, <1>2 DEF Timeout, NoAnswer, GoesOn
<1>3. ASSUME NEW c \in Client, NEW w \in Worker, Send(c, w)  PROVE Quiet
  BY <1>3 DEF Send, GoesOn
<1>4. ASSUME NEW w \in Worker, Handle(w)  PROVE Quiet
  <2>1. ASSUME req[w].pc # "idle", NEW status \in {200, 400, 401, 500}, Reply(w, status)  PROVE Quiet
    BY <2>1, ReplyGoesOn
  <2>2. CASE Validate(w)
    BY <1>1, <2>1, <2>2 DEF Validate
  <2>3. CASE InsertFails(w)
    BY <2>1, <2>3 DEF InsertFails, InternalServerError
  <2>4. CASE Respond(w)
    BY <2>1, <2>4 DEF Respond
  <2>5. CASE InsertChunk(w) \/ RecordIngest(w) \/ CheckReading(w)
    BY <1>1, <2>5 DEF InsertChunk, RecordIngest, CheckReading
  <2>6. QED  BY <1>4, <2>2, <2>3, <2>4, <2>5 DEF Handle
<1>5. ASSUME Snapshot \/ TotalRows \/ SourceLastSeen \/ MetricsQueryFails  PROVE Quiet
  BY <1>1, <1>5 DEF Snapshot, TotalRows, SourceLastSeen, MetricsQueryFails
<1>6. ASSUME Restart  PROVE Quiet
  BY <1>0, <1>6 DEF Restart, GoesOn
<1>7. ASSUME UNCHANGED vars  PROVE Quiet
  BY <1>1, <1>7 DEF vars
<1>8. Quiet
  BY <1>2, <1>3, <1>4, <1>5, <1>6, <1>7 DEF Next
<1>9. QED  BY <1>0, <1>8, AnsweredKeeps

(* ingest.go:78-90, collector.py:150-166: AckedIsHandled, what is answered *)
(* 200 is stored and has gone through the alerter, and a client that       *)
(* retries leaves behind no batch that passes validation and was not.      *)
THEOREM AckedAreHandled == Spec => []AckedIsHandled
<1>1. Init => AnsweredInv
  BY DEF Init, AnsweredInv
<1>2. ASSUME IInv, RefusedInv, AnsweredInv  PROVE AckedIsHandled
  <2>1. ASSUME NEW c \in Client, Retries[c], NEW i \in Authorized(c), i < pos[c],
               Accepts(Backlog[c][i].token, Backlog[c][i].samples)
        PROVE  Handled(<<c, i>>)
    <3>1. i \in DOMAIN Backlog[c] /\ Backlog[c] \in Seq(Batch) /\ pos[c] \in Nat
      BY <1>2, IngestAssumption DEF Authorized, IngestAssumption, IInv, ClientsInv
    <3>2. i \in 1 .. pos[c] - 1
      BY <2>1, <3>1
    <3>3. <<c, i>> \in Accepted
      BY <2>1, <3>1 DEF Accepted, Known, Index, Samples
    <3>4. <<c, i>> \in acked \cup refused
      BY <1>2, <2>1, <3>2 DEF AnsweredInv
    <3>5. <<c, i>> \in acked
      BY <1>2, <3>3, <3>4 DEF RefusedInv
    <3>6. QED  BY <1>2, <3>5 DEF IInv, AckedInv, AckedHandled
  <2>2. \A b \in acked : Handled(b)
    BY <1>2 DEF IInv, AckedInv, AckedHandled
  <2>3. QED  BY <2>1, <2>2 DEF AckedIsHandled
<1>3. QED  BY <1>1, <1>2, AnsweredStep, RefusedInvariant, IngestInvariant, PTL DEF Spec

-----------------------------------------------------------------------------
(* OneEventPerCrossing does not hold (old points, posted again, make an    *)
(* alarm flap).  It holds of a metric that one client posts in the order   *)
(* of time, as long as that client waits for every answer.                 *)
InTimeOrder(m, c) ==
  /\ \A b \in Index : \A k \in DOMAIN Samples(b) : Samples(b)[k].metric = m => b[1] = c
  /\ \A i, j \in DOMAIN Backlog[c] :
       \A k \in DOMAIN Samples(<<c, i>>), n \in DOMAIN Samples(<<c, j>>) :
         /\ Samples(<<c, i>>)[k].metric = m /\ Samples(<<c, j>>)[n].metric = m
         /\ i < j \/ (i = j /\ k < n)
         => Samples(<<c, i>>)[k].ts < Samples(<<c, j>>)[n].ts

(* A series of readings in time, and where it crosses its bounds.          *)
IsSeries(S) ==
  /\ IsFiniteSet(S) /\ S \subseteq Reading
  /\ \A p, q \in S : p.ts = q.ts => p = q

Earlier(S, r) == {q \in S : q.ts < r.ts}
WasHigh(S, r) == \E q \in Earlier(S, r) : q.high /\ \A p \in Earlier(S, r) : p.ts <= q.ts
CrossingsOf(S) == {r \in S : r.high # WasHigh(S, r)}
CrossedBy(S, t) == {r \in CrossingsOf(S) : r.ts <= t}
StoredOf(m) == {r \in table : r.metric = m}

LEMMA CrossingsAre ==
  ASSUME NEW m
  PROVE  Crossings(m) = Cardinality(CrossingsOf(StoredOf(m)))
BY DEF Crossings, CrossingsOf, StoredOf, WasHigh, Earlier

(* Later readings do not change how a series went up to t.                 *)
LEMMA CrossedStays ==
  ASSUME NEW S, NEW T, IsSeries(T), S \subseteq T, NEW t \in Nat, \A r \in T \ S : t < r.ts
  PROVE  CrossedBy(T, t) = CrossedBy(S, t)
<1>1. \A r \in T : r.ts \in Nat
  BY DEF IsSeries, Reading
<1>2. \A r \in T : r.ts <= t => r \in S
  BY <1>1
<1>3. ASSUME NEW r \in S, r.ts <= t  PROVE Earlier(T, r) = Earlier(S, r)
  BY <1>1, <1>2, <1>3 DEF Earlier
<1>4. ASSUME NEW r
      PROVE  r \in CrossedBy(T, t) <=> r \in CrossedBy(S, t)
  <2>1. r \in CrossedBy(T, t) => r \in S /\ r.ts <= t
    BY <1>2 DEF CrossedBy, CrossingsOf
  <2>2. r \in CrossedBy(S, t) => r \in S /\ r.ts <= t
    BY DEF CrossedBy, CrossingsOf
  <2>3. ASSUME r \in S, r.ts <= t  PROVE r \in CrossedBy(T, t) <=> r \in CrossedBy(S, t)
    <3>1. (r.high # WasHigh(T, r)) <=> (r.high # WasHigh(S, r))
      BY <1>3, <2>3 DEF WasHigh
    <3>2. QED  BY <2>3, <3>1 DEF CrossedBy, CrossingsOf
  <2>4. QED  BY <2>1, <2>2, <2>3
<1>5. QED  BY <1>4

(* A series that is at level a at time t, and not at a at the time of a    *)
(* later r, has crossed in between.                                        *)
LEMMA CrossesBetween ==
  ASSUME NEW S, IsSeries(S), NEW t \in Nat, NEW a \in BOOLEAN,
         (t = 0 /\ ~a) \/ (\E q \in S : q.ts = t /\ q.high = a),
         NEW r \in S, t < r.ts, r.high # a
  PROVE  \E x \in CrossingsOf(S) : t < x.ts /\ x.ts <= r.ts
<1> DEFINE T == {x \in S : t < x.ts /\ x.high # a}
<1>1. \A x \in S : x.ts \in Nat /\ x.ts > 0 /\ x.high \in BOOLEAN
  BY DEF IsSeries, Reading
<1>2. IsFiniteSet(T) /\ r \in T /\ T \subseteq S
  BY FS_Subset DEF IsSeries
<1>3. PICK x \in T : \A y \in T : x.ts <= y.ts
  <2> HIDE DEF T
  <2>1. QED  BY <1>1, <1>2, FirstAndLast
<1>4. \A y \in S : t < y.ts /\ y.ts < x.ts => y.high = a
  <2>1. ASSUME NEW y \in S, t < y.ts, y.ts < x.ts, y.high # a  PROVE FALSE
    <3>1. y \in T  BY <2>1
    <3>2. x.ts <= y.ts  BY <1>3, <3>1
    <3>3. QED  BY <1>1, <1>2, <2>1, <3>2
  <2>2. QED  BY <2>1
<1>5. \A y \in S : y.ts = t => y.high = a
  BY <1>1 DEF IsSeries
<1>6. \A y \in Earlier(S, x) : t <= y.ts => y.high = a
  BY <1>1, <1>2, <1>4, <1>5 DEF Earlier
<1>7. WasHigh(S, x) = a
  <2>1. CASE a
    <3>1. PICK q \in S : q.ts = t /\ q.high = a  BY <2>1
    <3>2. q \in Earlier(S, x) /\ Earlier(S, x) \subseteq S
      BY <3>1 DEF Earlier
    <3>3. IsFiniteSet(Earlier(S, x))
      BY <3>2, FS_Subset DEF IsSeries
    <3>4. PICK y \in Earlier(S, x) : \A p \in Earlier(S, x) : p.ts <= y.ts
      BY <1>1, <3>2, <3>3, FirstAndLast
    <3>5. t <= y.ts  BY <3>1, <3>2, <3>4
    <3>6. y.high  BY <1>6, <2>1, <3>5
    <3>7. QED  BY <2>1, <3>4, <3>6 DEF WasHigh
  <2>2. CASE ~a
    <3>1. ASSUME WasHigh(S, x)  PROVE FALSE
      <4>1. PICK y \in Earlier(S, x) : y.high /\ \A p \in Earlier(S, x) : p.ts <= y.ts
        BY <3>1 DEF WasHigh
      <4>2. t <= y.ts
        <5>1. CASE t = 0  BY <1>1, <4>1, <5>1 DEF Earlier
        <5>2. CASE \E q \in S : q.ts = t
          <6>1. PICK q \in S : q.ts = t  BY <5>2
          <6>2. q \in Earlier(S, x)  BY <6>1 DEF Earlier
          <6>3. QED  BY <4>1, <6>1, <6>2
        <5>3. QED  BY <5>1, <5>2
      <4>3. QED  BY <1>6, <2>2, <4>1, <4>2
    <3>2. QED  BY <2>2, <3>1 DEF WasHigh
  <2>3. QED  BY <2>1, <2>2
<1>8. x \in CrossingsOf(S)
  BY <1>2, <1>7 DEF CrossingsOf
<1>9. t < x.ts /\ x.ts <= r.ts
  BY <1>2, <1>3
<1>10. QED  BY <1>8, <1>9

LEMMA CrossedGrows ==
  ASSUME NEW S, IsSeries(S), NEW t \in Nat, NEW u \in Nat, t <= u
  PROVE  /\ IsFiniteSet(CrossingsOf(S)) /\ IsFiniteSet(CrossedBy(S, t))
         /\ Cardinality(CrossedBy(S, t)) <= Cardinality(CrossedBy(S, u))
         /\ Cardinality(CrossedBy(S, t)) <= Cardinality(CrossingsOf(S))
         /\ (\E x \in CrossingsOf(S) : t < x.ts /\ x.ts <= u) =>
              Cardinality(CrossedBy(S, t)) + 1 <= Cardinality(CrossedBy(S, u))
<1>1. \A r \in CrossingsOf(S) : r.ts \in Nat
  BY DEF IsSeries, Reading, CrossingsOf
<1>2. IsFiniteSet(CrossingsOf(S))
  BY FS_Subset DEF IsSeries, CrossingsOf
<1>3. CrossedBy(S, t) \subseteq CrossedBy(S, u) /\ CrossedBy(S, u) \subseteq CrossingsOf(S)
  BY <1>1 DEF CrossedBy
<1>4. IsFiniteSet(CrossedBy(S, u)) /\ IsFiniteSet(CrossedBy(S, t))
  BY <1>2, <1>3, FS_Subset
<1>5. Cardinality(CrossedBy(S, t)) \in Nat /\ Cardinality(CrossedBy(S, u)) \in Nat
  BY <1>4, FS_CardinalityType
<1>6. ASSUME NEW x \in CrossingsOf(S), t < x.ts, x.ts <= u
      PROVE  Cardinality(CrossedBy(S, t)) + 1 <= Cardinality(CrossedBy(S, u))
  <2>1. x \in CrossedBy(S, u) /\ x \notin CrossedBy(S, t)
    BY <1>1, <1>6 DEF CrossedBy
  <2>2. CrossedBy(S, t) \cup {x} \subseteq CrossedBy(S, u)
    BY <1>3, <2>1
  <2>3. Cardinality(CrossedBy(S, t) \cup {x}) = Cardinality(CrossedBy(S, t)) + 1
    BY <1>4, <2>1, FS_AddElement
  <2>4. Cardinality(CrossedBy(S, t) \cup {x}) <= Cardinality(CrossedBy(S, u))
    BY <1>4, <2>2, FS_Subset
  <2>5. QED  BY <2>3, <2>4
<1>7. /\ Cardinality(CrossedBy(S, t)) <= Cardinality(CrossedBy(S, u))
      /\ Cardinality(CrossedBy(S, t)) <= Cardinality(CrossingsOf(S))
  <2>1. CrossedBy(S, t) \subseteq CrossingsOf(S)  BY <1>3
  <2>2. QED  BY <1>2, <1>3, <1>4, <2>1, FS_Subset
<1>8. QED  BY <1>2, <1>4, <1>6, <1>7

-----------------------------------------------------------------------------
(* Readings of such a metric, of known batches, are a series.              *)
LEMMA InOrderIsSeries ==
  ASSUME NEW m \in Metric, NEW c \in Client, InTimeOrder(m, c),
         NEW S \in SUBSET Reading, IsFiniteSet(S),
         \A r \in S : r.metric = m /\ \E b \in Known : r \in RowsOf(ReadingsOf(b))
  PROVE  IsSeries(S)
<1>2. ASSUME NEW p \in S
      PROVE  \E i \in DOMAIN Backlog[c] : \E k \in DOMAIN Samples(<<c, i>>) :
               /\ p = ReadingsOf(<<c, i>>)[k]
               /\ Samples(<<c, i>>)[k].metric = m /\ Samples(<<c, i>>)[k].ts = p.ts
               /\ i \in Int /\ k \in Int
  <2>1. PICK b \in Known : p \in RowsOf(ReadingsOf(b))
    OBVIOUS
  <2>2. PICK k \in 1 .. Len(Samples(b)) : p = ReadingsOf(b)[k]
    BY <2>1, KnownReadings
  <2>3. b \in Index /\ Samples(b)[k].metric = m /\ Samples(b)[k].ts = p.ts
    BY <2>2, KnownReadings DEF Known
  <2>4. k \in DOMAIN Samples(b) /\ b = <<b[1], b[2]>> /\ b[2] \in DOMAIN Backlog[b[1]] /\ b[2] \in Int
    BY <2>3, IndexIsBatch DEF Index
  <2>5. b[1] = c
    BY <2>3, <2>4 DEF InTimeOrder
  <2>6. b = <<c, b[2]>> /\ b[2] \in DOMAIN Backlog[c] /\ k \in Int
    BY <2>4, <2>5
  <2>7. QED  BY <2>2, <2>3, <2>4, <2>6
<1>3. ASSUME NEW p \in S, NEW q \in S, p.ts = q.ts
      PROVE  p = q
  <2>1. PICK i \in DOMAIN Backlog[c] : \E k \in DOMAIN Samples(<<c, i>>) :
               /\ p = ReadingsOf(<<c, i>>)[k]
               /\ Samples(<<c, i>>)[k].metric = m /\ Samples(<<c, i>>)[k].ts = p.ts
               /\ i \in Int /\ k \in Int
    BY <1>2
  <2>2. PICK k \in DOMAIN Samples(<<c, i>>) :
               /\ p = ReadingsOf(<<c, i>>)[k]
               /\ Samples(<<c, i>>)[k].metric = m /\ Samples(<<c, i>>)[k].ts = p.ts
               /\ i \in Int /\ k \in Int
    BY <2>1
  <2>3. PICK j \in DOMAIN Backlog[c] : \E n \in DOMAIN Samples(<<c, j>>) :
               /\ q = ReadingsOf(<<c, j>>)[n]
               /\ Samples(<<c, j>>)[n].metric = m /\ Samples(<<c, j>>)[n].ts = q.ts
               /\ j \in Int /\ n \in Int
    BY <1>2
  <2>4. PICK n \in DOMAIN Samples(<<c, j>>) :
               /\ q = ReadingsOf(<<c, j>>)[n]
               /\ Samples(<<c, j>>)[n].metric = m /\ Samples(<<c, j>>)[n].ts = q.ts
               /\ j \in Int /\ n \in Int
    BY <2>3
  <2>5. p.ts \in Nat /\ q.ts \in Nat
    BY DEF Reading
  <2>6. ~(i < j \/ (i = j /\ k < n))
    <3>1. i < j \/ (i = j /\ k < n) => p.ts < q.ts
      BY <2>2, <2>4 DEF InTimeOrder
    <3>2. QED  BY <1>3, <2>5, <3>1
  <2>7. ~(j < i \/ (j = i /\ n < k))
    <3>1. j < i \/ (j = i /\ n < k) => q.ts < p.ts
      BY <2>2, <2>4 DEF InTimeOrder
    <3>2. QED  BY <1>3, <2>5, <3>1
  <2>8. i = j /\ k = n
    BY <2>2, <2>4, <2>6, <2>7
  <2>9. QED  BY <2>2, <2>4, <2>8
<1>4. QED  BY <1>3 DEF IsSeries

LEMMA StoredIsSeries ==
  ASSUME NEW m \in Metric, NEW c \in Client, InTimeOrder(m, c)
  PROVE  (IInv => IsSeries(StoredOf(m))) /\ (IInv' => IsSeries(StoredOf(m)'))
<1>1. ASSUME IInv  PROVE IsSeries(StoredOf(m))
  <2>1. StoredOf(m) \subseteq Reading /\ IsFiniteSet(StoredOf(m)) /\ StoredOf(m) \subseteq table
    BY <1>1, FS_Subset DEF StoredOf, IInv, FieldsOK
  <2>2. \A r \in StoredOf(m) : r.metric = m /\ \E b \in Known : r \in RowsOf(ReadingsOf(b))
    BY <1>1, <2>1 DEF StoredOf, IInv, TableInv
  <2>3. QED  BY <2>1, <2>2, InOrderIsSeries
<1>2. ASSUME IInv'  PROVE IsSeries(StoredOf(m)')
  <2>1. StoredOf(m)' \subseteq Reading /\ IsFiniteSet(StoredOf(m)') /\ StoredOf(m)' \subseteq table'
    BY <1>2, FS_Subset DEF StoredOf, IInv, FieldsOK, Reading
  <2>2. \A r \in StoredOf(m)' : r.metric = m /\ \E b \in Known : r \in RowsOf(ReadingsOf(b))
    BY <1>2, <2>1 DEF StoredOf, IInv, TableInv, Known, Index, Authorized, SourceForToken, PairsOf, RowsOf, ReadingsOf
  <2>3. QED  BY <2>1, <2>2, InOrderIsSeries
<1>3. QED  BY <1>1, <1>2

-----------------------------------------------------------------------------
(* While no request has timed out, a client's handler is the one it waits  *)
(* for, and each of its readings is checked once, in order.                *)
OneHandler(c) ==
  \A w \in Worker : req[w].pc # "idle" /\ req[w].batch[1] = c => wait[c] = w

Checking(c) == wait[c] # NoWorker /\ req[wait[c]].pc = "check"
Pending(c, i, k) == i > pos[c] \/ (i = pos[c] /\ ~(Checking(c) /\ k < req[wait[c]].at))

(* No step but a restart makes a reading pending again. *)
Onward(c) ==
  \/ pos'[c] = pos[c] + 1
  \/ /\ pos'[c] = pos[c]
     /\ Checking(c) => Checking(c)' /\ wait'[c] = wait[c] /\ req'[wait[c]].at >= req[wait[c]].at

LEMMA NotPendingAgain ==
  ASSUME IInv, IInv', NEW c \in Client, Onward(c), NEW i \in Int, NEW k \in Int, Pending(c, i, k)'
  PROVE  Pending(c, i, k)
<1>1. /\ pos[c] \in Nat
      /\ wait[c] # NoWorker => req[wait[c]].at \in Nat
  BY DEF IInv, ClientsInv, FieldsOK, Request
<1>2. CASE pos'[c] = pos[c] + 1
  BY <1>1, <1>2 DEF Pending
<1>3. CASE pos'[c] = pos[c] /\ ~Checking(c)
  BY <1>1, <1>3 DEF Pending
<1>4. CASE pos'[c] = pos[c] /\ Checking(c) /\ ~(pos'[c] = pos[c] + 1)
  <2>1. Checking(c)' /\ wait'[c] = wait[c] /\ req'[wait[c]].at >= req[wait[c]].at
    BY <1>4 DEF Onward
  <2>2. CASE i > pos[c]
    BY <2>2 DEF Pending
  <2>3. CASE ~(i > pos[c])
    <3>1. i = pos[c] /\ ~(k < req'[wait[c]].at)
      BY <1>1, <1>4, <2>1, <2>3 DEF Pending
    <3>2. req'[wait[c]].at \in Nat /\ req[wait[c]].at \in Nat
      BY <1>1, <1>4, <2>1 DEF Checking, IInv, ClientsInv, FieldsOK, Request
    <3>3. ~(k < req[wait[c]].at)
      BY <2>1, <3>1, <3>2
    <3>4. QED  BY <3>1, <3>3 DEF Pending
  <2>4. QED  BY <2>2, <2>3
<1>5. QED  BY <1>2, <1>3, <1>4 DEF Onward

LEMMA ReplyOnward ==
  ASSUME IInv, NEW c \in Client, OneHandler(c), NEW w \in Worker, req[w].pc # "idle",
         NEW status \in {200, 400, 401, 500}, Reply(w, status), status = 500 => req[w].pc = "insert"
  PROVE  OneHandler(c)' /\ Onward(c)
<1> DEFINE d == req[w].batch[1]
<1>1. /\ ClientsInv /\ NoWorker \notin Worker /\ req \in [Worker -> Request]
      /\ d \in Client /\ pos \in [Client -> Nat] /\ wait \in [Client -> Worker \cup {NoWorker}]
      /\ wait[c] = w => req[w].batch = <<c, pos[c]>>
      /\ \A v \in Worker : req[v].at \in Nat
  <2>1. ClientsInv /\ HandlerOK(req[w]) /\ NoWorker \notin Worker /\ req \in [Worker -> Request]
    BY IngestAssumption DEF IInv, HandlersInv, IngestAssumption, FieldsOK
  <2>2. d \in Client  BY <2>1, IndexIsBatch DEF HandlerOK
  <2>3. \A v \in Worker : req[v].at \in Nat  BY <2>1 DEF Request
  <2>4. QED  BY <2>1, <2>2, <2>3 DEF ClientsInv
<1>2. wait[c] = w => d = c
  BY <1>1
<1>3. req' = [req EXCEPT ![w] = Idle]
  BY DEF Reply
<1>4. req'[w].pc = "idle" /\ \A v \in Worker : v # w => req'[v] = req[v]
  BY <1>1, <1>3 DEF Idle
<1>5. CASE wait[d] # w
  <2>1. wait' = wait /\ pos' = pos
    BY <1>5 DEF Reply, clients
  <2>2. wait[c] # w
    BY <1>2, <1>5
  <2>3. QED  BY <1>1, <1>4, <2>1, <2>2 DEF OneHandler, Onward, Checking
<1>6. CASE wait[d] = w
  <2>1. /\ wait' = [wait EXCEPT ![d] = NoWorker]
        /\ \/ pos' = [pos EXCEPT ![d] = @ + 1]
           \/ status = 500 /\ pos' = pos
    <3>1. CASE status = 200  BY <1>6, <3>1 DEF Reply
    <3>2. CASE status = 400  BY <1>6, <3>2 DEF Reply
    <3>3. CASE status = 401  BY <1>6, <3>3 DEF Reply
    <3>4. CASE status = 500
      <4>1. NoAnswer(d)  BY <1>6, <3>4 DEF Reply
      <4>2. CASE Retries[d]
        BY <1>1, <3>4, <4>1, <4>2 DEF NoAnswer
      <4>3. CASE ~Retries[d]
        BY <3>4, <4>1, <4>3 DEF NoAnswer
      <4>4. QED  BY <4>2, <4>3
    <3>5. QED  BY <3>1, <3>2, <3>3, <3>4
  <2> HIDE DEF d
  <2>2. CASE d = c
    <3>1. OneHandler(c)'
      BY <1>1, <1>4, <1>6, <2>1, <2>2 DEF OneHandler
    <3>2. Onward(c)
      BY <1>1, <1>6, <2>1, <2>2 DEF Onward, Checking
    <3>3. QED  BY <3>1, <3>2
  <2>3. CASE d # c
    <3>1. wait'[c] = wait[c] /\ pos'[c] = pos[c] /\ wait[c] # w
      BY <1>1, <1>2, <2>1, <2>3
    <3>2. QED  BY <1>1, <1>4, <3>1 DEF OneHandler, Onward, Checking
  <2>4. QED  BY <2>2, <2>3
<1>7. QED  BY <1>5, <1>6

LEMMA HandlerOnward ==
  ASSUME IInv, NEW c \in Client, OneHandler(c), NEW w \in Worker, Handle(w)
  PROVE  OneHandler(c)' /\ Onward(c)
<1>0. req \in [Worker -> Request] /\ wait \in [Client -> Worker \cup {NoWorker}]
  BY DEF IInv, FieldsOK, ClientsInv
<1>1. ASSUME req[w].pc # "idle", UNCHANGED clients, \A v \in Worker : v # w => req'[v] = req[v],
             req'[w].batch = req[w].batch,
             req[w].pc = "check" => req'[w].pc = "check" /\ req'[w].at >= req[w].at
      PROVE  OneHandler(c)' /\ Onward(c)
  <2>1. wait' = wait /\ pos' = pos
    BY <1>1 DEF clients
  <2>2. \A v \in Worker : req'[v].batch = req[v].batch
    BY <1>1
  <2>3. \A v \in Worker : req[v].at \in Nat
    BY <1>0 DEF Request
  <2>4. OneHandler(c)'
    BY <1>1, <2>1, <2>2 DEF OneHandler
  <2>5. Onward(c)
    BY <1>0, <1>1, <2>1, <2>3 DEF Onward, Checking
  <2>6. QED  BY <2>4, <2>5
<1>2. req[w] \in Request
  BY <1>0
<1>3. CASE Validate(w)
  <2>1. CASE \E status \in {400, 401} : Reply(w, status)
    BY <1>3, <2>1, ReplyOnward DEF Validate
  <2>2. CASE req' = [req EXCEPT ![w].pc = "insert"] /\ UNCHANGED clients
    <3>1. req'[w].batch = req[w].batch /\ \A v \in Worker : v # w => req'[v] = req[v]
      BY <1>0, <1>2, <2>2 DEF Request
    <3>2. QED  BY <1>1, <1>3, <2>2, <3>1 DEF Validate
  <2>3. QED  BY <1>3, <2>1, <2>2 DEF Validate
<1>4. CASE InsertFails(w)
  BY <1>4, ReplyOnward DEF InsertFails, InternalServerError
<1>5. CASE Respond(w)
  BY <1>5, ReplyOnward DEF Respond
<1>6. CASE InsertChunk(w)
  <2>1. req'[w].batch = req[w].batch /\ \A v \in Worker : v # w => req'[v] = req[v]
    BY <1>0, <1>2, <1>6 DEF InsertChunk, Request
  <2>2. QED  BY <1>1, <1>6, <2>1 DEF InsertChunk
<1>7. CASE RecordIngest(w)
  <2>1. req'[w].batch = req[w].batch /\ \A v \in Worker : v # w => req'[v] = req[v]
    BY <1>0, <1>2, <1>7 DEF RecordIngest, Request
  <2>2. QED  BY <1>1, <1>7, <2>1 DEF RecordIngest
<1>8. CASE CheckReading(w)
  <2>1. /\ req'[w].batch = req[w].batch /\ \A v \in Worker : v # w => req'[v] = req[v]
        /\ req'[w].pc = "check" /\ req'[w].at >= req[w].at
    BY <1>0, <1>2, <1>8 DEF CheckReading, Request
  <2>2. QED  BY <1>1, <1>8, <2>1 DEF CheckReading
<1>9. QED  BY <1>3, <1>4, <1>5, <1>6, <1>7, <1>8 DEF Handle

LEMMA StepOnward ==
  ASSUME IInv, NEW c \in Client, OneHandler(c), [Next]_vars, ~ \E d \in Client : Timeout(d)
  PROVE  OneHandler(c)' /\ (Onward(c) \/ Restart)
<1>0. /\ req \in [Worker -> Request] /\ wait \in [Client -> Worker \cup {NoWorker}]
      /\ NoWorker \notin Worker
  BY IngestAssumption DEF IInv, FieldsOK, ClientsInv, IngestAssumption
<1>1. CASE \E d \in Client, w \in Worker : Send(d, w)
  <2>1. PICK d \in Client, w \in Worker : Send(d, w)
    BY <1>1
  <2>2. /\ wait' = [wait EXCEPT ![d] = w] /\ wait[d] = NoWorker /\ pos' = pos
        /\ req[w].pc = "idle" /\ req'[w].batch = <<d, pos[d]>>
        /\ \A v \in Worker : v # w => req'[v] = req[v]
    BY <1>0, <2>1 DEF Send, Idle
  <2>3. CASE d = c
    BY <1>0, <2>2, <2>3 DEF OneHandler, Onward, Checking
  <2>4. CASE d # c
    <3>1. wait'[c] = wait[c] /\ req'[w].batch[1] # c
      BY <1>0, <2>2, <2>4
    <3>2. OneHandler(c)'
      BY <2>2, <3>1 DEF OneHandler
    <3>3. Onward(c)
      <4>1. \A v \in Worker : req[v].at \in Nat
        BY <1>0 DEF Request
      <4>2. QED  BY <1>0, <2>2, <3>1, <4>1 DEF Onward, Checking
    <3>4. QED  BY <3>2, <3>3
  <2>5. QED  BY <2>3, <2>4
<1>2. CASE \E w \in Worker : Handle(w)
  BY <1>2, HandlerOnward
<1>3. CASE Restart
  BY <1>3 DEF Restart, OneHandler, Idle
<1>4. CASE Snapshot \/ TotalRows \/ SourceLastSeen \/ MetricsQueryFails \/ UNCHANGED vars
  <2>1. req' = req /\ wait' = wait /\ pos' = pos
    BY <1>4 DEF Snapshot, TotalRows, SourceLastSeen, MetricsQueryFails, clients, vars
  <2>2. \A v \in Worker : req[v].at \in Nat
    BY <1>0 DEF Request
  <2>3. QED  BY <1>0, <2>1, <2>2 DEF OneHandler, Onward, Checking
<1>5. QED  BY <1>1, <1>2, <1>3, <1>4 DEF Next

-----------------------------------------------------------------------------
(* The alerter has gone through the series up to a time t, that of the last *)
(* reading it saw: there were no more events than crossings, the alarm is   *)
(* as that reading says, and what is pending is later.                      *)
EventsUpTo(m, c, t) ==
  /\ events[m] <= Cardinality(CrossedBy(StoredOf(m), t))
  /\ (t = 0 /\ ~alarm[m]) \/ \E q \in StoredOf(m) : q.ts = t /\ q.high = alarm[m]
  /\ \A i \in DOMAIN Backlog[c] : \A k \in DOMAIN Samples(<<c, i>>) :
       Samples(<<c, i>>)[k].metric = m /\ Pending(c, i, k) => t < Samples(<<c, i>>)[k].ts

EventsInv(m, c) == bounds.timeouts = 0 => OneHandler(c) /\ \E t \in Nat : EventsUpTo(m, c, t)

LEMMA EventsKeep ==
  ASSUME NEW m \in Metric, NEW c \in Client, InTimeOrder(m, c), NEW t \in Nat,
         IInv, IInv', Onward(c), EventsUpTo(m, c, t), table \subseteq table',
         \A r \in table' \ table : r.metric = m => t < r.ts,
         alarm'[m] = alarm[m], events'[m] = events[m]
  PROVE  EventsUpTo(m, c, t)'
<1>1. StoredOf(m) \subseteq StoredOf(m)' /\ \A r \in StoredOf(m)' \ StoredOf(m) : t < r.ts
  BY DEF StoredOf
<1>2. IsSeries(StoredOf(m)')
  BY StoredIsSeries
<1>3. CrossedBy(StoredOf(m)', t) = CrossedBy(StoredOf(m), t)
  BY <1>1, <1>2, CrossedStays
<1>4. events'[m] <= Cardinality(CrossedBy(StoredOf(m)', t))
  BY <1>3 DEF EventsUpTo
<1>5. (t = 0 /\ ~alarm'[m]) \/ \E q \in StoredOf(m)' : q.ts = t /\ q.high = alarm'[m]
  BY <1>1 DEF EventsUpTo
<1>6. ASSUME NEW i \in DOMAIN Backlog[c], NEW k \in DOMAIN Samples(<<c, i>>),
             Samples(<<c, i>>)[k].metric = m, Pending(c, i, k)'
      PROVE  t < Samples(<<c, i>>)[k].ts
  <2>1. <<c, i>> \in Index /\ i \in Int
    BY IngestAssumption DEF Index, IngestAssumption
  <2>2. k \in Int
    BY <2>1, IndexIsBatch
  <2>3. Pending(c, i, k)
    BY <1>6, <2>1, <2>2, NotPendingAgain
  <2>4. QED  BY <1>6, <2>3 DEF EventsUpTo
<1>7. QED  BY <1>4, <1>5, <1>6 DEF EventsUpTo, CrossedBy, CrossingsOf, WasHigh, Earlier, Samples

(* What is inserted is pending: it is not checked before all is stored.    *)
LEMMA NewAreLater ==
  ASSUME NEW m \in Metric, NEW c \in Client, InTimeOrder(m, c), NEW t \in Nat,
         IInv, OneHandler(c), EventsUpTo(m, c, t),
         NEW w \in Worker, req[w].pc = "insert", req[w].at <= Len(BatchOf(w).samples),
         NEW r \in NewRows(w), r.metric = m
  PROVE  t < r.ts
<1> DEFINE b == req[w].batch
<1>1. b \in Known /\ b \in Index /\ ClientsInv /\ NoWorker \notin Worker
  BY IngestAssumption DEF IInv, HandlersInv, HandlerOK, Known, IngestAssumption
<1>2. PICK k \in 1 .. Len(Samples(b)) : r = ReadingsOf(b)[k]
  BY <1>1, ChunkFacts, KnownReadings DEF Readings
<1>3. k \in DOMAIN Samples(b) /\ Samples(b)[k].metric = m /\ Samples(b)[k].ts = r.ts
  BY <1>1, <1>2, KnownReadings, IndexIsBatch
<1>4. b[1] = c
  BY <1>1, <1>3 DEF InTimeOrder
<1>5. wait[c] = w /\ b = <<c, pos[c]>> /\ pos[c] \in DOMAIN Backlog[c]
  BY <1>1, <1>4 DEF OneHandler, ClientsInv
<1>6. Pending(c, pos[c], k)
  BY <1>5 DEF Pending, Checking
<1>7. QED  BY <1>3, <1>5, <1>6 DEF EventsUpTo

LEMMA TimesArePositive ==
  ASSUME NEW c \in Client, NEW i \in DOMAIN Backlog[c], NEW k \in DOMAIN Samples(<<c, i>>)
  PROVE  0 < Samples(<<c, i>>)[k].ts
<1>1. <<c, i>> \in Index
  BY IngestAssumption DEF Index, IngestAssumption
<1>2. Samples(<<c, i>>)[k] \in Sample
  BY <1>1, IndexIsBatch
<1>3. QED  BY <1>2 DEF Sample

LEMMA EventsCheck ==
  ASSUME NEW m \in Metric, NEW c \in Client, InTimeOrder(m, c), NEW t \in Nat,
         IInv, IInv', OneHandler(c), Onward(c), EventsUpTo(m, c, t), NEW w \in Worker, CheckReading(w)
  PROVE  \E u \in Nat : EventsUpTo(m, c, u)'
<1> DEFINE b == req[w].batch
           n == req[w].at
           r == Readings(w)[n]
           S == StoredOf(m)
<1>1. /\ b \in Known /\ b \in Index /\ ClientsInv /\ NoWorker \notin Worker /\ FieldsOK
      /\ n \in 1 .. Len(Samples(b)) /\ r = ReadingsOf(b)[n] /\ r \in table
      /\ n \in DOMAIN Samples(b) /\ req[w].pc = "check"
  <2>1. HandlerOK(req[w]) /\ req[w].pc = "check" /\ n \in Nat \ {0} /\ n <= Len(BatchOf(w).samples)
    BY DEF IInv, HandlersInv, FieldsOK, Request, CheckReading
  <2>2. b \in Known /\ b \in Index /\ BatchOf(w).samples = Samples(b) /\ Len(Samples(b)) \in Nat
    BY <2>1, IndexIsBatch DEF HandlerOK, Known, BatchOf, Samples
  <2>3. n \in 1 .. Len(Samples(b))
    BY <2>1, <2>2
  <2>4. r \in table /\ r = ReadingsOf(b)[n]
    BY <2>1, <2>3 DEF HandlerOK, Readings
  <2>5. QED  BY <2>1, <2>2, <2>3, <2>4, IndexIsBatch, IngestAssumption DEF IInv, IngestAssumption
<1>2. /\ r \in Reading /\ Samples(b)[n].metric = r.metric /\ Samples(b)[n].ts = r.ts
      /\ r.metric \in Metric /\ r.high \in BOOLEAN /\ r.ts \in Nat
  <2>1. r \in Reading /\ Samples(b)[n].metric = r.metric /\ Samples(b)[n].ts = r.ts
    BY <1>1, KnownReadings
  <2> HIDE DEF r
  <2>2. QED  BY <2>1 DEF Reading
<1>3. /\ alarm' = [alarm EXCEPT ![r.metric] = r.high] /\ table' = table
      /\ events' = [events EXCEPT ![r.metric] = IF alarm[r.metric] = r.high THEN @ ELSE @ + 1]
      /\ wait' = wait /\ pos' = pos /\ req' = [req EXCEPT ![w].at = @ + 1]
  BY DEF CheckReading, clients
<1>4. /\ alarm \in [Metric -> BOOLEAN] /\ events \in [Metric -> Nat] /\ req \in [Worker -> Request]
  BY <1>1 DEF FieldsOK
<1> HIDE DEF r
<1>5. CASE r.metric # m
  <2>1. alarm'[m] = alarm[m] /\ events'[m] = events[m]
    BY <1>3, <1>4, <1>5
  <2>2. EventsUpTo(m, c, t)'
    BY <1>3, <2>1, EventsKeep
  <2>3. QED  BY <2>2
<1>6. CASE r.metric = m
  <2>1. b[1] = c
    BY <1>1, <1>2, <1>6 DEF InTimeOrder
  <2>2. wait[c] = w /\ b = <<c, pos[c]>> /\ pos[c] \in DOMAIN Backlog[c] /\ pos[c] \in Nat
    BY <1>1, <2>1 DEF OneHandler, ClientsInv
  <2>3. t < r.ts
    <3>1. Pending(c, pos[c], n)
      BY <1>1, <2>2 DEF Pending
    <3>2. QED  BY <1>1, <1>2, <1>6, <2>2, <3>1 DEF EventsUpTo
  <2>4. r \in S /\ IsSeries(S) /\ StoredOf(m)' = S
    BY <1>1, <1>3, <1>6, StoredIsSeries DEF StoredOf
  <2>5. events'[m] <= Cardinality(CrossedBy(S, r.ts))
    <3>1. /\ Cardinality(CrossedBy(S, t)) \in Nat /\ Cardinality(CrossedBy(S, r.ts)) \in Nat
          /\ Cardinality(CrossedBy(S, t)) <= Cardinality(CrossedBy(S, r.ts))
          /\ (\E x \in CrossingsOf(S) : t < x.ts /\ x.ts <= r.ts) =>
               Cardinality(CrossedBy(S, t)) + 1 <= Cardinality(CrossedBy(S, r.ts))
      BY <1>2, <2>3, <2>4, CrossedGrows, FS_CardinalityType
    <3>2. events[m] <= Cardinality(CrossedBy(S, t)) /\ events[m] \in Nat
      BY <1>4 DEF EventsUpTo
    <3>3. CASE alarm[m] = r.high
      <4>1. events'[m] = events[m]  BY <1>3, <1>4, <1>6, <3>3
      <4>2. QED  BY <3>1, <3>2, <4>1
    <3>4. CASE alarm[m] # r.high
      <4>1. events'[m] = events[m] + 1  BY <1>3, <1>4, <1>6, <3>4
      <4>2. alarm[m] \in BOOLEAN  BY <1>4
      <4>3. (t = 0 /\ ~alarm[m]) \/ \E q \in S : q.ts = t /\ q.high = alarm[m]
        BY DEF EventsUpTo
      <4>4. \E x \in CrossingsOf(S) : t < x.ts /\ x.ts <= r.ts
        BY <2>3, <2>4, <3>4, <4>2, <4>3, CrossesBetween
      <4>5. QED  BY <3>1, <3>2, <4>1, <4>4
    <3>5. QED  BY <3>3, <3>4
  <2>6. \E q \in StoredOf(m)' : q.ts = r.ts /\ q.high = alarm'[m]
    BY <1>3, <1>4, <1>6, <2>4
  <2>7. ASSUME NEW i \in DOMAIN Backlog[c], NEW k \in DOMAIN Samples(<<c, i>>),
               Samples(<<c, i>>)[k].metric = m, Pending(c, i, k)'
        PROVE  r.ts < Samples(<<c, i>>)[k].ts
    <3>1. <<c, i>> \in Index /\ i \in Int
      BY IngestAssumption DEF Index, IngestAssumption
    <3>2. k \in Int /\ n \in Int
      BY <1>1, <3>1, IndexIsBatch
    <3>3. Checking(c)' /\ req'[wait'[c]].at = n + 1
      BY <1>1, <1>3, <1>4, <2>2 DEF Checking, Request
    <3>4. pos[c] < i \/ (pos[c] = i /\ n < k)
      <4>1. i > pos[c] \/ (i = pos[c] /\ ~(k < n + 1))
        BY <1>3, <2>7, <3>3 DEF Pending
      <4>2. QED  BY <2>2, <3>1, <3>2, <4>1
    <3>5. Samples(<<c, pos[c]>>)[n].metric = m /\ n \in DOMAIN Samples(<<c, pos[c]>>)
      BY <1>1, <1>2, <1>6, <2>2
    <3>6. Samples(<<c, pos[c]>>)[n].ts < Samples(<<c, i>>)[k].ts
      BY <2>2, <2>7, <3>4, <3>5 DEF InTimeOrder
    <3>7. QED  BY <1>2, <2>2, <3>6
  <2>8. PICK u \in Nat : u = r.ts
    BY <1>2
  <2>9. /\ events'[m] <= Cardinality(CrossedBy(StoredOf(m)', u))
        /\ \E q \in StoredOf(m)' : q.ts = u /\ q.high = alarm'[m]
    BY <2>4, <2>5, <2>6, <2>8
  <2>10. \A i \in DOMAIN Backlog[c] : \A k \in DOMAIN Samples(<<c, i>>) :
           Samples(<<c, i>>)[k].metric = m /\ Pending(c, i, k)' => u < Samples(<<c, i>>)[k].ts
    BY <2>7, <2>8
  <2>11. EventsUpTo(m, c, u)'
    BY <2>9, <2>10 DEF EventsUpTo, CrossedBy, CrossingsOf, WasHigh, Earlier, Samples
  <2>12. QED  BY <2>11
<1>7. QED  BY <1>5, <1>6

LEMMA EventsStep ==
  ASSUME NEW m \in Metric, NEW c \in Client, InTimeOrder(m, c),
         IInv, IInv', EventsInv(m, c), [Next]_vars
  PROVE  EventsInv(m, c)'
<1>1. SUFFICES ASSUME bounds'.timeouts = 0
               PROVE  OneHandler(c)' /\ \E t \in Nat : EventsUpTo(m, c, t)'
  BY DEF EventsInv, EventsUpTo, CrossedBy, CrossingsOf, WasHigh, Earlier, Samples
<1>2. bounds.timeouts = 0 /\ ~ \E d \in Client : Timeout(d)
  <2>1. bounds \in [failures : 0..MaxFailures, timeouts : 0..MaxTimeouts, restarts : 0..MaxRestarts]
    BY DEF IInv, FieldsOK
  <2>2. ASSUME NEW d \in Client, Timeout(d)  PROVE FALSE
    <3>1. bounds' = [bounds EXCEPT !.timeouts = @ + 1]
      BY <2>2 DEF Timeout, Spend
    <3>2. MaxTimeouts \in Nat
      BY IngestAssumption DEF IngestAssumption
    <3>3. QED  BY <1>1, <2>1, <3>1, <3>2
  <2>3. bounds'.timeouts = bounds.timeouts
    <3>1. bounds' = bounds \/ Spend("failures") \/ Spend("restarts")
      BY <2>2 DEF Next, Handle, Send, Validate, InsertChunk, InsertFails, RecordIngest, CheckReading, Respond,
         Snapshot, TotalRows, SourceLastSeen, MetricsQueryFails, Restart, vars
    <3>2. QED  BY <2>1, <3>1 DEF Spend
  <2>4. QED  BY <1>1, <2>2, <2>3
<1>3. PICK t \in Nat : EventsUpTo(m, c, t)
  BY <1>2 DEF EventsInv
<1>4. OneHandler(c) /\ OneHandler(c)' /\ (Onward(c) \/ Restart)
  BY <1>2, StepOnward DEF EventsInv
<1>5. CASE Restart
  <2>1. /\ table' = table /\ alarm'[m] = FALSE /\ events'[m] = 0
    BY <1>5 DEF Restart
  <2>2. 0 <= Cardinality(CrossedBy(StoredOf(m)', 0))
    BY StoredIsSeries, CrossedGrows, FS_CardinalityType
  <2>3. EventsUpTo(m, c, 0)'
    BY <2>1, <2>2, TimesArePositive DEF EventsUpTo, CrossedBy, CrossingsOf, WasHigh, Earlier, Samples
  <2>4. QED  BY <1>4, <2>3
<1>6. CASE ~Restart /\ \E w \in Worker : CheckReading(w)
  BY <1>3, <1>4, <1>6, EventsCheck
<1>7. CASE ~Restart /\ ~ \E w \in Worker : CheckReading(w)
  <2>1. alarm' = alarm /\ events' = events
    BY <1>2, <1>7 DEF Next, Handle, Send, Validate, InsertChunk, InsertFails, RecordIngest, Respond,
       Snapshot, TotalRows, SourceLastSeen, MetricsQueryFails, alerter, vars
  <2>2. \/ table' = table
        \/ \E w \in Worker : /\ req[w].pc = "insert" /\ req[w].at <= Len(BatchOf(w).samples)
                             /\ table' = table \cup NewRows(w)
    <3>1. CASE \E w \in Worker : InsertChunk(w) \/ InsertFails(w)
      BY <3>1 DEF InsertChunk, InsertFails
    <3>2. CASE ~ \E w \in Worker : InsertChunk(w) \/ InsertFails(w)
      BY <1>2, <1>7, <3>2 DEF Next, Handle, Send, Validate, RecordIngest, Respond,
         Snapshot, TotalRows, SourceLastSeen, MetricsQueryFails, vars
    <3>3. QED  BY <3>1, <3>2
  <2>3. table \subseteq table' /\ \A r \in table' \ table : r.metric = m => t < r.ts
    BY <1>3, <1>4, <2>2, NewAreLater
  <2>4. EventsUpTo(m, c, t)'
    BY <1>3, <1>4, <1>7, <2>1, <2>3, EventsKeep
  <2>5. QED  BY <1>4, <2>4
<1>8. QED  BY <1>5, <1>6, <1>7

(* alert.go:2-4: OneEventPerCrossing, of a metric that one client posts in  *)
(* the order of time, whatever fails and whenever the server restarts, as  *)
(* long as no request times out: the alerter raises no more events than    *)
(* the stored series has crossings.                                        *)
THEOREM OneEventInOrder ==
  ASSUME NEW m \in Metric, NEW c \in Client, InTimeOrder(m, c)
  PROVE  Spec => [](bounds.timeouts = 0 => events[m] <= Crossings(m))
<1>1. Init => EventsInv(m, c)
  <2> SUFFICES ASSUME Init  PROVE EventsInv(m, c)
    OBVIOUS
  <2>1. OneHandler(c)
    BY DEF Init, OneHandler, Idle
  <2>2. 0 <= Cardinality(CrossedBy(StoredOf(m), 0))
    BY IngestInit, StoredIsSeries, CrossedGrows, FS_CardinalityType
  <2>3. EventsUpTo(m, c, 0)
    BY <2>2, TimesArePositive DEF Init, EventsUpTo
  <2>4. QED  BY <2>1, <2>3 DEF EventsInv
<1>2. IInv /\ EventsInv(m, c) => (bounds.timeouts = 0 => events[m] <= Crossings(m))
  <2> SUFFICES ASSUME IInv, EventsInv(m, c), bounds.timeouts = 0
               PROVE  events[m] <= Crossings(m)
    OBVIOUS
  <2>1. PICK t \in Nat : EventsUpTo(m, c, t)
    BY DEF EventsInv
  <2>2. IsSeries(StoredOf(m))
    BY StoredIsSeries
  <2>3. /\ Cardinality(CrossedBy(StoredOf(m), t)) \in Nat /\ Cardinality(CrossingsOf(StoredOf(m))) \in Nat
        /\ Cardinality(CrossedBy(StoredOf(m), t)) <= Cardinality(CrossingsOf(StoredOf(m)))
    BY <2>2, CrossedGrows, FS_CardinalityType
  <2>4. events[m] \in Nat /\ events[m] <= Cardinality(CrossedBy(StoredOf(m), t))
    BY <2>1 DEF EventsUpTo, IInv, FieldsOK
  <2>5. events[m] <= Cardinality(CrossingsOf(StoredOf(m)))
    BY <2>3, <2>4
  <2>6. QED  BY <2>5, CrossingsAre
<1>3. IInv /\ IInv' /\ EventsInv(m, c) /\ [Next]_vars => EventsInv(m, c)'
  BY EventsStep
<1>4. QED  BY <1>1, <1>2, <1>3, IngestInvariant, PTL DEF Spec
=============================================================================
