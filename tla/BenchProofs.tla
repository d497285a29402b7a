----------------------------- MODULE BenchProofs -----------------------------
(***************************************************************************)
(* SentOnce and DeltaCoversOk of Bench, for any numbers of producers,      *)
(* workers, requests and readings.                                         *)
(***************************************************************************)
EXTENDS Bench, FiniteSetTheorems, TLAPS

Load == Producer \X Worker
WorkerState == [pc : {"claim", "draw", "exited"}, request : Nat, drawn : SUBSET Nat]

BenchTypeOK ==
  /\ flags \in Flag
  /\ next \in [Producer -> Nat] /\ seq \in Nat
  /\ worker \in [Load -> WorkerState]
  /\ ok \in [Producer -> Nat] /\ errs \in [Producer -> Nat]
  /\ merging \in [Producer -> [pc : {"load", "write", "done"}, read : Nat]] /\ mergedOk \in Nat
  /\ sent \subseteq [source : Producer, request : Nat, ts : Nat]

(* A number drawn from the sequence is in one batch or one reading sent.   *)
NumbersInv ==
  /\ \A l \in Load : \A n \in worker[l].drawn : n <= seq /\ worker[l].pc = "draw"
  /\ \A x \in sent : x.ts <= seq
  /\ \A l, m \in Load : l # m => worker[l].drawn \cap worker[m].drawn = {}
  /\ \A l \in Load, x \in sent : x.ts \notin worker[l].drawn
  /\ \A x, y \in sent : x.ts = y.ts => x = y

Sent(p) == {x.request : x \in {x \in sent : x.source = p}}

(* A request is claimed once, and is then held by a worker or sent.        *)
ClaimsInv ==
  /\ \A l \in Load : worker[l].pc = "draw" =>
       /\ worker[l].request < next[l[1]] /\ worker[l].request < flags.requests
       /\ worker[l].request \notin Sent(l[1])
  /\ \A l, m \in Load :
       worker[l].pc = "draw" /\ worker[m].pc = "draw" /\ l[1] = m[1]
         /\ worker[l].request = worker[m].request => l = m
  /\ \A p \in Producer : \A r \in Sent(p) : r < next[p] /\ r < flags.requests
  /\ \A p \in Producer : \A r \in Nat : r < next[p] /\ r < flags.requests =>
       \/ r \in Sent(p)
       \/ \E w \in flags.workers : worker[<<p, w>>].pc = "draw" /\ worker[<<p, w>>].request = r

(* Each has been counted, and a worker that has exited found none left.    *)
CountsInv ==
  /\ \A p \in Producer : IsFiniteSet(Sent(p)) /\ ok[p] + errs[p] = Cardinality(Sent(p))
  /\ \A l \in Load : worker[l].pc = "exited" => next[l[1]] >= flags.requests
  /\ \A p \in Producer : merging[p].pc # "load" =>
       \A w \in flags.workers : worker[<<p, w>>].pc = "exited"

BenchIInv == BenchTypeOK /\ NumbersInv /\ ClaimsInv /\ CountsInv

-----------------------------------------------------------------------------
LEMMA LoadsAreLoads ==
  ASSUME BenchTypeOK, NEW l \in Loads
  PROVE  /\ l \in Load /\ l[1] \in flags.producers /\ l[1] \in Producer
         /\ l[2] \in flags.workers /\ l = <<l[1], l[2]>>
BY DEF BenchTypeOK, Loads, Load, Flag

LEMMA BenchInitInv == BenchInit => BenchIInv
<1> SUFFICES ASSUME BenchInit  PROVE BenchIInv
  OBVIOUS
<1>1. flags \in Flag
  BY BenchAssumption DEF BenchAssumption, BenchInit
<1>2. BenchTypeOK
  BY <1>1 DEF BenchInit, BenchTypeOK, Load, WorkerState, Free
<1>3. \A l \in Load : worker[l].pc = "claim" /\ worker[l].drawn = {}
  BY DEF BenchInit, Load, Free
<1>4. NumbersInv
  BY <1>3 DEF NumbersInv, BenchInit
<1>5. \A p \in Producer : Sent(p) = {}
  BY DEF Sent, BenchInit
<1>6. ClaimsInv
  BY <1>3, <1>5 DEF ClaimsInv, BenchInit
<1>7. CountsInv
  <2>1. \A p \in Producer : ok[p] = 0 /\ errs[p] = 0 /\ merging[p].pc = "load"
    BY DEF BenchInit
  <2>2. IsFiniteSet({}) /\ Cardinality({}) = 0
    BY FS_EmptySet
  <2>3. \A p \in Producer : IsFiniteSet(Sent(p)) /\ ok[p] + errs[p] = Cardinality(Sent(p))
    BY <1>5, <2>1, <2>2
  <2>4. QED  BY <1>3, <2>1, <2>3 DEF CountsInv
<1>8. QED  BY <1>2, <1>4, <1>6, <1>7 DEF BenchIInv

(* A step that touches neither the workers nor what they share.            *)
LEMMA BenchNeutral ==
  ASSUME BenchIInv, UNCHANGED <<flags, next, seq, worker, stats, merge, sent>>
  PROVE  BenchIInv'
<1>1. \A p : Sent(p)' = Sent(p)
  BY DEF Sent
<1>2. BenchTypeOK' /\ NumbersInv'
  BY DEF BenchIInv, BenchTypeOK, NumbersInv, stats, merge
<1>3. ClaimsInv'
  BY <1>1 DEF BenchIInv, ClaimsInv
<1>4. CountsInv'
  BY <1>1 DEF BenchIInv, CountsInv, stats, merge
<1>5. QED  BY <1>2, <1>3, <1>4 DEF BenchIInv

LEMMA ClaimStep ==
  ASSUME BenchIInv, NEW l \in Loads, Claim(l)
  PROVE  BenchIInv'
<1> DEFINE p == l[1]
<1>0. /\ l \in Load /\ p \in Producer /\ l[2] \in flags.workers /\ l = <<p, l[2]>>
      /\ BenchTypeOK /\ NumbersInv /\ ClaimsInv /\ CountsInv
  BY LoadsAreLoads DEF BenchIInv
<1>1. /\ worker[l].pc = "claim" /\ next' = [next EXCEPT ![p] = @ + 1]
      /\ UNCHANGED <<flags, seq, stats, merge, sent>>
  BY DEF Claim
<1>2. PICK new \in WorkerState :
        /\ worker' = [worker EXCEPT ![l] = new]
        /\ new.drawn = {}
        /\ \/ new.pc = "exited" /\ next[p] >= flags.requests
           \/ new.pc = "draw" /\ next[p] < flags.requests /\ new.request = next[p]
  <2>1. next[p] \in Nat /\ flags.requests \in Nat
    BY <1>0 DEF BenchTypeOK, Flag
  <2>2. CASE next[p] >= flags.requests
    <3>1. [Free EXCEPT !.pc = "exited"] \in WorkerState
      BY DEF Free, WorkerState
    <3>2. QED  BY <2>2, <3>1 DEF Claim, Free
  <2>3. CASE ~(next[p] >= flags.requests)
    <3> DEFINE claimed == [pc |-> "draw", request |-> next[p], drawn |-> {}]
    <3>1. claimed \in WorkerState
      BY <2>1 DEF WorkerState
    <3>2. worker' = [worker EXCEPT ![l] = claimed]
      BY <2>3 DEF Claim
    <3>3. next[p] < flags.requests
      BY <2>1, <2>3
    <3>4. claimed.pc = "draw" /\ claimed.request = next[p] /\ claimed.drawn = {}
      OBVIOUS
    <3> HIDE DEF claimed
    <3>5. QED  BY <3>1, <3>2, <3>3, <3>4
  <2>4. QED  BY <2>2, <2>3
<1> HIDE DEF p
<1>3. /\ \A m \in Load : worker'[m] = IF m = l THEN new ELSE worker[m]
      /\ \A q \in Producer : next'[q] = IF q = p THEN next[p] + 1 ELSE next[q]
      /\ \A q \in Producer : next[q] \in Nat /\ next'[q] >= next[q]
      /\ \A q : Sent(q)' = Sent(q)
      /\ flags.requests \in Nat
  BY <1>0, <1>1, <1>2 DEF BenchTypeOK, Sent, Flag
<1>4. BenchTypeOK'
  BY <1>0, <1>1, <1>2 DEF BenchTypeOK, stats, merge
<1>5. worker[l].drawn = {}
  BY <1>0, <1>1 DEF NumbersInv
<1>6. NumbersInv'
  BY <1>0, <1>1, <1>2, <1>3, <1>5 DEF NumbersInv
<1>7. ClaimsInv'
  <2>1. \A m \in Load : worker'[m].pc = "draw" =>
          /\ worker'[m].request < next'[m[1]] /\ worker'[m].request < flags.requests
          /\ worker'[m].request \notin Sent(m[1])
    <3>1. p = l[1] /\ next[p] \notin Sent(p)
      BY <1>0, <1>3 DEF ClaimsInv, p
    <3>2. \A m \in Load : m[1] \in Producer /\ worker[m].request \in Nat
      BY <1>0 DEF Load, BenchTypeOK, WorkerState
    <3>3. QED  BY <1>0, <1>2, <1>3, <3>1, <3>2 DEF ClaimsInv
  <2>2. \A m, k \in Load :
          worker'[m].pc = "draw" /\ worker'[k].pc = "draw" /\ m[1] = k[1]
            /\ worker'[m].request = worker'[k].request => m = k
    <3>1. p = l[1]  BY DEF p
    <3>2. \A m \in Load : worker[m].pc = "draw" => worker[m].request < next[m[1]]
      BY <1>0 DEF ClaimsInv
    <3>3. \A m \in Load : worker[m].request \in Nat
      BY <1>0 DEF BenchTypeOK, WorkerState
    <3>4. QED  BY <1>0, <1>2, <1>3, <3>1, <3>2, <3>3 DEF ClaimsInv
  <2>3. \A q \in Producer : \A r \in Sent(q) : r < next'[q] /\ r < flags.requests
    <3>1. \A q \in Producer : Sent(q) \subseteq Nat
      BY <1>0 DEF Sent, BenchTypeOK
    <3>2. QED  BY <1>0, <1>3, <3>1 DEF ClaimsInv
  <2>4. ASSUME NEW q \in Producer, NEW r \in Nat, r < next'[q], r < flags.requests
        PROVE  \/ r \in Sent(q)
               \/ \E w \in flags.workers : worker'[<<q, w>>].pc = "draw" /\ worker'[<<q, w>>].request = r
    <3>1. CASE r < next[q]
      <4>1. ASSUME NEW w \in flags.workers, worker[<<q, w>>].pc = "draw"
            PROVE  worker'[<<q, w>>] = worker[<<q, w>>]
        <5>1. <<q, w>> \in Load /\ <<q, w>> # l
          BY <1>0, <1>1, <4>1 DEF BenchTypeOK, Flag, Load
        <5>2. QED  BY <1>3, <5>1
      <4>2. QED  BY <1>0, <2>4, <3>1, <4>1 DEF ClaimsInv
    <3>2. CASE ~(r < next[q])
      <4>1. q = p /\ r = next[p]
        BY <1>3, <2>4, <3>2
      <4>2. QED  BY <1>0, <1>2, <1>3, <2>4, <4>1
    <3>3. QED  BY <3>1, <3>2
  <2>5. QED  BY <1>1, <1>3, <2>1, <2>2, <2>3, <2>4 DEF ClaimsInv
<1>8. CountsInv'
  <2>1. \A q \in Producer : IsFiniteSet(Sent(q)') /\ ok'[q] + errs'[q] = Cardinality(Sent(q)')
    BY <1>0, <1>1, <1>3 DEF CountsInv, stats
  <2>2. ASSUME NEW m \in Load, worker'[m].pc = "exited"
        PROVE  next'[m[1]] >= flags.requests
    <3>1. m[1] \in Producer  BY DEF Load
    <3>2. CASE m = l
      BY <1>0, <1>2, <1>3, <2>2, <3>2 DEF p
    <3>3. CASE m # l
      BY <1>0, <1>3, <2>2, <3>1, <3>3 DEF CountsInv
    <3>4. QED  BY <3>2, <3>3
  <2>3. ASSUME NEW q \in Producer, merging'[q].pc # "load", NEW w \in flags.workers
        PROVE  worker'[<<q, w>>].pc = "exited"
    <3>1. worker[<<q, w>>].pc = "exited" /\ <<q, w>> \in Load
      BY <1>0, <1>1, <2>3 DEF CountsInv, merge, BenchTypeOK, Flag, Load
    <3>2. QED  BY <1>1, <1>3, <3>1
  <2>4. QED  BY <1>1, <2>1, <2>2, <2>3 DEF CountsInv
<1>9. QED  BY <1>4, <1>6, <1>7, <1>8 DEF BenchIInv

LEMMA DrawStep ==
  ASSUME BenchIInv, NEW l \in Loads, Draw(l)
  PROVE  BenchIInv'
<1> DEFINE n == seq + 1
<1>0. l \in Load /\ BenchTypeOK /\ NumbersInv /\ ClaimsInv /\ CountsInv
  BY LoadsAreLoads DEF BenchIInv
<1>1. /\ worker[l].pc = "draw" /\ seq' = n
      /\ worker' = [worker EXCEPT ![l].drawn = @ \cup {n}]
      /\ UNCHANGED <<flags, next, stats, merge, sent>>
  BY DEF Draw, NumberDrawn
<1>2. seq \in Nat /\ n \in Nat /\ n > seq
  BY <1>0 DEF BenchTypeOK
<1>3. \A m \in Load : worker[m] \in WorkerState
  BY <1>0 DEF BenchTypeOK
<1>4. \A m \in Load :
        /\ worker'[m].pc = worker[m].pc /\ worker'[m].request = worker[m].request
        /\ worker'[m].drawn = IF m = l THEN worker[l].drawn \cup {n} ELSE worker[m].drawn
  BY <1>0, <1>1 DEF BenchTypeOK, WorkerState
<1>5. \A p : Sent(p)' = Sent(p)
  BY <1>1 DEF Sent
<1>6. BenchTypeOK'
  <2>1. [worker[l] EXCEPT !.drawn = @ \cup {n}] \in WorkerState
    BY <1>0, <1>2, <1>3 DEF WorkerState
  <2>2. QED  BY <1>0, <1>1, <1>2, <2>1 DEF BenchTypeOK, stats, merge
<1> HIDE DEF n
<1>7. NumbersInv'
  <2>1. \A m \in Load : \A k \in worker[m].drawn : k \in Nat /\ k <= seq
    BY <1>0, <1>3 DEF NumbersInv, WorkerState
  <2>2. \A x \in sent : x.ts \in Nat /\ x.ts <= seq
    BY <1>0 DEF NumbersInv, BenchTypeOK
  <2>3. \A m \in Load : n \notin worker[m].drawn
    BY <1>2, <2>1
  <2>4. \A x \in sent : x.ts # n
    BY <1>2, <2>2
  <2>5. \A m \in Load : \A k \in worker'[m].drawn : k <= seq' /\ worker'[m].pc = "draw"
    BY <1>0, <1>1, <1>2, <1>4, <2>1 DEF NumbersInv
  <2>6. \A m, k \in Load : m # k => worker'[m].drawn \cap worker'[k].drawn = {}
    BY <1>0, <1>4, <2>3 DEF NumbersInv
  <2>7. \A m \in Load, x \in sent : x.ts \notin worker'[m].drawn
    BY <1>0, <1>4, <2>4 DEF NumbersInv
  <2>8. \A x \in sent : x.ts <= seq'
    BY <1>1, <1>2, <2>2
  <2>9. QED  BY <1>0, <1>1, <2>5, <2>6, <2>7, <2>8 DEF NumbersInv
<1>8. \A p \in Producer, w \in flags.workers : <<p, w>> \in Load
  BY <1>0 DEF BenchTypeOK, Flag, Load
<1>9. ClaimsInv'
  BY <1>0, <1>1, <1>4, <1>5, <1>8 DEF ClaimsInv
<1>10. CountsInv'
  BY <1>0, <1>1, <1>4, <1>5, <1>8 DEF CountsInv, stats, merge
<1>11. QED  BY <1>6, <1>7, <1>9, <1>10 DEF BenchIInv

LEMMA SendStep ==
  ASSUME BenchIInv, NEW l \in Loads, Send(l)
  PROVE  BenchIInv'
<1> DEFINE p == l[1]
           r == worker[l].request
           new == {[source |-> p, request |-> r, ts |-> n] : n \in worker[l].drawn}
<1>0. l \in Load /\ p \in Producer /\ BenchTypeOK /\ NumbersInv /\ ClaimsInv /\ CountsInv
  BY LoadsAreLoads DEF BenchIInv
<1>1. /\ worker[l].pc = "draw" /\ sent' = sent \cup new
      /\ worker' = [worker EXCEPT ![l] = Free]
      /\ \/ ok' = [ok EXCEPT ![p] = @ + 1] /\ UNCHANGED errs
         \/ errs' = [errs EXCEPT ![p] = @ + 1] /\ UNCHANGED ok
      /\ UNCHANGED <<flags, next, seq, merge>>
  BY DEF Send
<1>2. worker[l].drawn # {}
  <2>1. Cardinality(worker[l].drawn) = flags.batch /\ flags.batch \in Nat \ {0}
    BY <1>0 DEF Send, BenchTypeOK, Flag
  <2>2. QED  BY <2>1, FS_EmptySet
<1>3. \A m \in Load : worker[m] \in WorkerState
  BY <1>0 DEF BenchTypeOK
<1>4. r \in Nat /\ worker[l].drawn \subseteq Nat
  BY <1>0, <1>3 DEF WorkerState
<1>5. /\ \A m \in Load : m # l => worker'[m] = worker[m]
      /\ worker'[l].pc = "claim" /\ worker'[l].drawn = {}
  BY <1>0, <1>1 DEF BenchTypeOK, Free
<1>6. Sent(p)' = Sent(p) \cup {r}
  <2>1. Sent(p)' = Sent(p) \cup {x.request : x \in {x \in new : x.source = p}}
    BY <1>1 DEF Sent
  <2>2. {x.request : x \in {x \in new : x.source = p}} = {r}
    <3>1. PICK n \in worker[l].drawn : TRUE
      BY <1>2
    <3>2. [source |-> p, request |-> r, ts |-> n] \in {x \in new : x.source = p}
      OBVIOUS
    <3>3. \A x \in new : x.request = r
      OBVIOUS
    <3> HIDE DEF new
    <3>4. QED  BY <3>2, <3>3
  <2>3. QED  BY <2>1, <2>2
<1>7. ASSUME NEW q, q # p  PROVE Sent(q)' = Sent(q)
  BY <1>1, <1>7 DEF Sent
<1>8. BenchTypeOK'
  <2>1. new \subseteq [source : Producer, request : Nat, ts : Nat]
    BY <1>0, <1>4
  <2>2. Free \in WorkerState
    BY DEF Free, WorkerState
  <2> HIDE DEF new, p, r
  <2>3. ok' \in [Producer -> Nat] /\ errs' \in [Producer -> Nat]
    BY <1>0, <1>1 DEF BenchTypeOK
  <2>4. QED  BY <1>0, <1>1, <2>1, <2>2, <2>3 DEF BenchTypeOK, merge
<1>9. NumbersInv'
  <2>1. \A x \in new : x.ts \in worker[l].drawn
    OBVIOUS
  <2>2. \A x, y \in new : x.ts = y.ts => x = y
    OBVIOUS
  <2> HIDE DEF new, p, r
  <2>3. \A m \in Load : \A n \in worker'[m].drawn : n <= seq' /\ worker'[m].pc = "draw"
    BY <1>0, <1>1, <1>5 DEF NumbersInv
  <2>4. \A x \in sent' : x.ts <= seq'
    BY <1>0, <1>1, <2>1 DEF NumbersInv
  <2>5. \A m, k \in Load : m # k => worker'[m].drawn \cap worker'[k].drawn = {}
    BY <1>0, <1>5 DEF NumbersInv
  <2>6. \A m \in Load, x \in sent' : x.ts \notin worker'[m].drawn
    BY <1>0, <1>1, <1>5, <2>1 DEF NumbersInv
  <2>7. \A x, y \in sent' : x.ts = y.ts => x = y
    BY <1>0, <1>1, <2>1, <2>2 DEF NumbersInv
  <2>8. QED  BY <2>3, <2>4, <2>5, <2>6, <2>7 DEF NumbersInv
<1>10. r \notin Sent(p) /\ r < next[p] /\ r < flags.requests
  BY <1>0, <1>1 DEF ClaimsInv
<1>11. \A q \in Producer, w \in flags.workers : <<q, w>> \in Load
  BY <1>0 DEF BenchTypeOK, Flag, Load
<1>12. ClaimsInv'
  <2>1. \A m \in Load : worker'[m].pc = "draw" =>
          /\ worker'[m].request < next'[m[1]] /\ worker'[m].request < flags.requests
          /\ worker'[m].request \notin Sent(m[1])'
    <3>1. ASSUME NEW m \in Load, worker'[m].pc = "draw"
          PROVE  m # l /\ worker[m].pc = "draw" /\ worker'[m] = worker[m]
      BY <1>5, <3>1
    <3>2. ASSUME NEW m \in Load, worker'[m].pc = "draw"
          PROVE  worker[m].request \notin Sent(m[1])'
      <4>1. worker[m].request \notin Sent(m[1]) /\ (m[1] = p => worker[m].request # r)
        BY <1>0, <1>1, <3>1, <3>2 DEF ClaimsInv
      <4> HIDE DEF p, r
      <4>2. QED  BY <1>6, <1>7, <4>1
    <3>3. QED  BY <1>0, <1>1, <3>1, <3>2 DEF ClaimsInv
  <2>2. \A m, k \in Load :
          worker'[m].pc = "draw" /\ worker'[k].pc = "draw" /\ m[1] = k[1]
            /\ worker'[m].request = worker'[k].request => m = k
    BY <1>0, <1>5 DEF ClaimsInv
  <2> HIDE DEF p, r
  <2>3. ASSUME NEW q \in Producer, NEW s \in Sent(q)'
        PROVE  s < next'[q] /\ s < flags.requests
    BY <1>0, <1>1, <1>6, <1>7, <1>10 DEF ClaimsInv
  <2>4. ASSUME NEW q \in Producer, NEW s \in Nat, s < next[q], s < flags.requests
        PROVE  \/ s \in Sent(q)'
               \/ \E w \in flags.workers : worker'[<<q, w>>].pc = "draw" /\ worker'[<<q, w>>].request = s
    <3>1. CASE s \in Sent(q)
      BY <1>6, <1>7, <3>1
    <3>2. CASE s \notin Sent(q)
      <4>1. PICK w \in flags.workers : worker[<<q, w>>].pc = "draw" /\ worker[<<q, w>>].request = s
        BY <1>0, <2>4, <3>2 DEF ClaimsInv
      <4>2. CASE <<q, w>> = l
        BY <1>6, <4>1, <4>2 DEF p, r
      <4>3. CASE <<q, w>> # l
        BY <1>5, <1>11, <4>1, <4>3
      <4>4. QED  BY <4>2, <4>3
    <3>3. QED  BY <3>1, <3>2
  <2>5. QED  BY <1>1, <2>1, <2>2, <2>3, <2>4 DEF ClaimsInv
<1> HIDE DEF p, r, new
<1>13. CountsInv'
  <2>1. IsFiniteSet(Sent(p)) /\ ok[p] + errs[p] = Cardinality(Sent(p))
    BY <1>0 DEF CountsInv
  <2>2. IsFiniteSet(Sent(p)') /\ Cardinality(Sent(p)') = Cardinality(Sent(p)) + 1
    BY <1>6, <1>10, <2>1, FS_AddElement
  <2>3. /\ ok'[p] + errs'[p] = ok[p] + errs[p] + 1
        /\ \A q \in Producer : q # p => ok'[q] = ok[q] /\ errs'[q] = errs[q]
    <3>1. ok \in [Producer -> Nat] /\ errs \in [Producer -> Nat]
      BY <1>0 DEF BenchTypeOK
    <3>2. ok[p] \in Nat /\ errs[p] \in Nat
      BY <1>0, <3>1
    <3>3. CASE ok' = [ok EXCEPT ![p] = @ + 1] /\ UNCHANGED errs
      BY <1>0, <3>1, <3>2, <3>3
    <3>4. CASE errs' = [errs EXCEPT ![p] = @ + 1] /\ UNCHANGED ok
      BY <1>0, <3>1, <3>2, <3>4
    <3>5. QED  BY <1>1, <3>3, <3>4
  <2>4. \A q \in Producer : IsFiniteSet(Sent(q)') /\ ok'[q] + errs'[q] = Cardinality(Sent(q)')
    BY <1>0, <1>7, <2>1, <2>2, <2>3 DEF CountsInv
  <2>5. \A m \in Load : worker'[m].pc = "exited" => next'[m[1]] >= flags.requests
    BY <1>0, <1>1, <1>5 DEF CountsInv
  <2>6. \A q \in Producer : merging'[q].pc # "load" =>
          \A w \in flags.workers : worker'[<<q, w>>].pc = "exited"
    BY <1>0, <1>1, <1>5, <1>11 DEF CountsInv, merge
  <2>7. QED  BY <1>1, <2>4, <2>5, <2>6 DEF CountsInv
<1>14. QED  BY <1>8, <1>9, <1>12, <1>13 DEF BenchIInv

(* A producer's merge begins when its workers have exited.                 *)
LEMMA MergeStep ==
  ASSUME BenchIInv, NEW p \in flags.producers, MergeRead(p) \/ MergeWrite(p)
  PROVE  BenchIInv'
<1>1. p \in Producer /\ BenchTypeOK /\ NumbersInv /\ ClaimsInv /\ CountsInv
  BY DEF BenchIInv, BenchTypeOK, Flag
<1>2. /\ UNCHANGED <<flags, next, seq, worker, stats, sent>>
      /\ \A q \in Producer : q # p => merging'[q] = merging[q]
      /\ merging[p].pc = "load" => \A w \in flags.workers : worker[<<p, w>>].pc = "exited"
  BY <1>1 DEF MergeRead, MergeWrite, BenchTypeOK
<1>3. BenchTypeOK'
  <2>1. CASE MergeRead(p)
    BY <1>1, <2>1 DEF MergeRead, BenchTypeOK, stats
  <2>2. CASE MergeWrite(p)
    <3>1. merging[p].read \in Nat /\ ok[p] \in Nat
      BY <1>1 DEF BenchTypeOK
    <3>2. mergedOk' \in Nat
      BY <2>2, <3>1 DEF MergeWrite
    <3>3. merging' \in [Producer -> [pc : {"load", "write", "done"}, read : Nat]]
      BY <1>1, <2>2 DEF MergeWrite, BenchTypeOK
    <3>4. QED  BY <1>1, <1>2, <3>2, <3>3 DEF BenchTypeOK, stats
  <2>3. QED  BY <2>1, <2>2
<1>4. \A q : Sent(q)' = Sent(q)
  BY <1>2 DEF Sent
<1>5. NumbersInv' /\ ClaimsInv'
  <2>1. NumbersInv'  BY <1>1, <1>2 DEF NumbersInv
  <2>2. ClaimsInv'  BY <1>1, <1>2, <1>4 DEF ClaimsInv
  <2>3. QED  BY <2>1, <2>2
<1>6. CountsInv'
  BY <1>1, <1>2, <1>4 DEF CountsInv, stats
<1>7. QED  BY <1>3, <1>5, <1>6 DEF BenchIInv

(* The inductive invariant.                                                *)
THEOREM BenchInvariance == BenchSpec => []BenchIInv
<1>1. ASSUME BenchIInv, [BenchNext]_benchVars  PROVE BenchIInv'
  <2>1. CASE \E l \in Loads : Claim(l) \/ Draw(l) \/ Send(l)
    BY <1>1, <2>1, ClaimStep, DrawStep, SendStep
  <2>2. CASE \E p \in flags.producers : MergeRead(p) \/ MergeWrite(p)
    BY <1>1, <2>2, MergeStep
  <2>3. CASE CountBefore \/ CountAfter \/ OtherRow \/ LateLands \/ UNCHANGED benchVars
    <3>1. UNCHANGED <<flags, next, seq, worker, stats, merge, sent>>
      BY <2>3 DEF CountBefore, CountAfter, OtherRow, LateLands, benchVars
    <3>2. QED  BY <1>1, <3>1, BenchNeutral
  <2>4. QED  BY <1>1, <2>1, <2>2, <2>3 DEF BenchNext
<1>2. QED  BY <1>1, BenchInitInv, PTL DEF BenchSpec

(* SentOnce: when the goroutine of a producer merges, a worker of its has  *)
(* found no request left, so that all have been claimed, and none is held. *)
THEOREM EachRequestOnce == BenchSpec => []SentOnce
<1>1. ASSUME BenchIInv  PROVE SentOnce
  <2>0. BenchTypeOK /\ NumbersInv /\ ClaimsInv /\ CountsInv
    BY <1>1 DEF BenchIInv
  <2>1. \A x, y \in sent : x.source = y.source /\ x.ts = y.ts => x = y
    BY <2>0 DEF NumbersInv
  <2>2. ASSUME NEW p \in flags.producers, merging[p].pc # "load"
        PROVE  /\ ok[p] + errs[p] = flags.requests
               /\ Sent(p) = 0 .. flags.requests - 1
    <3>1. /\ p \in Producer /\ flags.requests \in Nat /\ next[p] \in Nat
          /\ \A w \in flags.workers : <<p, w>> \in Load
      BY <2>0 DEF BenchTypeOK, Flag, Load
    <3>2. PICK w : w \in flags.workers
      <4>1. flags.workers \in (SUBSET Worker) \ {{}}
        BY <2>0 DEF BenchTypeOK, Flag
      <4>2. flags.workers # {}
        <5>1. flags.workers \notin {{}}  BY <4>1
        <5>2. {} \in {{}}  OBVIOUS
        <5>3. QED  BY <5>1, <5>2
      <4>3. QED  BY <4>2
    <3>3. \A v \in flags.workers : worker[<<p, v>>].pc = "exited"
      BY <2>0, <2>2, <3>1 DEF CountsInv
    <3>4. next[p] >= flags.requests
      <4>1. <<p, w>>[1] = p  OBVIOUS
      <4>2. QED  BY <2>0, <3>1, <3>2, <3>3, <4>1 DEF CountsInv
    <3>5. ASSUME NEW r \in Nat, r < flags.requests  PROVE r \in Sent(p)
      <4>1. r < next[p]  BY <3>1, <3>4, <3>5
      <4>2. ~ \E v \in flags.workers : worker[<<p, v>>].pc = "draw"
        BY <3>3
      <4>3. QED  BY <2>0, <3>1, <3>5, <4>1, <4>2 DEF ClaimsInv
    <3>6. \A r \in Sent(p) : r \in Nat /\ r < flags.requests
      BY <2>0, <3>1 DEF ClaimsInv, Sent, BenchTypeOK
    <3>7. Sent(p) = 0 .. flags.requests - 1
      <4>1. ASSUME NEW r \in Sent(p)  PROVE r \in 0 .. flags.requests - 1
        BY <3>1, <3>6
      <4>2. ASSUME NEW r \in 0 .. flags.requests - 1  PROVE r \in Sent(p)
        BY <3>1, <3>5
      <4>3. QED  BY <4>1, <4>2
    <3>8. Cardinality(0 .. flags.requests - 1) = flags.requests
      BY <3>1, FS_Interval
    <3>9. ok[p] + errs[p] = Cardinality(Sent(p))
      BY <2>0, <3>1 DEF CountsInv
    <3>10. QED  BY <3>7, <3>8, <3>9
  <2>3. QED  BY <2>1, <2>2 DEF SentOnce, Sent
<1>2. QED  BY <1>1, BenchInvariance, PTL

-----------------------------------------------------------------------------
(* DeltaCoversOk.  Each request reported ok is a credit; the rows of as    *)
(* many requests have landed, and what has been merged are credits of the  *)
(* producers that are done.                                                *)
SentRows == {[source |-> x.source, ts |-> x.ts] : x \in sent}
Credits == {c \in Producer \X Nat : c[2] \in 1..ok[c[1]]}
Merged == {c \in Credits : merging[c[1]].pc = "done"}

LandedInv ==
  /\ landed \subseteq SentRows /\ IsFiniteSet(landed)
  /\ \A b \in late : b \subseteq SentRows /\ IsFiniteSet(b)

CreditInv ==
  /\ IsFiniteSet(Credits)
  /\ flags.batch * Cardinality(Credits) <= Cardinality(landed)
  /\ mergedOk <= Cardinality(Merged)
  /\ \A p \in Producer : merging[p].pc = "write" => merging[p].read <= Cardinality(Merged)

MainInv ==
  /\ main \in {"before", "load", "done"} /\ {others, countFails} \subseteq Nat
  /\ main = "before" =>
       /\ landed = {} /\ late = {}
       /\ \A l \in Load : worker[l].pc = "claim"
       /\ \A p \in Producer : merging[p].pc = "load"
  /\ main # "before" /\ countFails = 0 => before \in Nat /\ before <= others
  /\ main = "done" => \A p \in flags.producers : merging[p].pc = "done"
  /\ DeltaCoversOk

DeltaInv == LandedInv /\ CreditInv /\ MainInv

(* Merged counts are below the rows that have landed.                      *)
LEMMA MergedHaveLanded ==
  ASSUME BenchIInv, CreditInv, IsFiniteSet(landed)
  PROVE  /\ Cardinality(Credits) \in Nat /\ Cardinality(Merged) \in Nat
         /\ Cardinality(landed) \in Nat /\ IsFiniteSet(Merged)
         /\ mergedOk * flags.batch <= Cardinality(landed)
<1> DEFINE b == flags.batch
           k == Cardinality(Credits)
<1>1. b \in Nat /\ mergedOk \in Nat
  BY DEF BenchIInv, BenchTypeOK, Flag
<1>2. /\ IsFiniteSet(Merged) /\ Cardinality(Merged) <= k
      /\ Cardinality(Merged) \in Nat /\ k \in Nat /\ Cardinality(landed) \in Nat
  <2>1. Merged \subseteq Credits  BY DEF Merged
  <2>2. QED  BY <2>1, FS_Subset, FS_CardinalityType DEF CreditInv
<1>3. mergedOk <= k /\ b * k <= Cardinality(landed)
  BY <1>1, <1>2 DEF CreditInv
<1> HIDE DEF b, k
<1>4. mergedOk * b <= b * k
  <2>1. k - mergedOk \in Nat  BY <1>1, <1>2, <1>3 DEF k
  <2>2. b * (k - mergedOk) >= 0  BY <1>1, <2>1
  <2>3. b * (k - mergedOk) = b * k - mergedOk * b  BY <1>1, <1>2 DEF k
  <2>4. b * k \in Int /\ mergedOk * b \in Int  BY <1>1, <1>2 DEF k
  <2>5. QED  BY <2>2, <2>3, <2>4
<1>5. mergedOk * b \in Int /\ b * k \in Int  BY <1>1, <1>2 DEF k
<1>6. QED  BY <1>2, <1>3, <1>4, <1>5 DEF b, k

(* Nothing but the table grows: the credits stay covered.                  *)
LEMMA CreditsKeep ==
  ASSUME BenchIInv, CreditInv, IsFiniteSet(landed), IsFiniteSet(landed'), landed \subseteq landed',
         UNCHANGED <<flags, ok, merging, mergedOk>>
  PROVE  CreditInv'
<1>1. Cardinality(landed) <= Cardinality(landed') /\ Cardinality(landed) \in Nat /\ Cardinality(landed') \in Nat
  BY FS_Subset, FS_CardinalityType
<1>2. Credits' = Credits /\ Merged' = Merged
  BY DEF Credits, Merged
<1>3. flags.batch * Cardinality(Credits) \in Int
  BY MergedHaveLanded DEF BenchIInv, BenchTypeOK, Flag
<1>4. QED  BY <1>1, <1>2, <1>3 DEF CreditInv

LEMMA DeltaInit == BenchInit => DeltaInv
<1> SUFFICES ASSUME BenchInit  PROVE DeltaInv
  OBVIOUS
<1>1. LandedInv
  BY FS_EmptySet DEF BenchInit, LandedInv
<1>2. MainInv
  <2>1. \A l \in Load : worker[l] = Free
    BY DEF BenchInit, Load
  <2>2. \A l \in Load : worker[l].pc = "claim"
    BY <2>1 DEF Free
  <2>3. main = "before" /\ \A p \in Producer : merging[p].pc = "load"
    BY DEF BenchInit
  <2>4. QED  BY <2>2, <2>3 DEF BenchInit, MainInv, DeltaCoversOk, counts
<1>3. CreditInv
  <2>1. Credits = {}
    <3>1. \A p \in Producer : ok[p] = 0  BY DEF BenchInit
    <3>2. QED  BY <3>1 DEF Credits
  <2>2. Merged = {}  BY <2>1 DEF Merged
  <2>3. IsFiniteSet({}) /\ Cardinality({}) = 0 /\ landed = {} /\ flags.batch \in Nat
    BY FS_EmptySet, BenchAssumption DEF BenchInit, BenchAssumption, Flag
  <2>4. flags.batch * 0 = 0  BY <2>3
  <2>5. QED  BY <2>1, <2>2, <2>3, <2>4 DEF CreditInv, BenchInit
<1>4. QED  BY <1>1, <1>2, <1>3 DEF DeltaInv

(* What the counts read: a count that succeeds is of all rows, and before  *)
(* the load no row is of the harness.                                      *)
LEMMA CountStep ==
  ASSUME BenchIInv, DeltaInv, CountBefore \/ CountAfter
  PROVE  DeltaInv'
<1>1. /\ LandedInv /\ CreditInv /\ MainInv
      /\ UNCHANGED <<flags, ok, merging, mergedOk, landed, late, sent, others, worker>>
  BY DEF DeltaInv, CountBefore, CountAfter, stats, merge, rows
<1>2. LandedInv'
  BY <1>1 DEF LandedInv, SentRows
<1>3. CreditInv'
  BY <1>1, CreditsKeep DEF LandedInv
<1>4. /\ Cardinality(landed) \in Nat /\ mergedOk * flags.batch <= Cardinality(landed)
      /\ mergedOk * flags.batch \in Int /\ others \in Nat /\ countFails \in Nat
  BY <1>1, MergedHaveLanded DEF LandedInv, MainInv, BenchIInv, BenchTypeOK, Flag
<1>5. CASE CountBefore
  <2>1. Total = others
    <3>1. landed = {}  BY <1>1, <1>5 DEF CountBefore, MainInv
    <3>2. Cardinality(landed) = 0  BY <3>1, FS_EmptySet
    <3>3. QED  BY <1>4, <3>2 DEF Total
  <2>2. countFails' \in Nat /\ (countFails' = 0 => before' = others)
    BY <1>4, <1>5, <2>1 DEF CountBefore, CountRows
  <2>3. main' = "load"
    BY <1>5 DEF CountBefore
  <2>4. QED  BY <1>1, <1>2, <1>3, <1>4, <2>2, <2>3 DEF DeltaInv, MainInv, DeltaCoversOk
<1>6. CASE CountAfter
  <2>1. /\ countFails' \in Nat
        /\ countFails' = 0 => countFails = 0 /\ after' = Cardinality(landed) + others
    BY <1>4, <1>6 DEF CountAfter, CountRows, Total
  <2>2. main = "load" /\ main' = "done" /\ before' = before /\ \A p \in flags.producers : merging[p].pc = "done"
    BY <1>6 DEF CountAfter
  <2>3. countFails' = 0 => before \in Nat /\ before <= others
    BY <1>1, <2>1, <2>2 DEF MainInv
  <2>4. countFails' = 0 => mergedOk * flags.batch <= after' - before
    BY <1>4, <2>1, <2>3
  <2>5. QED  BY <1>1, <1>2, <1>3, <1>4, <2>1, <2>2, <2>3, <2>4 DEF DeltaInv, MainInv, DeltaCoversOk
<1>7. QED  BY <1>5, <1>6

(* Other rows, and rows of requests that timed out, arrive at any time.    *)
LEMMA ArrivalStep ==
  ASSUME BenchIInv, DeltaInv, OtherRow \/ LateLands \/ UNCHANGED benchVars
  PROVE  DeltaInv'
<1>1. /\ LandedInv /\ CreditInv /\ MainInv
      /\ UNCHANGED <<flags, main, before, after, countFails, ok, merging, mergedOk, sent, worker>>
  BY DEF DeltaInv, OtherRow, LateLands, stats, merge, rows, counts, benchVars
<1>2. /\ landed \subseteq landed' /\ LandedInv'
      /\ late = {} => landed' = landed
      /\ late' \subseteq late
  <2>1. CASE OtherRow \/ UNCHANGED benchVars
    BY <1>1, <2>1 DEF OtherRow, LandedInv, SentRows, benchVars, rows
  <2>2. CASE LateLands
    <3>1. PICK b \in late : late' = late \ {b} /\ landed' = landed \cup b
      BY <2>2 DEF LateLands
    <3>2. IsFiniteSet(landed') /\ landed' \subseteq SentRows
      BY <1>1, <3>1, FS_Union DEF LandedInv
    <3>3. QED  BY <1>1, <3>1, <3>2 DEF LandedInv, SentRows
  <2>3. QED  BY <2>1, <2>2
<1>3. others' \in Nat /\ others <= others' /\ others \in Nat
  BY <1>1 DEF OtherRow, LateLands, benchVars, rows, MainInv
<1>4. CreditInv'
  BY <1>1, <1>2, CreditsKeep DEF LandedInv
<1>5. MainInv'
  BY <1>1, <1>2, <1>3 DEF MainInv, DeltaCoversOk
<1>6. QED  BY <1>2, <1>4, <1>5 DEF DeltaInv

(* Claims and draws store nothing.                                         *)
LEMMA ClaimDrawDelta ==
  ASSUME BenchIInv, DeltaInv, NEW l \in Loads, Claim(l) \/ Draw(l)
  PROVE  DeltaInv'
<1>1. /\ LandedInv /\ CreditInv /\ MainInv /\ l \in Load
      /\ UNCHANGED <<flags, main, before, after, countFails, ok, merging, mergedOk, landed, late, others, sent>>
  BY LoadsAreLoads DEF DeltaInv, Claim, Draw, stats, merge, rows, counts, BenchIInv
<1>2. LandedInv'
  BY <1>1 DEF LandedInv, SentRows
<1>3. CreditInv'
  BY <1>1, CreditsKeep DEF LandedInv
<1>4. main # "before"
  BY <1>1 DEF Claim, Draw, MainInv
<1>5. MainInv'
  BY <1>1, <1>4 DEF MainInv, DeltaCoversOk
<1>6. QED  BY <1>2, <1>3, <1>5 DEF DeltaInv

(* A request reported ok is one credit more, and its rows are new: their   *)
(* numbers are drawn and were not sent.                                    *)
LEMMA SendDelta ==
  ASSUME BenchIInv, DeltaInv, NEW l \in Loads, Send(l)
  PROVE  DeltaInv'
<1> DEFINE p == l[1]
<1>1. /\ LandedInv /\ CreditInv /\ MainInv /\ l \in Load /\ p \in Producer
      /\ BenchTypeOK /\ NumbersInv /\ CountsInv
      /\ p \in flags.producers /\ l[2] \in flags.workers /\ l = <<p, l[2]>>
      /\ worker[l].pc = "draw" /\ Cardinality(worker[l].drawn) = flags.batch
      /\ UNCHANGED <<flags, main, before, after, countFails, merging, mergedOk, others>>
  BY LoadsAreLoads DEF DeltaInv, Send, merge, counts, BenchIInv
<1>2. worker[l].drawn \subseteq 0..seq /\ IsFiniteSet(worker[l].drawn)
  <2>1. worker[l].drawn \subseteq Nat /\ seq \in Nat
    BY <1>1 DEF BenchTypeOK, WorkerState
  <2>2. worker[l].drawn \subseteq 0..seq
    BY <1>1, <2>1 DEF NumbersInv
  <2>3. IsFiniteSet(0..seq)
    BY <2>1, FS_Interval
  <2>4. QED  BY <2>2, <2>3, FS_Subset
<1>3. IsFiniteSet(RowsOf(l)) /\ Cardinality(RowsOf(l)) = flags.batch
  <2> DEFINE f == [n \in worker[l].drawn |-> [source |-> p, ts |-> n]]
  <2>1. f \in Bijection(worker[l].drawn, RowsOf(l))
    <3>1. \A n \in worker[l].drawn : f[n] \in RowsOf(l) /\ f[n].ts = n
      BY DEF RowsOf
    <3>2. \A x \in RowsOf(l) : \E n \in worker[l].drawn : f[n] = x
      BY DEF RowsOf
    <3>3. f \in [worker[l].drawn -> RowsOf(l)]  BY <3>1
    <3> HIDE DEF f
    <3>4. \A n, m \in worker[l].drawn : f[n] = f[m] => n = m
      BY <3>1
    <3>5. f \in Injection(worker[l].drawn, RowsOf(l))
      BY <3>3, <3>4 DEF Injection, IsInjective
    <3>6. f \in Surjection(worker[l].drawn, RowsOf(l))
      BY <3>2, <3>3 DEF Surjection
    <3>7. QED  BY <3>5, <3>6 DEF Bijection
  <2> HIDE DEF f
  <2>2. QED  BY <1>1, <1>2, <2>1, FS_Bijection DEF ExistsBijection
<1>4. SentRows \subseteq SentRows' /\ RowsOf(l) \subseteq SentRows'
  <2>1. \A n \in worker[l].drawn : [source |-> p, request |-> worker[l].request, ts |-> n] \in sent'
    BY DEF Send
  <2>2. \A n \in worker[l].drawn : [source |-> p, ts |-> n] \in SentRows'
    <3>1. SUFFICES ASSUME NEW n \in worker[l].drawn
                   PROVE  [source |-> p, ts |-> n] \in SentRows'
      OBVIOUS
    <3>2. PICK x \in sent' : x.source = p /\ x.ts = n
      BY <2>1
    <3>3. QED  BY <3>2 DEF SentRows
  <2>3. sent \subseteq sent'  BY DEF Send
  <2>4. QED  BY <2>2, <2>3 DEF SentRows, RowsOf
<1>5. RowsOf(l) \cap landed = {}
  BY <1>1 DEF LandedInv, SentRows, RowsOf, NumbersInv
<1>6. LandedInv'
  <2>1. landed' \in {landed, landed \cup RowsOf(l)} /\ late' \subseteq late \cup {RowsOf(l)}
    BY DEF Send
  <2>2. QED  BY <1>1, <1>3, <1>4, <2>1, FS_Union DEF LandedInv
<1>7. main # "before"
  BY <1>1 DEF MainInv
<1>8. MainInv'
  BY <1>1, <1>7 DEF MainInv, DeltaCoversOk, Send
<1>9. CreditInv'
  <2>1. CASE UNCHANGED ok
    <3>1. landed \subseteq landed' /\ IsFiniteSet(landed')  BY <1>6 DEF LandedInv, Send
    <3>2. QED  BY <1>1, <2>1, <3>1, CreditsKeep DEF LandedInv
  <2>2. CASE landed' = landed \cup RowsOf(l) /\ ok' = [ok EXCEPT ![p] = @ + 1]
    <3> DEFINE c == <<p, ok[p] + 1>>
    <3>1. ok \in [Producer -> Nat] /\ ok[p] \in Nat
      BY <1>1 DEF BenchTypeOK
    <3>2. merging[p].pc = "load"
      BY <1>1 DEF CountsInv
    <3>3. Credits' = Credits \cup {c} /\ c \notin Credits
      <4>1. \A q \in Producer : q # p => ok'[q] = ok[q]
        BY <2>2, <3>1
      <4>2. ok'[p] = ok[p] + 1
        BY <1>1, <2>2, <3>1
      <4>3. \A d \in Producer \X Nat : d \in Credits' <=> d \in Credits \/ d = c
        <5>1. SUFFICES ASSUME NEW q \in Producer, NEW n \in Nat
                       PROVE  n \in 1..ok'[q] <=> n \in 1..ok[q] \/ <<q, n>> = c
          BY DEF Credits
        <5>2. CASE q = p
          BY <3>1, <4>2, <5>2
        <5>3. CASE q # p
          BY <4>1, <5>3
        <5>4. QED  BY <5>2, <5>3
      <4>4. c \in Producer \X Nat /\ c \notin Credits
        BY <1>1, <3>1 DEF Credits
      <4> HIDE DEF c
      <4>5. Credits \subseteq Producer \X Nat /\ Credits' \subseteq Producer \X Nat
        BY DEF Credits
      <4>6. QED  BY <4>3, <4>4, <4>5
    <3>4. Merged' = Merged
      <4>1. c[1] = p  OBVIOUS
      <4> HIDE DEF c
      <4>2. QED  BY <1>1, <3>2, <3>3, <4>1 DEF Merged
    <3> HIDE DEF c
    <3>5. /\ IsFiniteSet(Credits') /\ Cardinality(Credits') = Cardinality(Credits) + 1
          /\ Cardinality(Credits) \in Nat
      BY <1>1, <3>3, FS_AddElement, FS_CardinalityType DEF CreditInv
    <3>6. Cardinality(landed') = Cardinality(landed) + flags.batch /\ Cardinality(landed) \in Nat
      <4>1. /\ Cardinality(landed \cup RowsOf(l)) =
                 Cardinality(landed) + Cardinality(RowsOf(l)) - Cardinality(landed \cap RowsOf(l))
        BY <1>1, <1>3, FS_Union DEF LandedInv
      <4>2. Cardinality(landed \cap RowsOf(l)) = 0
        BY <1>5, FS_EmptySet
      <4>3. Cardinality(landed) \in Nat /\ flags.batch \in Nat
        BY <1>1, FS_CardinalityType DEF LandedInv, BenchTypeOK, Flag
      <4>4. QED  BY <1>3, <2>2, <4>1, <4>2, <4>3
    <3>7. flags.batch * Cardinality(Credits') <= Cardinality(landed')
      <4>1. flags.batch \in Nat  BY <1>1 DEF BenchTypeOK, Flag
      <4>2. \A b, k \in Nat : b * (k + 1) = b * k + b /\ b * k \in Nat
        OBVIOUS
      <4>3. flags.batch * Cardinality(Credits') = flags.batch * Cardinality(Credits) + flags.batch
        BY <3>5, <4>1, <4>2
      <4>4. QED  BY <1>1, <3>5, <3>6, <4>1, <4>2, <4>3 DEF CreditInv
    <3>8. QED  BY <1>1, <3>4, <3>5, <3>7 DEF CreditInv
  <2>3. QED  BY <2>1, <2>2 DEF Send
<1>10. QED  BY <1>6, <1>8, <1>9 DEF DeltaInv

(* A merge reads a total of credits of producers that are done, and adds   *)
(* those of its own, whose workers have exited.                            *)
LEMMA MergeDelta ==
  ASSUME BenchIInv, DeltaInv, NEW p \in flags.producers, MergeRead(p) \/ MergeWrite(p)
  PROVE  DeltaInv'
<1>1. /\ LandedInv /\ CreditInv /\ MainInv /\ BenchTypeOK /\ p \in Producer /\ IsFiniteSet(landed)
      /\ UNCHANGED <<flags, main, before, after, countFails, ok, landed, late, others, sent, worker>>
      /\ merging \in [Producer -> [pc : {"load", "write", "done"}, read : Nat]]
      /\ mergedOk \in Nat /\ ok \in [Producer -> Nat]
  BY DEF DeltaInv, MergeRead, MergeWrite, stats, rows, counts, BenchIInv, BenchTypeOK, Flag, LandedInv
<1>2. LandedInv'
  BY <1>1 DEF LandedInv, SentRows
<1>3. main = "load"
  BY <1>1 DEF MergeRead, MergeWrite, MainInv
<1>4. MainInv'
  BY <1>1, <1>3 DEF MainInv, DeltaCoversOk
<1>5. /\ Credits' = Credits /\ IsFiniteSet(Merged) /\ Cardinality(Merged) \in Nat
  BY <1>1, MergedHaveLanded DEF Credits
<1>6. CreditInv'
  <2>1. CASE MergeRead(p)
    <3>1. \A q \in Producer : merging'[q].pc = "done" <=> merging[q].pc = "done"
      BY <1>1, <2>1 DEF MergeRead
    <3>2. Merged' = Merged
      BY <1>5, <3>1 DEF Merged, Credits
    <3>3. \A q \in Producer : merging'[q].pc = "write" =>
            merging'[q] = merging[q] \/ merging'[q].read = mergedOk
      BY <1>1, <2>1 DEF MergeRead
    <3>4. mergedOk' = mergedOk
      BY <2>1 DEF MergeRead
    <3>5. QED  BY <1>1, <1>5, <3>2, <3>3, <3>4 DEF CreditInv
  <2>2. CASE MergeWrite(p)
    <3> DEFINE Own == {c \in Credits : c[1] = p}
    <3>1. /\ merging[p].pc = "write" /\ merging'[p].pc = "done" /\ mergedOk' = merging[p].read + ok[p]
          /\ \A q \in Producer : q # p => merging'[q] = merging[q]
          /\ merging[p].read \in Nat /\ ok[p] \in Nat
      BY <1>1, <2>2 DEF MergeWrite
    <3>2. Merged' = Merged \cup Own /\ Merged \cap Own = {}
      <4>1. \A c \in Credits : c[1] \in Producer  BY DEF Credits
      <4>2. QED  BY <1>5, <3>1, <4>1 DEF Merged
    <3>3. IsFiniteSet(Own) /\ Cardinality(Own) = ok[p]
      <4> DEFINE f == [n \in 1..ok[p] |-> <<p, n>>]
      <4>1. Own = {<<p, n>> : n \in 1..ok[p]}
        BY <1>1, <3>1 DEF Credits
      <4>2. f \in Bijection(1..ok[p], Own)
        <5>1. \A n \in 1..ok[p] : f[n] \in Own /\ f[n][2] = n
          BY <4>1
        <5>2. \A c \in Own : \E n \in 1..ok[p] : f[n] = c
          BY <4>1
        <5>3. f \in [1..ok[p] -> Own]  BY <5>1
        <5> HIDE DEF f, Own
        <5>4. \A n, m \in 1..ok[p] : f[n] = f[m] => n = m
          BY <5>1
        <5>5. f \in Injection(1..ok[p], Own)
          BY <5>3, <5>4 DEF Injection, IsInjective
        <5>6. f \in Surjection(1..ok[p], Own)
          BY <5>2, <5>3 DEF Surjection
        <5>7. QED  BY <5>5, <5>6 DEF Bijection
      <4>3. IsFiniteSet(1..ok[p]) /\ Cardinality(1..ok[p]) = ok[p]
        <5>1. 1 \in Int /\ ok[p] \in Int  BY <3>1
        <5>2. Cardinality(1..ok[p]) = IF 1 > ok[p] THEN 0 ELSE ok[p] - 1 + 1  BY <5>1, FS_Interval
        <5>3. IsFiniteSet(1..ok[p])  BY <5>1, FS_Interval
        <5>4. QED  BY <3>1, <5>2, <5>3
      <4> HIDE DEF f
      <4>4. QED  BY <4>2, <4>3, FS_Bijection DEF ExistsBijection
    <3> HIDE DEF Own
    <3>4. Cardinality(Merged') = Cardinality(Merged) + ok[p]
      <4>1. Cardinality(Merged \cup Own) =
              Cardinality(Merged) + Cardinality(Own) - Cardinality(Merged \cap Own)
        BY <1>5, <3>3, FS_Union
      <4>2. Cardinality(Merged \cap Own) = 0
        BY <3>2, FS_EmptySet
      <4>3. QED  BY <1>5, <3>1, <3>2, <3>3, <4>1, <4>2
    <3>5. mergedOk' <= Cardinality(Merged')
      BY <1>1, <1>5, <3>1, <3>4 DEF CreditInv
    <3>6. \A q \in Producer : merging'[q].pc = "write" => merging'[q].read <= Cardinality(Merged')
      <4>1. ASSUME NEW q \in Producer, merging'[q].pc = "write"
            PROVE  merging'[q].read \in Nat /\ merging'[q].read <= Cardinality(Merged)
        BY <1>1, <3>1, <4>1 DEF CreditInv
      <4>2. QED  BY <1>5, <3>1, <3>4, <4>1
    <3>7. QED  BY <1>1, <1>5, <3>5, <3>6 DEF CreditInv
  <2>3. QED  BY <2>1, <2>2
<1>7. QED  BY <1>2, <1>4, <1>6 DEF DeltaInv

(* DeltaCoversOk: what was merged has landed when the second count reads   *)
(* the table, and the first count read only rows of other sources.         *)
THEOREM ReportClaimsNoMore == BenchSpec => []DeltaCoversOk
<1>1. BenchIInv /\ DeltaInv /\ [BenchNext]_benchVars => DeltaInv'
  BY CountStep, ArrivalStep, ClaimDrawDelta, SendDelta, MergeDelta DEF BenchNext
<1>2. DeltaInv => DeltaCoversOk  BY DEF DeltaInv, MainInv
<1>3. QED  BY <1>1, <1>2, DeltaInit, BenchInvariance, PTL DEF BenchSpec
=============================================================================
