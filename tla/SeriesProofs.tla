----------------------------- MODULE SeriesProofs -----------------------------
(***************************************************************************)
(* Theorems about Series for every width, policy and set of readings.      *)
(***************************************************************************)
EXTENDS Series, FiniteSetTheorems, TLAPS

(* A time lies in its bucket, and a bucket starts at no negative time      *)
(* (store.go:149 and 163, time_bucket).                                    *)
LEMMA BucketBelow ==
  ASSUME NEW t \in Nat, NEW w \in Nat \ {0}
  PROVE  Bucket(t, w) \in Nat /\ Bucket(t, w) <= t
<1>1. /\ t % w \in 0 .. w-1 /\ t \div w \in Nat
      /\ t = w * (t \div w) + (t % w)
  OBVIOUS
<1>2. (t \div w) * w = w * (t \div w) /\ w * (t \div w) \in Nat
  BY <1>1
<1>3. QED  BY <1>1, <1>2 DEF Bucket

(* The automatic step keeps a chart readable (series.go:157-158, "hundreds *)
(* of points across the range"): at most 744 buckets over the ranges of up *)
(* to 90 days, and always whole buckets of the rollup it reads.            *)
THEOREM AutoStepReadable ==
  ASSUME SecondsPerMinute = 60, NEW span \in Nat, span <= 90 * Day
  PROVE  /\ span \div StepSeconds(AutoStep(span)) <= 744
         /\ StepSeconds(AutoStep(span)) >= 60 => StepSeconds(AutoStep(span)) % 60 = 0
<1>1. Minute = 60
  BY DEF Minute
<1>2. Hour = 3600
  BY <1>1 DEF Hour
<1>3. Day = 86400
  BY <1>2 DEF Day
<1>4. /\ 6 * Hour = 21600
      /\ (7 * Day) = 604800
      /\ (31 * Day) = 2678400
      /\ (90 * Day) = 7776000
  BY <1>2, <1>3
<1>5. \/ span <= 3600 /\ StepSeconds(AutoStep(span)) = 5
      \/ span <= 21600 /\ StepSeconds(AutoStep(span)) = 30
      \/ span <= 86400 /\ StepSeconds(AutoStep(span)) = 120
      \/ span <= 604800 /\ StepSeconds(AutoStep(span)) = 900
      \/ span <= 2678400 /\ StepSeconds(AutoStep(span)) = 3600
      \/ span <= 7776000 /\ StepSeconds(AutoStep(span)) = 21600
  <2>1. CASE span <= 3600
    BY <1>1, <1>2, <2>1 DEF StepSeconds, UnitSeconds, AutoStep
  <2>2. CASE ~(span <= 3600) /\ span <= 21600
    BY <1>1, <1>2, <1>4, <2>2 DEF StepSeconds, UnitSeconds, AutoStep
  <2>3. CASE ~(span <= 21600) /\ span <= 86400
    BY <1>1, <1>2, <1>3, <1>4, <2>3 DEF StepSeconds, UnitSeconds, AutoStep
  <2>4. CASE ~(span <= 86400) /\ span <= 604800
    <3>1. AutoStep(span) = [n |-> 15, unit |-> "m"]
      BY <1>2, <1>3, <1>4, <2>4 DEF AutoStep
    <3>2. QED  BY <1>1, <2>4, <3>1 DEF StepSeconds, UnitSeconds
  <2>5. CASE ~(span <= 604800) /\ span <= 2678400
    <3>1. AutoStep(span) = [n |-> 1, unit |-> "h"]
      BY <1>2, <1>3, <1>4, <2>5 DEF AutoStep
    <3>2. QED  BY <1>2, <2>5, <3>1 DEF StepSeconds, UnitSeconds
  <2>6. CASE ~(span <= 2678400)
    <3>1. AutoStep(span) = [n |-> 6, unit |-> "h"]
      BY <1>2, <1>3, <1>4, <2>6 DEF AutoStep
    <3>2. QED  BY <1>2, <1>4, <2>6, <3>1 DEF StepSeconds, UnitSeconds
  <2>7. QED  BY <2>1, <2>2, <2>3, <2>4, <2>5, <2>6
<1>6. QED  BY <1>5

-----------------------------------------------------------------------------
(* Buckets against multiples of their width.                               *)

LEMMA Multiples ==
  ASSUME NEW w \in Nat \ {0}, NEW k \in Nat, NEW d \in Nat, d < k
  PROVE  w * d \in Nat /\ w * k \in Nat /\ w * d + w <= w * k
<1> DEFINE e == k - d - 1
<1>1. e \in Nat /\ k = d + 1 + e
  OBVIOUS
<1>2. w * e \in Nat /\ w * d \in Nat /\ w * (d + 1 + e) = w * d + w + w * e
  BY <1>1
<1> HIDE DEF e
<1>3. w * k = w * d + w + w * e
  BY <1>1, <1>2
<1>4. QED  BY <1>2, <1>3

LEMMA BucketIs ==
  ASSUME NEW t \in Nat, NEW w \in Nat \ {0}
  PROVE  /\ t \div w \in Nat /\ w * (t \div w) \in Nat
         /\ Bucket(t, w) = w * (t \div w)
         /\ w * (t \div w) <= t /\ t < w * (t \div w) + w
<1>1. /\ t % w \in 0 .. w-1 /\ t \div w \in Nat
      /\ t = w * (t \div w) + (t % w)
  OBVIOUS
<1>2. (t \div w) * w = w * (t \div w) /\ w * (t \div w) \in Nat
  BY <1>1
<1>3. QED  BY <1>1, <1>2 DEF Bucket

LEMMA MultipleOf ==
  ASSUME NEW a \in Nat, NEW w \in Nat \ {0}, a % w = 0
  PROVE  \E k \in Nat : a = w * k
<1>1. a \div w \in Nat /\ a = w * (a \div w) + (a % w)
  OBVIOUS
<1>2. w * (a \div w) \in Nat
  BY <1>1
<1>3. a = w * (a \div w)
  BY <1>1, <1>2
<1>4. QED  BY <1>1, <1>3

(* A bound made of whole buckets splits no bucket.                         *)
LEMMA WholeBound ==
  ASSUME NEW a \in Nat, NEW t \in Nat, NEW w \in Nat \ {0}, a % w = 0
  PROVE  a <= t <=> a <= Bucket(t, w)
<1>1. PICK k \in Nat : a = w * k
  BY MultipleOf
<1> DEFINE d == t \div w
<1>2. d \in Nat /\ Bucket(t, w) = w * d /\ w * d \in Nat /\ w * d <= t /\ t < w * d + w
  BY BucketIs
<1> HIDE DEF d
<1>3. Bucket(t, w) <= t /\ Bucket(t, w) \in Nat
  BY <1>2
<1>4. CASE d < k
  <2>1. w * d + w <= w * k /\ w * k \in Nat
    BY <1>2, <1>4, Multiples
  <2>2. t < a
    BY <1>1, <1>2, <2>1
  <2>3. QED  BY <1>3, <2>2
<1>5. CASE k < d
  <2>1. w * k + w <= w * d /\ w * k \in Nat
    BY <1>2, <1>5, Multiples
  <2>2. a <= Bucket(t, w)
    BY <1>1, <1>2, <2>1
  <2>3. QED  BY <1>3, <2>2
<1>6. CASE k = d
  BY <1>1, <1>2, <1>3, <1>6
<1>7. QED  BY <1>2, <1>4, <1>5, <1>6

(* A bucket is known by any of its times.                                  *)
LEMMA BucketKnown ==
  ASSUME NEW t \in Nat, NEW w \in Nat \ {0}, NEW e \in Nat, w * e <= t, t < w * e + w
  PROVE  Bucket(t, w) = w * e
<1> DEFINE d == t \div w
<1>1. d \in Nat /\ Bucket(t, w) = w * d /\ w * d \in Nat /\ w * d <= t /\ t < w * d + w
  BY BucketIs
<1> HIDE DEF d
<1>2. w * e \in Nat
  OBVIOUS
<1>3. ~ (d < e)
  <2>1. SUFFICES ASSUME d < e  PROVE FALSE
    OBVIOUS
  <2>2. w * d + w <= w * e
    BY <1>1, <2>1, Multiples
  <2>3. QED  BY <1>1, <1>2, <2>2
<1>4. ~ (e < d)
  <2>1. SUFFICES ASSUME e < d  PROVE FALSE
    OBVIOUS
  <2>2. w * e + w <= w * d
    BY <1>1, <2>1, Multiples
  <2>3. QED  BY <1>1, <1>2, <2>2
<1>5. d = e
  BY <1>1, <1>3, <1>4
<1>6. QED  BY <1>1, <1>5

(* The start of a bucket is its own bucket (0002:17 and 0003:18: a rollup  *)
(* row's bucket is a time_bucket).                                         *)
LEMMA BucketOfBucket ==
  ASSUME NEW t \in Nat, NEW w \in Nat \ {0}
  PROVE  Bucket(Bucket(t, w), w) = Bucket(t, w)
<1> DEFINE e == t \div w
<1>1. e \in Nat /\ w * e \in Nat /\ Bucket(t, w) = w * e
  BY BucketIs
<1> HIDE DEF e
<1>2. w * e <= w * e /\ w * e < w * e + w
  BY <1>1
<1>3. QED  BY <1>1, <1>2, BucketKnown

(* When w is made of whole W, the bucket of a time's bucket is its own.    *)
LEMMA NestedBuckets ==
  ASSUME NEW t \in Nat, NEW W \in Nat \ {0}, NEW w \in Nat \ {0}, w % W = 0
  PROVE  Bucket(Bucket(t, W), w) = Bucket(t, w)
<1> DEFINE e == t \div w
           c == Bucket(t, W)
<1>1. e \in Nat /\ Bucket(t, w) = w * e /\ w * e \in Nat /\ w * e <= t /\ t < w * e + w
  BY BucketIs
<1>2. c \in Nat /\ c <= t
  BY BucketBelow
<1> HIDE DEF e, c
<1>3. w * e <= c
  <2>1. PICK k \in Nat : w = W * k
    BY MultipleOf
  <2>2. k * e \in Nat /\ w * e = W * (k * e)
    BY <1>1, <2>1
  <2>3. (w * e) % W = 0
    <3> DEFINE m == k * e
    <3>1. m \in Nat /\ w * e = W * m
      BY <2>2
    <3> HIDE DEF m
    <3>2. Bucket(W * m, W) = W * m
      <4>1. W * m \in Nat /\ W * m <= W * m /\ W * m < W * m + W
        BY <3>1
      <4>2. QED  BY <3>1, <4>1, BucketKnown
    <3> DEFINE n == W * m
    <3>3. n \in Nat
      BY <3>1
    <3>4. n = W * (n \div W) + (n % W) /\ n % W \in 0 .. W-1 /\ n \div W \in Nat
      <4> HIDE DEF n
      <4>1. QED  BY <3>3
    <3>5. W * (n \div W) = n
      <4>1. Bucket(n, W) = W * (n \div W)
        BY <3>3, BucketIs
      <4>2. QED  BY <3>2, <4>1
    <3> HIDE DEF n
    <3>6. n % W = 0
      BY <3>3, <3>4, <3>5
    <3>7. QED  BY <3>1, <3>6 DEF n
  <2>4. QED  BY <1>1, <2>3, WholeBound DEF c
<1>4. c < w * e + w
  BY <1>1, <1>2
<1>5. Bucket(c, w) = w * e
  BY <1>1, <1>2, <1>3, <1>4, BucketKnown
<1>6. QED  BY <1>1, <1>5 DEF c

-----------------------------------------------------------------------------
(* Both rollups have buckets of at least a tick (0002:17 and 0003:18).     *)
LEMMA WidthPositive ==
  \A v \in View : Width(v) \in Nat \ {0}
<1>1. Minute \in Nat \ {0}
  BY SeriesAssumption DEF Minute
<1>2. TicksPerSecond * 1 \in Nat \ {0} /\ TicksPerSecond * Minute \in Nat \ {0}
  BY <1>1, SeriesAssumption
<1>3. QED  BY <1>2 DEF Width

(* A run of a policy works on whole buckets no later than now - end_offset *)
(* and no more than a bucket later than now - start_offset (0002:30-34).   *)
LEMMA WindowBounds ==
  ASSUME NEW v \in View, now \in Nat
  PROVE  /\ WindowStart(v) \in Nat
         /\ WindowStart(v) = 0 \/ WindowStart(v) <= now - StartOffset[v] + Width(v) - 1
         /\ WindowEnd(v) \in Nat
         /\ WindowEnd(v) = 0 \/ WindowEnd(v) + EndOffset[v] <= now
         /\ WindowEnd(v) # 0 => Bucket(WindowEnd(v), Width(v)) = WindowEnd(v)
<1>1. /\ StartOffset[v] \in Nat /\ EndOffset[v] \in Nat
      /\ Width(v) \in Nat \ {0}
  BY SeriesAssumption, WidthPositive
<1>2. /\ WindowStart(v) \in Nat
      /\ WindowStart(v) = 0 \/ WindowStart(v) <= now - StartOffset[v] + Width(v) - 1
  <2>1. CASE now <= StartOffset[v]
    BY <2>1 DEF WindowStart
  <2>2. CASE ~(now <= StartOffset[v])
    <3>1. now - StartOffset[v] + Width(v) - 1 \in Nat
      BY <1>1, <2>2
    <3>2. QED  BY <2>2, <3>1, <1>1, BucketBelow DEF WindowStart
  <2>3. QED  BY <2>1, <2>2
<1>3. /\ WindowEnd(v) \in Nat
      /\ WindowEnd(v) = 0 \/ WindowEnd(v) + EndOffset[v] <= now
      /\ WindowEnd(v) # 0 => Bucket(WindowEnd(v), Width(v)) = WindowEnd(v)
  <2>1. CASE now <= EndOffset[v]
    BY <2>1 DEF WindowEnd
  <2>2. CASE ~(now <= EndOffset[v])
    <3> DEFINE t == now - EndOffset[v]
    <3>1. t \in Nat
      BY <1>1, <2>2
    <3>2. /\ Bucket(t, Width(v)) \in Nat /\ Bucket(t, Width(v)) <= t
          /\ Bucket(Bucket(t, Width(v)), Width(v)) = Bucket(t, Width(v))
      BY <1>1, <3>1, BucketBelow, BucketOfBucket
    <3>3. WindowEnd(v) = Bucket(t, Width(v))
      BY <2>2 DEF WindowEnd
    <3>4. QED  BY <1>1, <3>1, <3>2, <3>3
  <2>3. QED  BY <2>1, <2>2
<1>4. QED  BY <1>2, <1>3

-----------------------------------------------------------------------------
(* Sums over finite sets.  The steps of an induction over the subsets of a *)
(* finite set are taken at a smallest subset with the opposite property.   *)

LEMMA SmallestSubset ==
  ASSUME NEW S, IsFiniteSet(S), NEW T \in SUBSET (SUBSET S), T # {}
  PROVE  \E x \in T : IsFiniteSet(x) /\ \A y \in T : y \subseteq x => y = x
<1>1. T \subseteq FiniteSubsetsOf(S)
  <2>1. \A y \in SUBSET S : IsFiniteSet(y)
    BY FS_Subset
  <2>2. QED  BY <2>1 DEF FiniteSubsetsOf
<1>2. PICK x \in T : \A y \in T : ~(<<y, x>> \in StrictSubsetOrdering(S))
  BY <1>1, WFMin, FS_StrictSubsetOrderingWellFounded
<1>3. IsFiniteSet(x)  BY FS_Subset
<1>4. \A y \in T : y \subseteq x => y = x
  BY <1>2 DEF StrictSubsetOrdering
<1>5. QED  BY <1>3, <1>4

(* The equation that defines the library's sum over the subsets of S.      *)
Pick(s) == CHOOSE x \in s : TRUE
SumsUp(g, f, S) ==
  g = [s \in SUBSET S |-> IF s = {} THEN 0 ELSE f[Pick(s)] + g[s \ {Pick(s)}]]

LEMMA SumIsFold ==
  ASSUME NEW f, NEW S
  PROVE  SumFunctionOnSet(f, S) = (CHOOSE g : SumsUp(g, f, S))[S]
BY DEF SumFunctionOnSet, FoldFunctionOnSet, MapThenFoldSet, SumsUp, Pick

LEMMA PickIn ==
  ASSUME NEW s, s # {}
  PROVE  Pick(s) \in s
BY DEF Pick

LEMMA SumsUpAt ==
  ASSUME NEW f, NEW S, NEW g, SumsUp(g, f, S), NEW s \in SUBSET S
  PROVE  /\ s = {} => g[s] = 0
         /\ s # {} => g[s] = f[Pick(s)] + g[s \ {Pick(s)}]
<1> DEFINE body(t) == IF t = {} THEN 0 ELSE f[Pick(t)] + g[t \ {Pick(t)}]
<1>1. g = [t \in SUBSET S |-> body(t)]
  BY DEF SumsUp
<1> HIDE DEF body
<1>2. g[s] = body(s)
  BY <1>1
<1>3. QED  BY <1>2 DEF body

(* Solutions of the equation for two sets agree on what both speak of.     *)
LEMMA SumsAgree ==
  ASSUME NEW f, NEW A, NEW B, A \subseteq B, IsFiniteSet(A),
         NEW g, SumsUp(g, f, A), NEW h, SumsUp(h, f, B)
  PROVE  \A s \in SUBSET A : g[s] = h[s]
<1> DEFINE T == {s \in SUBSET A : g[s] # h[s]}
<1>1. SUFFICES ASSUME T # {}  PROVE FALSE
  OBVIOUS
<1>2. PICK x \in T : IsFiniteSet(x) /\ \A y \in T : y \subseteq x => y = x
  <2>1. T \in SUBSET (SUBSET A)  OBVIOUS
  <2> HIDE DEF T
  <2>2. QED  BY <1>1, <2>1, SmallestSubset
<1>3. x \in SUBSET A /\ x \in SUBSET B
  OBVIOUS
<1>4. x # {}
  <2>1. ASSUME NEW k, NEW D, SumsUp(k, f, D), x \in SUBSET D, x = {}  PROVE k[x] = 0
    BY <2>1, SumsUpAt
  <2>2. x = {} => g[x] = 0 /\ h[x] = 0
    BY <1>3, <2>1
  <2>3. g[x] # h[x]
    OBVIOUS
  <2>4. QED  BY <2>2, <2>3
<1>5. Pick(x) \in x
  BY <1>4, PickIn
<1>6. g[x \ {Pick(x)}] = h[x \ {Pick(x)}]
  <2>1. x \ {Pick(x)} \in SUBSET A /\ x \ {Pick(x)} # x
    BY <1>3, <1>5
  <2>2. x \ {Pick(x)} \notin T
    BY <1>2, <2>1
  <2>3. QED  BY <2>1, <2>2
<1>7. g[x] = h[x]
  BY <1>3, <1>4, <1>6, SumsUpAt
<1>8. QED  BY <1>7

LEMMA SumExists ==
  ASSUME NEW f, NEW S, IsFiniteSet(S)
  PROVE  SumsUp(CHOOSE g : SumsUp(g, f, S), f, S)
<1> DEFINE G(s) == CHOOSE g : SumsUp(g, f, s)
           T == {s \in SUBSET S : ~ \E g : SumsUp(g, f, s)}
<1>1. SUFFICES T = {}
  <2>1. S \in SUBSET S  OBVIOUS
  <2>2. SUFFICES ASSUME T = {}  PROVE \E g : SumsUp(g, f, S)
    OBVIOUS
  <2>3. QED  BY <2>1, <2>2
<1>2. SUFFICES ASSUME T # {}  PROVE FALSE
  OBVIOUS
<1>3. PICK x \in T : IsFiniteSet(x) /\ \A y \in T : y \subseteq x => y = x
  <2>1. T \in SUBSET (SUBSET S)  OBVIOUS
  <2> HIDE DEF T
  <2>2. QED  BY <1>2, <2>1, SmallestSubset
<1>4. x \in SUBSET S /\ ~ \E g : SumsUp(g, f, x)
  OBVIOUS
<1>5. ASSUME NEW t \in SUBSET x, t # x  PROVE SumsUp(G(t), f, t)
  <2>1. t \notin T  BY <1>3, <1>5
  <2>2. \E g : SumsUp(g, f, t)  BY <1>4, <1>5, <2>1
  <2>3. QED  BY <2>2
<1> HIDE DEF G
<1> DEFINE H(t) == G(t)[t]
<1>6. ASSUME NEW t \in SUBSET x, t # x
      PROVE  /\ t = {} => H(t) = 0
             /\ t # {} => H(t) = f[Pick(t)] + H(t \ {Pick(t)})
  <2>1. t = {} => H(t) = 0
    <3>1. SumsUp(G(t), f, t) /\ t \in SUBSET t
      BY <1>5, <1>6
    <3>2. QED  BY <3>1, SumsUpAt
  <2>2. ASSUME t # {}  PROVE H(t) = f[Pick(t)] + H(t \ {Pick(t)})
    <3> DEFINE u == t \ {Pick(t)}
    <3>1. Pick(t) \in t /\ u \in SUBSET x /\ u # x /\ u \subseteq t
      BY <1>6, <2>2, PickIn
    <3>2. SumsUp(G(t), f, t) /\ SumsUp(G(u), f, u)
      BY <1>5, <1>6, <3>1
    <3>3. IsFiniteSet(u)
      BY <1>3, <3>1, FS_Subset
    <3> HIDE DEF u
    <3>4. G(u)[u] = G(t)[u]
      BY <3>1, <3>2, <3>3, SumsAgree
    <3>5. G(t)[t] = f[Pick(t)] + G(t)[t \ {Pick(t)}]
      BY <2>2, <3>2, SumsUpAt
    <3>6. QED  BY <3>4, <3>5 DEF u
  <2>3. QED  BY <2>1, <2>2
<1> HIDE DEF H
<1> DEFINE body(t) == IF t = {} THEN 0 ELSE f[Pick(t)] + H(t \ {Pick(t)})
           g == [t \in SUBSET x |-> IF t = x THEN body(x) ELSE H(t)]
<1>7. ASSUME NEW t \in SUBSET x
      PROVE  g[t] = (IF t = {} THEN 0 ELSE f[Pick(t)] + g[t \ {Pick(t)}])
  <2>1. g[t] = body(t)
    BY <1>6
  <2>2. t # {} => t \ {Pick(t)} \in SUBSET x /\ t \ {Pick(t)} # x
    BY PickIn
  <2>3. t # {} => g[t \ {Pick(t)}] = H(t \ {Pick(t)})
    BY <2>2
  <2> HIDE DEF g
  <2>4. QED  BY <2>1, <2>3
<1>8. g = [t \in SUBSET x |-> IF t = {} THEN 0 ELSE f[Pick(t)] + g[t \ {Pick(t)}]]
  <2>1. g = [t \in SUBSET x |-> g[t]]
    OBVIOUS
  <2> HIDE DEF g
  <2>2. QED  BY <1>7, <2>1
<1>9. SumsUp(g, f, x)
  BY <1>8 DEF SumsUp
<1>10. QED  BY <1>4, <1>9

(* The library's sum: over the empty set, and of one element more.         *)
LEMMA SumEmpty ==
  ASSUME NEW f
  PROVE  SumFunctionOnSet(f, {}) = 0
<1>1. IsFiniteSet({}) /\ {} \in SUBSET {}
  BY FS_EmptySet
<1>2. QED  BY <1>1, SumExists, SumsUpAt, SumIsFold

LEMMA SumPick ==
  ASSUME NEW f, NEW S, IsFiniteSet(S), S # {}
  PROVE  SumFunctionOnSet(f, S) = f[Pick(S)] + SumFunctionOnSet(f, S \ {Pick(S)})
<1> DEFINE R == S \ {Pick(S)}
           g == CHOOSE k : SumsUp(k, f, S)
           h == CHOOSE k : SumsUp(k, f, R)
<1>1. IsFiniteSet(R) /\ R \subseteq S
  BY FS_Subset
<1>2. SumsUp(g, f, S)
  BY SumExists
<1>3. SumsUp(h, f, R)
  BY <1>1, SumExists
<1>4. SumFunctionOnSet(f, S) = g[S] /\ SumFunctionOnSet(f, R) = h[R]
  BY SumIsFold
<1> HIDE DEF g, h
<1>5. g[S] = f[Pick(S)] + g[S \ {Pick(S)}]
  BY <1>2, SumsUpAt
<1>6. h[R] = g[R]
  BY <1>1, <1>2, <1>3, SumsAgree
<1>7. QED  BY <1>4, <1>5, <1>6

LEMMA SumType ==
  ASSUME NEW f, NEW S, IsFiniteSet(S), \A x \in S : f[x] \in Int
  PROVE  SumFunctionOnSet(f, S) \in Int
<1> DEFINE T == {s \in SUBSET S : SumFunctionOnSet(f, s) \notin Int}
<1>1. SUFFICES ASSUME T # {}  PROVE FALSE
  OBVIOUS
<1>2. PICK x \in T : IsFiniteSet(x) /\ \A y \in T : y \subseteq x => y = x
  <2>1. T \in SUBSET (SUBSET S)  OBVIOUS
  <2> HIDE DEF T
  <2>2. QED  BY <1>1, <2>1, SmallestSubset
<1>3. x # {}
  BY SumEmpty
<1>4. Pick(x) \in x
  BY <1>3, PickIn
<1>5. SumFunctionOnSet(f, x \ {Pick(x)}) \in Int
  <2>1. x \ {Pick(x)} \in SUBSET S /\ x \ {Pick(x)} # x
    BY <1>4
  <2>2. x \ {Pick(x)} \notin T
    BY <1>2, <2>1
  <2>3. QED  BY <2>1, <2>2
<1>6. SumFunctionOnSet(f, x) = f[Pick(x)] + SumFunctionOnSet(f, x \ {Pick(x)})
  BY <1>2, <1>3, SumPick
<1>7. f[Pick(x)] \in Int
  BY <1>4
<1>8. SumFunctionOnSet(f, x) \in Int
  BY <1>5, <1>6, <1>7
<1>9. QED  BY <1>8

(* Any element can be taken out, not only the one the library picks.       *)
LEMMA SumRemove ==
  ASSUME NEW f, NEW S, IsFiniteSet(S), \A x \in S : f[x] \in Int, NEW a \in S
  PROVE  SumFunctionOnSet(f, S) = f[a] + SumFunctionOnSet(f, S \ {a})
<1> DEFINE Sum(s) == SumFunctionOnSet(f, s)
           T == {s \in SUBSET S : \E b \in s : Sum(s) # f[b] + Sum(s \ {b})}
<1>1. SUFFICES ASSUME T # {}  PROVE FALSE
  <2>1. S \in SUBSET S  OBVIOUS
  <2>2. QED  BY <2>1
<1>2. PICK x \in T : IsFiniteSet(x) /\ \A y \in T : y \subseteq x => y = x
  <2>1. T \in SUBSET (SUBSET S)  OBVIOUS
  <2> HIDE DEF T
  <2>2. QED  BY <1>1, <2>1, SmallestSubset
<1>3. PICK b \in x : Sum(x) # f[b] + Sum(x \ {b})
  OBVIOUS
<1> DEFINE p == Pick(x)
<1>4. p \in x /\ Sum(x) = f[p] + Sum(x \ {p})
  BY <1>2, <1>3, PickIn, SumPick
<1>5. b # p
  BY <1>3, <1>4
<1>6. ASSUME NEW s \in SUBSET x  PROVE Sum(s) \in Int
  <2>1. IsFiniteSet(s) /\ \A y \in s : f[y] \in Int
    BY <1>2, <1>6, FS_Subset
  <2>2. QED  BY <2>1, SumType
<1> DEFINE z == x \ {b, p}
<1>7. Sum(x \ {p}) = f[b] + Sum(z)
  <2>1. x \ {p} \in SUBSET S /\ x \ {p} # x /\ b \in x \ {p}
    BY <1>4, <1>5
  <2>2. x \ {p} \notin T
    BY <1>2, <2>1
  <2>3. Sum(x \ {p}) = f[b] + Sum((x \ {p}) \ {b})
    BY <2>1, <2>2
  <2>4. (x \ {p}) \ {b} = z
    OBVIOUS
  <2>5. QED  BY <2>3, <2>4
<1>8. Sum(x \ {b}) = f[p] + Sum(z)
  <2>1. x \ {b} \in SUBSET S /\ x \ {b} # x /\ p \in x \ {b}
    BY <1>4, <1>5
  <2>2. x \ {b} \notin T
    BY <1>2, <2>1
  <2>3. Sum(x \ {b}) = f[p] + Sum((x \ {b}) \ {p})
    BY <2>1, <2>2
  <2>4. (x \ {b}) \ {p} = z
    OBVIOUS
  <2>5. QED  BY <2>3, <2>4
<1>9. f[b] \in Int /\ f[p] \in Int /\ Sum(z) \in Int
  BY <1>4, <1>6
<1> HIDE DEF p, z, Sum
<1>10. Sum(x) = f[b] + Sum(x \ {b})
  BY <1>4, <1>7, <1>8, <1>9
<1>11. QED  BY <1>3, <1>10

(* Only the values at the elements count.                                  *)
LEMMA SumSame ==
  ASSUME NEW f, NEW g, NEW S, IsFiniteSet(S), \A x \in S : f[x] \in Int /\ g[x] = f[x]
  PROVE  SumFunctionOnSet(g, S) = SumFunctionOnSet(f, S)
<1> DEFINE T == {s \in SUBSET S : SumFunctionOnSet(g, s) # SumFunctionOnSet(f, s)}
<1>1. SUFFICES ASSUME T # {}  PROVE FALSE
  <2>1. S \in SUBSET S  OBVIOUS
  <2>2. QED  BY <2>1
<1>2. PICK x \in T : IsFiniteSet(x) /\ \A y \in T : y \subseteq x => y = x
  <2>1. T \in SUBSET (SUBSET S)  OBVIOUS
  <2> HIDE DEF T
  <2>2. QED  BY <1>1, <2>1, SmallestSubset
<1>3. x # {}
  BY SumEmpty
<1>4. Pick(x) \in x
  BY <1>3, PickIn
<1>5. x \ {Pick(x)} \in SUBSET S /\ x \ {Pick(x)} # x
  BY <1>4
<1>6. x \ {Pick(x)} \notin T
  BY <1>2, <1>5
<1>7. SumFunctionOnSet(g, x \ {Pick(x)}) = SumFunctionOnSet(f, x \ {Pick(x)})
  BY <1>5, <1>6
<1>8. SumFunctionOnSet(f, x) = f[Pick(x)] + SumFunctionOnSet(f, x \ {Pick(x)})
  BY <1>2, <1>3, SumPick
<1>9. SumFunctionOnSet(g, x) = g[Pick(x)] + SumFunctionOnSet(g, x \ {Pick(x)})
  BY <1>2, <1>3, SumPick
<1>10. QED  BY <1>4, <1>7, <1>8, <1>9

(* Two disjoint sets, then any number of disjoint parts.                   *)
LEMMA SumDisjoint ==
  ASSUME NEW f, NEW A, IsFiniteSet(A), NEW B, IsFiniteSet(B), A \cap B = {},
         \A x \in A \cup B : f[x] \in Int
  PROVE  SumFunctionOnSet(f, A \cup B) = SumFunctionOnSet(f, A) + SumFunctionOnSet(f, B)
<1> DEFINE Sum(s) == SumFunctionOnSet(f, s)
           T == {s \in SUBSET B : Sum(A \cup s) # Sum(A) + Sum(s)}
<1>1. SUFFICES ASSUME T # {}  PROVE FALSE
  <2>1. B \in SUBSET B  OBVIOUS
  <2>2. QED  BY <2>1
<1>2. PICK x \in T : IsFiniteSet(x) /\ \A y \in T : y \subseteq x => y = x
  <2>1. T \in SUBSET (SUBSET B)  OBVIOUS
  <2> HIDE DEF T
  <2>2. QED  BY <1>1, <2>1, SmallestSubset
<1>3. ASSUME NEW s \in SUBSET (A \cup B)
      PROVE  IsFiniteSet(s) /\ (\A y \in s : f[y] \in Int) /\ Sum(s) \in Int
  <2>1. IsFiniteSet(s) /\ \A y \in s : f[y] \in Int
    BY FS_Union, FS_Subset
  <2>2. QED  BY <2>1, SumType
<1>4. x # {}
  <2>1. A \cup {} = A  OBVIOUS
  <2>2. Sum({}) = 0  BY SumEmpty
  <2>3. Sum(A) \in Int  BY <1>3
  <2> HIDE DEF Sum
  <2>4. Sum(A) + 0 = Sum(A)  BY <2>3
  <2>5. QED  BY <2>1, <2>2, <2>4
<1> DEFINE p == Pick(x)
           r == x \ {p}
<1>5. p \in x /\ p \in B /\ r \in SUBSET B /\ r # x /\ p \notin A \cup r
  BY <1>4, PickIn
<1>6. Sum(A \cup r) = Sum(A) + Sum(r)
  <2>1. r \notin T  BY <1>2, <1>5
  <2>2. QED  BY <1>5, <2>1
<1>7. Sum(x) = f[p] + Sum(r)
  <2>1. x \in SUBSET (A \cup B)  OBVIOUS
  <2>2. QED  BY <1>3, <1>5, <2>1, SumRemove
<1>8. Sum(A \cup x) = f[p] + Sum(A \cup r)
  <2>1. A \cup x \in SUBSET (A \cup B)  OBVIOUS
  <2>2. p \in A \cup x /\ (A \cup x) \ {p} = A \cup r
    BY <1>5
  <2>3. Sum(A \cup x) = f[p] + Sum((A \cup x) \ {p})
    BY <1>3, <2>1, <2>2, SumRemove
  <2>4. QED  BY <2>2, <2>3
<1>9. f[p] \in Int /\ Sum(A) \in Int /\ Sum(r) \in Int
  <2>1. A \in SUBSET (A \cup B) /\ r \in SUBSET (A \cup B)
    BY <1>5
  <2>2. QED  BY <1>3, <1>5, <2>1
<1> HIDE DEF p, r, Sum
<1>10. Sum(A \cup x) = Sum(A) + Sum(x)
  BY <1>6, <1>7, <1>8, <1>9
<1>11. QED  BY <1>10 DEF Sum

Joined(P, K) == UNION {P[k] : k \in K}

LEMMA SumOfParts ==
  ASSUME NEW f, NEW S, IsFiniteSet(S), \A x \in S : f[x] \in Int,
         NEW K, IsFiniteSet(K), NEW P, \A k \in K : P[k] \subseteq S,
         \A j, k \in K : j # k => P[j] \cap P[k] = {},
         NEW h, \A k \in K : h[k] = SumFunctionOnSet(f, P[k])
  PROVE  SumFunctionOnSet(h, K) = SumFunctionOnSet(f, Joined(P, K))
<1> DEFINE Sum(s) == SumFunctionOnSet(f, s)
           All(c) == Joined(P, c)
           T == {c \in SUBSET K : SumFunctionOnSet(h, c) # Sum(All(c))}
<1>1. SUFFICES ASSUME T # {}  PROVE FALSE
  <2>1. K \in SUBSET K  OBVIOUS
  <2>2. QED  BY <2>1
<1>2. PICK x \in T : IsFiniteSet(x) /\ \A y \in T : y \subseteq x => y = x
  <2>1. T \in SUBSET (SUBSET K)  OBVIOUS
  <2> HIDE DEF T
  <2>2. QED  BY <1>1, <2>1, SmallestSubset
<1>3. ASSUME NEW s \in SUBSET S
      PROVE  IsFiniteSet(s) /\ (\A y \in s : f[y] \in Int) /\ Sum(s) \in Int
  <2>1. IsFiniteSet(s) /\ \A y \in s : f[y] \in Int
    BY FS_Subset
  <2>2. QED  BY <2>1, SumType
<1>4. x # {}
  <2>1. All({}) = {}  BY DEF Joined
  <2>2. QED  BY <2>1, SumEmpty
<1> DEFINE p == Pick(x)
           r == x \ {p}
<1>5. p \in x /\ p \in K /\ r \in SUBSET K /\ r # x /\ r \subseteq x
  BY <1>4, PickIn
<1>6. SumFunctionOnSet(h, r) = Sum(All(r))
  <2>1. r \notin T  BY <1>2, <1>5
  <2>2. QED  BY <1>5, <2>1
<1>7. SumFunctionOnSet(h, x) = h[p] + SumFunctionOnSet(h, r)
  BY <1>2, <1>4, SumPick
<1>8. h[p] = Sum(P[p])
  BY <1>5
<1>9. P[p] \in SUBSET S /\ All(r) \in SUBSET S
  BY <1>5 DEF Joined
<1>10. P[p] \cap All(r) = {}
  <2>1. \A k \in r : k \in K /\ k # p
    BY <1>5
  <2>2. QED  BY <1>5, <2>1 DEF Joined
<1>11. All(x) = P[p] \cup All(r)
  BY <1>5 DEF Joined
<1>12. Sum(P[p] \cup All(r)) = Sum(P[p]) + Sum(All(r))
  <2>1. /\ IsFiniteSet(P[p]) /\ IsFiniteSet(All(r))
        /\ \A y \in P[p] \cup All(r) : f[y] \in Int
    BY <1>3, <1>9
  <2> HIDE DEF All, p, r
  <2>2. QED  BY <1>10, <2>1, SumDisjoint
<1>13. SumFunctionOnSet(h, x) = Sum(All(x))
  BY <1>6, <1>7, <1>8, <1>11, <1>12
<1>14. QED  BY <1>13

(* Counting is summing ones.                                               *)
LEMMA SumOnes ==
  ASSUME NEW f, NEW S, IsFiniteSet(S), \A x \in S : f[x] = 1
  PROVE  SumFunctionOnSet(f, S) = Cardinality(S)
<1> DEFINE T == {s \in SUBSET S : SumFunctionOnSet(f, s) # Cardinality(s)}
<1>1. SUFFICES ASSUME T # {}  PROVE FALSE
  <2>1. S \in SUBSET S  OBVIOUS
  <2>2. QED  BY <2>1
<1>2. PICK x \in T : IsFiniteSet(x) /\ \A y \in T : y \subseteq x => y = x
  <2>1. T \in SUBSET (SUBSET S)  OBVIOUS
  <2> HIDE DEF T
  <2>2. QED  BY <1>1, <2>1, SmallestSubset
<1>3. x # {}
  BY SumEmpty, FS_EmptySet
<1> DEFINE p == Pick(x)
           r == x \ {p}
<1>4. p \in x /\ r \in SUBSET S /\ r # x /\ f[p] = 1
  BY <1>3, PickIn
<1>5. SumFunctionOnSet(f, r) = Cardinality(r)
  <2>1. r \notin T  BY <1>2, <1>4
  <2>2. QED  BY <1>4, <2>1
<1>6. SumFunctionOnSet(f, x) = f[p] + SumFunctionOnSet(f, r)
  BY <1>2, <1>3, SumPick
<1>7. Cardinality(r) = Cardinality(x) - 1 /\ Cardinality(x) \in Nat
  BY <1>2, <1>4, FS_RemoveElement, FS_CardinalityType
<1>8. SumFunctionOnSet(f, x) = Cardinality(x)
  BY <1>4, <1>5, <1>6, <1>7
<1>9. QED  BY <1>8

-----------------------------------------------------------------------------
(* The averages of a rollup against those of the readings.                 *)

(* The sums of the two queries are sums of one function of the readings.   *)
LEMMA SumOfReadings ==
  ASSUME NEW S, IsFiniteSet(S), NEW T, S \subseteq T, \A r \in T : r.value \in Int
  PROVE  SumOf(S) = SumFunctionOnSet([r \in T |-> r.value], S)
<1>1. SumOf(S) = SumFunctionOnSet([r \in S |-> r.value], S)
  BY DEF SumOf, SumFunction
<1> DEFINE f == [r \in T |-> r.value]
           g == [r \in S |-> r.value]
<1>2. \A r \in S : f[r] \in Int /\ g[r] = f[r]
  OBVIOUS
<1> HIDE DEF f, g
<1>3. SumFunctionOnSet(g, S) = SumFunctionOnSet(f, S)
  BY <1>2, SumSame
<1>4. QED  BY <1>1, <1>3 DEF f, g

(* Rollup rows k that aggregate disjoint sets P[k] of readings: their      *)
(* weighted mean is the sum and the number of all those readings.          *)
LEMMA WeightedMeanOfParts ==
  ASSUME NEW S, IsFiniteSet(S), \A r \in S : r.value \in Int,
         NEW K, IsFiniteSet(K), NEW P, \A k \in K : P[k] \subseteq S,
         \A j, k \in K : j # k => P[j] \cap P[k] = {},
         \A k \in K : k.sum = SumOf(P[k]) /\ k.n = Cardinality(P[k])
  PROVE  WeightedMean(K) = <<SumOf(Joined(P, K)), Cardinality(Joined(P, K))>>
<1> DEFINE U == Joined(P, K)
           value == [r \in S |-> r.value]
           one   == [r \in S |-> 1]
           sum   == [k \in K |-> k.sum]
           n     == [k \in K |-> k.n]
<1>1. /\ \A r \in S : value[r] \in Int
      /\ \A r \in S : one[r] \in Int /\ one[r] = 1
  OBVIOUS
<1>2. U \subseteq S /\ IsFiniteSet(U)
  <2>1. U \subseteq S
    BY DEF Joined
  <2>2. QED  BY <2>1, FS_Subset
<1>3. \A k \in K : IsFiniteSet(P[k])
  BY FS_Subset
<1>4. \A k \in K : sum[k] = SumFunctionOnSet(value, P[k])
  <2> TAKE k \in K
  <2>1. sum[k] = SumOf(P[k])
    OBVIOUS
  <2>2. QED  BY <1>3, <2>1, SumOfReadings
<1>5. \A k \in K : n[k] = SumFunctionOnSet(one, P[k])
  <2> TAKE k \in K
  <2>1. n[k] = Cardinality(P[k]) /\ \A r \in P[k] : one[r] = 1
    BY <1>1
  <2> HIDE DEF n, one
  <2>2. SumFunctionOnSet(one, P[k]) = Cardinality(P[k])
    BY <1>3, <2>1, SumOnes
  <2>3. QED  BY <2>1, <2>2
<1>6. WeightedMean(K) = <<SumFunctionOnSet(sum, K), SumFunctionOnSet(n, K)>>
  BY DEF WeightedMean, SumFunction
<1>7. SumFunctionOnSet(value, U) = SumOf(U)
  BY <1>2, SumOfReadings
<1>8. SumFunctionOnSet(one, U) = Cardinality(U)
  <2>1. \A r \in U : one[r] = 1
    BY <1>1, <1>2
  <2> HIDE DEF one, U
  <2>2. QED  BY <1>2, <2>1, SumOnes
<1> HIDE DEF value, one, sum, n
<1>9. SumFunctionOnSet(sum, K) = SumFunctionOnSet(value, U)
  BY <1>1, <1>4, SumOfParts
<1>10. SumFunctionOnSet(n, K) = SumFunctionOnSet(one, U)
  <2>1. \A r \in S : one[r] \in Int
    BY <1>1
  <2>2. QED  BY <1>5, <2>1, SumOfParts
<1> HIDE DEF U
<1>11. WeightedMean(K) = <<SumOf(U), Cardinality(U)>>
  BY <1>6, <1>7, <1>8, <1>9, <1>10
<1>12. QED  BY <1>11 DEF U

(* The rollup rows and the readings in the range of a query, and the       *)
(* readings that a rollup row aggregates.                                  *)
Found(q) == {x \in RollupRows(ViewOf(q.step)) : q.from <= x.bucket /\ x.bucket < q.to}
InRange(q) == {r \in rows : q.from <= r.ts /\ r.ts < q.to}
PartOf(v, b) == {r \in Visible(v) : Bucket(r.ts, Width(v)) = b}
StepTicks(q) == TicksPerSecond * StepSeconds(q.step)

(* A step is of at least a tick (series.go:30-35 and 104-118).             *)
LEMMA StepTicksPositive ==
  ASSUME NEW q \in Queries
  PROVE  StepTicks(q) \in Nat \ {0}
<1>1. \A s \in Step : s.n > 0 => s.n \in Nat \ {0} /\ s.unit \in Unit
  <2> TAKE s \in Step
  <2>1. s.n \in 0..9999 /\ s.unit \in Unit
    BY DEF Step
  <2> DEFINE k == s.n
  <2>2. k \in 0..9999
    BY <2>1
  <2> HIDE DEF k
  <2>3. k > 0 => k \in Nat \ {0}
    BY <2>2
  <2>4. QED  BY <2>1, <2>3 DEF k
<1>2. q.step.n \in Nat \ {0} /\ q.step.unit \in Unit
  <2>1. q.step \in Step /\ q.step.n > 0
    BY SeriesAssumption DEF ValidQuery
  <2> DEFINE s == q.step
  <2>2. s \in Step /\ s.n > 0
    BY <2>1
  <2> HIDE DEF s
  <2>3. s.n \in Nat \ {0} /\ s.unit \in Unit
    BY <1>1, <2>2
  <2>4. QED  BY <2>3 DEF s
<1>3. UnitSeconds(q.step.unit) \in Nat \ {0}
  <2>1. Minute \in Nat \ {0}
    BY SeriesAssumption DEF Minute
  <2>2. Hour \in Nat \ {0}
    BY <2>1 DEF Hour
  <2>3. Day \in Nat \ {0}
    BY <2>2 DEF Day
  <2>4. QED  BY <2>1, <2>2, <2>3 DEF UnitSeconds
<1>4. StepSeconds(q.step) \in Nat \ {0}
  BY <1>2, <1>3 DEF StepSeconds
<1>5. QED  BY <1>4, SeriesAssumption DEF StepTicks

(* A range of whole buckets splits no rollup row: the rows found aggregate *)
(* the readings in the range, each reading in one row (store.go:161-175).  *)
LEMMA FoundParts ==
  ASSUME TypeOK, IsFiniteSet(rows), NEW q \in Queries, Shown(q), WholeBuckets(q),
         NEW v, v = ViewOf(q.step)
  PROVE  /\ v \in View /\ IsFiniteSet(Found(q)) /\ IsFiniteSet(InRange(q))
         /\ \A r \in InRange(q) : r.ts \in Nat /\ r.value \in Int
         /\ \A x \in Found(q) :
              /\ x.sum = SumOf(PartOf(v, x.bucket)) /\ x.n = Cardinality(PartOf(v, x.bucket))
              /\ PartOf(v, x.bucket) \subseteq InRange(q)
              /\ \E r \in InRange(q) : Bucket(r.ts, Width(v)) = x.bucket
         /\ \A r \in InRange(q) : \E x \in Found(q) :
              Bucket(r.ts, Width(v)) = x.bucket /\ r \in PartOf(v, x.bucket)
         /\ \A x, y \in Found(q) : x # y => PartOf(v, x.bucket) \cap PartOf(v, y.bucket) = {}
<1> DEFINE W == Width(v)
           found == Found(q)
           raw == InRange(q)
           Part(b) == PartOf(v, b)
<1>1. v \in View /\ W \in Nat \ {0}
  BY WidthPositive DEF ViewOf, View
<1>2. /\ q.from \in Nat /\ q.to \in Nat
      /\ q.from % W = 0 /\ q.to % W = 0
  BY SeriesAssumption DEF ValidQuery, WholeBuckets
<1>3. \A r \in rows : r.ts \in Nat /\ r.value \in Int
  BY SeriesAssumption DEF TypeOK, Row
<1>4. raw \subseteq rows /\ IsFiniteSet(raw) /\ \A r \in raw : r.ts \in Nat /\ r.value \in Int
  <2>1. raw \subseteq rows
    BY DEF InRange
  <2>2. QED  BY <1>3, <2>1, FS_Subset
<1>5. /\ Visible(v) \subseteq rows /\ IsFiniteSet(Visible(v))
      /\ \A r \in raw : r \in Visible(v)
  <2>1. Visible(v) \subseteq rows
    BY <1>1 DEF Visible, TypeOK
  <2>2. QED  BY <2>1, FS_Subset DEF Shown, InRange
<1>6. RollupRows(v) = {[bucket |-> b, sum |-> SumOf(Part(b)), n |-> Cardinality(Part(b))] :
                         b \in {Bucket(r.ts, W) : r \in Visible(v)}}
  BY DEF RollupRows, PartOf
<1>7. \A x : x \in found <=> x \in RollupRows(v) /\ q.from <= x.bucket /\ x.bucket < q.to
  BY DEF Found
<1>8. \A r : r \in raw <=> r \in rows /\ q.from <= r.ts /\ r.ts < q.to
  BY DEF InRange
<1>9. \A b, r : r \in Part(b) <=> r \in Visible(v) /\ Bucket(r.ts, W) = b
  BY DEF PartOf
<1> HIDE DEF W, found, raw, Part
<1>10. ASSUME NEW r \in Visible(v)
       PROVE  q.from <= Bucket(r.ts, W) /\ Bucket(r.ts, W) < q.to <=> r \in raw
  <2>1. r \in rows /\ r.ts \in Nat
    BY <1>3, <1>5
  <2>2. Bucket(r.ts, W) \in Nat
    BY <1>1, <2>1, BucketBelow
  <2>3. q.from <= r.ts <=> q.from <= Bucket(r.ts, W)
    BY <1>1, <1>2, <2>1, WholeBound
  <2>4. q.to <= r.ts <=> q.to <= Bucket(r.ts, W)
    BY <1>1, <1>2, <2>1, WholeBound
  <2>5. QED  BY <1>2, <1>8, <2>1, <2>2, <2>3, <2>4
<1>11. ASSUME NEW x \in found
       PROVE  /\ x.sum = SumOf(Part(x.bucket)) /\ x.n = Cardinality(Part(x.bucket))
              /\ x = [bucket |-> x.bucket, sum |-> x.sum, n |-> x.n]
              /\ Part(x.bucket) \subseteq raw
              /\ \E r \in raw : Bucket(r.ts, W) = x.bucket
  <2>1. PICK r \in Visible(v) :
          x = [bucket |-> Bucket(r.ts, W), sum |-> SumOf(Part(Bucket(r.ts, W))),
               n |-> Cardinality(Part(Bucket(r.ts, W)))]
    BY <1>6, <1>7
  <2>2. x.bucket = Bucket(r.ts, W) /\ q.from <= x.bucket /\ x.bucket < q.to
    BY <1>7, <2>1
  <2>3. \A s \in Part(x.bucket) : s \in raw
    BY <1>9, <1>10, <2>2
  <2>4. r \in raw
    BY <1>10, <2>2
  <2>5. QED  BY <2>1, <2>2, <2>3, <2>4
<1>12. ASSUME NEW r \in raw
       PROVE  \E x \in found : Bucket(r.ts, W) = x.bucket /\ r \in Part(x.bucket)
  <2> DEFINE b == Bucket(r.ts, W)
             x == [bucket |-> b, sum |-> SumOf(Part(b)), n |-> Cardinality(Part(b))]
  <2>1. r \in Visible(v)
    BY <1>5
  <2>2. x \in RollupRows(v)
    BY <1>6, <2>1
  <2>3. q.from <= x.bucket /\ x.bucket < q.to /\ r \in Part(b)
    BY <1>9, <1>10, <2>1
  <2>4. QED  BY <1>7, <2>2, <2>3
<1>13. IsFiniteSet(found)
  <2> DEFINE row == [r \in Visible(v) |-> [bucket |-> Bucket(r.ts, W),
                       sum |-> SumOf(Part(Bucket(r.ts, W))),
                       n |-> Cardinality(Part(Bucket(r.ts, W)))]]
  <2>1. row \in Surjection(Visible(v), RollupRows(v))
    <3>1. \A r \in Visible(v) : row[r] \in RollupRows(v)
      BY <1>6
    <3>2. \A x \in RollupRows(v) : \E r \in Visible(v) : row[r] = x
      BY <1>6
    <3>3. row \in [Visible(v) -> RollupRows(v)]
      BY <3>1
    <3> HIDE DEF row
    <3>4. QED  BY <3>2, <3>3 DEF Surjection
  <2>2. IsFiniteSet(RollupRows(v)) /\ found \subseteq RollupRows(v)
    BY <1>5, <1>7, <2>1, FS_Surjection
  <2>3. QED  BY <2>2, FS_Subset
<1>14. ASSUME NEW x \in found, NEW y \in found, x # y
       PROVE  Part(x.bucket) \cap Part(y.bucket) = {}
  <2> SUFFICES ASSUME NEW r \in Part(x.bucket), r \in Part(y.bucket)  PROVE FALSE
    OBVIOUS
  <2>1. x.bucket = y.bucket
    BY <1>9
  <2>2. x.sum = y.sum /\ x.n = y.n
    <3>1. x.sum = SumOf(Part(x.bucket)) /\ x.n = Cardinality(Part(x.bucket))
      BY <1>11
    <3>2. y.sum = SumOf(Part(y.bucket)) /\ y.n = Cardinality(Part(y.bucket))
      BY <1>11
    <3>3. QED  BY <2>1, <3>1, <3>2
  <2>3. /\ x = [bucket |-> x.bucket, sum |-> x.sum, n |-> x.n]
        /\ y = [bucket |-> y.bucket, sum |-> y.sum, n |-> y.n]
    BY <1>11
  <2>4. x = y
    BY <2>1, <2>2, <2>3
  <2>5. QED  BY <2>4, <1>14
<1>15. QED
  BY <1>1, <1>4, <1>11, <1>12, <1>13, <1>14 DEF W, found, raw, Part

(* So the weighted mean of any of these rows is the mean of their readings.*)
LEMMA MeanOfFound ==
  ASSUME TypeOK, IsFiniteSet(rows), NEW q \in Queries, Shown(q), WholeBuckets(q),
         NEW v, v = ViewOf(q.step), NEW K \in SUBSET Found(q), NEW U \in SUBSET InRange(q),
         \A r \in InRange(q) : r \in U <=> \E x \in K : r \in PartOf(v, x.bucket)
  PROVE  WeightedMean(K) = <<SumOf(U), Cardinality(U)>>
<1> DEFINE P == [x \in K |-> PartOf(v, x.bucket)]
           S == InRange(q)
<1>1. IsFiniteSet(S) /\ \A r \in S : r.value \in Int
  BY FoundParts
<1>2. IsFiniteSet(K)
  BY FoundParts, FS_Subset
<1>3. \A x \in K : P[x] = PartOf(v, x.bucket)
  OBVIOUS
<1>4. \A x \in K : /\ PartOf(v, x.bucket) \subseteq S
                   /\ x.sum = SumOf(PartOf(v, x.bucket)) /\ x.n = Cardinality(PartOf(v, x.bucket))
  BY FoundParts
<1>5. \A x, y \in K : x # y => PartOf(v, x.bucket) \cap PartOf(v, y.bucket) = {}
  BY FoundParts
<1>6. \A r \in S : r \in U <=> \E x \in K : r \in PartOf(v, x.bucket)
  OBVIOUS
<1>7. U \subseteq S
  OBVIOUS
<1> HIDE DEF P, S
<1>8. \A x \in K : P[x] \subseteq S /\ x.sum = SumOf(P[x]) /\ x.n = Cardinality(P[x])
  BY <1>3, <1>4
<1>9. \A x, y \in K : x # y => P[x] \cap P[y] = {}
  BY <1>3, <1>5
<1>10. Joined(P, K) = U
  BY <1>3, <1>6, <1>7, <1>8 DEF Joined
<1>11. WeightedMean(K) = <<SumOf(Joined(P, K)), Cardinality(Joined(P, K))>>
  BY <1>1, <1>2, <1>8, <1>9, WeightedMeanOfParts
<1>12. QED  BY <1>10, <1>11

(* The two queries compared (store.go:147-159 and 161-190).  A step of     *)
(* whole buckets splits no rollup row either, so the rows of each step     *)
(* aggregate exactly the readings of that step.                            *)
LEMMA SameAnswer ==
  ASSUME TypeOK, IsFiniteSet(rows), NEW q \in Queries,
         Shown(q), WholeBuckets(q), WholeSteps(q)
  PROVE  Answer(q) = RawAnswer(q)
<1> DEFINE v == ViewOf(q.step)
           W == Width(v)
           w == StepTicks(q)
           found == Found(q)
           raw == InRange(q)
           InStep(b) == {x \in found : Bucket(x.bucket, w) = b}
           RawInStep(b) == {r \in raw : Bucket(r.ts, w) = b}
<1>1. v \in View /\ W \in Nat \ {0} /\ w \in Nat \ {0} /\ w % W = 0
  BY WidthPositive, StepTicksPositive DEF ViewOf, View, WholeSteps, StepTicks
<1>2. \A r \in raw : r.ts \in Nat
  BY FoundParts
<1>3. \A r \in raw : Bucket(Bucket(r.ts, W), w) = Bucket(r.ts, w)
  BY <1>1, <1>2, NestedBuckets
<1>4. /\ Answer(q) = {[ts |-> b, mean |-> WeightedMean(InStep(b))] :
                         b \in {Bucket(x.bucket, w) : x \in found}}
      /\ RawAnswer(q) = {[ts |-> b, mean |-> <<SumOf(RawInStep(b)), Cardinality(RawInStep(b))>>] :
                         b \in {Bucket(r.ts, w) : r \in raw}}
  BY DEF Answer, RawAnswer, Found, InRange, StepTicks
<1>5. \A x \in found : /\ PartOf(v, x.bucket) \subseteq raw
                       /\ \E r \in raw : Bucket(r.ts, W) = x.bucket
  BY FoundParts
<1>6. \A r \in raw : \E x \in found : Bucket(r.ts, W) = x.bucket /\ r \in PartOf(v, x.bucket)
  BY FoundParts
<1>7. \A b, r : r \in PartOf(v, b) => Bucket(r.ts, W) = b
  BY DEF PartOf
<1> HIDE DEF W, w, found, raw
<1>8. ASSUME NEW b
      PROVE  WeightedMean(InStep(b)) = <<SumOf(RawInStep(b)), Cardinality(RawInStep(b))>>
  <2>1. ASSUME NEW r \in raw
        PROVE  r \in RawInStep(b) <=> \E x \in InStep(b) : r \in PartOf(v, x.bucket)
    <3>1. ASSUME NEW x \in InStep(b), r \in PartOf(v, x.bucket)  PROVE r \in RawInStep(b)
      <4>1. Bucket(r.ts, W) = x.bucket /\ Bucket(x.bucket, w) = b
        BY <1>7, <3>1
      <4>2. QED  BY <1>3, <4>1
    <3>2. ASSUME r \in RawInStep(b)  PROVE \E x \in InStep(b) : r \in PartOf(v, x.bucket)
      <4>1. PICK x \in found : Bucket(r.ts, W) = x.bucket /\ r \in PartOf(v, x.bucket)
        BY <1>6
      <4>2. Bucket(x.bucket, w) = b
        BY <1>3, <3>2, <4>1
      <4>3. QED  BY <4>1, <4>2
    <3>3. QED  BY <3>1, <3>2
  <2>2. InStep(b) \in SUBSET found /\ RawInStep(b) \in SUBSET raw
    OBVIOUS
  <2> HIDE DEF InStep, RawInStep, v
  <2>3. v = ViewOf(q.step)
    BY DEF v
  <2>4. QED  BY <2>1, <2>2, <2>3, MeanOfFound DEF found, raw
<1>9. {Bucket(x.bucket, w) : x \in found} = {Bucket(r.ts, w) : r \in raw}
  <2>1. ASSUME NEW x \in found  PROVE \E r \in raw : Bucket(x.bucket, w) = Bucket(r.ts, w)
    BY <1>3, <1>5
  <2>2. ASSUME NEW r \in raw  PROVE \E x \in found : Bucket(x.bucket, w) = Bucket(r.ts, w)
    BY <1>3, <1>6
  <2>3. QED  BY <2>1, <2>2
<1> HIDE DEF InStep, RawInStep
<1>10. QED  BY <1>4, <1>8, <1>9

(* Summed over the steps of an answer, a total of the rollup rows found is *)
(* their total: each row is in the step of its bucket (store.go:163-168).  *)
StepRows(S, w, b) == {x \in S : Bucket(x.bucket, w) = b}

StepsOf(S, w, A) ==
  /\ \A x \in S : \E a \in A : Bucket(x.bucket, w) = a.ts
  /\ \A a, b \in A : a.ts = b.ts => a = b

LEMMA OverSteps ==
  ASSUME NEW S, IsFiniteSet(S), NEW f, \A x \in S : f[x] \in Int,
         NEW w, NEW A, StepsOf(S, w, A), IsFiniteSet(A), NEW h,
         \A a \in A : h[a] = SumFunctionOnSet(f, StepRows(S, w, a.ts))
  PROVE  SumFunctionOnSet(h, A) = SumFunctionOnSet(f, S)
<1> DEFINE P == [a \in A |-> StepRows(S, w, a.ts)]
<1>1. \A a \in A : \A x : x \in P[a] <=> x \in S /\ Bucket(x.bucket, w) = a.ts
  BY DEF StepRows
<1>2. \A a \in A : h[a] = SumFunctionOnSet(f, P[a])
  OBVIOUS
<1> HIDE DEF P
<1>3. \A a \in A : P[a] \subseteq S
  BY <1>1
<1>4. \A a, b \in A : a # b => P[a] \cap P[b] = {}
  BY <1>1 DEF StepsOf
<1>5. Joined(P, A) = S
  BY <1>1 DEF Joined, StepsOf
<1>6. SumFunctionOnSet(h, A) = SumFunctionOnSet(f, Joined(P, A))
  BY <1>2, <1>3, <1>4, SumOfParts
<1>7. QED  BY <1>5, <1>6

(* Whatever the step, the rollups neither lose nor repeat a reading.       *)
EachReadingOnce ==
  \A q \in Queries : Shown(q) /\ WholeBuckets(q) =>
    /\ SumFunction([a \in Answer(q) |-> a.mean[1]]) = SumOf(InRange(q))
    /\ SumFunction([a \in Answer(q) |-> a.mean[2]]) = Cardinality(InRange(q))

LEMMA TotalsOfAnswer ==
  ASSUME TypeOK, IsFiniteSet(rows)
  PROVE  EachReadingOnce
<1> SUFFICES ASSUME NEW q \in Queries, Shown(q), WholeBuckets(q)
             PROVE  /\ SumFunction([a \in Answer(q) |-> a.mean[1]]) = SumOf(InRange(q))
                    /\ SumFunction([a \in Answer(q) |-> a.mean[2]]) = Cardinality(InRange(q))
  BY DEF EachReadingOnce
<1> DEFINE v == ViewOf(q.step)
           w == StepTicks(q)
           found == Found(q)
           raw == InRange(q)
           A == Answer(q)
           InStep(b) == StepRows(found, w, b)
           sum == [x \in found |-> x.sum]
           n   == [x \in found |-> x.n]
           sums == [a \in A |-> a.mean[1]]
           ns   == [a \in A |-> a.mean[2]]
<1>1. IsFiniteSet(found) /\ IsFiniteSet(raw)
  BY FoundParts
<1>2. \A x \in found : x.sum \in Int /\ x.n \in Int
  <2> TAKE x \in found
  <2> DEFINE part == PartOf(v, x.bucket)
  <2>1. /\ part \subseteq raw /\ x.sum = SumOf(part) /\ x.n = Cardinality(part)
        /\ \A r \in raw : r.value \in Int
    BY FoundParts
  <2> HIDE DEF part
  <2>2. IsFiniteSet(part) /\ \A r \in part : r.value \in Int
    BY <1>1, <2>1, FS_Subset
  <2>3. Cardinality(part) \in Int
    BY <2>2, FS_CardinalityType
  <2>4. SumOf(part) \in Int
    <3> DEFINE f == [r \in part |-> r.value]
    <3>1. \A r \in part : f[r] \in Int
      BY <2>2
    <3>2. SumOf(part) = SumFunctionOnSet(f, part)
      BY DEF SumOf, SumFunction
    <3> HIDE DEF f
    <3>3. QED  BY <2>2, <3>1, <3>2, SumType
  <2>5. QED  BY <2>1, <2>3, <2>4
<1>3. A = {[ts |-> b, mean |-> WeightedMean(InStep(b))] : b \in {Bucket(x.bucket, w) : x \in found}}
  BY DEF Answer, Found, StepTicks, StepRows
<1>4. WeightedMean(found) = <<SumOf(raw), Cardinality(raw)>>
  <2>1. \A r \in raw : \E x \in found : r \in PartOf(v, x.bucket)
    BY FoundParts
  <2>2. found \in SUBSET Found(q) /\ raw \in SUBSET InRange(q)
    OBVIOUS
  <2> HIDE DEF found, raw, v
  <2>3. v = ViewOf(q.step)
    BY DEF v
  <2>4. \A r \in InRange(q) : r \in raw <=> \E x \in found : r \in PartOf(v, x.bucket)
    BY <2>1 DEF raw
  <2>5. QED  BY <2>2, <2>3, <2>4, MeanOfFound
<1>5. WeightedMean(found) = <<SumFunctionOnSet(sum, found), SumFunctionOnSet(n, found)>>
  BY DEF WeightedMean, SumFunction
<1>6. /\ SumFunction(sums) = SumFunctionOnSet(sums, A)
      /\ SumFunction(ns) = SumFunctionOnSet(ns, A)
  BY DEF SumFunction
<1>7. \A x \in found : sum[x] = x.sum /\ n[x] = x.n /\ sum[x] \in Int /\ n[x] \in Int
  BY <1>2
<1>8. ASSUME NEW b
      PROVE  WeightedMean(InStep(b)) = <<SumFunctionOnSet(sum, InStep(b)), SumFunctionOnSet(n, InStep(b))>>
  <2> DEFINE S == InStep(b)
             sumS == [x \in S |-> x.sum]
             nS == [x \in S |-> x.n]
  <2>1. WeightedMean(S) = <<SumFunctionOnSet(sumS, S), SumFunctionOnSet(nS, S)>>
    BY DEF WeightedMean, SumFunction
  <2>2. S \subseteq found /\ IsFiniteSet(S)
    <3>1. S \subseteq found
      BY DEF StepRows
    <3>2. QED  BY <1>1, <3>1, FS_Subset
  <2>3. \A x \in S : sumS[x] = sum[x] /\ nS[x] = n[x] /\ sum[x] \in Int /\ n[x] \in Int
    BY <1>7, <2>2
  <2> HIDE DEF S, sumS, nS, sum, n
  <2>4. SumFunctionOnSet(sumS, S) = SumFunctionOnSet(sum, S)
    BY <2>2, <2>3, SumSame
  <2>5. SumFunctionOnSet(nS, S) = SumFunctionOnSet(n, S)
    BY <2>2, <2>3, SumSame
  <2>6. WeightedMean(S) = <<SumFunctionOnSet(sum, S), SumFunctionOnSet(n, S)>>
    BY <2>1, <2>4, <2>5
  <2>7. QED  BY <2>6 DEF S
<1>9. \A a \in A : sums[a] = a.mean[1] /\ ns[a] = a.mean[2]
  OBVIOUS
<1> DEFINE Bin(b) == [ts |-> b, mean |-> WeightedMean(InStep(b))]
<1> HIDE DEF v, w, found, raw, A, sum, n, sums, ns
<1>10. /\ \A a \in A : a = Bin(a.ts) /\ a.mean = WeightedMean(InStep(a.ts))
       /\ \A a \in A : \E x \in found : Bucket(x.bucket, w) = a.ts
       /\ \A x \in found : \E a \in A : Bucket(x.bucket, w) = a.ts
  <2> HIDE DEF InStep
  <2>1. ASSUME NEW a \in A  PROVE a = Bin(a.ts) /\ \E x \in found : Bucket(x.bucket, w) = a.ts
    <3>1. PICK x \in found : a = Bin(Bucket(x.bucket, w))
      BY <1>3
    <3>2. a.ts = Bucket(x.bucket, w)
      BY <3>1
    <3>3. QED  BY <3>1, <3>2
  <2>2. ASSUME NEW x \in found  PROVE \E a \in A : Bucket(x.bucket, w) = a.ts
    <3>1. Bin(Bucket(x.bucket, w)) \in A
      BY <1>3
    <3>2. QED  BY <3>1
  <2>3. \A a \in A : a = Bin(a.ts) => a.mean = WeightedMean(InStep(a.ts))
    BY DEF Bin
  <2>4. QED  BY <2>1, <2>2, <2>3
<1>11. IsFiniteSet(A)
  <2> DEFINE bin == [x \in found |-> Bin(Bucket(x.bucket, w))]
  <2> HIDE DEF InStep
  <2>1. \A x \in found : bin[x] \in A
    BY <1>3
  <2>2. \A a \in A : \E x \in found : bin[x] = a
    BY <1>3
  <2>3. bin \in [found -> A]
    BY <2>1
  <2> HIDE DEF bin
  <2>4. bin \in Surjection(found, A)
    BY <2>2, <2>3 DEF Surjection
  <2>5. QED  BY <1>1, <2>4, FS_Surjection
<1>12. \A a, b \in A : a.ts = b.ts => a = b
  BY <1>10
<1>13. /\ \A a \in A : sums[a] = SumFunctionOnSet(sum, InStep(a.ts))
       /\ \A a \in A : ns[a] = SumFunctionOnSet(n, InStep(a.ts))
  <2> HIDE DEF InStep, Bin
  <2>1. QED  BY <1>8, <1>9, <1>10
<1>14. ASSUME NEW f, \A x \in found : f[x] \in Int, NEW h,
              \A a \in A : h[a] = SumFunctionOnSet(f, StepRows(found, w, a.ts))
       PROVE  SumFunctionOnSet(h, A) = SumFunctionOnSet(f, found)
  <2>1. StepsOf(found, w, A)
    BY <1>10, <1>12 DEF StepsOf
  <2>2. IsFiniteSet(found) /\ IsFiniteSet(A)
    BY <1>1, <1>11
  <2>3. QED  BY <1>14, <2>1, <2>2, OverSteps
<1>15. /\ SumFunctionOnSet(sums, A) = SumFunctionOnSet(sum, found)
       /\ SumFunctionOnSet(ns, A) = SumFunctionOnSet(n, found)
  BY <1>7, <1>13, <1>14
<1>16. SumFunction(sums) = SumOf(raw) /\ SumFunction(ns) = Cardinality(raw)
  BY <1>4, <1>5, <1>6, <1>15
<1>17. QED  BY <1>16 DEF sums, ns, A, raw

-----------------------------------------------------------------------------
(* The inductive invariant: no rollup is materialized beyond now -         *)
(* end_offset (0002:28-29, what comes later is left to the readings), and  *)
(* the readings are finitely many, so that they can be summed.             *)
MaterializedInTime ==
  \A v \in View : watermark[v] = 0 \/ watermark[v] + EndOffset[v] <= now

IInv == TypeOK /\ MaterializedInTime /\ IsFiniteSet(rows)

(* An empty rollup (0002:24 and 0003:25, WITH NO DATA) is in type.         *)
LEMMA InitIInv == Init => IInv
<1> SUFFICES ASSUME Init PROVE IInv
  OBVIOUS
<1>1. \A v \in View : Bucket(0, Width(v)) = 0
  <2> TAKE v \in View
  <2>1. Bucket(0, Width(v)) \in Nat /\ Bucket(0, Width(v)) <= 0
    BY WidthPositive, BucketBelow
  <2>2. QED  BY <2>1
<1>2. 0 \in 0..MaxTime
  BY SeriesAssumption
<1>3. TypeOK
  BY <1>1, <1>2 DEF Init, TypeOK, Row
<1>4. IsFiniteSet(rows)
  BY FS_EmptySet DEF Init
<1>5. QED  BY <1>3, <1>4 DEF IInv, MaterializedInTime, Init

(* A reading that arrives (store.go:73-87) keeps the invariant.            *)
LEMMA InsertIInv ==
  ASSUME IInv, NEW t \in 0..MaxTime, NEW x \in Value, Insert([ts |-> t, value |-> x])
  PROVE  IInv'
<1>1. t \in Nat
  BY SeriesAssumption
<1>2. [ts |-> t, value |-> x] \in Row
  BY <1>1 DEF Row
<1>3. rows' \subseteq Row /\ rows \subseteq rows'
  BY <1>2 DEF Insert, IInv, TypeOK
<1>4. UNCHANGED <<now, seen, watermark>>
  BY DEF Insert
<1>5. seen' \in [View -> SUBSET rows']
  BY <1>3, <1>4 DEF IInv, TypeOK
<1>6. TypeOK'
  BY <1>3, <1>4, <1>5 DEF IInv, TypeOK
<1>7. MaterializedInTime'
  BY <1>4 DEF IInv, MaterializedInTime
<1>8. IsFiniteSet(rows')
  BY FS_AddElement DEF Insert, IInv
<1>9. QED  BY <1>6, <1>7, <1>8 DEF IInv

(* The clock only moves away from the watermarks.                          *)
LEMMA TickIInv ==
  ASSUME IInv, Tick
  PROVE  IInv'
<1>1. now' \in 0..MaxTime /\ now' = now + 1 /\ now \in Nat
  BY SeriesAssumption DEF Tick, IInv, TypeOK
<1>2. UNCHANGED <<rows, seen, watermark>>
  BY DEF Tick
<1>3. TypeOK'
  BY <1>1, <1>2 DEF IInv, TypeOK
<1>4. MaterializedInTime'
  <2> SUFFICES ASSUME NEW v \in View
               PROVE  watermark[v] = 0 \/ watermark[v] + EndOffset[v] <= now + 1
    BY <1>1, <1>2 DEF MaterializedInTime
  <2>1. watermark[v] \in Nat /\ EndOffset[v] \in Nat
    BY SeriesAssumption DEF IInv, TypeOK
  <2>2. QED  BY <1>1, <2>1 DEF IInv, MaterializedInTime
<1>5. QED  BY <1>2, <1>3, <1>4 DEF IInv

(* So does a run of a policy (0002:30-34, 0003:30-34).                     *)
LEMMA RefreshIInv ==
  ASSUME IInv, NEW v \in View, Refresh(v)
  PROVE  IInv'
<1> DEFINE window == {r \in rows : WindowStart(v) <= r.ts /\ r.ts < WindowEnd(v)}
<1>1. now \in Nat /\ watermark[v] \in Nat /\ EndOffset[v] \in Nat
  BY SeriesAssumption DEF IInv, TypeOK
<1>2. /\ WindowStart(v) \in Nat
      /\ WindowEnd(v) \in Nat
      /\ WindowEnd(v) = 0 \/ WindowEnd(v) + EndOffset[v] <= now
      /\ WindowEnd(v) # 0 => Bucket(WindowEnd(v), Width(v)) = WindowEnd(v)
  BY <1>1, WindowBounds
<1>3. WindowStart(v) < WindowEnd(v) /\ UNCHANGED <<now, rows>>
  BY DEF Refresh
<1>4. PICK m \in watermark[v] .. WindowEnd(v) :
        /\ m = WindowEnd(v) \/ Bucket(m, Width(v)) = m
        /\ watermark' = [watermark EXCEPT ![v] = m]
  BY DEF Refresh
<1>5. /\ m \in Nat /\ m + EndOffset[v] <= now
      /\ Bucket(m, Width(v)) = m
  BY <1>1, <1>2, <1>3, <1>4
<1>6. seen' \in [View -> SUBSET rows']
  <2>1. seen' = [seen EXCEPT ![v] = @ \cup window] /\ window \subseteq rows
    BY DEF Refresh
  <2>2. QED  BY <1>3, <2>1 DEF IInv, TypeOK
<1>7. TypeOK'
  <2>1. watermark' \in [View -> Nat]
    BY <1>4, <1>5 DEF IInv, TypeOK
  <2>2. \A u \in View : Bucket(watermark'[u], Width(u)) = watermark'[u]
    BY <1>4, <1>5 DEF IInv, TypeOK
  <2>3. QED  BY <1>3, <1>6, <2>1, <2>2 DEF IInv, TypeOK, Bucket, Width, Minute
<1>8. MaterializedInTime'
  BY <1>3, <1>4, <1>5 DEF IInv, TypeOK, MaterializedInTime
<1>9. QED  BY <1>3, <1>7, <1>8 DEF IInv

LEMMA NextIInv ==
  ASSUME IInv, [Next]_vars
  PROVE  IInv'
<1>1. CASE \E t \in 0..MaxTime, x \in Value : Insert([ts |-> t, value |-> x])
  BY <1>1, InsertIInv
<1>2. CASE \E v \in View : Refresh(v)
  BY <1>2, RefreshIInv
<1>3. CASE Tick
  BY <1>3, TickIInv
<1>4. CASE UNCHANGED vars
  BY <1>4 DEF vars, IInv, TypeOK, MaterializedInTime, Bucket, Width, Minute
<1>5. QED  BY <1>1, <1>2, <1>3, <1>4 DEF Next

(* The state of the rollups is what TimescaleDB keeps: sets of stored rows *)
(* and watermarks on bucket boundaries; never materialized into end_offset.*)
THEOREM SeriesInvariant == Spec => []IInv
<1>1. Init => IInv
  BY InitIInv
<1>2. IInv /\ [Next]_vars => IInv'
  BY NextIInv
<1>3. QED  BY <1>1, <1>2, PTL DEF Spec

(* The type invariant of the read side (0002:13-24, 0003:14-25).           *)
THEOREM SeriesTypeCorrect == Spec => []TypeOK
<1>1. IInv => TypeOK
  BY DEF IInv
<1>2. QED  BY <1>1, SeriesInvariant, PTL

-----------------------------------------------------------------------------
(* store.go:157-159, "weighted by their row counts, so the coarser average *)
(* is exact": for every range and step made of whole buckets, of either    *)
(* rollup, in every state that shows the readings of the range.            *)
THEOREM CoarseAveragesExact == Spec => []ExactOnWholeSteps
<1>1. IInv => ExactOnWholeSteps
  <2> SUFFICES ASSUME IInv, NEW q \in Queries, Shown(q), WholeBuckets(q), WholeSteps(q)
               PROVE  SameSeries(Answer(q), RawAnswer(q))
    BY DEF ExactOnWholeSteps
  <2>1. Answer(q) = RawAnswer(q)
    BY SameAnswer DEF IInv
  <2>2. \A a, b \in RawAnswer(q) : a.ts = b.ts => a.mean = b.mean
    <3> DEFINE w == TicksPerSecond * StepSeconds(q.step)
               raw == {r \in rows : q.from <= r.ts /\ r.ts < q.to}
               In(b) == {r \in raw : Bucket(r.ts, w) = b}
               Mean(b) == <<SumOf(In(b)), Cardinality(In(b))>>
    <3>1. RawAnswer(q) = {[ts |-> b, mean |-> Mean(b)] : b \in {Bucket(r.ts, w) : r \in raw}}
      BY DEF RawAnswer
    <3> HIDE DEF Mean, raw, w
    <3>2. \A a \in RawAnswer(q) : a.mean = Mean(a.ts)
      BY <3>1
    <3>3. QED  BY <3>2
  <2>3. QED  BY <2>1, <2>2 DEF SameSeries
<1>2. QED  BY <1>1, SeriesInvariant, PTL

(* store.go:161-168: for any other step too (the finding of run            *)
(* series_coarser) the averages of an answer are made of the readings in   *)
(* the range, each of them once; only the step it is counted in is wrong.  *)
THEOREM NoneLostOrRepeated == Spec => []EachReadingOnce
<1>1. IInv => EachReadingOnce
  BY TotalsOfAnswer DEF IInv
<1>2. QED  BY <1>1, SeriesInvariant, PTL

(* 0002:8, "queries never miss live points": whatever the policies do, a   *)
(* reading that arrives within end_offset is shown at once.                *)
THEOREM LiveReadingsAreShown == Spec => []LiveRowsShown
<1>1. IInv => LiveRowsShown
  <2> SUFFICES ASSUME IInv, NEW v \in View, NEW r \in rows, r.ts >= now - EndOffset[v]
               PROVE  r \in Visible(v)
    BY DEF LiveRowsShown
  <2>1. /\ now \in Nat /\ r.ts \in Nat
        /\ watermark[v] \in Nat /\ EndOffset[v] \in Nat
    BY SeriesAssumption DEF IInv, TypeOK, Row
  <2>2. r.ts >= watermark[v]
    BY <2>1 DEF IInv, MaterializedInTime
  <2>3. QED  BY <2>2 DEF Visible
<1>2. QED  BY <1>1, SeriesInvariant, PTL

(* 0002:28-31: no step hides a reading that was shown, if its bucket is    *)
(* within start_offset; in particular not the run of a policy that moves   *)
(* the watermark over a late reading not yet materialized.                 *)
THEOREM ReadingsStayShown == Spec => ShownStaysShown
<1> DEFINE Kept == \A v \in View : \A r \in Visible(v) :
                     r.ts >= now - StartOffset[v] + Width(v) => r \in Visible(v)'
<1>1. IInv /\ [Next]_vars => [Kept]_vars
  <2> SUFFICES ASSUME IInv, [Next]_vars, NEW v \in View, NEW r \in Visible(v),
                      r.ts >= now - StartOffset[v] + Width(v)
               PROVE  r \in Visible(v)'
    OBVIOUS
  <2>1. r \in rows /\ r.ts \in Nat
    BY DEF IInv, TypeOK, Visible, Row
  <2>2. CASE \E t \in 0..MaxTime, x \in Value : Insert([ts |-> t, value |-> x])
    BY <2>2 DEF Insert, Visible
  <2>3. CASE UNCHANGED <<rows, seen, watermark>>
    BY <2>3 DEF Visible
  <2>4. ASSUME NEW u \in View, u # v, Refresh(u)
        PROVE  r \in Visible(v)'
    BY <2>4 DEF Refresh, Visible, IInv, TypeOK
  <2>5. CASE Refresh(v)
    <3> DEFINE window == {x \in rows : WindowStart(v) <= x.ts /\ x.ts < WindowEnd(v)}
    <3>1. PICK m \in watermark[v] .. WindowEnd(v) :
            watermark' = [watermark EXCEPT ![v] = m]
      BY <2>5 DEF Refresh
    <3>2. rows' = rows /\ watermark'[v] = m /\ seen'[v] = seen[v] \cup window
      BY <2>5, <3>1 DEF Refresh, IInv, TypeOK
    <3>3. /\ now \in Nat /\ watermark[v] \in Nat /\ m \in Int
          /\ StartOffset[v] \in Nat /\ Width(v) \in Nat
          /\ WindowStart(v) \in Nat /\ WindowEnd(v) \in Nat
          /\ WindowStart(v) = 0 \/ WindowStart(v) <= now - StartOffset[v] + Width(v) - 1
      <4>1. now \in Nat /\ watermark[v] \in Nat /\ StartOffset[v] \in Nat
        BY SeriesAssumption DEF IInv, TypeOK
      <4>2. Width(v) \in Nat
        BY WidthPositive
      <4>3. /\ WindowStart(v) \in Nat /\ WindowEnd(v) \in Nat
            /\ WindowStart(v) = 0 \/ WindowStart(v) <= now - StartOffset[v] + Width(v) - 1
        BY <4>1, WindowBounds
      <4>4. m \in Int
        BY <3>1, <4>1, <4>3
      <4>5. QED  BY <4>1, <4>2, <4>3, <4>4
    <3>4. CASE r.ts >= m
      BY <2>1, <3>2, <3>4 DEF Visible
    <3>5. CASE r.ts < m /\ r.ts >= watermark[v]
      <4>1. r \in window
        BY <2>1, <3>1, <3>3, <3>5
      <4>2. QED  BY <3>2, <3>5, <4>1 DEF Visible
    <3>6. CASE r.ts < m /\ r.ts < watermark[v]
      <4>1. r \in seen[v]
        BY <2>1, <3>3, <3>6 DEF Visible
      <4>2. QED  BY <3>2, <3>6, <4>1 DEF Visible
    <3>7. QED  BY <2>1, <3>1, <3>3, <3>4, <3>5, <3>6
  <2>6. QED  BY <2>2, <2>3, <2>4, <2>5 DEF Next, Tick, vars
<1>2. [][Kept]_vars => ShownStaysShown
  BY DEF ShownStaysShown
<1>3. QED  BY <1>1, <1>2, SeriesInvariant, PTL DEF Spec
=============================================================================
