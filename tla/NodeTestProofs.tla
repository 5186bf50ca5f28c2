--------------------------- MODULE NodeTestProofs ---------------------------
(***************************************************************************)
(* What holds of ProxyTest and NodeTest for any workers, nodes, cache      *)
(* keys, URLs, checks, number of probes and of samples.  Every worker's    *)
(* proxyTest is a record of its own: what holds of it, TestOk, is kept by  *)
(* every step of a test, by whichever specification it is taken.           *)
(***************************************************************************)
EXTENDS NodeTest, SumLemmas

-----------------------------------------------------------------------------
(* The inductive invariant *)

Best == {Delay(e) : e \in Elapsed} \cup {NoDelay}

ProbeState ==
    [at : {"idle", "launch", "wait", "retry", "done"},
     launched : 0..Tries, running : 0..Tries, failed : 0..Tries + 1, best : Best]

JobState == [step : Nat, ok : BOOLEAN, loc : Country \cup {""}]

TestState ==
    [pc : {"idle", "delay", "metrics", "decide", "tasks", "done"},
     ctx : {"live", "probeOver", "over"},
     probe : [Target -> ProbeState],
     turn : Nat, delays : Seq(Ms), lost : Nat, stats : Stats,
     job : [Job -> JobState],
     bandwidth : BOOLEAN, country : Country \cup {""}]

(* Every probe that was launched runs, failed or told a delay; without a   *)
(* delay all failed.  While the context lives none is left out.            *)
ProbeInv(p, lives) ==
    /\ p.running <= p.launched
    /\ p.at = "idle" => p.launched = 0
    /\ p.at # "done" =>
          /\ p.running + p.failed <= p.launched
          /\ p.best = NoDelay => p.running + p.failed = p.launched
    /\ p.at \in {"retry", "done"} => p.running = 0
    /\ p.at = "retry" => p.best = NoDelay
    /\ p.at \in {"wait", "retry", "done"} /\ lives => p.launched = Tries
    /\ p.at = "done" /\ p.best = NoDelay => p.failed = p.launched + 1

Lives(ctx, u) == ctx = "live" \/ (u # "delay" /\ ctx = "probeOver")

(* The probes of a stage are idle before it and done after it.             *)
StageInv(t) ==
    /\ t.pc = "idle" => t.probe["delay"].at = "idle"
    /\ t.pc \in {"metrics", "decide", "tasks", "done"} => t.probe["delay"].at = "done"
    /\ t.pc \in {"idle", "delay", "metrics", "decide"} =>
          \A u \in Url : t.probe[u].at = "idle"
    /\ t.pc = "done" => \A u \in Url :
          t.probe[u].at = "done" \/ (t.probe[u].at = "idle" /\ t.stats.min = 0)
    /\ t.bandwidth => t.pc = "tasks"

(* The samples taken, and what the metrics make of them.                   *)
StatsOk(s, delays, best) ==
    LET d == {delays[i] : i \in DOMAIN delays}
    IN  /\ s.min = 0 <=> best \in {0, NoDelay}
        /\ s.p50 <= s.p90 /\ s.p90 <= s.p95
        /\ Len(delays) > 1 /\ 0 \notin d => s.min <= s.p50
        /\ s.p95 > 0 => s.p95 \in d
        /\ s.jitter > 0 => s.jitter <= Max(d) - Min(d)

SamplesInv(t) ==
    /\ t.pc \in {"idle", "delay"} =>
          t.turn = 0 /\ t.delays = <<>> /\ t.lost = 0 /\ t.stats = NoStats
    /\ Len(t.delays) + t.lost = t.turn /\ t.turn <= Samples
    /\ t.pc \in {"decide", "tasks", "done"} =>
          t.turn = Samples \/ t.stats.min = 0
    /\ t.pc = "metrics" => t.probe["delay"].best # NoDelay
    /\ t.pc = "tasks" => t.stats.min > 0
    /\ t.pc \in {"decide", "tasks", "done"} =>
          StatsOk(t.stats, t.delays, t.probe["delay"].best)

(* The checks run only with the other tasks; a country is told when one of *)
(* them told it.                                                           *)
JobInv(t) ==
    /\ \A j \in Job : t.job[j].step <= Len(Requests[j]) + 1
    /\ t.pc # "tasks" => \A j \in Job : t.job[j].step \notin 1..Len(Requests[j])
    /\ t.pc = "done" /\ t.stats.min > 0 /\ t.country = "" =>
          \A j \in Job \cap {"locate", "gpt_web"} : t.job[j].loc = ""

TestOk(t) ==
    /\ t \in TestState
    /\ \A u \in Target : ProbeInv(t.probe[u], Lives(t.ctx, u))
    /\ StageInv(t) /\ SamplesInv(t) /\ JobInv(t)

TestInv == /\ test = [w \in Worker |-> test[w]]
           /\ \A w \in Worker : TestOk(test[w])

(* A result, returned or stored, is what the test of its worker ended with.*)
ResultOf(v, k) ==
    /\ v \in Value /\ KeyOf[v.by] = k
    /\ at[v.by] = "done" /\ test[v.by].pc = "done"
    /\ v.alive = (test[v.by].stats.min > 0)

ResultInv ==
    /\ \A k \in Key : item[k] # NoValue => ResultOf(item[k], k)
    /\ \A w \in Worker : result[w] # NoValue => ResultOf(result[w], KeyOf[w])

StateInv ==
    /\ CacheTypeOK
    /\ at \in [Worker -> {"lookup", "evict", "type", "test", "done"}]
    /\ result \in [Worker -> Value \cup {NoValue}]

Inv == StateInv /\ TestInv /\ ResultInv

-----------------------------------------------------------------------------
(* Sorting, percentiles and jitter *)

(* Milliseconds are numbers, and so are the constants.                     *)
LEMMA NoDelayNat == NoDelay \in Nat /\ NoDelay > 0
BY DEF NoDelay

LEMMA MsRange == \A x : x \in Ms <=> x \in Nat /\ x < NoDelay
BY NoDelayNat DEF Ms

LEMMA MsNat == Ms \subseteq Nat
BY MsRange

LEMMA ConstantsNat == Samples \in Nat /\ Tries \in Nat /\ Tries > 0
<1>1. Samples \in Nat
  BY ProxyTestAssumption
<1>2. Tries \in Nat \ {0}
  BY ProxyTestAssumption
<1> QED BY <1>1, <1>2

LEMMA DelayMs == ASSUME NEW e \in Elapsed PROVE Delay(e) \in Ms /\ Delay(e) \in Best
<1>1. e \in Nat
  BY ProxyTestAssumption
<1>2. e % NoDelay \in Nat /\ e % NoDelay < NoDelay
  BY <1>1, NoDelayNat
<1> QED BY <1>2, MsRange DEF Delay, Best

(* A delay is told in milliseconds, or is NoDelay.                         *)
LEMMA BestMs ==
    ASSUME NEW b \in Best
    PROVE  b \in Nat /\ (b \in Ms <=> b # NoDelay) /\ b <= NoDelay
<1>1. CASE b = NoDelay
  BY <1>1, NoDelayNat, MsRange
<1>2. CASE b # NoDelay
  <2>1. PICK e \in Elapsed : b = Delay(e)
    BY <1>2 DEF Best
  <2>2. b \in Nat /\ b < NoDelay
    BY <2>1, DelayMs, MsRange
  <2> QED BY <2>2, NoDelayNat, MsRange
<1> QED BY <1>1, <1>2

(* What the statistics may be.                                             *)
LEMMA StatsFields ==
    /\ \A m \in Nat, a, b, c, j \in Ms : m <= NoDelay =>
          [min |-> m, p50 |-> a, p90 |-> b, p95 |-> c, jitter |-> j] \in Stats
    /\ \A s \in Stats : s.min \in Nat
<1>1. \A m : m \in 0..NoDelay <=> m \in Nat /\ m <= NoDelay
  BY NoDelayNat
<1> QED BY <1>1 DEF Stats

(* A factor keeps the order.                                               *)
LEMMA FactorKeepsOrder ==
    ASSUME NEW a \in Int, NEW b \in Int, a <= b, NEW n \in Nat
    PROVE  n * a = a * n /\ n * a \in Int /\ n * a <= n * b
<1>1. n * (b - a) >= 0
  OBVIOUS
<1>2. n * (b - a) = n * b - n * a /\ n * a \in Int /\ n * b \in Int
  OBVIOUS
<1>3. n * a = a * n
  OBVIOUS
<1> QED BY <1>1, <1>2, <1>3

(* Any finite set can be listed in the order of its values.                *)
LEMMA ListingExists ==
    ASSUME NEW S, IsFiniteSet(S), NEW d, Ints(d, S)
    PROVE  \E p \in [1..Cardinality(S) -> S] :
              \A i, j \in 1..Cardinality(S) : i < j => p[i] # p[j] /\ d[p[i]] <= d[p[j]]
<1> DEFINE Listing(p, T) ==
             /\ p \in [1..Cardinality(T) -> T]
             /\ \A i, j \in 1..Cardinality(T) :
                   i < j => p[i] # p[j] /\ d[p[i]] <= d[p[j]]
           Bad == {T \in SUBSET S : ~\E p : Listing(p, T)}
<1> SUFFICES ASSUME Bad # {} PROVE FALSE
  <2>1. Bad = {} => \E p : Listing(p, S)
    OBVIOUS
  <2> QED BY <2>1
<1>1. PICK T \in Bad : \A U \in SUBSET T : U # T => U \notin Bad
  <2>1. Bad \subseteq SUBSET S
    OBVIOUS
  <2> HIDE DEF Bad
  <2> QED BY <2>1, MinimalSubset
<1>2. T \in SUBSET S /\ ~(\E p : Listing(p, T)) /\ IsFiniteSet(T) /\ Ints(d, T)
  BY <1>1, FS_Subset DEF Ints
<1>3. T # {}
  <2> SUFFICES ASSUME T = {} PROVE FALSE
    OBVIOUS
  <2>1. Cardinality(T) = 0
    BY FS_EmptySet
  <2>2. Listing([i \in 1..0 |-> i], T)
    BY <2>1
  <2> QED BY <1>2, <2>2
<1>4. PICK m \in T : \A y \in T : d[y] <= d[m]
  <2> HIDE DEF Bad, Listing
  <2> QED BY <1>2, <1>3, GreatestExists
<1> DEFINE R == T \ {m}
           n == Cardinality(R)
<1>5. R \in SUBSET T /\ R # T /\ IsFiniteSet(R) /\ n \in Nat
  BY <1>2, FS_Subset, FS_CardinalityType
<1>6. Cardinality(T) = n + 1
  <2>1. Cardinality(T) = Cardinality(R \cup {m}) /\ m \notin R
    <3>1. T = R \cup {m}
      OBVIOUS
    <3> QED BY <3>1
  <2> QED BY <2>1, <1>5, FS_AddElement
<1>7. PICK q : Listing(q, R)
  BY <1>1, <1>2, <1>5
<1> DEFINE p == [i \in 1..(n + 1) |-> IF i <= n THEN q[i] ELSE m]
<1>8. q \in [1..n -> R]
      /\ \A i, j \in 1..n : i < j => q[i] # q[j] /\ d[q[i]] <= d[q[j]]
  BY <1>7
<1> HIDE DEF n
<1>9. p \in [1..(n + 1) -> T]
  BY <1>5, <1>8
<1>10. ASSUME NEW i \in 1..(n + 1), NEW j \in 1..(n + 1), i < j
       PROVE  p[i] # p[j] /\ d[p[i]] <= d[p[j]]
  <2>1. i \in 1..n /\ p[i] = q[i] /\ q[i] \in R
    BY <1>5, <1>8, <1>10
  <2>2. CASE j \in 1..n
    BY <2>1, <2>2, <1>8, <1>10
  <2>3. CASE j \notin 1..n
    <3>1. p[j] = m
      BY <2>3, <1>5
    <3> QED BY <2>1, <3>1, <1>4
  <2> QED BY <2>2, <2>3
<1>11. Listing(p, T)
  <2> HIDE DEF p
  <2> QED BY <1>6, <1>9, <1>10
<1> QED BY <1>2, <1>11

(* Sorted lists the delays in order.                                       *)
LEMMA SortedOrders ==
    ASSUME NEW d \in Seq(Ms)
    PROVE  /\ Sorted(d) \in Seq(Ms) /\ Len(Sorted(d)) = Len(d)
           /\ \A i \in 1..Len(d) : \E k \in DOMAIN d : Sorted(d)[i] = d[k]
           /\ \A i, j \in 1..Len(d) : i <= j => Sorted(d)[i] <= Sorted(d)[j]
<1> DEFINE n == Len(d)
<1>1. n \in Nat /\ DOMAIN d = 1..n /\ \A i \in 1..n : d[i] \in Ms
  OBVIOUS
<1> HIDE DEF n
<1>2. IsFiniteSet(1..n) /\ Cardinality(1..n) = n
  BY <1>1, FS_Interval
<1>3. Ints(d, 1..n)
  <2> SUFFICES ASSUME NEW i \in 1..n PROVE d[i] \in Int
    BY DEF Ints
  <2>1. d[i] \in Ms
    BY <1>1
  <2>2. d[i] \in Nat
    BY <2>1, MsNat
  <2> QED BY <2>2
<1>4. \E p \in [1..n -> 1..n] : Order(d, p)
  <2>1. \E p \in [1..n -> 1..n] :
           \A i, j \in 1..n : i < j => p[i] # p[j] /\ d[p[i]] <= d[p[j]]
    BY <1>2, <1>3, ListingExists
  <2> QED BY <2>1, <1>1 DEF Order
<1> DEFINE p == CHOOSE p \in [DOMAIN d -> DOMAIN d] : Order(d, p)
<1>5. p \in [1..n -> 1..n] /\ Order(d, p)
  BY <1>1, <1>4
<1>6. Sorted(d) = [i \in 1..n |-> d[p[i]]]
  BY <1>1 DEF Sorted
<1> HIDE DEF p
<1>7. Sorted(d) \in [1..n -> Ms]
  BY <1>1, <1>5, <1>6
<1>8. Sorted(d) \in Seq(Ms) /\ Len(Sorted(d)) = n
  BY <1>1, <1>7
<1>9. \A i \in 1..n : \E k \in DOMAIN d : Sorted(d)[i] = d[k]
  BY <1>1, <1>5, <1>6
<1>10. \A i, j \in 1..n : i <= j => Sorted(d)[i] <= Sorted(d)[j]
  <2> SUFFICES ASSUME NEW i \in 1..n, NEW j \in 1..n, i <= j
               PROVE  d[p[i]] <= d[p[j]]
    BY <1>6
  <2>1. CASE i < j
    BY <2>1, <1>1, <1>5 DEF Order
  <2>2. CASE i = j
    <3>1. p[i] \in 1..n
      BY <1>5
    <3>2. d[p[i]] \in Nat
      BY <1>1, <3>1, MsNat
    <3> QED BY <2>2, <3>2
  <2> QED BY <1>1, <2>1, <2>2
<1> QED BY <1>8, <1>9, <1>10 DEF n

(* The percentiles are among the values, in order.                         *)
LEMMA PercentilesInOrder ==
    ASSUME NEW s \in Seq(Ms), Len(s) >= 1,
           \A i, j \in 1..Len(s) : i <= j => s[i] <= s[j]
    PROVE  /\ \A p \in {50, 90, 95} : \E i \in 1..Len(s) : Percentile(s, p) = s[i]
           /\ s[1] <= Percentile(s, 50)
           /\ Percentile(s, 50) <= Percentile(s, 90)
           /\ Percentile(s, 90) <= Percentile(s, 95)
<1> DEFINE n == Len(s)
           I(p) == (p * (n - 1) + 50) \div 100 + 1
<1>1. n \in Nat /\ n >= 1
  OBVIOUS
<1> HIDE DEF n
<1>2. I(50) \in 1..n /\ I(90) \in 1..n /\ I(95) \in 1..n
      /\ 1 <= I(50) /\ I(50) <= I(90) /\ I(90) <= I(95)
  BY <1>1
<1>3. \A p \in {50, 90, 95} : Percentile(s, p) = s[I(p)]
  BY DEF Percentile, n
<1> DEFINE a == I(50)
           b == I(90)
           c == I(95)
<1>4. Percentile(s, 50) = s[a] /\ Percentile(s, 90) = s[b] /\ Percentile(s, 95) = s[c]
  BY <1>3
<1>5. a \in 1..n /\ b \in 1..n /\ c \in 1..n /\ 1 \in 1..n /\ 1 <= a /\ a <= b /\ b <= c
  BY <1>1, <1>2
<1> HIDE DEF a, b, c
<1>6. s[1] <= s[a] /\ s[a] <= s[b] /\ s[b] <= s[c]
  BY <1>5 DEF n
<1> QED BY <1>4, <1>5, <1>6 DEF n

(* The mean deviation is no more than the span.                            *)
LEMMA JitterInSpan ==
    ASSUME NEW s \in Seq(Ms), Len(s) >= 1, NEW low \in Nat, NEW high \in Nat,
           \A i \in 1..Len(s) : low <= s[i] /\ s[i] <= high
    PROVE  Jitter(s) \in Nat /\ Jitter(s) <= high - low
<1> DEFINE n   == Len(s)
           sum == Sum(s, 1..n)
           dev == [i \in 1..n |-> IF n * s[i] > sum THEN n * s[i] - sum
                                                    ELSE sum - n * s[i]]
           all == Sum(dev, 1..n)
<1>1. n \in Nat /\ n >= 1 /\ DOMAIN s = 1..n /\ \A i \in 1..n : s[i] \in Nat
  <2>1. n \in Nat /\ n >= 1 /\ DOMAIN s = 1..n /\ \A i \in 1..n : s[i] \in Ms
    OBVIOUS
  <2> HIDE DEF n
  <2> QED BY <2>1, MsNat
<1>2. Jitter(s) = all \div (n * n)
  BY <1>1 DEF Jitter, Sum
<1>3. \A i \in 1..n : low <= s[i] /\ s[i] <= high
  OBVIOUS
<1> HIDE DEF n
<1>4. IsFiniteSet(1..n) /\ Cardinality(1..n) = n /\ Ints(s, 1..n)
  BY <1>1, FS_Interval DEF Ints
<1>5. sum \in Int /\ low * n <= sum /\ sum <= high * n
  <2> HIDE DEF dev
  <2>1. Sum(s, 1..n) \in Int /\ low \in Int /\ high \in Int
    BY <1>4, SumInt
  <2>2. low * Cardinality(1..n) <= Sum(s, 1..n)
    BY <1>3, <1>4, <2>1, SumAtLeast
  <2>3. Sum(s, 1..n) <= high * Cardinality(1..n)
    BY <1>3, <1>4, <2>1, SumBounded
  <2> QED BY <1>4, <2>1, <2>2, <2>3
<1> HIDE DEF sum
<1> DEFINE b == n * (high - low)
<1>6. \A i \in 1..n : dev[i] \in Int /\ 0 <= dev[i] /\ dev[i] <= b
  <2> SUFFICES ASSUME NEW i \in 1..n
               PROVE  dev[i] \in Int /\ 0 <= dev[i] /\ dev[i] <= b
    OBVIOUS
  <2>1. low * n <= n * s[i] /\ n * s[i] <= high * n /\ n * s[i] \in Int
    <3>1. low <= s[i] /\ s[i] <= high /\ s[i] \in Int
      BY <1>1, <1>3
    <3> QED BY <1>1, <3>1, FactorKeepsOrder
  <2>2. b = high * n - low * n /\ high * n \in Int /\ low * n \in Int
    BY <1>1
  <2>3. dev[i] = IF n * s[i] > sum THEN n * s[i] - sum ELSE sum - n * s[i]
    OBVIOUS
  <2> DEFINE x == n * s[i]
             lo == low * n
             hi == high * n
  <2> HIDE DEF x, lo, hi, b, dev
  <2> QED BY <2>1, <2>2, <2>3, <1>5 DEF x, lo, hi
<1> HIDE DEF dev
<1>7. b \in Int
  BY <1>1
<1> HIDE DEF b
<1>8. all \in Int /\ 0 * n <= all /\ all <= b * n
  <2>1. Ints(dev, 1..n)
    BY <1>6 DEF Ints
  <2>2. Sum(dev, 1..n) \in Int /\ 0 \in Int
    BY <1>4, <2>1, SumInt
  <2>3. 0 * Cardinality(1..n) <= Sum(dev, 1..n)
    BY <1>4, <1>6, <2>1, <2>2, SumAtLeast
  <2>4. Sum(dev, 1..n) <= b * Cardinality(1..n)
    BY <1>4, <1>6, <1>7, <2>1, SumBounded
  <2> QED BY <1>4, <2>2, <2>3, <2>4
<1> HIDE DEF all
<1>9. b * n = (high - low) * (n * n) /\ n * n \in Nat /\ n * n > 0
  BY <1>1 DEF b
<1>10. 0 <= all \div (n * n) /\ all \div (n * n) <= high - low
  <2> DEFINE c == n * n
  <2>1. c \in Nat /\ c > 0 /\ 0 * c <= all /\ all <= (high - low) * c
    BY <1>1, <1>8, <1>9
  <2> HIDE DEF c
  <2>2. 0 <= all \div c /\ all \div c <= high - low
    BY <2>1, <1>8, QuotientBetween
  <2> QED BY <2>2 DEF c
<1>11. all \div (n * n) \in Int
  BY <1>8, <1>9
<1> QED BY <1>2, <1>10, <1>11

(* Min of two numbers.                                                     *)
LEMMA MinOfTwo ==
    ASSUME NEW a \in Int, NEW b \in Int
    PROVE  Min({a, b}) = IF a <= b THEN a ELSE b
<1>1. \E x \in {a, b} : \A y \in {a, b} : x =< y
  OBVIOUS
<1>2. Min({a, b}) \in {a, b} /\ \A y \in {a, b} : Min({a, b}) =< y
  BY <1>1 DEF Min
<1> QED BY <1>2

(* The metrics of at least two samples.                                    *)
LEMMA MetricsOfSome ==
    ASSUME NEW delays \in Seq(Ms), Len(delays) > 1, NEW best \in Ms
    PROVE  LET s == WithWarmup(Metrics(delays), best)
           IN  s \in Stats /\ StatsOk(s, delays, best)
<1> DEFINE d   == Sorted(delays)
           n   == Len(delays)
           D   == {delays[i] : i \in DOMAIN delays}
           p50 == Percentile(d, 50)
           p90 == Percentile(d, 90)
           p95 == Percentile(d, 95)
           j   == Jitter(d)
           s   == WithWarmup(Metrics(delays), best)
<1>1. n \in Nat /\ n > 1 /\ DOMAIN delays = 1..n /\ \A i \in 1..n : delays[i] \in Ms
  OBVIOUS
<1>2. /\ d \in Seq(Ms) /\ Len(d) = n
      /\ \A i \in 1..n : \E k \in DOMAIN delays : d[i] = delays[k]
      /\ \A i, k \in 1..n : i <= k => d[i] <= d[k]
  BY SortedOrders
<1>3. Metrics(delays) = [min |-> d[1], p50 |-> p50, p90 |-> p90, p95 |-> p95, jitter |-> j]
  BY <1>1, <1>2 DEF Metrics
<1> HIDE DEF d, n, j
<1>4. /\ \A p \in {50, 90, 95} : \E i \in 1..n : Percentile(d, p) = d[i]
      /\ d[1] <= p50 /\ p50 <= p90 /\ p90 <= p95
  <2>1. /\ \A p \in {50, 90, 95} : \E i \in 1..Len(d) : Percentile(d, p) = d[i]
        /\ d[1] <= Percentile(d, 50)
        /\ Percentile(d, 50) <= Percentile(d, 90)
        /\ Percentile(d, 90) <= Percentile(d, 95)
    <3>1. Len(d) >= 1 /\ \A i, k \in 1..Len(d) : i <= k => d[i] <= d[k]
      BY <1>1, <1>2
    <3> QED BY <1>2, <3>1, PercentilesInOrder
  <2> QED BY <2>1, <1>2
<1>5. \A i \in 1..n : d[i] \in D /\ d[i] \in Ms
  BY <1>1, <1>2
<1>6. d[1] \in D /\ d[1] \in Ms /\ p50 \in Ms /\ p90 \in Ms /\ p95 \in Ms /\ p95 \in D
  BY <1>1, <1>4, <1>5
<1> HIDE DEF p50, p90, p95
<1>7. Max(D) \in Ms /\ Min(D) \in Ms /\ \A x \in D : Min(D) <= x /\ x <= Max(D)
  <2>1. IsFiniteSet(1..n) /\ 1..n # {} /\ D = {delays[i] : i \in 1..n}
    <3>1. IsFiniteSet(1..n)
      BY <1>1, FS_Interval
    <3>2. 1 \in 1..n
      BY <1>1
    <3> QED BY <3>1, <3>2, <1>1
  <2>2. Ints(delays, 1..n)
    <3> SUFFICES ASSUME NEW i \in 1..n PROVE delays[i] \in Int
      BY DEF Ints
    <3>1. delays[i] \in Ms
      BY <1>1
    <3>2. delays[i] \in Nat
      BY <3>1, MsNat
    <3> QED BY <3>2
  <2>3. D \subseteq Ms
    BY <1>1
  <2>4. Max(D) \in D /\ \A i \in 1..n : delays[i] <= Max(D)
    <3> HIDE DEF D
    <3> QED BY <2>1, <2>2, MaxOfValues
  <2>5. Min(D) \in D /\ \A i \in 1..n : Min(D) <= delays[i]
    <3> HIDE DEF D
    <3> QED BY <2>1, <2>2, MinOfValues
  <2> QED BY <2>1, <2>3, <2>4, <2>5
<1> HIDE DEF D
<1>8. j \in Nat /\ j <= Max(D) - Min(D)
  <2>1. Max(D) \in Nat /\ Min(D) \in Nat
    BY <1>7, MsNat
  <2>2. \A i \in 1..n : Min(D) <= d[i] /\ d[i] <= Max(D)
    BY <1>5, <1>7
  <2>3. Len(d) >= 1 /\ \A i \in 1..Len(d) : Min(D) <= d[i] /\ d[i] <= Max(D)
    BY <1>1, <1>2, <2>2
  <2> QED BY <1>2, <2>1, <2>3, JitterInSpan DEF j
<1>9. j \in Ms
  <2>1. Max(D) \in Nat /\ Min(D) \in Nat /\ Max(D) < NoDelay /\ NoDelay \in Nat
    BY <1>7, MsRange, NoDelayNat
  <2>2. j \in Nat /\ j < NoDelay
    BY <2>1, <1>8
  <2> QED BY <2>2, MsRange
<1>10. /\ s.min = (IF d[1] = 0 THEN best ELSE Min({d[1], best}))
       /\ s.p50 = p50 /\ s.p90 = p90 /\ s.p95 = p95 /\ s.jitter = j
       /\ s = [min |-> s.min, p50 |-> p50, p90 |-> p90, p95 |-> p95, jitter |-> j]
  BY <1>3 DEF WithWarmup
<1> HIDE DEF s
<1>11. Min({d[1], best}) = IF d[1] <= best THEN d[1] ELSE best
  BY <1>6, MinOfTwo, MsRange, NoDelayNat
<1>12. s.min \in Nat /\ s.min < NoDelay /\ NoDelay \in Nat
       /\ (d[1] # 0 => s.min <= d[1])
  BY <1>6, <1>10, <1>11, MsRange, NoDelayNat
<1>13. s \in Stats
  BY <1>6, <1>9, <1>10, <1>12, StatsFields
<1>14. s.min = 0 <=> best \in {0, NoDelay}
  BY <1>6, <1>10, <1>11, <1>12, MsRange
<1>15. 0 \notin D => s.min <= s.p50
  <2> SUFFICES ASSUME 0 \notin D PROVE s.min <= s.p50
    OBVIOUS
  <2>1. d[1] # 0
    BY <1>6
  <2> QED BY <2>1, <1>4, <1>6, <1>10, <1>12, MsRange
<1>16. StatsOk(s, delays, best)
  BY <1>14, <1>15, <1>4, <1>6, <1>8, <1>10 DEF StatsOk, D
<1> QED BY <1>13, <1>16 DEF s

(* The metrics of any samples, after a probe that told a delay.            *)
LEMMA MetricsSound ==
    ASSUME NEW delays \in Seq(Ms), NEW best \in Ms
    PROVE  LET s == WithWarmup(Metrics(delays), best)
           IN  s \in Stats /\ StatsOk(s, delays, best)
<1> DEFINE d == Sorted(delays)
           s == WithWarmup(Metrics(delays), best)
<1>1. d \in Seq(Ms) /\ Len(d) = Len(delays) /\ Len(delays) \in Nat
  BY SortedOrders
<1>2. CASE Len(delays) = 0
  <2>1. Metrics(delays) = NoStats
    BY <1>1, <1>2 DEF Metrics
  <2>2. s = [min |-> best, p50 |-> 0, p90 |-> 0, p95 |-> 0, jitter |-> 0]
    BY <2>1 DEF WithWarmup, NoStats
  <2> HIDE DEF s
  <2>3. best \in Nat /\ best < NoDelay /\ NoDelay \in Nat /\ 0 \in Ms
    BY MsRange, NoDelayNat
  <2>4. s \in Stats
    BY <2>2, <2>3, StatsFields
  <2>5. StatsOk(s, delays, best)
    BY <2>2, <2>3, <1>2 DEF StatsOk
  <2> QED BY <2>4, <2>5 DEF s
<1>3. CASE Len(delays) = 1
  <2>1. Metrics(delays) = [min |-> d[1], p50 |-> 0, p90 |-> 0, p95 |-> 0, jitter |-> 0]
    BY <1>1, <1>3 DEF Metrics, NoStats
  <2>2. d[1] \in Ms
    BY <1>1, <1>3
  <2> DEFINE m == IF d[1] = 0 THEN best ELSE Min({d[1], best})
  <2>3. s = [min |-> m, p50 |-> 0, p90 |-> 0, p95 |-> 0, jitter |-> 0]
    BY <2>1 DEF WithWarmup
  <2>4. m \in Nat /\ m <= NoDelay /\ (m = 0 <=> best \in {0, NoDelay})
    <3>1. d[1] \in Nat /\ d[1] < NoDelay /\ best \in Nat /\ best < NoDelay
      BY <2>2, MsRange
    <3>2. Min({d[1], best}) = IF d[1] <= best THEN d[1] ELSE best
      BY <3>1, MinOfTwo
    <3>3. NoDelay \in Nat /\ NoDelay > 0
      BY NoDelayNat
    <3> HIDE DEF d
    <3> QED BY <3>1, <3>2, <3>3
  <2> HIDE DEF m, s
  <2>5. s \in Stats
    <3>1. d[1] \in Ms /\ 0 \in Ms
      BY <2>2, MsRange, NoDelayNat
    <3> QED BY <2>3, <2>4, <3>1, StatsFields
  <2>6. StatsOk(s, delays, best)
    BY <2>3, <2>4, <1>3 DEF StatsOk
  <2> QED BY <2>5, <2>6 DEF s
<1>4. CASE Len(delays) > 1
  BY <1>4, MetricsOfSome
<1> QED BY <1>1, <1>2, <1>3, <1>4

(* No metrics: without samples, or without a delay.                        *)
LEMMA ProbeSound ==
    ASSUME NEW best \in Best
    PROVE  LET s == [NoStats EXCEPT !.min = IF best = NoDelay THEN 0 ELSE best]
           IN  s \in Stats /\ StatsOk(s, <<>>, best)
<1> DEFINE m == IF best = NoDelay THEN 0 ELSE best
           s == [NoStats EXCEPT !.min = m]
<1>1. best \in Nat /\ best <= NoDelay /\ NoDelay \in Nat
  BY BestMs, NoDelayNat
<1>2. s = [min |-> m, p50 |-> 0, p90 |-> 0, p95 |-> 0, jitter |-> 0]
  BY DEF NoStats
<1>3. m \in Nat /\ m <= NoDelay /\ (m = 0 <=> best \in {0, NoDelay})
  BY <1>1
<1> HIDE DEF m, s
<1>4. s \in Stats
  BY <1>2, <1>3, MsRange, NoDelayNat, StatsFields
<1>5. StatsOk(s, <<>>, best)
  BY <1>2, <1>3 DEF StatsOk
<1> QED BY <1>4, <1>5 DEF s, m

-----------------------------------------------------------------------------
(* What a step makes of a test *)

(* The requests of a check are a few.                                      *)
LEMMA RequestsFew == \A j \in Job : Len(Requests[j]) \in Nat
<1> SUFFICES ASSUME NEW j \in Job PROVE Len(Requests[j]) \in Nat
  OBVIOUS
<1>1. j \in {"locate", "country", "gpt_web", "gpt_android", "gpt_ios", "netflix",
             "gemini", "disney"}
  BY DEF Job, Requests
<1> QED BY <1>1
    DEF Requests, CountryCheck, GPTWeb, GPTApp, GPTiOS, Netflix, Gemini, Disney

(* A test that has not begun.                                              *)
LEMMA FreshOk == TestOk(Fresh)
<1> DEFINE p == [at |-> "idle", launched |-> 0, running |-> 0, failed |-> 0,
                 best |-> NoDelay]
           r == [step |-> 0, ok |-> FALSE, loc |-> ""]
<1>1. Fresh = [pc |-> "idle", ctx |-> "live", probe |-> [u \in Target |-> p],
               turn |-> 0, delays |-> <<>>, lost |-> 0, stats |-> NoStats,
               job |-> [j \in Job |-> r], bandwidth |-> FALSE, country |-> ""]
  BY DEF Fresh
<1>2. p \in ProbeState /\ \A u : ProbeInv(p, Lives("live", u))
  BY ConstantsNat DEF ProbeState, ProbeInv, Best
<1>3. r \in JobState
  BY DEF JobState
<1>4. NoStats \in Stats
  BY NoDelayNat, MsRange, StatsFields DEF NoStats
<1>5. <<>> \in Seq(Ms) /\ Len(<<>>) = 0
  OBVIOUS
<1>6. p.at = "idle" /\ r.step = 0
  OBVIOUS
<1> HIDE DEF p, r
<1>7. Fresh \in TestState
  BY <1>1, <1>2, <1>3, <1>4, <1>5 DEF TestState
<1>8. \A u \in Target : ProbeInv(Fresh.probe[u], Lives(Fresh.ctx, u))
  BY <1>1, <1>2
<1>9. StageInv(Fresh)
  BY <1>1, <1>6 DEF StageInv, Target
<1>10. SamplesInv(Fresh)
  <2>1. /\ Fresh.pc = "idle" /\ Fresh.turn = 0 /\ Fresh.delays = <<>>
        /\ Fresh.lost = 0 /\ Fresh.stats = NoStats
    BY <1>1
  <2>2. Len(Fresh.delays) + Fresh.lost = 0
    BY <1>5, <2>1
  <2> QED BY <2>1, <2>2, ConstantsNat DEF SamplesInv
<1>11. JobInv(Fresh)
  <2>1. Fresh.pc = "idle" /\ \A j \in Job : Fresh.job[j].step = 0
    BY <1>1, <1>6
  <2>2. \A j \in Job : 0 <= Len(Requests[j]) + 1 /\ 0 \notin 1..Len(Requests[j])
    BY RequestsFew
  <2> QED BY <2>1, <2>2 DEF JobInv
<1> QED BY <1>7, <1>8, <1>9, <1>10, <1>11 DEF TestOk

(* A step replaces the record of one worker.                               *)
LEMMA BecomeKeeps ==
    ASSUME TestInv, NEW w \in Worker, NEW n, Become(w, n), TestOk(n)
    PROVE  TestInv'
BY DEF TestInv, Become

(* The test starts with the probes of the delay.                           *)
LEMMA BeginOk ==
    ASSUME NEW t, TestOk(t), t.pc = "idle"
    PROVE  TestOk([t EXCEPT !.pc = "delay", !.probe["delay"].at = "launch"])
<1> DEFINE p == [t.probe["delay"] EXCEPT !.at = "launch"]
           n == [t EXCEPT !.pc = "delay", !.probe["delay"].at = "launch"]
<1>1. t \in TestState /\ "delay" \in Target
  BY DEF TestOk, Target
<1>2. /\ n.pc = "delay" /\ n.ctx = t.ctx /\ n.delays = t.delays /\ n.lost = t.lost /\ n.turn = t.turn
      /\ n.stats = t.stats /\ n.job = t.job /\ n.bandwidth = t.bandwidth
      /\ n.country = t.country /\ n.probe = [t.probe EXCEPT !["delay"] = p]
  BY <1>1 DEF TestState
<1>3. t.probe["delay"] \in ProbeState /\ t.probe["delay"].at = "idle"
      /\ ProbeInv(t.probe["delay"], Lives(t.ctx, "delay"))
  BY <1>1 DEF TestOk, TestState, StageInv
<1>4. p \in ProbeState /\ ProbeInv(p, Lives(t.ctx, "delay"))
  BY <1>3 DEF ProbeState, ProbeInv
<1>5. n \in TestState
  BY <1>1, <1>4 DEF TestState
<1> HIDE DEF n, p
<1>6. \A u \in Target : ProbeInv(n.probe[u], Lives(n.ctx, u))
  BY <1>1, <1>2, <1>4 DEF TestOk, TestState
<1>7. \A u \in Url : n.probe[u] = t.probe[u]
  BY <1>1, <1>2, ProxyTestAssumption DEF TestState, Target
<1>8. StageInv(n)
  BY <1>2, <1>7 DEF TestOk, StageInv
<1>9. SamplesInv(n)
  BY <1>2 DEF TestOk, SamplesInv
<1>10. JobInv(n)
  BY <1>2 DEF TestOk, JobInv
<1> QED BY <1>5, <1>6, <1>8, <1>9, <1>10 DEF TestOk, n

(* A step of probes that are under way.                                    *)
LEMMA ProbingOk ==
    ASSUME NEW t, TestOk(t), NEW u \in Target, NEW p \in ProbeState,
           ProbeInv(p, Lives(t.ctx, u)), t.probe[u].at \notin {"idle", "done"}
    PROVE  TestOk([t EXCEPT !.probe[u] = p])
<1> DEFINE n == [t EXCEPT !.probe[u] = p]
<1>1. t \in TestState /\ "delay" \in Target
  BY DEF TestOk, Target
<1>2. /\ n.pc = t.pc /\ n.ctx = t.ctx /\ n.delays = t.delays /\ n.lost = t.lost /\ n.turn = t.turn
      /\ n.stats = t.stats /\ n.job = t.job /\ n.bandwidth = t.bandwidth
      /\ n.country = t.country /\ n.probe = [t.probe EXCEPT ![u] = p]
  BY <1>1 DEF TestState
<1>3. n \in TestState
  BY <1>1 DEF TestState
<1> HIDE DEF n
<1>4. \A v \in Target : n.probe[v] = IF v = u THEN p ELSE t.probe[v]
  BY <1>1, <1>2 DEF TestState
<1>5. \A v \in Target : ProbeInv(n.probe[v], Lives(n.ctx, v))
  BY <1>2, <1>4 DEF TestOk
<1>6. t.pc = IF u = "delay" THEN "delay" ELSE "tasks"
  <2>1. t.pc \in {"idle", "delay", "metrics", "decide", "tasks", "done"}
    BY <1>1 DEF TestState
  <2> QED BY <2>1 DEF TestOk, StageInv, Target
<1>7. StageInv(n)
  BY <1>1, <1>2, <1>4, <1>6 DEF TestOk, StageInv, Target
<1>8. SamplesInv(n)
  BY <1>1, <1>2, <1>4, <1>6 DEF TestOk, SamplesInv
<1>9. JobInv(n)
  BY <1>2 DEF TestOk, JobInv
<1> QED BY <1>3, <1>5, <1>7, <1>8, <1>9 DEF TestOk, n

(* A step of a check that is under way.                                    *)
LEMMA WorkingOk ==
    ASSUME NEW t, TestOk(t), NEW j \in Job, NEW r \in JobState,
           r.step <= Len(Requests[j]) + 1, t.job[j].step \in 1..Len(Requests[j])
    PROVE  TestOk([t EXCEPT !.job[j] = r])
<1> DEFINE n == [t EXCEPT !.job[j] = r]
<1>1. t \in TestState
  BY DEF TestOk
<1>2. /\ n.pc = t.pc /\ n.ctx = t.ctx /\ n.delays = t.delays /\ n.lost = t.lost /\ n.turn = t.turn
      /\ n.stats = t.stats /\ n.probe = t.probe /\ n.bandwidth = t.bandwidth
      /\ n.country = t.country /\ n.job = [t.job EXCEPT ![j] = r]
  BY <1>1 DEF TestState
<1>3. n \in TestState
  BY <1>1 DEF TestState
<1> HIDE DEF n
<1>4. \A k \in Job : n.job[k] = IF k = j THEN r ELSE t.job[k]
  BY <1>1, <1>2 DEF TestState
<1>5. t.pc = "tasks"
  BY DEF TestOk, JobInv
<1>6. JobInv(n)
  BY <1>2, <1>4, <1>5 DEF TestOk, JobInv
<1>7. (\A u \in Target : ProbeInv(n.probe[u], Lives(n.ctx, u))) /\ StageInv(n)
  BY <1>2 DEF TestOk, StageInv
<1>8. SamplesInv(n)
  BY <1>2 DEF TestOk, SamplesInv
<1> QED BY <1>3, <1>6, <1>7, <1>8 DEF TestOk, n

-----------------------------------------------------------------------------
(* The probes *)

(* What TestOk says of a probe that is under way.                          *)
LEMMA ProbeFacts ==
    ASSUME TestInv, NEW w \in Worker, NEW u \in Target
    PROVE  /\ Probe(w, u) \in ProbeState
           /\ ProbeInv(Probe(w, u), Lives(test[w].ctx, u))
           /\ TestOk(test[w])
BY DEF TestInv, TestOk, TestState, Probe

(* A step of a probe under way keeps the invariant when it keeps ProbeInv. *)
LEMMA ProbingKeeps ==
    ASSUME TestInv, NEW w \in Worker, NEW u \in Target, NEW p \in ProbeState,
           ProbeInv(p, Lives(test[w].ctx, u)),
           Probe(w, u).at \notin {"idle", "done"}, Probing(w, u, p)
    PROVE  TestInv'
<1>1. TestOk([test[w] EXCEPT !.probe[u] = p])
  BY ProbeFacts, ProbingOk DEF Probe
<1> QED BY <1>1, BecomeKeeps DEF Probing

(* One more probe runs.                                                    *)
LEMMA LaunchKeeps ==
    ASSUME TestInv, NEW w \in Worker, NEW u \in Target, Launch(w, u)
    PROVE  TestInv'
<1> DEFINE p == Probe(w, u)
           q == [p EXCEPT !.launched = @ + 1, !.running = @ + 1]
<1>1. p \in ProbeState /\ ProbeInv(p, Lives(test[w].ctx, u))
  BY ProbeFacts
<1>2. p.at = "launch" /\ p.launched < Tries /\ Probing(w, u, q)
  BY DEF Launch
<1> HIDE DEF p
<1>3. q.at = "launch" /\ q.launched = p.launched + 1 /\ q.running = p.running + 1
      /\ q.failed = p.failed /\ q.best = p.best
  BY <1>1, <1>2 DEF ProbeState
<1>4. q \in ProbeState
  <2>1. p.launched + 1 \in 0..Tries /\ p.running + 1 \in 0..Tries
    BY <1>1, <1>2, ConstantsNat DEF ProbeState, ProbeInv
  <2> QED BY <1>1, <2>1 DEF ProbeState
<1> HIDE DEF q
<1>5. ProbeInv(q, Lives(test[w].ctx, u))
  BY <1>1, <1>2, <1>3 DEF ProbeState, ProbeInv
<1> QED BY <1>2, <1>4, <1>5, ProbingKeeps DEF p

(* No more is launched.                                                    *)
LEMMA LaunchEndKeeps ==
    ASSUME TestInv, NEW w \in Worker, NEW u \in Target, LaunchEnd(w, u)
    PROVE  TestInv'
<1> DEFINE p == Probe(w, u)
           q == [p EXCEPT !.at = "wait"]
<1>1. p \in ProbeState /\ ProbeInv(p, Lives(test[w].ctx, u))
  BY ProbeFacts
<1>2. p.at = "launch" /\ Probing(w, u, q)
      /\ (Lives(test[w].ctx, u) => p.launched = Tries)
  BY DEF LaunchEnd, Live, Lives
<1> HIDE DEF p
<1>3. q.at = "wait" /\ q.launched = p.launched /\ q.running = p.running
      /\ q.failed = p.failed /\ q.best = p.best /\ q \in ProbeState
  BY <1>1, <1>2 DEF ProbeState
<1> HIDE DEF q
<1>4. ProbeInv(q, Lives(test[w].ctx, u))
  BY <1>1, <1>2, <1>3 DEF ProbeInv
<1> QED BY <1>2, <1>3, <1>4, ProbingKeeps DEF p

(* A probe tells a delay, or fails.                                        *)
LEMMA ProbeBackKeeps ==
    ASSUME TestInv, NEW w \in Worker, NEW u \in Target,
           ProbeFail(w, u) \/ \E ms \in Elapsed : ProbeOk(w, u, ms)
    PROVE  TestInv'
<1> DEFINE p == Probe(w, u)
<1>1. p \in ProbeState /\ ProbeInv(p, Lives(test[w].ctx, u))
  BY ProbeFacts
<1>2. p.running > 0
  BY DEF ProbeFail, ProbeOk
<1>3. p.at \notin {"idle", "done"} /\ p.at # "retry"
  BY <1>1, <1>2 DEF ProbeState, ProbeInv
<1>4. CASE ProbeFail(w, u)
  <2> DEFINE q == [p EXCEPT !.running = @ - 1, !.failed = @ + 1]
  <2>1. Probing(w, u, q)
    BY <1>4 DEF ProbeFail
  <2> HIDE DEF p
  <2>2. q.at = p.at /\ q.launched = p.launched /\ q.running = p.running - 1
        /\ q.failed = p.failed + 1 /\ q.best = p.best
    BY <1>1 DEF ProbeState
  <2>3. q \in ProbeState
    <3>1. p.running - 1 \in 0..Tries /\ p.failed + 1 \in 0..Tries + 1
      BY <1>1, <1>2, <1>3, ConstantsNat DEF ProbeState, ProbeInv
    <3> QED BY <1>1, <3>1 DEF ProbeState
  <2> HIDE DEF q
  <2>4. ProbeInv(q, Lives(test[w].ctx, u))
    BY <1>1, <1>2, <1>3, <2>2 DEF ProbeState, ProbeInv
  <2> QED BY <1>3, <2>1, <2>3, <2>4, ProbingKeeps DEF p
<1>5. ASSUME NEW ms \in Elapsed, ProbeOk(w, u, ms) PROVE TestInv'
  <2> DEFINE b == Min({p.best, Delay(ms)})
             q == [p EXCEPT !.running = @ - 1, !.best = Min({@, Delay(ms)})]
  <2>1. Probing(w, u, q)
    BY <1>5 DEF ProbeOk
  <2> HIDE DEF p
  <2>2. p.best \in Best
    BY <1>1 DEF ProbeState
  <2>3. b \in Best /\ b # NoDelay
    <3>1. p.best \in Nat /\ p.best <= NoDelay
      BY <2>2, BestMs
    <3>2. Delay(ms) \in Best /\ Delay(ms) \in Nat /\ Delay(ms) < NoDelay
      BY DelayMs, MsRange
    <3>3. b = IF p.best <= Delay(ms) THEN p.best ELSE Delay(ms)
      BY <3>1, <3>2, MinOfTwo
    <3> QED BY <2>2, <3>1, <3>2, <3>3, NoDelayNat
  <2> HIDE DEF b
  <2>4. q.at = p.at /\ q.launched = p.launched /\ q.running = p.running - 1
        /\ q.failed = p.failed /\ q.best = b
    BY <1>1 DEF ProbeState, b
  <2>5. q \in ProbeState
    <3>1. p.running - 1 \in 0..Tries
      BY <1>1, <1>2, ConstantsNat DEF ProbeState
    <3> QED BY <1>1, <2>3, <3>1 DEF ProbeState, b
  <2> HIDE DEF q
  <2>6. ProbeInv(q, Lives(test[w].ctx, u))
    BY <1>1, <1>2, <1>3, <2>3, <2>4 DEF ProbeState, ProbeInv
  <2> QED BY <1>3, <2>1, <2>5, <2>6, ProbingKeeps DEF p
<1> QED BY <1>4, <1>5

(* All are back; without a delay one more is made.                         *)
LEMMA ProbesEndKeeps ==
    ASSUME TestInv, NEW w \in Worker, NEW u \in Target, ProbesEnd(w, u)
    PROVE  TestInv'
<1> DEFINE p == Probe(w, u)
           to == IF p.best = NoDelay THEN "retry" ELSE "done"
           q == [p EXCEPT !.at = to]
<1>1. p \in ProbeState /\ ProbeInv(p, Lives(test[w].ctx, u))
  BY ProbeFacts
<1>2. p.at = "wait" /\ p.running = 0 /\ Probing(w, u, q)
  BY DEF ProbesEnd, AllBack
<1> HIDE DEF p
<1>3. q.at = to /\ q.launched = p.launched /\ q.running = p.running
      /\ q.failed = p.failed /\ q.best = p.best /\ q \in ProbeState
  BY <1>1, <1>2 DEF ProbeState
<1> HIDE DEF q
<1>4. ProbeInv(q, Lives(test[w].ctx, u))
  BY <1>1, <1>2, <1>3 DEF ProbeState, ProbeInv
<1> QED BY <1>2, <1>3, <1>4, ProbingKeeps DEF p

(* The one more tells a delay, or fails.                                   *)
LEMMA RetryKeeps ==
    ASSUME TestInv, NEW w \in Worker, NEW u \in Target,
           RetryFail(w, u) \/ \E ms \in Elapsed : RetryOk(w, u, ms)
    PROVE  TestInv'
<1> DEFINE p == Probe(w, u)
<1>1. p \in ProbeState /\ ProbeInv(p, Lives(test[w].ctx, u))
  BY ProbeFacts
<1>2. p.at = "retry"
  BY DEF RetryFail, RetryOk
<1>3. CASE RetryFail(w, u)
  <2> DEFINE q == [p EXCEPT !.at = "done", !.failed = @ + 1]
  <2>1. Probing(w, u, q)
    BY <1>3 DEF RetryFail
  <2> HIDE DEF p
  <2>2. q.at = "done" /\ q.launched = p.launched /\ q.running = p.running
        /\ q.failed = p.failed + 1 /\ q.best = p.best
    BY <1>1 DEF ProbeState
  <2>3. q \in ProbeState
    <3>1. p.failed + 1 \in 0..Tries + 1
      BY <1>1, <1>2, ConstantsNat DEF ProbeState, ProbeInv
    <3> QED BY <1>1, <3>1 DEF ProbeState
  <2> HIDE DEF q
  <2>4. ProbeInv(q, Lives(test[w].ctx, u))
    BY <1>1, <1>2, <2>2 DEF ProbeState, ProbeInv
  <2> QED BY <1>2, <2>1, <2>3, <2>4, ProbingKeeps DEF p
<1>4. ASSUME NEW ms \in Elapsed, RetryOk(w, u, ms) PROVE TestInv'
  <2> DEFINE q == [p EXCEPT !.at = "done", !.best = Delay(ms)]
  <2>1. Probing(w, u, q)
    BY <1>4 DEF RetryOk
  <2> HIDE DEF p
  <2>2. Delay(ms) \in Best /\ Delay(ms) # NoDelay
    BY DelayMs, BestMs
  <2>3. q.at = "done" /\ q.launched = p.launched /\ q.running = p.running
        /\ q.failed = p.failed /\ q.best = Delay(ms) /\ q \in ProbeState
    BY <1>1, <2>2 DEF ProbeState
  <2> HIDE DEF q
  <2>4. ProbeInv(q, Lives(test[w].ctx, u))
    BY <1>1, <1>2, <2>2, <2>3 DEF ProbeState, ProbeInv
  <2> QED BY <1>2, <2>1, <2>3, <2>4, ProbingKeeps DEF p
<1> QED BY <1>3, <1>4

(* Every step of a probe.                                                  *)
LEMMA ProbeStepKeeps ==
    ASSUME TestInv, NEW w \in Worker, NEW u \in Target, ProbeStep(w, u)
    PROVE  TestInv'
BY LaunchKeeps, LaunchEndKeeps, ProbeBackKeeps, ProbesEndKeeps, RetryKeeps
   DEF ProbeStep

-----------------------------------------------------------------------------
(* The samples *)

(* What TestOk says of a test.                                             *)
LEMMA TestFacts ==
    ASSUME TestInv, NEW w \in Worker
    PROVE  TestOk(test[w]) /\ test[w] \in TestState
           /\ "delay" \in Target /\ Probe(w, "delay") \in ProbeState
           /\ Probe(w, "delay").best \in Best
<1>1. TestOk(test[w]) /\ test[w] \in TestState /\ "delay" \in Target
  BY DEF TestInv, TestOk, Target
<1>2. Probe(w, "delay") \in ProbeState
  BY <1>1 DEF TestState, Probe
<1> QED BY <1>1, <1>2 DEF ProbeState

(* testURL goes on to the samples, or ends without metrics.                *)
LEMMA DelayEndKeeps ==
    ASSUME TestInv, NEW w \in Worker, DelayEnd(w) PROVE TestInv'
<1> DEFINE t    == test[w]
           best == t.probe["delay"].best
           to   == IF best # NoDelay /\ Samples > 0 THEN "metrics" ELSE "decide"
           m    == IF best = NoDelay THEN 0 ELSE best
           n    == [t EXCEPT !.pc = to, !.stats.min = m]
           s    == [NoStats EXCEPT !.min = m]
<1>1. TestOk(t) /\ t \in TestState /\ best \in Best
  BY TestFacts DEF Probe
<1>2. t.pc = "delay" /\ t.probe["delay"].at = "done" /\ Become(w, n)
  BY DEF DelayEnd, Probe
<1>3. t.turn = 0 /\ t.delays = <<>> /\ t.lost = 0 /\ t.stats = NoStats
  BY <1>1, <1>2 DEF TestOk, SamplesInv
<1>4. s \in Stats /\ StatsOk(s, <<>>, best) /\ s.min = m
  <2>1. s \in Stats /\ StatsOk(s, <<>>, best)
    BY <1>1, ProbeSound
  <2> QED BY <2>1 DEF NoStats
<1> HIDE DEF t
<1>5. n.stats = s /\ n.pc = to /\ n \in TestState
      /\ n.ctx = t.ctx /\ n.delays = t.delays /\ n.lost = t.lost /\ n.turn = t.turn
      /\ n.job = t.job
      /\ n.bandwidth = t.bandwidth /\ n.country = t.country /\ n.probe = t.probe
  <2> HIDE DEF m, to, best
  <2>1. [t.stats EXCEPT !.min = m] = s
    BY <1>3
  <2> HIDE DEF s
  <2>2. n = [t EXCEPT !.pc = to, !.stats = s]
    BY <1>1, <2>1 DEF TestState
  <2>3. to \in {"metrics", "decide"}
    BY DEF to
  <2> QED BY <1>1, <1>4, <2>2, <2>3 DEF TestState
<1> HIDE DEF n, s
<1>6. (\A u \in Target : ProbeInv(n.probe[u], Lives(n.ctx, u))) /\ JobInv(n)
  BY <1>1, <1>2, <1>5 DEF TestOk, JobInv
<1>7. StageInv(n)
  BY <1>1, <1>2, <1>5 DEF TestOk, StageInv
<1>8. SamplesInv(n)
  <2>1. Len(n.delays) + n.lost = 0 /\ n.turn = 0
    BY <1>3, <1>5
  <2>2. (best # NoDelay /\ Samples > 0) \/ Samples = 0 \/ m = 0
    BY ConstantsNat
  <2>3. CASE best # NoDelay /\ Samples > 0
    BY <2>1, <2>3, <1>5, ConstantsNat DEF SamplesInv
  <2>4. CASE ~(best # NoDelay /\ Samples > 0)
    <3>1. n.pc = "decide" /\ n.stats.min = m /\ n.delays = <<>> /\ n.probe["delay"].best = best
      BY <2>4, <1>3, <1>4, <1>5
    <3>2. StatsOk(n.stats, n.delays, n.probe["delay"].best)
      BY <3>1, <1>4, <1>5
    <3> HIDE DEF m, best, to
    <3>3. Samples = 0 \/ m = 0
      BY <2>2, <2>4
    <3> QED BY <2>1, <3>1, <3>2, <3>3, ConstantsNat DEF SamplesInv
  <2> QED BY <2>3, <2>4
<1> QED BY <1>2, <1>5, <1>6, <1>7, <1>8, BecomeKeeps DEF TestOk

(* A sample is taken or lost, or all that are left are.                    *)
LEMMA SampleKeeps ==
    ASSUME TestInv, NEW w \in Worker, Sampling(w),
           NEW i \in Nat, NEW d \in Seq(Ms), NEW l \in Nat,
           Len(d) + l = i, i <= Samples,
           Become(w, [test[w] EXCEPT !.turn = i, !.delays = d, !.lost = l])
    PROVE  TestInv'
<1> DEFINE t == test[w]
           n == [t EXCEPT !.turn = i, !.delays = d, !.lost = l]
<1>1. TestOk(t) /\ t \in TestState /\ t.pc = "metrics"
  BY TestFacts DEF Sampling
<1>2. /\ n.pc = t.pc /\ n.ctx = t.ctx /\ n.turn = i /\ n.delays = d /\ n.lost = l
      /\ n.stats = t.stats /\ n.probe = t.probe /\ n.bandwidth = t.bandwidth
      /\ n.country = t.country /\ n.job = t.job /\ n \in TestState
  BY <1>1 DEF TestState
<1>3. Become(w, n)
  OBVIOUS
<1> HIDE DEF n, t
<1>4. (\A u \in Target : ProbeInv(n.probe[u], Lives(n.ctx, u)))
      /\ StageInv(n) /\ JobInv(n)
  BY <1>1, <1>2 DEF TestOk, StageInv, JobInv
<1>5. SamplesInv(n)
  BY <1>1, <1>2 DEF TestOk, SamplesInv
<1> QED BY <1>2, <1>3, <1>4, <1>5, BecomeKeeps DEF TestOk

(* Each of the three ways a sample goes.                                   *)
LEMMA SamplesKeep ==
    ASSUME TestInv, NEW w \in Worker,
           \/ SamplesCut(w) \/ SampleFail(w)
           \/ \E ms \in Elapsed : SampleOk(w, ms)
    PROVE  TestInv'
<1> DEFINE t == test[w]
<1>1. TestOk(t) /\ t \in TestState /\ t.turn \in Nat /\ t.delays \in Seq(Ms)
      /\ t.lost \in Nat
  BY TestFacts DEF TestState
<1>2. /\ Len(t.delays) + t.lost = t.turn /\ t.turn < Samples
      /\ Len(t.delays) \in Nat /\ Sampling(w)
  <2>1. Sampling(w)
    BY DEF SamplesCut, SampleFail, SampleOk
  <2>2. Len(t.delays) \in Nat
    BY <1>1
  <2> QED BY <1>1, <2>1, <2>2 DEF Sampling, TestOk, SamplesInv
<1>3. CASE SamplesCut(w)
  <2> DEFINE l == t.lost + (Samples - t.turn)
  <2>1. Become(w, [t EXCEPT !.lost = l, !.turn = Samples])
    BY <1>3 DEF SamplesCut
  <2> HIDE DEF t
  <2>2. l \in Nat /\ Len(t.delays) + l = Samples
    BY <1>1, <1>2, ConstantsNat
  <2> HIDE DEF l
  <2>3. [t EXCEPT !.lost = l, !.turn = Samples]
          = [t EXCEPT !.turn = Samples, !.delays = t.delays, !.lost = l]
    BY <1>1 DEF TestState
  <2>4. Become(w, [test[w] EXCEPT !.turn = Samples, !.delays = t.delays, !.lost = l])
    BY <2>1, <2>3 DEF t
  <2>5. Samples \in Nat /\ Samples <= Samples /\ Len(t.delays) + l = Samples
    BY <2>2, ConstantsNat
  <2> QED BY <1>1, <1>2, <2>2, <2>4, <2>5, SampleKeeps
<1>4. CASE SampleFail(w)
  <2> DEFINE l == t.lost + 1
             i == t.turn + 1
  <2>1. Become(w, [t EXCEPT !.turn = i, !.lost = l])
    BY <1>4 DEF SampleFail
  <2> HIDE DEF t
  <2>2. l \in Nat /\ i \in Nat /\ Len(t.delays) + l = i /\ i <= Samples
    BY <1>1, <1>2, ConstantsNat
  <2> HIDE DEF l, i
  <2>3. [t EXCEPT !.turn = i, !.lost = l]
          = [t EXCEPT !.turn = i, !.delays = t.delays, !.lost = l]
    BY <1>1 DEF TestState
  <2> QED BY <1>1, <1>2, <2>1, <2>2, <2>3, SampleKeeps DEF t
<1>5. ASSUME NEW ms \in Elapsed, SampleOk(w, ms) PROVE TestInv'
  <2> DEFINE d == Append(t.delays, Delay(ms))
             i == t.turn + 1
  <2>1. Become(w, [t EXCEPT !.turn = i, !.delays = d])
    BY <1>5 DEF SampleOk
  <2> HIDE DEF t
  <2>2. d \in Seq(Ms) /\ Len(d) = Len(t.delays) + 1
    BY <1>1, DelayMs
  <2>3. i \in Nat /\ Len(d) + t.lost = i /\ i <= Samples
    BY <1>1, <1>2, <2>2, ConstantsNat
  <2> HIDE DEF d, i
  <2>4. [t EXCEPT !.turn = i, !.delays = d]
          = [t EXCEPT !.turn = i, !.delays = d, !.lost = t.lost]
    BY <1>1 DEF TestState
  <2> QED BY <1>1, <1>2, <2>1, <2>2, <2>3, <2>4, SampleKeeps DEF t
<1> QED BY <1>3, <1>4, <1>5

(* The metrics of the samples.                                             *)
LEMMA SamplesEndKeeps ==
    ASSUME TestInv, NEW w \in Worker, SamplesEnd(w) PROVE TestInv'
<1> DEFINE t    == test[w]
           best == t.probe["delay"].best
           s    == WithWarmup(Metrics(t.delays), best)
           n    == [t EXCEPT !.pc = "decide", !.stats = s]
<1>1. TestOk(t) /\ t \in TestState /\ best \in Best
  BY TestFacts DEF Probe
<1>2. t.pc = "metrics" /\ t.turn = Samples /\ Become(w, n)
  BY DEF SamplesEnd, Probe
<1>3. t.delays \in Seq(Ms) /\ best \in Ms
  BY <1>1, <1>2, BestMs DEF TestOk, SamplesInv, TestState
<1>4. s \in Stats /\ StatsOk(s, t.delays, best)
  BY <1>3, MetricsSound
<1> HIDE DEF t, s
<1>5. /\ n.pc = "decide" /\ n.ctx = t.ctx /\ n.delays = t.delays /\ n.lost = t.lost /\ n.turn = t.turn
      /\ n.stats = s /\ n.probe = t.probe /\ n.bandwidth = t.bandwidth
      /\ n.country = t.country /\ n.job = t.job /\ n \in TestState
  BY <1>1, <1>4 DEF TestState
<1> HIDE DEF n
<1>6. (\A u \in Target : ProbeInv(n.probe[u], Lives(n.ctx, u)))
      /\ StageInv(n) /\ JobInv(n)
  BY <1>1, <1>2, <1>5 DEF TestOk, StageInv, JobInv
<1>7. SamplesInv(n)
  BY <1>1, <1>2, <1>4, <1>5 DEF TestOk, SamplesInv
<1> QED BY <1>2, <1>5, <1>6, <1>7, BecomeKeeps DEF TestOk

-----------------------------------------------------------------------------
(* The tasks *)

(* A node without a delay is dead.                                         *)
LEMMA DeadKeeps ==
    ASSUME TestInv, NEW w \in Worker, Dead(w) PROVE TestInv'
<1> DEFINE t == test[w]
           n == [t EXCEPT !.pc = "done"]
<1>1. TestOk(t) /\ t \in TestState
  BY TestFacts
<1>2. t.pc = "decide" /\ t.stats.min = 0 /\ Become(w, n)
  BY DEF Dead
<1> HIDE DEF t
<1>3. /\ n.pc = "done" /\ n.ctx = t.ctx /\ n.delays = t.delays /\ n.lost = t.lost /\ n.turn = t.turn
      /\ n.stats = t.stats /\ n.probe = t.probe /\ n.bandwidth = t.bandwidth
      /\ n.country = t.country /\ n.job = t.job /\ n \in TestState
  BY <1>1 DEF TestState
<1> HIDE DEF n
<1>4. (\A u \in Target : ProbeInv(n.probe[u], Lives(n.ctx, u))) /\ StageInv(n)
  BY <1>1, <1>2, <1>3 DEF TestOk, StageInv
<1>5. SamplesInv(n)
  BY <1>1, <1>2, <1>3 DEF TestOk, SamplesInv
<1>6. JobInv(n)
  <2>1. ~(n.stats.min > 0)
    BY <1>2, <1>3
  <2> QED BY <1>1, <1>2, <1>3, <2>1 DEF TestOk, JobInv
<1> QED BY <1>2, <1>3, <1>4, <1>5, <1>6, BecomeKeeps DEF TestOk

(* The tasks start: the test URLs are probed, the checks ask.              *)
LEMMA StartTasksKeeps ==
    ASSUME TestInv, NEW w \in Worker, StartTasks(w) PROVE TestInv'
<1> DEFINE t == test[w]
           p == [u \in Target |-> IF u = "delay" THEN t.probe[u]
                                  ELSE [t.probe[u] EXCEPT !.at = "launch"]]
           j == [k \in Job |-> [t.job[k] EXCEPT !.step = 1]]
           n == [t EXCEPT !.pc = "tasks", !.bandwidth = TRUE, !.probe = p, !.job = j]
<1>1. TestOk(t) /\ t \in TestState
  BY TestFacts
<1>2. t.pc = "decide" /\ t.stats.min > 0 /\ Become(w, n)
  BY DEF StartTasks
<1> HIDE DEF t
<1>3. \A u \in Target : /\ p[u] \in ProbeState /\ ProbeInv(p[u], Lives(t.ctx, u))
                        /\ (u = "delay" => p[u] = t.probe[u])
  <2> SUFFICES ASSUME NEW u \in Target
               PROVE  /\ p[u] \in ProbeState /\ ProbeInv(p[u], Lives(t.ctx, u))
                      /\ (u = "delay" => p[u] = t.probe[u])
    OBVIOUS
  <2> DEFINE o == t.probe[u]
             q == [o EXCEPT !.at = "launch"]
  <2>1. o \in ProbeState /\ ProbeInv(o, Lives(t.ctx, u))
        /\ (u # "delay" => o.at = "idle")
    BY <1>1, <1>2 DEF TestOk, TestState, StageInv, Target
  <2>2. p[u] = IF u = "delay" THEN o ELSE q
    OBVIOUS
  <2> HIDE DEF o, p
  <2>3. q \in ProbeState /\ (u # "delay" => ProbeInv(q, Lives(t.ctx, u)))
    BY <2>1 DEF ProbeState, ProbeInv
  <2> QED BY <2>1, <2>2, <2>3 DEF o
<1>4. p \in [Target -> ProbeState]
  <2>1. p = [u \in Target |-> p[u]]
    OBVIOUS
  <2> HIDE DEF p
  <2> QED BY <1>3, <2>1
<1>5. j \in [Job -> JobState] /\ \A k \in Job : j[k].step = 1
  <2>1. \A k \in Job : t.job[k] \in JobState
    BY <1>1 DEF TestState
  <2> QED BY <2>1 DEF JobState
<1> HIDE DEF p, j
<1>6. /\ n.pc = "tasks" /\ n.ctx = t.ctx /\ n.delays = t.delays /\ n.lost = t.lost /\ n.turn = t.turn
      /\ n.stats = t.stats /\ n.probe = p /\ n.bandwidth = TRUE
      /\ n.country = t.country /\ n.job = j /\ n \in TestState
  BY <1>1, <1>4, <1>5 DEF TestState
<1> HIDE DEF n
<1>7. \A u \in Target : ProbeInv(n.probe[u], Lives(n.ctx, u))
  BY <1>3, <1>6
<1>8. "delay" \in Target /\ n.probe["delay"] = t.probe["delay"]
  BY <1>3, <1>6 DEF Target
<1>9. StageInv(n)
  BY <1>1, <1>2, <1>6, <1>8 DEF TestOk, StageInv
<1>10. SamplesInv(n)
  BY <1>1, <1>2, <1>6, <1>8 DEF TestOk, SamplesInv
<1>11. JobInv(n)
  <2>1. \A k \in Job : 1 <= Len(Requests[k]) + 1
    BY RequestsFew
  <2> QED BY <1>5, <1>6, <2>1 DEF JobInv
<1> QED BY <1>2, <1>6, <1>7, <1>9, <1>10, <1>11, BecomeKeeps DEF TestOk

(* The bandwidth test ends.                                                *)
LEMMA BandwidthEndKeeps ==
    ASSUME TestInv, NEW w \in Worker, BandwidthEnd(w) PROVE TestInv'
<1> DEFINE t == test[w]
           n == [t EXCEPT !.bandwidth = FALSE]
<1>1. TestOk(t) /\ t \in TestState /\ Become(w, n)
  BY TestFacts DEF BandwidthEnd
<1> HIDE DEF t
<1>2. /\ n.pc = t.pc /\ n.ctx = t.ctx /\ n.delays = t.delays /\ n.lost = t.lost /\ n.turn = t.turn
      /\ n.stats = t.stats /\ n.probe = t.probe /\ n.bandwidth = FALSE
      /\ n.country = t.country /\ n.job = t.job /\ n \in TestState
  BY <1>1 DEF TestState
<1> HIDE DEF n
<1>3. (\A u \in Target : ProbeInv(n.probe[u], Lives(n.ctx, u)))
      /\ StageInv(n) /\ SamplesInv(n) /\ JobInv(n)
  BY <1>1, <1>2 DEF TestOk, StageInv, SamplesInv, JobInv
<1> QED BY <1>1, <1>2, <1>3, BecomeKeeps DEF TestOk

(* A step of a check keeps the invariant when it goes on or ends.          *)
LEMMA WorkingKeeps ==
    ASSUME TestInv, NEW w \in Worker, NEW j \in Job, NEW r \in JobState,
           r.step <= Len(Requests[j]) + 1, Asking(w, j), Working(w, j, r)
    PROVE  TestInv'
<1>1. TestOk([test[w] EXCEPT !.job[j] = r])
  BY TestFacts, WorkingOk DEF Asking, Task
<1> QED BY <1>1, BecomeKeeps DEF Working

(* After a trace a check is over, or makes its second request.             *)
LEMMA StepAfter ==
    ASSUME NEW l \in Nat, NEW s \in 1..l, NEW to, to = l + 1 \/ (to = 2 /\ s # l)
    PROVE  to \in Nat /\ to <= l + 1
OBVIOUS

(* No answer, a trace, or another answer.                                  *)
LEMMA JobStepKeeps ==
    ASSUME TestInv, NEW w \in Worker, NEW j \in Job, JobStep(w, j) PROVE TestInv'
<1> DEFINE k == Task(w, j)
           e == Len(Requests[j]) + 1
<1>1. k \in JobState /\ e \in Nat /\ Len(Requests[j]) \in Nat
  <2>1. k \in JobState
    BY TestFacts DEF TestState, Task
  <2>2. Len(Requests[j]) \in Nat
    BY RequestsFew
  <2> QED BY <2>1, <2>2
<1>2. JobOver(j) = e
  BY DEF JobOver
<1>3. CASE NoAnswer(w, j)
  <2> DEFINE r == [k EXCEPT !.step = e]
  <2>1. Working(w, j, r) /\ Asking(w, j)
    BY <1>2, <1>3 DEF NoAnswer
  <2> HIDE DEF k, e
  <2>2. r \in JobState /\ r.step = e
    BY <1>1 DEF JobState
  <2> HIDE DEF r
  <2> QED BY <1>1, <2>1, <2>2, WorkingKeeps DEF e
<1>4. ASSUME NEW loc \in Country \cup {""}, Trace(w, j, loc) PROVE TestInv'
  <2> DEFINE to == IF Last(w, j) THEN e ELSE 2
             ok == Last(w, j) /\ (j # "gpt_web" \/ loc \in GPTCountry)
             r  == [step |-> to, loc |-> loc, ok |-> ok]
  <2>1. Working(w, j, r) /\ Asking(w, j)
    BY <1>2, <1>4 DEF Trace, Answered
  <2>2. to \in Nat /\ to <= e
    <3>1. k.step \in 1..Len(Requests[j])
      BY <2>1 DEF Asking
    <3>2. to = Len(Requests[j]) + 1 \/ (to = 2 /\ k.step # Len(Requests[j]))
      BY DEF Last
    <3>3. Len(Requests[j]) \in Nat
      BY <1>1
    <3> HIDE DEF to, k
    <3> QED BY <3>1, <3>2, <3>3, StepAfter
  <2>3. ok \in BOOLEAN
    OBVIOUS
  <2> HIDE DEF to, ok
  <2>4. r \in JobState /\ r.step = to
    BY <2>2, <2>3 DEF JobState
  <2> HIDE DEF r
  <2> QED BY <1>1, <2>1, <2>2, <2>4, WorkingKeeps
<1>5. ASSUME NEW good \in BOOLEAN, Reply(w, j, good) PROVE TestInv'
  <2> DEFINE to == IF good /\ ~Last(w, j) THEN k.step + 1 ELSE e
             ok == good /\ Last(w, j)
             r  == [k EXCEPT !.step = to, !.ok = ok]
  <2>1. Working(w, j, r) /\ Asking(w, j)
    BY <1>2, <1>5 DEF Reply, Answered
  <2>2. to \in Nat /\ to <= e
    BY <1>1, <2>1 DEF Asking, Last
  <2>3. ok \in BOOLEAN
    OBVIOUS
  <2> HIDE DEF to, ok, k
  <2>4. r \in JobState /\ r.step = to
    BY <1>1, <2>2, <2>3 DEF JobState
  <2> HIDE DEF r
  <2> QED BY <1>1, <2>1, <2>2, <2>4, WorkingKeeps
<1> QED BY <1>3, <1>4, <1>5 DEF JobStep

(* All tasks are over: the country is told.                                *)
LEMMA TasksEndKeeps ==
    ASSUME TestInv, NEW w \in Worker, TasksEnd(w) PROVE TestInv'
<1> DEFINE t == test[w]
           c == Located(w)
           n == [t EXCEPT !.pc = "done", !.country = c]
<1>1. TestOk(t) /\ t \in TestState
  BY TestFacts
<1>2. t.pc = "tasks" /\ AllOver(w) /\ Become(w, n)
  BY DEF TasksEnd, Finish
<1>3. /\ ~t.bandwidth
      /\ \A u \in Url : t.probe[u].at = "done"
      /\ \A j \in Job : t.job[j].step = Len(Requests[j]) + 1
  BY <1>2 DEF AllOver, Probe, Task, JobOver
<1>4. c \in Country \cup {""}
      /\ (c = "" => \A j \in Job \cap {"locate", "gpt_web"} : t.job[j].loc = "")
  <2>1. "locate" \in Job /\ \A j \in Job : t.job[j].loc \in Country \cup {""}
    BY <1>1 DEF TestState, JobState, Job
  <2>2. CASE t.job["locate"].loc = "" /\ "gpt_web" \in Job
    BY <2>1, <2>2 DEF Located, Task
  <2>3. CASE ~(t.job["locate"].loc = "" /\ "gpt_web" \in Job)
    BY <2>1, <2>3 DEF Located, Task
  <2> QED BY <2>2, <2>3
<1> HIDE DEF t, c
<1>5. /\ n.pc = "done" /\ n.ctx = t.ctx /\ n.delays = t.delays /\ n.lost = t.lost /\ n.turn = t.turn
      /\ n.stats = t.stats /\ n.probe = t.probe /\ n.bandwidth = t.bandwidth
      /\ n.country = c /\ n.job = t.job /\ n \in TestState
  BY <1>1, <1>4 DEF TestState
<1> HIDE DEF n
<1>6. (\A u \in Target : ProbeInv(n.probe[u], Lives(n.ctx, u))) /\ StageInv(n)
  BY <1>1, <1>2, <1>3, <1>5 DEF TestOk, StageInv
<1>7. SamplesInv(n)
  BY <1>1, <1>2, <1>5 DEF TestOk, SamplesInv
<1>8. JobInv(n)
  <2>1. \A j \in Job : n.job[j].step \notin 1..Len(Requests[j])
    BY <1>3, <1>5, RequestsFew
  <2> QED BY <1>1, <1>4, <1>5, <2>1 DEF TestOk, JobInv
<1> QED BY <1>2, <1>5, <1>6, <1>7, <1>8, BecomeKeeps DEF TestOk

(* A timeout or a cancel.                                                  *)
LEMMA TimeOutKeeps ==
    ASSUME TestInv, NEW w \in Worker, NEW to \in {"probeOver", "over"}, TimeOut(w, to)
    PROVE  TestInv'
<1> DEFINE t == test[w]
           n == [t EXCEPT !.ctx = to]
<1>1. TestOk(t) /\ t \in TestState
  BY TestFacts
<1>2. t.ctx \notin {"over", to} /\ Become(w, n)
  BY DEF TimeOut
<1> HIDE DEF t
<1>3. /\ n.pc = t.pc /\ n.ctx = to /\ n.delays = t.delays /\ n.lost = t.lost /\ n.turn = t.turn
      /\ n.stats = t.stats /\ n.probe = t.probe /\ n.bandwidth = t.bandwidth
      /\ n.country = t.country /\ n.job = t.job /\ n \in TestState
  BY <1>1 DEF TestState
<1> HIDE DEF n
<1>4. ASSUME NEW u \in Target PROVE ProbeInv(n.probe[u], Lives(n.ctx, u))
  <2>1. Lives(to, u) => Lives(t.ctx, u)
    BY <1>1, <1>2 DEF Lives, TestState
  <2> QED BY <1>1, <1>3, <2>1 DEF TestOk, ProbeInv
<1>5. StageInv(n) /\ SamplesInv(n) /\ JobInv(n)
  BY <1>1, <1>3 DEF TestOk, StageInv, SamplesInv, JobInv
<1> QED BY <1>2, <1>3, <1>4, <1>5, BecomeKeeps DEF TestOk

-----------------------------------------------------------------------------
(* Every step of a test *)

(* Begin: the worker's test starts.                                        *)
LEMMA BeginKeeps ==
    ASSUME TestInv, NEW w \in Worker, Begin(w) PROVE TestInv'
<1>1. TestOk(test[w]) /\ test[w].pc = "idle"
  BY TestFacts DEF Begin
<1>2. TestOk([test[w] EXCEPT !.pc = "delay", !.probe["delay"].at = "launch"])
  BY <1>1, BeginOk
<1> QED BY <1>2, BecomeKeeps DEF Begin

(* TestStep: one step of it.                                               *)
LEMMA TestStepKeeps ==
    ASSUME TestInv, NEW w \in Worker, TestStep(w) PROVE TestInv'
<1>1. SampleStep(w) => TestInv'
  BY SamplesKeep, SamplesEndKeeps DEF SampleStep
<1> QED
  BY <1>1, ProbeStepKeeps, DelayEndKeeps, DeadKeeps, StartTasksKeeps,
     BandwidthEndKeeps, JobStepKeeps, TasksEndKeeps, TimeOutKeeps DEF TestStep

(* No test has begun.                                                      *)
LEMMA InitTestInv == TestInit => TestInv
BY FreshOk DEF TestInit, TestInv

(* The tests alone, as module ProxyTest has them.                          *)
THEOREM TestInvariance == TestSpec => []TestInv
<1>1. TestInv /\ [TestNext]_test => TestInv'
  <2> SUFFICES ASSUME TestInv, [TestNext]_test PROVE TestInv'
    OBVIOUS
  <2>1. CASE UNCHANGED test
    BY <2>1 DEF TestInv
  <2>2. ASSUME NEW w \in Worker, Begin(w) \/ TestStep(w) PROVE TestInv'
    BY <2>2, BeginKeeps, TestStepKeeps
  <2> QED BY <2>1, <2>2 DEF TestNext, TestIdle
<1> QED BY <1>1, InitTestInv, PTL DEF TestSpec

(* Whatever the answers and timeouts, the samples refine what the probes   *)
(* found and never overrule it.                                            *)
THEOREM LatencyAlwaysSound == TestSpec => []LatencySound
<1>1. TestInv => LatencySound
  <2> SUFFICES ASSUME TestInv, NEW w \in Worker, test[w].pc \in {"tasks", "done"}
               PROVE  LET s == test[w].stats
                          d == {test[w].delays[i] : i \in DOMAIN test[w].delays}
                      IN  /\ s.min = 0 <=> ~UrlOk(w, "delay")
                          /\ s.p50 <= s.p90 /\ s.p90 <= s.p95
                          /\ Len(test[w].delays) > 1 /\ 0 \notin d => s.min <= s.p50
                          /\ s.p95 > 0 => s.p95 \in d
                          /\ s.jitter > 0 => s.jitter <= Max(d) - Min(d)
    BY DEF LatencySound
  <2>1. StatsOk(test[w].stats, test[w].delays, Probe(w, "delay").best)
    BY DEF TestInv, TestOk, SamplesInv, Probe
  <2> QED BY <2>1 DEF StatsOk, UrlOk
<1> QED BY <1>1, TestInvariance, PTL

(* Without a timeout a URL is given up only after every probe of it, a     *)
(* country only without a trace that told one.                             *)
THEOREM NeverGivenUp == TestSpec => []NothingGivenUp
<1>1. TestInv => NothingGivenUp
  <2> SUFFICES ASSUME TestInv, NEW w \in Worker, test[w].pc = "done",
                      test[w].ctx = "live", test[w].stats.min > 0
               PROVE  /\ \A u \in Url : ~UrlOk(w, u) =>
                            Probe(w, u).best = 0 \/ Probe(w, u).failed = Tries + 1
                      /\ test[w].country = "" =>
                            \A j \in Job \cap {"locate", "gpt_web"} : Task(w, j).loc = ""
    BY DEF NothingGivenUp
  <2>1. TestOk(test[w])
    BY DEF TestInv
  <2>2. ASSUME NEW u \in Url, ~UrlOk(w, u), Probe(w, u).best # 0
        PROVE  Probe(w, u).failed = Tries + 1
    <3>1. Probe(w, u).at = "done"
      <4>1. ~(test[w].stats.min = 0)
        OBVIOUS
      <4> QED BY <2>1, <4>1 DEF TestOk, StageInv, Probe
    <3>3. ProbeInv(Probe(w, u), Lives("live", u))
      BY <2>1 DEF TestOk, Probe, Target
    <3>2. Probe(w, u).best = NoDelay
      BY <2>2 DEF UrlOk
    <3> QED BY <3>1, <3>2, <3>3 DEF ProbeInv, Lives
  <2>3. test[w].country = "" =>
          \A j \in Job \cap {"locate", "gpt_web"} : Task(w, j).loc = ""
    BY <2>1 DEF TestOk, JobInv, Task
  <2> QED BY <2>2, <2>3
<1> QED BY <1>1, TestInvariance, PTL

-----------------------------------------------------------------------------
(* Workers, their tests and the cache *)

(* A step of a test changes no other worker's test.                        *)
LEMMA ProbeStepOwn ==
    ASSUME NEW w \in Worker, NEW u \in Target, ProbeStep(w, u)
    PROVE  \E t : Become(w, t)
<1>1. Launch(w, u) => \E t : Become(w, t)
  BY DEF Launch, Probing
<1>2. LaunchEnd(w, u) => \E t : Become(w, t)
  BY DEF LaunchEnd, Probing
<1>3. ProbeFail(w, u) => \E t : Become(w, t)
  BY DEF ProbeFail, Probing
<1>4. ProbesEnd(w, u) => \E t : Become(w, t)
  BY DEF ProbesEnd, Probing
<1>5. RetryFail(w, u) => \E t : Become(w, t)
  BY DEF RetryFail, Probing
<1>6. ASSUME NEW ms \in Elapsed, ProbeOk(w, u, ms) PROVE \E t : Become(w, t)
  BY <1>6 DEF ProbeOk, Probing
<1>7. ASSUME NEW ms \in Elapsed, RetryOk(w, u, ms) PROVE \E t : Become(w, t)
  BY <1>7 DEF RetryOk, Probing
<1> QED BY <1>1, <1>2, <1>3, <1>4, <1>5, <1>6, <1>7 DEF ProbeStep

LEMMA JobStepOwn ==
    ASSUME NEW w \in Worker, NEW j \in Job, JobStep(w, j) PROVE \E t : Become(w, t)
<1>1. NoAnswer(w, j) => \E t : Become(w, t)
  BY DEF NoAnswer, Working
<1>2. ASSUME NEW loc \in Country \cup {""}, Trace(w, j, loc) PROVE \E t : Become(w, t)
  BY <1>2 DEF Trace, Working
<1>3. ASSUME NEW good \in BOOLEAN, Reply(w, j, good) PROVE \E t : Become(w, t)
  BY <1>3 DEF Reply, Working
<1> QED BY <1>1, <1>2, <1>3 DEF JobStep

LEMMA TestStepOwn ==
    ASSUME TestInv, NEW w \in Worker, TestStep(w) \/ Begin(w)
    PROVE  \A x \in Worker : x # w => test'[x] = test[x]
<1>1. Begin(w) => \E t : Become(w, t)
  BY DEF Begin
<1>2. SampleStep(w) => \E t : Become(w, t)
  <2>1. SamplesCut(w) => \E t : Become(w, t)
    BY DEF SamplesCut
  <2>2. SampleFail(w) => \E t : Become(w, t)
    BY DEF SampleFail
  <2>3. SamplesEnd(w) => \E t : Become(w, t)
    BY DEF SamplesEnd
  <2>4. ASSUME NEW ms \in Elapsed, SampleOk(w, ms) PROVE \E t : Become(w, t)
    BY <2>4 DEF SampleOk
  <2> QED BY <2>1, <2>2, <2>3, <2>4 DEF SampleStep
<1>3. DelayEnd(w) => \E t : Become(w, t)
  BY DEF DelayEnd
<1>4. Dead(w) => \E t : Become(w, t)
  BY DEF Dead
<1>5. StartTasks(w) => \E t : Become(w, t)
  BY DEF StartTasks
<1>6. BandwidthEnd(w) => \E t : Become(w, t)
  BY DEF BandwidthEnd
<1>7. TasksEnd(w) => \E t : Become(w, t)
  BY DEF TasksEnd, Finish
<1>8. ASSUME NEW to \in {"probeOver", "over"}, TimeOut(w, to) PROVE \E t : Become(w, t)
  BY <1>8 DEF TimeOut
<1>9. \E t : Become(w, t)
  BY <1>1, <1>2, <1>3, <1>4, <1>5, <1>6, <1>7, <1>8, ProbeStepOwn, JobStepOwn
     DEF TestStep
<1>10. PICK t : test' = [test EXCEPT ![w] = t]
  BY <1>9 DEF Become
<1> QED BY <1>10 DEF TestInv

(* Results stand as long as the tests that made them do.                   *)
LEMMA ResultsStand ==
    ASSUME StateInv, ResultInv,
           \A x \in Worker : at[x] = "done" => at'[x] = "done" /\ test'[x] = test[x],
           \A k \in Key : \/ item'[k] \in {NoValue, item[k]}
                          \/ ResultOf(item[k], k)',
           \A w \in Worker : \/ result'[w] \in {NoValue, result[w], item[KeyOf[w]]}
                             \/ ResultOf(result[w], KeyOf[w])'
    PROVE  ResultInv'
<1>1. ASSUME NEW v, NEW k \in Key, ResultOf(v, k) PROVE ResultOf(v, k)'
  <2>1. v \in Value /\ v.by \in Worker
    BY <1>1, NodeTestAssumption DEF ResultOf
  <2> QED BY <1>1, <2>1 DEF ResultOf
<1>2. \A w \in Worker : KeyOf[w] \in Key
  BY NodeTestAssumption
<1>3. ASSUME NEW k \in Key, item'[k] # NoValue PROVE ResultOf(item[k], k)'
  <2>1. CASE item'[k] = item[k]
    <3>1. ResultOf(item[k], k)
      BY <1>3, <2>1 DEF ResultInv
    <3>2. \A v : v = item[k] => v = item'[k]
      BY <2>1
    <3> QED BY <1>1, <2>1, <3>1, <3>2 DEF ResultOf
  <2>2. CASE ResultOf(item[k], k)'
    BY <2>2
  <2> QED BY <1>3, <2>1, <2>2
<1>4. ASSUME NEW w \in Worker, result'[w] # NoValue PROVE ResultOf(result[w], KeyOf[w])'
  <2>1. CASE result'[w] = result[w]
    <3>1. ResultOf(result[w], KeyOf[w])
      BY <1>4, <2>1 DEF ResultInv
    <3> QED BY <1>1, <1>2, <2>1, <3>1 DEF ResultOf
  <2>2. CASE result'[w] = item[KeyOf[w]]
    <3>1. ResultOf(item[KeyOf[w]], KeyOf[w])
      BY <1>2, <1>4, <2>2 DEF ResultInv
    <3> QED BY <1>1, <1>2, <2>2, <3>1 DEF ResultOf
  <2>3. CASE ResultOf(result[w], KeyOf[w])'
    BY <2>3
  <2> QED BY <1>4, <2>1, <2>2, <2>3
<1> QED BY <1>3, <1>4 DEF ResultInv

(* Deleting, storing and cleaning keep the cache's types.                  *)
LEMMA DeleteKeeps ==
    ASSUME CacheTypeOK, NEW k, Delete(k), UNCHANGED <<cleanupVars, closeVars, cacheFault>>
    PROVE  CacheTypeOK' /\ \A x \in Key : item'[x] \in {NoValue, item[x]}
BY DEF CacheTypeOK, Delete, cleanupVars, closeVars

LEMMA SetKeeps ==
    ASSUME CacheTypeOK, NEW k \in Key, NEW v \in Value, Set(k, v),
           UNCHANGED <<cleanupVars, closeVars, cacheFault>>
    PROVE  /\ CacheTypeOK' /\ item'[k] = v
           /\ \A x \in Key : x # k => item'[x] = item[x]
BY DEF CacheTypeOK, Set, cleanupVars, closeVars

LEMMA CleanupKeeps ==
    ASSUME CacheTypeOK, Cleanup \/ \E k \in Key : Expire(k)
    PROVE  CacheTypeOK' /\ \A x \in Key : item'[x] \in {NoValue, item[x]}
<1>1. CASE Evaluate
  BY <1>1 DEF CacheTypeOK, Evaluate, storeVars, closeVars
<1>2. CASE CleanupTick
  BY <1>2 DEF CacheTypeOK, CleanupTick, storeVars, closeVars
<1>3. ASSUME NEW k \in Key, Sweep(k)
      PROVE  CacheTypeOK' /\ \A x \in Key : item'[x] \in {NoValue, item[x]}
  BY <1>3 DEF CacheTypeOK, Sweep, storeVars, closeVars
<1>4. CASE SweepDelete
  BY <1>4 DEF CacheTypeOK, SweepDelete, Delete, closeVars
<1>5. CASE SweepEnd
  BY <1>5 DEF CacheTypeOK, SweepEnd, storeVars, closeVars
<1>6. ASSUME NEW k \in Key, Expire(k)
      PROVE  CacheTypeOK' /\ \A x \in Key : item'[x] \in {NoValue, item[x]}
  BY <1>6 DEF CacheTypeOK, Expire, cleanupVars, closeVars
<1> QED BY <1>1, <1>2, <1>3, <1>4, <1>5, <1>6 DEF Cleanup

-----------------------------------------------------------------------------
(* The actions of NodeTest *)

LEMMA TestStays == ASSUME TestInv, UNCHANGED test PROVE TestInv'
BY DEF TestInv

(* The program counter of a worker moves on.                               *)
LEMMA StepMoves ==
    ASSUME StateInv, NEW w \in Worker, NEW from,
           NEW to \in {"lookup", "evict", "type", "test", "done"},
           Step(w, from, to), from # "done"
    PROVE  /\ at' \in [Worker -> {"lookup", "evict", "type", "test", "done"}]
           /\ at'[w] = to /\ at[w] = from
           /\ \A x \in Worker : at[x] = "done" => at'[x] = "done" /\ x # w
BY DEF StateInv, Step

LEMMA LookupKeeps == ASSUME Inv, NEW w \in Worker, Lookup(w) PROVE Inv'
<1> DEFINE k == KeyOf[w]
<1>1. /\ k \in Key /\ StateInv /\ TestInv /\ ResultInv
      /\ UNCHANGED <<cacheVars, test>> /\ UNCHANGED item
  BY NodeTestAssumption DEF Inv, Lookup, cacheVars
<1>2. CacheTypeOK' /\ TestInv'
  BY <1>1, TestStays DEF StateInv, CacheTypeOK, cacheVars
<1>3. \/ Step(w, "lookup", "done") /\ Returns(w, item[k])
      \/ (Step(w, "lookup", "evict") \/ Step(w, "lookup", "type")) /\ UNCHANGED result
  BY DEF Lookup
<1>4. /\ at' \in [Worker -> {"lookup", "evict", "type", "test", "done"}]
      /\ \A x \in Worker : at[x] = "done" => at'[x] = "done"
  BY <1>1, <1>3, StepMoves
<1>5. /\ result' \in [Worker -> Value \cup {NoValue}]
      /\ \A x \in Worker : result'[x] \in {result[x], item[KeyOf[x]]}
  <2>1. item[k] \in Value \cup {NoValue} /\ result \in [Worker -> Value \cup {NoValue}]
    BY <1>1 DEF StateInv, CacheTypeOK
  <2> QED BY <1>3, <2>1 DEF Returns
<1>6. ResultInv'
  BY <1>1, <1>4, <1>5, ResultsStand
<1> QED BY <1>2, <1>4, <1>5, <1>6 DEF Inv, StateInv

LEMMA EvictKeeps == ASSUME Inv, NEW w \in Worker, Evict(w) PROVE Inv'
<1>1. /\ StateInv /\ TestInv /\ ResultInv /\ Step(w, "evict", "type")
      /\ Delete(KeyOf[w]) /\ UNCHANGED <<cleanupVars, closeVars, cacheFault>>
      /\ UNCHANGED <<test, result>>
  BY DEF Inv, Evict
<1>2. CacheTypeOK' /\ \A k \in Key : item'[k] \in {NoValue, item[k]}
  BY <1>1, DeleteKeeps DEF StateInv
<1>3. /\ at' \in [Worker -> {"lookup", "evict", "type", "test", "done"}]
      /\ \A x \in Worker : at[x] = "done" => at'[x] = "done"
  BY <1>1, StepMoves
<1>4. TestInv'
  BY <1>1, TestStays
<1>5. ResultInv'
  BY <1>1, <1>2, <1>3, ResultsStand
<1> QED BY <1>1, <1>2, <1>3, <1>4, <1>5 DEF Inv, StateInv

LEMMA SupportedKeeps == ASSUME Inv, NEW w \in Worker, Supported(w) PROVE Inv'
<1>1. /\ StateInv /\ TestInv /\ ResultInv /\ Step(w, "type", "test")
      /\ Begin(w) /\ UNCHANGED <<cacheVars, result>> /\ UNCHANGED item
  BY DEF Inv, Supported, cacheVars
<1>2. CacheTypeOK'
  BY <1>1 DEF StateInv, CacheTypeOK, cacheVars
<1>3. /\ at' \in [Worker -> {"lookup", "evict", "type", "test", "done"}]
      /\ \A x \in Worker : at[x] = "done" => at'[x] = "done" /\ x # w
  BY <1>1, StepMoves
<1>4. TestInv' /\ \A x \in Worker : x # w => test'[x] = test[x]
  BY <1>1, BeginKeeps, TestStepOwn
<1>5. ResultInv'
  BY <1>1, <1>3, <1>4, ResultsStand
<1> QED BY <1>1, <1>2, <1>3, <1>4, <1>5 DEF Inv, StateInv

LEMMA UntestableKeeps == ASSUME Inv, NEW w \in Worker, Untestable(w) PROVE Inv'
<1>1. /\ StateInv /\ TestInv /\ ResultInv /\ Step(w, "type", "done")
      /\ UNCHANGED <<cacheVars, test, result>> /\ UNCHANGED item
  BY DEF Inv, Untestable, cacheVars
<1>2. CacheTypeOK' /\ TestInv'
  BY <1>1, TestStays DEF StateInv, CacheTypeOK, cacheVars
<1>3. /\ at' \in [Worker -> {"lookup", "evict", "type", "test", "done"}]
      /\ \A x \in Worker : at[x] = "done" => at'[x] = "done"
  BY <1>1, StepMoves
<1>4. ResultInv'
  BY <1>1, <1>3, ResultsStand
<1> QED BY <1>1, <1>2, <1>3, <1>4 DEF Inv, StateInv

LEMMA TestingKeeps == ASSUME Inv, NEW w \in Worker, Testing(w) PROVE Inv'
<1>1. /\ StateInv /\ TestInv /\ ResultInv /\ at[w] = "test"
      /\ TestStep(w) /\ UNCHANGED <<cacheVars, at, result>> /\ UNCHANGED item
  BY DEF Inv, Testing, cacheVars
<1>2. CacheTypeOK'
  BY <1>1 DEF StateInv, CacheTypeOK, cacheVars
<1>3. TestInv' /\ \A x \in Worker : x # w => test'[x] = test[x]
  BY <1>1, TestStepKeeps, TestStepOwn
<1>4. \A x \in Worker : at[x] = "done" => at'[x] = "done" /\ test'[x] = test[x]
  BY <1>1, <1>3
<1>5. ResultInv'
  BY <1>1, <1>4, ResultsStand
<1> QED BY <1>1, <1>2, <1>3, <1>5 DEF Inv, StateInv

LEMMA StoreKeeps == ASSUME Inv, NEW w \in Worker, Store(w) PROVE Inv'
<1> DEFINE v == Measured(w)
<1>1. /\ StateInv /\ TestInv /\ ResultInv /\ Step(w, "test", "done")
      /\ test[w].pc = "done" /\ Returns(w, v) /\ Set(KeyOf[w], v)
      /\ UNCHANGED <<cleanupVars, closeVars, cacheFault>> /\ UNCHANGED test
  BY DEF Inv, Store
<1>2. KeyOf[w] \in Key /\ v \in Value /\ v.by = w /\ v.alive = (test[w].stats.min > 0)
  BY NodeTestAssumption DEF Measured
<1> HIDE DEF v
<1>3. /\ CacheTypeOK' /\ item'[KeyOf[w]] = v
      /\ \A k \in Key : k # KeyOf[w] => item'[k] = item[k]
  BY <1>1, <1>2, SetKeeps DEF StateInv
<1>4. /\ at' \in [Worker -> {"lookup", "evict", "type", "test", "done"}]
      /\ \A x \in Worker : at[x] = "done" => at'[x] = "done"
      /\ at'[w] = "done"
  BY <1>1, StepMoves
<1>5. /\ result' \in [Worker -> Value \cup {NoValue}] /\ result'[w] = v
      /\ \A x \in Worker : x # w => result'[x] = result[x]
  BY <1>1, <1>2 DEF StateInv, Returns
<1>6. ResultOf(item[KeyOf[w]], KeyOf[w])' /\ ResultOf(result[w], KeyOf[w])'
  BY <1>1, <1>2, <1>3, <1>4, <1>5 DEF ResultOf
<1>7. \A k \in Key : item'[k] \in {NoValue, item[k]} \/ ResultOf(item[k], k)'
  BY <1>3, <1>6
<1>8. \A x \in Worker : \/ result'[x] \in {NoValue, result[x], item[KeyOf[x]]}
                        \/ ResultOf(result[x], KeyOf[x])'
  BY <1>5, <1>6
<1>9. TestInv'
  BY <1>1, TestStays
<1>10. ResultInv'
  BY <1>1, <1>4, <1>7, <1>8, ResultsStand
<1> QED BY <1>3, <1>4, <1>5, <1>9, <1>10 DEF Inv, StateInv

LEMMA CacheStepKeeps == ASSUME Inv, CacheStep PROVE Inv'
<1>1. /\ StateInv /\ TestInv /\ ResultInv /\ UNCHANGED <<test, at, result>>
      /\ Cleanup \/ \E k \in Key : Expire(k)
  BY DEF Inv, CacheStep
<1>2. CacheTypeOK' /\ \A k \in Key : item'[k] \in {NoValue, item[k]}
  BY <1>1, CleanupKeeps DEF StateInv
<1>3. TestInv'
  BY <1>1, TestStays
<1>4. ResultInv'
  BY <1>1, <1>2, ResultsStand
<1> QED BY <1>1, <1>2, <1>3, <1>4 DEF Inv, StateInv

LEMMA InitInv == Init => Inv
<1> SUFFICES ASSUME Init PROVE Inv
  OBVIOUS
<1>1. CacheTypeOK /\ \A k \in Key : item[k] = NoValue
  BY DEF Init, CacheInit, CacheTypeOK
<1>2. at \in [Worker -> {"lookup", "evict", "type", "test", "done"}]
  BY DEF Init
<1>3. result \in [Worker -> Value \cup {NoValue}] /\ \A w \in Worker : result[w] = NoValue
  BY DEF Init
<1>4. TestInv
  BY InitTestInv DEF Init
<1> QED BY <1>1, <1>2, <1>3, <1>4 DEF Inv, StateInv, ResultInv

LEMMA StepInv == Inv /\ [Next]_vars => Inv'
<1> SUFFICES ASSUME Inv, [Next]_vars PROVE Inv'
  OBVIOUS
<1>1. CASE UNCHANGED vars
  BY <1>1 DEF Inv, StateInv, CacheTypeOK, TestInv, ResultInv, ResultOf, vars, cacheVars
<1>2. ASSUME NEW w \in Worker,
             Lookup(w) \/ Evict(w) \/ Supported(w) \/ Untestable(w) \/ Testing(w) \/ Store(w)
      PROVE  Inv'
  BY <1>2, LookupKeeps, EvictKeeps, SupportedKeeps, UntestableKeeps, TestingKeeps, StoreKeeps
<1>3. CASE CacheStep
  BY <1>3, CacheStepKeeps
<1> QED BY <1>1, <1>2, <1>3 DEF Next

(* Inv holds in every state of NodeTest.                                   *)
THEOREM Invariance == Spec => []Inv
BY InitInv, StepInv, PTL DEF Spec

-----------------------------------------------------------------------------
(* What follows of it *)

(* Every variable of the cache and of the tests keeps its type: a test     *)
(* makes no probe, sample or request more than it is to make.              *)
THEOREM Typed == Spec => []TypeOK
<1>1. Inv => TypeOK
  <2> SUFFICES ASSUME Inv PROVE TestTypeOK
    BY DEF Inv, StateInv, TypeOK
  <2> SUFFICES ASSUME NEW w \in Worker
               PROVE  LET t == test[w] IN
                      /\ DOMAIN t = DOMAIN Fresh
                      /\ t.pc \in {"idle", "delay", "metrics", "decide", "tasks", "done"}
                      /\ t.ctx \in {"live", "probeOver", "over"}
                      /\ t.probe \in [Target -> [at : {"idle", "launch", "wait", "retry", "done"},
                                         launched : 0..Tries, running : 0..Tries,
                                         failed : 0..Tries + 1,
                                         best : {Delay(e) : e \in Elapsed} \cup {NoDelay}]]
                      /\ t.turn \in 0..Samples
                      /\ Len(t.delays) + t.lost \in 0..Samples
                      /\ t.stats \in Stats
                      /\ \A j \in Job : /\ t.job[j].step \in 0..Len(Requests[j]) + 1
                                        /\ t.job[j].loc \in Country \cup {""}
                      /\ t.country \in Country \cup {""}
    BY DEF TestTypeOK
  <2> DEFINE t == test[w]
  <2>1. TestOk(t) /\ t \in TestState
    BY DEF Inv, TestInv, TestOk
  <2> HIDE DEF t
  <2>2. DOMAIN t = DOMAIN Fresh
    BY <2>1 DEF TestState, Fresh
  <2>3. t.probe \in [Target -> [at : {"idle", "launch", "wait", "retry", "done"},
                       launched : 0..Tries, running : 0..Tries, failed : 0..Tries + 1,
                       best : {Delay(e) : e \in Elapsed} \cup {NoDelay}]]
    BY <2>1 DEF TestState, ProbeState, Best
  <2>4. t.turn \in 0..Samples /\ Len(t.delays) + t.lost \in 0..Samples
    <3>1. t.turn \in Nat
      BY <2>1 DEF TestState
    <3>2. Len(t.delays) + t.lost = t.turn /\ t.turn <= Samples
      BY <2>1 DEF TestOk, SamplesInv
    <3> QED BY <3>1, <3>2, ConstantsNat
  <2>5. ASSUME NEW j \in Job
        PROVE  /\ t.job[j].step \in 0..Len(Requests[j]) + 1
               /\ t.job[j].loc \in Country \cup {""}
    <3>1. t.job[j].step \in Nat /\ t.job[j].loc \in Country \cup {""}
      BY <2>1 DEF TestState, JobState
    <3>2. t.job[j].step <= Len(Requests[j]) + 1 /\ Len(Requests[j]) \in Nat
      BY <2>1, RequestsFew DEF TestOk, JobInv
    <3>3. \A n, l \in Nat : n <= l + 1 => n \in 0..l + 1
      OBVIOUS
    <3> QED BY <3>1, <3>2, <3>3
  <2>6. /\ t.pc \in {"idle", "delay", "metrics", "decide", "tasks", "done"}
        /\ t.ctx \in {"live", "probeOver", "over"}
        /\ t.stats \in Stats /\ t.country \in Country \cup {""}
    BY <2>1 DEF TestState
  <2> QED BY <2>2, <2>3, <2>4, <2>5, <2>6 DEF t
<1> QED BY <1>1, Invariance, PTL

(* What a result stands for: a test that ended.                            *)
LEMMA ResultFacts ==
    ASSUME Inv, NEW w \in Worker, Tested(w)
    PROVE  LET by == result[w].by IN
           /\ by \in Worker /\ KeyOf[by] = KeyOf[w]
           /\ TestOk(test[by]) /\ test[by].pc = "done"
           /\ (result[w].alive <=> Probe(by, "delay").best \notin {0, NoDelay})
<1>1. ResultOf(result[w], KeyOf[w])
  BY DEF Inv, ResultInv, Tested
<1> DEFINE by == result[w].by
<1>2. by \in Worker
  BY <1>1, NodeTestAssumption DEF ResultOf
<1>3. /\ KeyOf[by] = KeyOf[w] /\ test[by].pc = "done"
      /\ result[w].alive = (test[by].stats.min > 0)
  BY <1>1 DEF ResultOf
<1>4. TestOk(test[by])
  BY <1>2 DEF Inv, TestInv
<1>5. StatsOk(test[by].stats, test[by].delays, Probe(by, "delay").best)
  BY <1>3, <1>4 DEF TestOk, SamplesInv, Probe
<1>6. test[by].stats.min = 0 <=> Probe(by, "delay").best \in {0, NoDelay}
  BY <1>5 DEF StatsOk
<1>7. test[by].stats.min \in Nat
  <2>1. test[by].stats \in Stats
    BY <1>4 DEF TestOk, TestState
  <2>2. test[by].stats.min \in 0..NoDelay
    BY <2>1 DEF Stats
  <2> QED BY <2>2, NoDelayNat
<1>8. ~(test[by].stats.min > 0) <=> test[by].stats.min = 0
  BY <1>7
<1>9. result[w].alive <=> Probe(by, "delay").best \notin {0, NoDelay}
  BY <1>3, <1>6, <1>8, Zenon
<1> QED BY <1>2, <1>3, <1>4, <1>9, Zenon

(* A node is reported alive only when it, or a node of the same key, did   *)
(* answer, however tests, stores, expiries and cleanups interleave.        *)
THEOREM AliveReached == Spec => []AliveWasReached
<1>1. Inv => AliveWasReached
  <2> SUFFICES ASSUME Inv, NEW w \in Worker, Tested(w), result[w].alive
               PROVE  /\ UrlOk(result[w].by, "delay")
                      /\ KeyOf[result[w].by] = KeyOf[w]
    BY DEF AliveWasReached
  <2> DEFINE by == result[w].by
  <2>1. KeyOf[by] = KeyOf[w] /\ Probe(by, "delay").best \notin {0, NoDelay}
    BY ResultFacts, Zenon
  <2> QED BY <2>1 DEF UrlOk
<1> QED BY <1>1, Invariance, PTL

(* A node is reported dead by a test no timeout touched only when every    *)
(* probe of it and the repeated one failed, or one took less than 1 ms.    *)
THEOREM DeadTried == Spec => []DeadWasTried
<1>1. Inv => DeadWasTried
  <2> SUFFICES ASSUME Inv, NEW w \in Worker, Tested(w), ~result[w].alive,
                      test[result[w].by].ctx = "live", Delays(w).best # 0
               PROVE  Delays(w).best = NoDelay /\ Delays(w).failed = Tries + 1
    BY DEF DeadWasTried
  <2> DEFINE by == result[w].by
             p == Probe(by, "delay")
  <2>1. /\ by \in Worker /\ TestOk(test[by]) /\ test[by].pc = "done"
        /\ p.best \in {0, NoDelay}
    BY ResultFacts, Zenon
  <2>2. p.best = NoDelay
    BY <2>1 DEF Delays
  <2>3. p.at = "done" /\ ProbeInv(p, Lives("live", "delay"))
    BY <2>1 DEF TestOk, StageInv, Probe, Target
  <2>4. p.failed = Tries + 1
    BY <2>2, <2>3 DEF ProbeInv, Lives
  <2> QED BY <2>2, <2>4 DEF Delays
<1> QED BY <1>1, Invariance, PTL

(* When Test returns, no probe, check or download of it still runs.        *)
THEOREM QuietAfterTest == Spec => []QuietAtResult
<1>1. Inv => QuietAtResult
  <2> SUFFICES ASSUME Inv, NEW w \in Worker, test[w].pc = "done"
               PROVE  /\ ~test[w].bandwidth
                      /\ \A u \in Target : Probe(w, u).running = 0
                      /\ \A j \in Job : ~Asking(w, j)
    BY DEF QuietAtResult
  <2>1. TestOk(test[w])
    BY DEF Inv, TestInv
  <2>2. ~test[w].bandwidth
    BY <2>1 DEF TestOk, StageInv
  <2>3. ASSUME NEW u \in Target PROVE Probe(w, u).running = 0
    <3> DEFINE p == Probe(w, u)
    <3>1. p.at \in {"done", "idle"}
      <4>1. CASE u = "delay"
        BY <2>1, <4>1 DEF TestOk, StageInv, Probe
      <4>2. CASE u \in Url
        BY <2>1, <4>2 DEF TestOk, StageInv, Probe
      <4> QED BY <4>1, <4>2 DEF Target
    <3>2. ProbeInv(p, Lives(test[w].ctx, u)) /\ p \in ProbeState
      BY <2>1 DEF TestOk, TestState, Probe
    <3>3. p.running \in Nat /\ p.launched \in Nat
      BY <3>2, ConstantsNat DEF ProbeState
    <3> HIDE DEF p
    <3>4. p.running = 0
      BY <3>1, <3>2, <3>3 DEF ProbeInv
    <3> QED BY <3>4 DEF p
  <2>4. \A j \in Job : ~Asking(w, j)
    BY <2>1 DEF TestOk, JobInv, Asking, Task
  <2> QED BY <2>2, <2>3, <2>4
<1> QED BY <1>1, Invariance, PTL

(* Of a node that is reached every sample asked for gave a delay or is     *)
(* lost, whenever its context ended.                                       *)
THEOREM EverySampleCounted == Spec => []SamplesAccounted
<1>1. Inv => SamplesAccounted
  <2> SUFFICES ASSUME Inv, NEW w \in Worker,
                      test[w].pc \in {"tasks", "done"}, test[w].stats.min > 0
               PROVE  Len(test[w].delays) + test[w].lost = Samples
    BY DEF SamplesAccounted
  <2>1. SamplesInv(test[w]) /\ ~(test[w].stats.min = 0)
    BY DEF Inv, TestInv, TestOk
  <2> QED BY <2>1 DEF SamplesInv
<1> QED BY <1>1, Invariance, PTL
=============================================================================
