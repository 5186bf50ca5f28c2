---------------------------- MODULE ReportsProofs ----------------------------
(***************************************************************************)
(* What holds of Reports for any nodes, results and number of calls: a     *)
(* node is measured again only when its cache key has changed, and what is *)
(* reported belongs together.                                              *)
(***************************************************************************)
EXTENDS Reports, SumLemmas

-----------------------------------------------------------------------------
(* The inductive invariant *)

(* A cached result is found under the key its node has now, unless the     *)
(* node was listed since; it is of an earlier call.                        *)
CacheInv ==
    \A k \in DOMAIN cache :
        /\ k \in Node \X (Checks \cup {"none"})
        /\ cache[k] \in Measure /\ cache[k].run <= runs
        /\ k[2] = check[k[1]] \/ k[1] \in listed

(* The lists are of calls that returned no error.                          *)
ListsInv ==
    /\ runs \in Nat /\ okRuns \subseteq 1..runs
    /\ tested \in BOOLEAN /\ (tested <=> okRuns # {})
    /\ check \in [Node -> Checks \cup {"none"}]
    /\ \A n \in DOMAIN results :
          /\ n \in Node /\ results[n] \in Measure
          /\ \E g \in okRuns : results[n].run <= g

(* After a whole call the counters are those of the lists, of what cannot  *)
(* be parsed and of what cannot be tested.                                 *)
CountsInv ==
    complete =>
        /\ DOMAIN results \subseteq Of({"testable"})
        /\ counters.count = counters.total
        /\ counters.alive = Cardinality(AliveProxies)
        /\ counters.invalid = Cardinality(Of({"malformed"}))
                              + Cardinality(Of({"untestable"}))
                              + Cardinality(DOMAIN results \ AliveProxies)

Inv == CacheInv /\ ListsInv /\ CountsInv /\ KeptUnlessListed

-----------------------------------------------------------------------------
(* TestSpeed calls *)

(* The caches and the lists are functions on the keys and nodes they have. *)
LEMMA InitInv == Init => Inv
<1> SUFFICES ASSUME Init PROVE Inv
  OBVIOUS
<1>1. DOMAIN cache = {} /\ DOMAIN results = {}
  BY DEF Init
<1>2. CacheInv /\ CountsInv /\ KeptUnlessListed
  BY <1>1 DEF Init, CacheInv, CountsInv, KeptUnlessListed
<1>3. ListsInv
  BY <1>1 DEF Init, ListsInv
<1> QED BY <1>2, <1>3 DEF Inv

(* What a call measures is of that call.                                   *)
LEMMA MeasuredNow ==
    ASSUME NEW m \in Measured, NEW n \in DOMAIN m
    PROVE  m[n] \in Measure /\ m[n].run = runs + 1
<1>1. PICK S \in SUBSET Node : m \in [S -> {x \in Measure : x.run = runs + 1}]
  BY DEF Measured
<1>2. n \in S /\ m[n] \in {x \in Measure : x.run = runs + 1}
  BY <1>1
<1> QED BY <1>2

(* A node the call measures though a result of it is cached was listed:    *)
(* the key of that result is no longer the node's.                         *)
LEMMA StreamKeeps ==
    ASSUME Inv, NEW T \in SUBSET Node, NEW D, NEW m \in Measured,
           Stream(T, D, m), runs' = runs + 1, UNCHANGED <<check, listed>>
    PROVE  CacheInv' /\ KeptUnlessListed'
<1>1. \A n \in Node : Key(n) \in Node \X (Checks \cup {"none"})
                   /\ Key(n)[1] = n /\ Key(n)[2] = check[n]
  BY DEF Inv, ListsInv, Key
<1>2. CacheInv'
  <2> DEFINE K == DOMAIN cache \cup {Key(n) : n \in Tested(T, m)}
  <2>1. cache' = [k \in K |-> IF k \in DOMAIN cache THEN cache[k] ELSE m[k[1]]]
    BY DEF Stream
  <2>2. runs \in Nat
    BY DEF Inv, ListsInv
  <2> SUFFICES ASSUME NEW k \in K
               PROVE  /\ k \in Node \X (Checks \cup {"none"})
                      /\ cache'[k] \in Measure /\ cache'[k].run <= runs + 1
                      /\ k[2] = check[k[1]] \/ k[1] \in listed
    BY <2>1 DEF CacheInv
  <2>3. CASE k \in DOMAIN cache
    <3>1. cache'[k] = cache[k] /\ cache[k] \in Measure /\ cache[k].run <= runs
      BY <2>1, <2>3 DEF Inv, CacheInv
    <3>2. cache[k].run \in Nat
      BY <3>1 DEF Measure
    <3>3. /\ k \in Node \X (Checks \cup {"none"})
          /\ k[2] = check[k[1]] \/ k[1] \in listed
      BY <2>3 DEF Inv, CacheInv
    <3> QED BY <3>1, <3>2, <3>3, <2>2
  <2>4. CASE k \notin DOMAIN cache
    <3>1. PICK n \in Tested(T, m) : k = Key(n)
      BY <2>4
    <3>2. n \in Node /\ n \in DOMAIN m
      BY <2>4, <3>1 DEF Tested, Cached
    <3>4. cache'[k] = m[n]
      BY <2>1, <2>4, <3>1, <3>2, <1>1
    <3>3. m[n] \in Measure /\ m[n].run = runs + 1
      BY <3>2, MeasuredNow
    <3> QED BY <1>1, <3>1, <3>2, <3>3, <3>4, <2>2
  <2> QED BY <2>3, <2>4
<1>3. KeptUnlessListed'
  <2> SUFFICES ASSUME NEW n \in T, ~Cached(n), NEW k \in DOMAIN cache, k[1] = n
               PROVE  n \in listed
    BY DEF Stream, KeptUnlessListed
  <2>1. k \in Node \X (Checks \cup {"none"}) /\ (k[2] = check[n] \/ n \in listed)
    BY DEF Inv, CacheInv
  <2>2. k[2] = check[n] => k = Key(n)
    BY <2>1 DEF Key
  <2> QED BY <2>1, <2>2 DEF Cached
<1> QED BY <1>2, <1>3

(* The results a call stores are of this call or an earlier one.           *)
LEMMA StoredOk ==
    ASSUME Inv, NEW T \in SUBSET Node, NEW m \in Measured,
           NEW S \in SUBSET Tested(T, m), Stored(S, m)
    PROVE  /\ DOMAIN results' = S
           /\ \A n \in S : results'[n] \in Measure /\ results'[n].run <= runs + 1
<1>1. results' = [n \in S |-> IF Cached(n) THEN cache[Key(n)] ELSE m[n]]
  BY DEF Stored, Results
<1>2. runs \in Nat
  BY DEF Inv, ListsInv
<1>3. ASSUME NEW n \in S
      PROVE  results'[n] \in Measure /\ results'[n].run <= runs + 1
  <2>1. CASE Cached(n)
    <3>1. cache[Key(n)] \in Measure /\ cache[Key(n)].run <= runs
      BY <2>1 DEF Cached, Inv, CacheInv
    <3>2. cache[Key(n)].run \in Nat
      BY <3>1 DEF Measure
    <3> QED BY <1>1, <1>2, <2>1, <3>1, <3>2
  <2>2. CASE ~Cached(n)
    <3>1. n \in DOMAIN m
      BY <2>2 DEF Tested
    <3>2. m[n] \in Measure /\ m[n].run = runs + 1
      BY <3>1, MeasuredNow
    <3> QED BY <1>1, <1>2, <2>2, <3>2
  <2> QED BY <2>1, <2>2
<1> QED BY <1>1, <1>3

(* Lists stored with a call that returned no error.                        *)
LEMMA SucceedKeeps ==
    ASSUME Inv, NEW T \in SUBSET Node, NEW m \in Measured,
           NEW S \in SUBSET Tested(T, m), Succeed(S, m),
           runs' = runs + 1, UNCHANGED check
    PROVE  ListsInv'
<1>1. DOMAIN results' = S
      /\ \A n \in S : results'[n] \in Measure /\ results'[n].run <= runs + 1
  BY StoredOk DEF Succeed
<1>2. runs' \in Nat /\ okRuns' \subseteq 1..runs' /\ runs + 1 \in okRuns'
  BY DEF Succeed, Inv, ListsInv
<1>3. tested' \in BOOLEAN /\ (tested' <=> okRuns' # {})
  BY <1>2 DEF Succeed
<1>4. check' \in [Node -> Checks \cup {"none"}]
  BY DEF Inv, ListsInv
<1>5. \A n \in DOMAIN results' :
          /\ n \in Node /\ results'[n] \in Measure
          /\ \E g \in okRuns' : results'[n].run <= g
  BY <1>1, <1>2 DEF Tested
<1> QED BY <1>2, <1>3, <1>4, <1>5 DEF ListsInv

(* A call that stores no list.                                             *)
LEMMA FailKeeps ==
    ASSUME Inv, UNCHANGED <<tested, results, okRuns>>, runs' = runs + 1,
           UNCHANGED check
    PROVE  ListsInv'
<1>1. runs' \in Nat /\ okRuns' \subseteq 1..runs'
  BY DEF Inv, ListsInv
<1> QED BY <1>1 DEF Inv, ListsInv

(* A call that was not cancelled: a node is queued or not, and what is     *)
(* malformed is not, what is untestable is.                                *)
LEMMA TestSpeedStep == ASSUME Inv, TestSpeed, UNCHANGED fate PROVE Inv'
<1>1. PICK m \in Measured : /\ Ran(TRUE) /\ Stream(Queued, Node \ Queued, m)
                            /\ Succeed(Tested(Queued, m), m)
  BY DEF TestSpeed
<1> DEFINE G == Tested(Queued, m)
<1>2. runs' = runs + 1 /\ UNCHANGED <<check, listed>>
  BY <1>1 DEF Ran
<1>3. Queued \in SUBSET Node /\ G \subseteq Of({"testable"})
  BY DEF Queued, Of, Tested
<1>4. CacheInv' /\ KeptUnlessListed'
  BY <1>1, <1>2, <1>3, StreamKeeps
<1>5. ListsInv'
  BY <1>1, <1>2, <1>3, SucceedKeeps
<1>6. CountsInv'
  <2> HIDE DEF G
  <2>1. results' = Results(G, m) /\ DOMAIN Results(G, m) = G
    BY <1>1 DEF Succeed, Stored, Results, G
  <2>2. AliveProxies' = Alive(Results(G, m), G)
    BY <2>1 DEF AliveProxies, Alive
  <2>3. \A some : Of(some)' = Of(some)
    BY DEF Of
  <2>4. Cardinality(Queued) + Cardinality(Node \ Queued) = Cardinality(Node)
    BY <1>3, ReportsAssumption, PartAndRest
  <2>5. /\ (Node \ Queued) \cap Of({"malformed"}) = Of({"malformed"})
        /\ Queued \cap Of({"untestable"}) = Of({"untestable"})
    BY DEF Queued, Of
  <2>6. Queued \cup (Node \ Queued) = {} => Cardinality(Node) = 0
    BY <1>3, FS_EmptySet
  <2>7. \E total \in {Cardinality(Node)} \cup
                     (IF Queued \cup (Node \ Queued) = {} THEN {0} ELSE {}) :
          counters' = [total |-> total,
                       count |-> Cardinality(Queued) + Cardinality(Node \ Queued),
                       alive |-> Cardinality(AliveProxies'),
                       invalid |-> Cardinality(Of({"malformed"}))
                                   + Cardinality(Of({"untestable"}))
                                   + Cardinality(G \ AliveProxies')]
    BY <1>1, <2>2, <2>5 DEF Stream, G
  <2>8. counters'.count = counters'.total
    BY <2>4, <2>6, <2>7
  <2>9. /\ counters'.alive = Cardinality(AliveProxies')
        /\ counters'.invalid = Cardinality(Of({"malformed"}))
                               + Cardinality(Of({"untestable"}))
                               + Cardinality(G \ AliveProxies')
    BY <2>7
  <2>10. DOMAIN results' = G
    BY <2>1
  <2>11. /\ DOMAIN results' \subseteq Of({"testable"})'
         /\ Of({"malformed"})' = Of({"malformed"})
         /\ Of({"untestable"})' = Of({"untestable"})
    BY <1>3, <2>3, <2>10
  <2> QED BY <2>8, <2>9, <2>10, <2>11 DEF CountsInv
<1> QED BY <1>4, <1>5, <1>6 DEF Inv

(* A cancelled call.                                                       *)
LEMMA CancelledStep == ASSUME Inv, TestSpeedCancelled PROVE Inv'
<1>1. PICK T \in SUBSET Queued, m \in Measured :
        \E D \in SUBSET (Node \ T) :
           /\ call = "none" /\ Ran(FALSE) /\ Stream(T, D, m)
           /\ \/ \E S \in SUBSET Tested(T, m) : Succeed(S, m)
              \/ Fail(Tested(T, m), m)
  BY DEF TestSpeedCancelled
<1>6. T \in SUBSET Node
  BY DEF Queued, Of
<1>2. runs' = runs + 1 /\ complete' = FALSE /\ UNCHANGED <<check, listed>>
  BY <1>1 DEF Ran
<1>3. CacheInv' /\ KeptUnlessListed'
  BY <1>1, <1>2, <1>6, StreamKeeps
<1>4. ListsInv'
  <2>1. CASE \E S \in SUBSET Tested(T, m) : Succeed(S, m)
    <3>1. PICK S \in SUBSET Tested(T, m) : Succeed(S, m)
      BY <2>1
    <3> QED BY <1>2, <1>6, <3>1, SucceedKeeps
  <2>2. CASE Fail(Tested(T, m), m)
    BY <1>2, <2>2, FailKeeps DEF Fail
  <2> QED BY <1>1, <2>1, <2>2
<1>5. CountsInv'
  BY <1>2 DEF CountsInv
<1> QED BY <1>3, <1>4, <1>5 DEF Inv

-----------------------------------------------------------------------------
(* The other steps *)

(* Without a TestSpeed call the lists, the counters and what the call      *)
(* wasted stay.                                                            *)
LEMMA QuietKeeps ==
    ASSUME Inv,
           UNCHANGED <<fate, runs, tested, results, counters, okRuns, complete>>
    PROVE  /\ CountsInv'
           /\ check' \in [Node -> Checks \cup {"none"}] => ListsInv'
<1>1. AliveProxies' = AliveProxies
  BY DEF AliveProxies, Alive
<1>2. CountsInv'
  BY <1>1 DEF Inv, CountsInv, Of
<1>3. check' \in [Node -> Checks \cup {"none"}] => ListsInv'
  BY DEF Inv, ListsInv
<1> QED BY <1>2, <1>3

(* Stop, Ask, Refused and a stuttering step.                               *)
LEMMA StillStep ==
    ASSUME Inv, UNCHANGED <<fate, runs, tested, results, counters, check, cache,
                            history>>
    PROVE  Inv'
<1>1. CacheInv' /\ KeptUnlessListed'
  BY DEF Inv, CacheInv, KeptUnlessListed, history
<1>2. CountsInv' /\ ListsInv'
  BY QuietKeeps DEF history, Inv, ListsInv
<1> QED BY <1>1, <1>2 DEF Inv

(* An expired entry.                                                       *)
LEMMA ExpireStep ==
    ASSUME Inv, NEW k \in DOMAIN cache, Expire(k), UNCHANGED fate PROVE Inv'
<1>1. cache' = [l \in DOMAIN cache \ {k} |-> cache[l]]
  BY DEF Expire
<1>2. CacheInv'
  BY <1>1 DEF Expire, history, Inv, CacheInv
<1>3. KeptUnlessListed'
  BY DEF Expire, history, Inv, KeptUnlessListed
<1>4. CountsInv' /\ ListsInv'
  BY QuietKeeps DEF Expire, history, Inv, ListsInv
<1> QED BY <1>2, <1>3, <1>4 DEF Inv

(* An accessor marks no node it does not list.                             *)
LEMMA ServeStep ==
    ASSUME Inv, NEW a \in Accessor, Serve(a), UNCHANGED fate PROVE Inv'
<1> DEFINE S == Listing(a)
<1>1. S \in SUBSET DOMAIN results
  BY DEF Listing, AliveProxies, Alive, Accessor
<1>2. check' = [n \in Node |-> IF n \in S THEN results[n].checks ELSE check[n]]
  BY DEF Serve, Mark
<1>3. listed' = listed \cup S
  BY DEF Serve, Return
<1> HIDE DEF S
<1>4. check' \in [Node -> Checks \cup {"none"}]
  <2>1. \A n \in S : results[n].checks \in Checks
    BY <1>1 DEF Inv, ListsInv, Measure
  <2> QED BY <1>2, <2>1 DEF Inv, ListsInv
<1>5. CacheInv'
  BY <1>2, <1>3 DEF Serve, Return, Inv, CacheInv
<1>6. KeptUnlessListed'
  BY <1>3 DEF Serve, Return, Inv, KeptUnlessListed
<1>7. CountsInv' /\ ListsInv'
  BY <1>4, QuietKeeps DEF Serve, Return
<1> QED BY <1>5, <1>6, <1>7 DEF Inv

(* Every step keeps the invariant.                                         *)
LEMMA StepInv == Inv /\ [Next]_vars => Inv'
<1> SUFFICES ASSUME Inv, [Next]_vars PROVE Inv'
  OBVIOUS
<1>0. UNCHANGED fate
  BY DEF Next, vars
<1>1. CASE TestSpeed
  BY <1>0, <1>1, TestSpeedStep
<1>2. CASE TestSpeedCancelled
  BY <1>2, CancelledStep
<1>3. CASE Stop
  BY <1>0, <1>3, StillStep DEF Stop
<1>4. CASE Refused
  BY <1>0, <1>4, StillStep DEF Refused
<1>5. ASSUME NEW a \in Accessor, Ask(a) PROVE Inv'
  BY <1>0, <1>5, StillStep DEF Ask
<1>6. ASSUME NEW a \in Accessor, Serve(a) PROVE Inv'
  BY <1>0, <1>6, ServeStep
<1>7. ASSUME NEW k \in DOMAIN cache, Expire(k) PROVE Inv'
  BY <1>0, <1>7, ExpireStep
<1>8. CASE UNCHANGED vars
  BY <1>8, StillStep DEF vars
<1> QED BY <1>1, <1>2, <1>3, <1>4, <1>5, <1>6, <1>7, <1>8 DEF Next, TestFirst

(* The inductive invariant holds in every reachable state.                 *)
THEOREM Invariance == Spec => []Inv
<1>1. Init => Inv
  BY InitInv
<1>2. Inv /\ [Next]_vars => Inv'
  BY StepInv
<1> QED BY <1>1, <1>2, PTL DEF Spec

(* Whatever the nodes, the calls, cancels and accessors: a node is         *)
(* measured again while a result of it is cached only when AliveProxies or *)
(* Proxies has listed it and so changed its key.                           *)
THEOREM KeptUntilListed == Spec => []KeptUnlessListed
<1>1. Inv => KeptUnlessListed
  BY DEF Inv
<1> QED BY <1>1, Invariance, PTL

-----------------------------------------------------------------------------
(* The reports *)

(* What Inv says of the nodes that are alive.                              *)
LEMMA AliveNodes ==
    ASSUME Inv
    PROVE  /\ AliveProxies \subseteq DOMAIN results /\ AliveProxies \in SUBSET Node
           /\ IsFiniteSet(AliveProxies)
           /\ \A n \in AliveProxies :
                 results[n].delay \in Nat /\ results[n].delay > 0
                 /\ results[n].checks \in Checks
<1>1. AliveProxies \subseteq DOMAIN results
      /\ \A n \in AliveProxies : results[n].delay > 0
  BY DEF AliveProxies, Alive
<1>2. \A n \in DOMAIN results : n \in Node /\ results[n] \in Measure
  BY DEF Inv, ListsInv
<1>3. \A n \in DOMAIN results : results[n].delay \in Nat /\ results[n].checks \in Checks
  BY <1>2, ReportsAssumption DEF Measure
<1>4. IsFiniteSet(AliveProxies)
  BY <1>1, <1>2, ReportsAssumption, FS_Subset
<1> QED BY <1>1, <1>2, <1>3, <1>4

(* No result is of a call later than the last one that returned no error.  *)
LEMMA ResultsOfCalls ==
    ASSUME Inv, NEW n \in DOMAIN results PROVE results[n].run <= Max(okRuns)
<1>1. PICK g \in okRuns : results[n].run <= g
  BY DEF Inv, ListsInv
<1>2. okRuns \subseteq Int /\ okRuns # {}
  BY <1>1 DEF Inv, ListsInv
<1>3. IsFiniteSet(okRuns)
  <2>1. runs \in Nat /\ okRuns \in SUBSET (1..runs)
    BY DEF Inv, ListsInv
  <2>2. IsFiniteSet(1..runs)
    BY <2>1, FS_Interval
  <2> QED BY <2>1, <2>2, FS_Subset
<1>4. Max(okRuns) \in okRuns /\ g <= Max(okRuns)
  BY <1>2, <1>3, MaxOfSet
<1>5. results[n].run \in Nat
  BY DEF Inv, ListsInv, Measure
<1>6. g \in Int /\ Max(okRuns) \in Int
  BY <1>2, <1>4
<1> QED BY <1>1, <1>4, <1>5, <1>6

(* The summary is within its bounds, its countries count the nodes alive.  *)
LEMMA SummaryOk ==
    ASSUME Inv, AliveProxies # {}
    PROVE  LET s == LogSummary
           IN  /\ 0 < s.min /\ s.min <= s.avg /\ s.avg <= s.max
               /\ SumFunctionOnSet(s.countries, Checks) = LogNum.alive
<1> DEFINE A == AliveProxies
           f == [n \in A |-> results[n].delay]
           D == {results[n].delay : n \in A}
           g == [n \in A |-> results[n].checks]
           c == [k \in Checks |-> Cardinality({n \in A : results[n].checks = k})]
<1>1. /\ LogSummary.min = Min(D) /\ LogSummary.max = Max(D)
      /\ LogSummary.avg = Sum(f, A) \div Cardinality(A)
      /\ LogSummary.countries = c
  BY DEF LogSummary, Sum
<1>2. IsFiniteSet(A) /\ A # {} /\ Ints(f, A) /\ D = {f[n] : n \in A}
  BY AliveNodes DEF Ints
<1>3. 0 < Min(D)
  <2>1. Min(D) \in D
    <3> HIDE DEF f, D, A
    <3> QED BY <1>2, MinOfValues
  <2> QED BY <2>1, AliveNodes
<1>4. /\ Min(D) <= Sum(f, A) \div Cardinality(A)
      /\ Sum(f, A) \div Cardinality(A) <= Max(D)
  <2> HIDE DEF f, D, A
  <2> QED BY <1>2, MeanBetween
<1>5. \A n \in A : g[n] = results[n].checks /\ g[n] \in Checks
  BY AliveNodes
<1>6. \A k \in Checks : c[k] = Cardinality(OfClass(A, g, k))
  <2>1. \A k \in Checks : OfClass(A, g, k) = {n \in A : results[n].checks = k}
    BY <1>5 DEF OfClass
  <2> QED BY <2>1
<1>7. Sum(c, Checks) = Cardinality(A)
  <2>1. IsFiniteSet(A) /\ IsFiniteSet(Checks) /\ \A n \in A : g[n] \in Checks
    BY <1>2, <1>5, ReportsAssumption
  <2> HIDE DEF c, g, A, f, D
  <2> QED BY <2>1, <1>6, CountByClass
<1>8. SumFunctionOnSet(LogSummary.countries, Checks) = LogNum.alive
  BY <1>1, <1>7 DEF Sum, LogNum
<1> HIDE DEF D, f, c, g
<1> QED BY <1>1, <1>3, <1>4, <1>8

(* Nothing is written that is empty.                                       *)
LEMMA WrittenAlive ==
    ASSUME Inv, WriteToYaml = "written" PROVE AliveProxies # {}
<1>1. tested \in BOOLEAN
  BY DEF Inv, ListsInv
<1>2. CASE ~tested
  BY <1>2 DEF WriteToYaml
<1>3. CASE tested /\ AliveProxies = {}
  BY <1>3 DEF WriteToYaml
<1> QED BY <1>1, <1>2, <1>3

(* After a whole call the numbers side by side are of the same nodes.      *)
LEMMA NumbersOk ==
    ASSUME Inv, complete
    PROVE  /\ DOMAIN results \subseteq Of({"testable"})
           /\ LogNum.processed = LogNum.total
           /\ LogNum.alive = counters.alive
           /\ LogNum.alive + LogNum.invalid
                = Cardinality(DOMAIN results \cup Of({"malformed", "untestable"}))
<1> DEFINE A == AliveProxies
           R == DOMAIN results
           M == Of({"malformed"})
           U == Of({"untestable"})
<1>1. /\ R \subseteq Of({"testable"})
      /\ counters.count = counters.total /\ counters.alive = Cardinality(A)
      /\ counters.invalid = Cardinality(M) + Cardinality(U) + Cardinality(R \ A)
  BY DEF Inv, CountsInv
<1>2. R \in SUBSET Node /\ M \in SUBSET Node /\ U \in SUBSET Node
  BY <1>1 DEF Of
<1>3. IsFiniteSet(R) /\ IsFiniteSet(M) /\ IsFiniteSet(U)
  BY <1>2, ReportsAssumption, FS_Subset
<1>4. R \cap (M \cup U) = {} /\ M \cap U = {}
  BY <1>1 DEF Of
<1>5. Of({"malformed", "untestable"}) = M \cup U
  BY DEF Of
<1>6. A \in SUBSET R
  BY AliveNodes
<1> HIDE DEF A, R, M, U
<1>7. /\ IsFiniteSet(M \cup U)
      /\ Cardinality(M \cup U) = Cardinality(M) + Cardinality(U) - Cardinality({})
  BY <1>3, <1>4, FS_Union
<1>8. Cardinality(R \cup (M \cup U))
        = Cardinality(R) + Cardinality(M \cup U) - Cardinality({})
  BY <1>3, <1>4, <1>7, FS_Union
<1>9. Cardinality(A) + Cardinality(R \ A) = Cardinality(R)
  BY <1>3, <1>6, PartAndRest
<1>10. Cardinality({}) = 0
  BY FS_EmptySet
<1>11. /\ Cardinality(M) \in Nat /\ Cardinality(U) \in Nat
       /\ Cardinality(A) \in Nat /\ Cardinality(R \ A) \in Nat
  <2>1. IsFiniteSet(A) /\ IsFiniteSet(R \ A)
    BY <1>3, <1>6, FS_Subset
  <2> QED BY <1>3, <2>1, FS_CardinalityType
<1>12. Cardinality(A) + (Cardinality(M) + Cardinality(U) + Cardinality(R \ A))
         = Cardinality(R \cup (M \cup U))
  BY <1>7, <1>8, <1>9, <1>10, <1>11
<1>13. /\ LogNum.processed = counters.count /\ LogNum.total = counters.total
       /\ LogNum.alive = Cardinality(A) /\ LogNum.invalid = counters.invalid
  BY DEF LogNum, A
<1> QED BY <1>1, <1>5, <1>12, <1>13 DEF R

(* Whatever the nodes, their delays and checks and the number of calls:    *)
(* what AliveProxies, WriteToYaml, LogNum and LogSummary report belongs    *)
(* together.                                                               *)
THEOREM ReportsBelongTogether == Spec => []ReportsAgree
<1>1. Inv => ReportsAgree
  <2> SUFFICES ASSUME Inv PROVE ReportsAgree
    OBVIOUS
  <2>1. tested = (okRuns # {})
    BY DEF Inv, ListsInv
  <2> QED BY <2>1, ResultsOfCalls, SummaryOk, WrittenAlive, NumbersOk DEF ReportsAgree
<1> QED BY <1>1, Invariance, PTL
=============================================================================
