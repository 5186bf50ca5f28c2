------------------------------- MODULE Reports -------------------------------
(***************************************************************************)
(* What a Test keeps of its TestSpeed calls and reports afterwards: the    *)
(* lists, the counters, the accessors, writers and LogNum of               *)
(* speedtest/speedtest.go, for one caller after the other, with a cache    *)
(* that lives on between the calls.                                        *)
(*                                                                         *)
(* The nodes are those of options.Proxies, whose configuration maps are    *)
(* used again by every call.  A map is its own content or, once AliveProxies *)
(* or Proxies has put "_check" into it, that and the check results.  How a *)
(* TestSpeed call gets its results is module TestSpeed's matter.           *)
(***************************************************************************)
EXTENDS Naturals, FiniteSets, FiniteSetsExt

CONSTANTS
    Node,         \* options.Proxies
    Delays,       \* Delay of a result, 0 when the node is dead
    Checks,       \* CheckResults of a result, which tell its country
    MaxRuns       \* bound on the TestSpeed calls

ASSUME ReportsAssumption ==
    /\ IsFiniteSet(Node) /\ IsFiniteSet(Checks)
    /\ Delays \subseteq Nat /\ "none" \notin Checks /\ MaxRuns \in Nat

VARIABLES
    fate,         \* Node -> what its name and its map make of it, see Fate
    runs,         \* TestSpeed calls so far
    stopped,      \* Stop was called
    tested,       \* _testedSpeed
    results,      \* results: the nodes it has, and their results
    counters,     \* totalCount, count, aliveCount, invalidCount
    check,        \* Node -> its "_check", or "none"
    cache,        \* the unexpired results, by cache key
    call,         \* the accessor called, or "none"
    okRuns,       \* history: the calls that returned no error, ...
    complete,     \* ... the latest was not cancelled, ...
    listed,       \* ... the nodes AliveProxies and Proxies returned, ...
    wasted        \* ... those the latest call measured though it is cached

history == <<okRuns, complete, listed, wasted>>
vars    == <<fate, runs, stopped, tested, results, counters, check, cache, call,
             history>>

Measure  == [run : 1..MaxRuns, delay : Delays, checks : Checks]
Accessor == {"AliveProxies", "Proxies", "WithResult"}

(* The name filter drops it; ParseProxy fails; testspeed returns nil as    *)
(* the type is built in or unsupported; or it is tested.                   *)
Fate     == {"filtered", "malformed", "untestable", "testable"}
Of(some) == {n \in Node : fate[n] \in some}
Queued   == Of({"untestable", "testable"})      \* what processProxy queues

Init ==
    /\ fate \in [Node -> Fate]
    /\ runs = 0 /\ stopped = FALSE /\ tested = FALSE
    /\ results = <<>>
    /\ counters = [total |-> 0, count |-> 0, alive |-> 0, invalid |-> 0]
    /\ check = [n \in Node |-> "none"]
    /\ cache = <<>>
    /\ call = "none"
    /\ okRuns = {} /\ complete = FALSE /\ listed = {} /\ wasted = {}

-----------------------------------------------------------------------------
(* TestSpeed *)

(* GenerateKey hashes the configuration map as it is now.                  *)
Key(n) == <<n, check[n]>>

Cached(n) == Key(n) \in DOMAIN cache

Alive(r, S) == {n \in S : r[n].delay > 0}

(* What the tests of a call would measure; the others would panic.         *)
Measured == UNION {[S -> {m \in Measure : m.run = runs + 1}] : S \in SUBSET Node}

(* A node has a result if it is cached, or its test gives one.             *)
Tested(T, m)  == {n \in T \cap Of({"testable"}) : Cached(n) \/ n \in DOMAIN m}
Results(S, m) == [n \in S |-> IF Cached(n) THEN cache[Key(n)] ELSE m[n]]

(* The call hands the nodes T to workers and counts the nodes D without:   *)
(* they are filtered, malformed, or dropped by processProxy on a cancel.   *)
(* Every result is stored, that of a cancelled test too.  A call that gets *)
(* to no node may have been cancelled before it counted them in total.     *)
Stream(T, D, m) ==
    LET G == Tested(T, m)
        A == Alive(Results(G, m), G)
    IN  /\ cache' = [k \in DOMAIN cache \cup {Key(n) : n \in G} |->
                        IF k \in DOMAIN cache THEN cache[k] ELSE m[k[1]]]
        /\ wasted' = {n \in T : ~Cached(n) /\ \E k \in DOMAIN cache : k[1] = n}
        /\ \E total \in {Cardinality(Node)} \cup (IF T \cup D = {} THEN {0} ELSE {}) :
              counters' = [total |-> total,
                           count |-> Cardinality(T) + Cardinality(D),
                           alive |-> Cardinality(A),
                           invalid |-> Cardinality(D \cap Of({"malformed"}))
                                       + Cardinality(T \cap Of({"untestable"}))
                                       + Cardinality(G \ A)]

Ran(whole) == /\ ~stopped /\ runs < MaxRuns
              /\ runs' = runs + 1 /\ complete' = whole
              /\ UNCHANGED <<stopped, check, call, listed>>

Stored(S, m) == results' = Results(S, m)

(* What comes after the error of the adds: the lists of this call.         *)
Succeed(S, m) == /\ tested' = TRUE /\ Stored(S, m)
                 /\ okRuns' = okRuns \cup {runs + 1}

TestSpeed ==
    \E m \in Measured : /\ Ran(TRUE) /\ Stream(Queued, Node \ Queued, m)
                        /\ Succeed(Tested(Queued, m), m)

(* Slip: the lists are stored before the error is looked at.               *)
FailAfterStore(T, m) == /\ tested' = TRUE /\ Stored(T, m)
                        /\ UNCHANGED okRuns

Fail(T, m) == UNCHANGED <<tested, results, okRuns>>

(* A cancel, by the caller's context: only some nodes are tested, not all  *)
(* of their results received.  It is an error only if it hit the adds.     *)
TestSpeedCancelled ==
    \E T \in SUBSET Queued, m \in Measured : \E D \in SUBSET (Node \ T) :
        /\ call = "none" /\ Ran(FALSE) /\ Stream(T, D, m)
        /\ \/ \E S \in SUBSET Tested(T, m) : Succeed(S, m)
           \/ Fail(Tested(T, m), m)

Stop == /\ ~stopped /\ call = "none" /\ stopped' = TRUE
        /\ UNCHANGED <<runs, tested, results, counters, check, cache, call, history>>

Expire(k) ==
    /\ k \in DOMAIN cache
    /\ cache' = [l \in DOMAIN cache \ {k} |-> cache[l]]
    /\ UNCHANGED <<runs, stopped, tested, results, counters, check, call, history>>

-----------------------------------------------------------------------------
(* The accessors; without a finished test they run one themselves *)

AliveProxies == Alive(results, DOMAIN results)

Ask(a) ==
    /\ call = "none" /\ call' = a
    /\ tested \/ stopped \/ runs < MaxRuns
    /\ UNCHANGED <<runs, stopped, tested, results, counters, check, cache, history>>

(* TestSpeed(context.Background()), which a stopped Test refuses.          *)
TestFirst == call # "none" /\ ~tested /\ TestSpeed

Refused ==
    /\ call # "none" /\ ~tested /\ stopped
    /\ call' = "none"
    /\ UNCHANGED <<runs, stopped, tested, results, counters, check, cache, history>>

(* AliveProxies and Proxies return the maps themselves, with "_check".     *)
Listing(a) == CASE a = "AliveProxies" -> AliveProxies
                [] a = "Proxies"      -> DOMAIN results
                [] OTHER              -> {}

Mark(S) == check' = [n \in Node |-> IF n \in S THEN results[n].checks ELSE check[n]]

Return(a) ==
    /\ call = a /\ tested /\ call' = "none"
    /\ listed' = listed \cup Listing(a)
    /\ UNCHANGED <<runs, stopped, tested, results, counters, cache, okRuns,
                   complete, wasted>>

(* Slip: the results, too, are returned with "_check" in their maps.       *)
ServeMarked(a) == Return(a) /\ Mark(DOMAIN results)

Serve(a) == Return(a) /\ Mark(Listing(a))

-----------------------------------------------------------------------------
(* What only reads: LogNum, LogSummary, WriteToYaml and WriteToCsv *)

LogNum == [total     |-> counters.total, processed |-> counters.count,
           invalid   |-> counters.invalid,
           alive     |-> Cardinality(AliveProxies)]

LogSummary ==
    LET D   == {results[n].delay : n \in AliveProxies}
        sum == SumFunctionOnSet([n \in AliveProxies |-> results[n].delay], AliveProxies)
    IN  [min |-> Min(D), max |-> Max(D), avg |-> sum \div Cardinality(AliveProxies),
         countries |-> [c \in Checks |->
                          Cardinality({n \in AliveProxies : results[n].checks = c})]]

WriteToYaml == CASE ~tested           -> "ErrSpeedNotTest"
                 [] tested /\ AliveProxies = {} -> "ErrSpeedNoAlive"
                 [] OTHER             -> "written"

-----------------------------------------------------------------------------
Next == /\ UNCHANGED fate
        /\ \/ call = "none" /\ TestSpeed
           \/ TestSpeedCancelled \/ Stop \/ TestFirst \/ Refused
           \/ \E a \in Accessor : Ask(a) \/ Serve(a)
           \/ \E k \in DOMAIN cache : Expire(k)
           \/ call = "none" /\ UNCHANGED vars

Spec == Init /\ [][Next]_vars

-----------------------------------------------------------------------------
(* Properties *)

(* What is reported belongs together: the lists are of TestSpeed calls     *)
(* that returned no error, an empty report is an error, the summary is     *)
(* within its bounds.  And unless a cancel came between them, the lists    *)
(* and the counters LogNum prints side by side speak of the same nodes:    *)
(* all of them are processed, and only those that the name filter drops or *)
(* whose test panicked are neither alive nor invalid.                      *)
ReportsAgree ==
    /\ tested = (okRuns # {})
    /\ \A n \in DOMAIN results : results[n].run <= Max(okRuns)
    /\ WriteToYaml = "written" => AliveProxies # {}
    /\ AliveProxies # {} =>
          LET s == LogSummary
          IN  /\ 0 < s.min /\ s.min <= s.avg /\ s.avg <= s.max
              /\ SumFunctionOnSet(s.countries, Checks) = LogNum.alive
    /\ tested /\ complete =>
          /\ DOMAIN results \subseteq Of({"testable"})
          /\ LogNum.processed = LogNum.total
          /\ LogNum.alive = counters.alive
          /\ LogNum.alive + LogNum.invalid
                = Cardinality(DOMAIN results \cup Of({"malformed", "untestable"}))

(* A node whose result is still cached is not measured again - unless      *)
(* AliveProxies or Proxies has listed it, which changes its cache key.     *)
KeptUnlessListed == wasted \subseteq listed
=============================================================================
