------------------------------ MODULE NodeTest ------------------------------
(***************************************************************************)
(* What a worker of RunStream does with its node: testspeed of             *)
(* speedtest/utils.go.  It looks the node up in the cache of ResultCache,  *)
(* tests it as module ProxyTest says, and stores what came of it.  Several *)
(* workers, some with nodes of one cache key, share the cache.             *)
(***************************************************************************)
EXTENDS ResultCache, ProxyTest

CONSTANT KeyOf          \* Worker -> the cache key of its node

ASSUME NodeTestAssumption ==
    /\ KeyOf \in [Worker -> Key]
    /\ Value = [by : Worker, alive : BOOLEAN]

VARIABLES
    at,           \* Worker -> lookup, evict, type, test or done
    result        \* Worker -> what testspeed returned, or NoValue

vars == <<cacheVars, test, at, result>>

TypeOK ==
    /\ CacheTypeOK /\ TestTypeOK
    /\ at \in [Worker -> {"lookup", "evict", "type", "test", "done"}]
    /\ result \in [Worker -> Value \cup {NoValue}]

Init ==
    /\ CacheInit /\ TestInit
    /\ at = [w \in Worker |-> "lookup"]
    /\ result = [w \in Worker |-> NoValue]

Step(w, from, to) == CacheUp /\ at[w] = from /\ at' = [at EXCEPT ![w] = to]

Returns(w, v) == result' = [result EXCEPT ![w] = v]

(* Get: the item is loaded; an expired one is deleted in a later step.     *)
Lookup(w) ==
    LET k == KeyOf[w] IN
    /\ IF Stored(k) /\ ~Expired(k)
       THEN Step(w, "lookup", "done") /\ Returns(w, item[k])
       ELSE /\ Step(w, "lookup", IF Stored(k) THEN "evict" ELSE "type")
            /\ UNCHANGED result
    /\ UNCHANGED <<cacheVars, test>>

Evict(w) ==
    /\ Step(w, "evict", "type")
    /\ Delete(KeyOf[w])
    /\ UNCHANGED <<cleanupVars, closeVars, cacheFault, test, result>>

Supported(w) ==
    /\ Step(w, "type", "test")
    /\ Begin(w)
    /\ UNCHANGED <<cacheVars, result>>

(* A built-in or unsupported type: no result.                              *)
Untestable(w) ==
    /\ Step(w, "type", "done")
    /\ UNCHANGED <<cacheVars, test, result>>

Measured(w) == [by |-> w, alive |-> test[w].stats.min > 0]

(* Set, whatever made the result.                                          *)
Store(w) ==
    /\ test[w].pc = "done" /\ Step(w, "test", "done")
    /\ Returns(w, Measured(w))
    /\ Set(KeyOf[w], Measured(w))
    /\ UNCHANGED <<cleanupVars, closeVars, cacheFault, test>>

Testing(w) ==
    /\ CacheUp /\ at[w] = "test" /\ TestStep(w)
    /\ UNCHANGED <<cacheVars, at, result>>

(* The cache is not closed while tests use it: see ResultCache for Close.  *)
CacheStep == /\ \/ Cleanup
                \/ \E k \in Key : Expire(k)
             /\ UNCHANGED <<test, at, result>>

Next == \/ \E w \in Worker : \/ Lookup(w) \/ Evict(w)
                             \/ Supported(w) \/ Untestable(w)
                             \/ Testing(w) \/ Store(w)
        \/ CacheStep

Spec == Init /\ [][Next]_vars

-----------------------------------------------------------------------------
(* Properties *)

Tested(w) == result[w] # NoValue
Delays(w) == Probe(result[w].by, "delay")      \* of the test behind a result

(* A node is reported alive only if it, or a node of the same cache key,   *)
(* answered a probe of the test that made the result.                      *)
AliveWasReached ==
    \A w \in Worker : Tested(w) /\ result[w].alive =>
        /\ UrlOk(result[w].by, "delay")
        /\ KeyOf[result[w].by] = KeyOf[w]

(* A node is reported dead by a test that no timeout touched only after    *)
(* every probe of it failed, or one was answered in the first millisecond. *)
DeadWasTried ==
    \A w \in Worker :
        Tested(w) /\ ~result[w].alive /\ test[result[w].by].ctx = "live" =>
            \/ Delays(w).best = 0
            \/ Delays(w).best = NoDelay /\ Delays(w).failed = Tries + 1

(* When a test returns, nothing it started still uses its client.          *)
QuietAtResult ==
    \A w \in Worker : test[w].pc = "done" =>
        /\ ~test[w].bandwidth
        /\ \A u \in Target : Probe(w, u).running = 0
        /\ \A j \in Job : ~Asking(w, j)

(* The loss rate of a node that is reached is over the samples asked for:  *)
(* each of them gave a delay or is lost, wherever among them the time ran  *)
(* out, and none counts twice.                                             *)
SamplesAccounted ==
    \A w \in Worker :
        test[w].pc \in {"tasks", "done"} /\ test[w].stats.min > 0 =>
            Len(test[w].delays) + test[w].lost = Samples
=============================================================================
