----------------------------- MODULE ResultCache -----------------------------
(***************************************************************************)
(* DefaultCache of speedtest/cache.go: Get, Set, the cleanup goroutine and *)
(* Close.  The map is a sync.Map, so a load, a store and a delete are one  *)
(* step each, and nothing protects the steps between them; the fields that *)
(* Close clears are plain.                                                 *)
(*                                                                         *)
(* Time is the step that lets a stored result expire.                      *)
(***************************************************************************)
CONSTANTS
    Key,          \* cache keys: one for all nodes of equal configuration
    Value,        \* what is stored
    NoValue       \* nothing stored

ASSUME CacheAssumption == NoValue \notin Value

VARIABLES
    item,         \* Key -> the stored value, or NoValue
    expired,      \* the keys whose item has expired
    sweep,        \* the keys an ongoing Range has not visited, ...
    sweepAt,      \* ... and the key it is about to delete, or "none"
    gpc,          \* program counter of the cleanup goroutine
    cacheClose,   \* program counter of Close
    stopClosed,   \* stopChan is closed
    stopNil,      \* the field stopChan is nil
    tickerNil,    \* the field cleanupTicker is nil
    cacheFault    \* the panic of the cleanup goroutine, or "none"

storeVars   == <<item, expired>>
cleanupVars == <<sweep, sweepAt, gpc>>
closeVars   == <<cacheClose, stopClosed, stopNil, tickerNil>>
cacheVars   == <<item, expired, sweep, sweepAt, gpc, cacheClose, stopClosed,
                 stopNil, tickerNil, cacheFault>>

CacheTypeOK ==
    /\ item \in [Key -> Value \cup {NoValue}]
    /\ expired \subseteq Key /\ sweep \subseteq Key
    /\ sweepAt \in Key \cup {"none"}
    /\ gpc \in {"eval", "select", "deaf", "stopped", "sweep", "delete", "end"}
    /\ cacheClose \in {"idle", "chanNil", "stop", "tickerNil", "done"}
    /\ {stopClosed, stopNil, tickerNil} \subseteq BOOLEAN
    /\ cacheFault \in {"none", "nil cleanupTicker"}

(* NewDefaultCache, and the cleanup goroutine it starts.                   *)
CacheInit ==
    /\ item = [k \in Key |-> NoValue]
    /\ expired = {} /\ sweep = {} /\ sweepAt = "none"
    /\ gpc = "eval" /\ cacheClose = "idle"
    /\ stopClosed = FALSE /\ stopNil = FALSE /\ tickerNil = FALSE
    /\ cacheFault = "none"

CacheUp == cacheFault = "none"

-----------------------------------------------------------------------------
(* Get and Set, as their callers take part in them *)

Stored(k)  == item[k] # NoValue
Expired(k) == Stored(k) /\ k \in expired

(* The Delete of Get and of cleanup: whatever is stored by then goes.      *)
Delete(k) ==
    /\ item' = [item EXCEPT ![k] = NoValue]
    /\ expired' = expired \ {k}

Set(k, v) ==
    /\ item' = [item EXCEPT ![k] = v]
    /\ expired' = expired \ {k}

Expire(k) ==
    /\ CacheUp /\ Stored(k) /\ k \notin expired
    /\ expired' = expired \cup {k}
    /\ UNCHANGED <<item, cleanupVars, closeVars, cacheFault>>

-----------------------------------------------------------------------------
(* The cleanup goroutine *)

(* The select evaluates c.cleanupTicker.C and c.stopChan; with a nil       *)
(* stopChan it is deaf to Close.                                           *)
Evaluate ==
    /\ CacheUp /\ gpc = "eval"
    /\ IF tickerNil
       THEN cacheFault' = "nil cleanupTicker" /\ UNCHANGED gpc
       ELSE /\ gpc' = IF stopNil THEN "deaf" ELSE "select"
            /\ UNCHANGED cacheFault
    /\ UNCHANGED <<storeVars, sweep, sweepAt, closeVars>>

CleanupTick ==
    /\ CacheUp /\ gpc \in {"select", "deaf"}
    /\ cacheClose \notin {"tickerNil", "done"}     \* the ticker is not stopped
    /\ gpc' = "sweep"
    /\ sweep' = Key
    /\ UNCHANGED <<storeVars, sweepAt, closeVars, cacheFault>>

CleanupStop ==
    /\ CacheUp /\ gpc = "select" /\ stopClosed
    /\ gpc' = "stopped"
    /\ UNCHANGED <<storeVars, sweep, sweepAt, closeVars, cacheFault>>

(* c.cleanupTicker.Stop() in the goroutine: the field is read here.        *)
StopCleanupTicker ==
    /\ CacheUp /\ gpc = "stopped"
    /\ IF tickerNil THEN cacheFault' = "nil cleanupTicker" /\ UNCHANGED gpc
                    ELSE gpc' = "end" /\ UNCHANGED cacheFault
    /\ UNCHANGED <<storeVars, sweep, sweepAt, closeVars>>

Sweep(k) ==
    /\ CacheUp /\ gpc = "sweep" /\ k \in sweep
    /\ sweep' = sweep \ {k}
    /\ IF Expired(k) THEN gpc' = "delete" /\ sweepAt' = k
                     ELSE UNCHANGED <<gpc, sweepAt>>
    /\ UNCHANGED <<storeVars, closeVars, cacheFault>>

SweepDelete ==
    /\ CacheUp /\ gpc = "delete"
    /\ Delete(sweepAt)
    /\ gpc' = "sweep" /\ sweepAt' = "none"
    /\ UNCHANGED <<sweep, closeVars, cacheFault>>

SweepEnd ==
    /\ CacheUp /\ gpc = "sweep" /\ sweep = {}
    /\ gpc' = "eval"
    /\ UNCHANGED <<storeVars, sweep, sweepAt, closeVars, cacheFault>>

-----------------------------------------------------------------------------
(* Close of a cache that is not the shared instance *)

CloseStep(from, to) == /\ CacheUp /\ cacheClose = from /\ cacheClose' = to
                       /\ UNCHANGED <<storeVars, cleanupVars, cacheFault>>

CloseCache ==
    /\ CloseStep("idle", "chanNil")
    /\ stopClosed' = TRUE
    /\ UNCHANGED <<stopNil, tickerNil>>

ClearStopChan ==
    /\ CloseStep("chanNil", "stop")
    /\ stopNil' = TRUE
    /\ UNCHANGED <<stopClosed, tickerNil>>

CloseTicker ==
    /\ CloseStep("stop", "tickerNil")
    /\ UNCHANGED <<stopClosed, stopNil, tickerNil>>

ClearCacheTicker ==
    /\ CloseStep("tickerNil", "done")
    /\ tickerNil' = TRUE
    /\ UNCHANGED <<stopClosed, stopNil>>

-----------------------------------------------------------------------------
Cleanup == \/ Evaluate \/ CleanupTick
           \/ \E k \in Key : Sweep(k)
           \/ SweepDelete \/ SweepEnd
Closing == \/ CloseCache \/ ClearStopChan \/ CloseTicker \/ ClearCacheTicker
           \/ CleanupStop \/ StopCleanupTicker

(* The cache alone, with callers that store.                               *)
CacheNext == \/ Cleanup \/ Closing
             \/ \E k \in Key : \/ Expire(k)
                               \/ /\ CacheUp
                                  /\ \E v \in Value : Set(k, v)
                                  /\ UNCHANGED <<cleanupVars, closeVars, cacheFault>>
             \/ ~CacheUp /\ UNCHANGED cacheVars

CacheSpec == CacheInit /\ [][CacheNext]_cacheVars

-----------------------------------------------------------------------------
(* Close ends the cleanup goroutine ("关闭缓存，停止清理协程") rather than  *)
(* have it dereference a field that Close has cleared.                     *)
CloseStopsCleanup == CacheUp
=============================================================================
