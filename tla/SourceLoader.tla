---------------------------- MODULE SourceLoader ----------------------------
(***************************************************************************)
(* LoadManyStreamBatched of speedtest/source_loader.go: a feeder hands the *)
(* sources to worker goroutines, each reads and parses its source and      *)
(* passes the batches it finds to the callback fn, one at a time under     *)
(* callbackMu; the caller waits for the first callback error, the end of   *)
(* all workers, or the context - whichever it notices first.               *)
(*                                                                         *)
(* What a source contains is given: the batches it yields, in order.  That *)
(* a source or one of the providers it names cannot be read is a choice.   *)
(***************************************************************************)
EXTENDS Naturals, Sequences

CONSTANTS
    Source,       \* the parts of the "|" separated source strings
    Batch,        \* the batches they hold
    BatchesOf,    \* Source -> the sequence of batches it yields
    Remote,       \* the sources that are URLs; the others are files
    RetryTimes,   \* how often Request repeats a request, 3
    Loader        \* the worker goroutines (min(SourceConcurrency, sources))

ASSUME LoaderAssumption ==
    /\ BatchesOf \in [Source -> Seq(Batch)]
    /\ Remote \subseteq Source /\ RetryTimes \in Nat
    /\ Loader # {}

VARIABLES
    srcState,     \* Source -> waiting, taken, loaded or skipped
    lpc,          \* Loader -> program counter
    src,          \* Loader -> the source in hand, or "none"
    retries,      \* Loader -> how often Request has repeated its request
    left,         \* Loader -> the batches it still has to deliver
    fnState,      \* Batch -> what became of the call fn(batch)
    mutex,        \* callbackMu is held
    callbackErr,  \* fn has failed
    errCh,        \* buffer of errCh: "empty", "err"
    errClosed,    \* errCh is closed
    partsClosed,  \* partsCh is closed
    parentDone,   \* the caller's context is cancelled
    innerDone,    \* the derived context is cancelled
    mpc,          \* program counter of LoadManyStreamBatched itself
    ret           \* what it returned

sourceVars == <<srcState, src, retries>>
workVars   == <<sourceVars, lpc, left, fnState>>
errVars    == <<callbackErr, errCh, errClosed>>
lockVars   == <<mutex, errVars>>
ctxVars    == <<partsClosed, parentDone>>
mainVars   == <<mpc, ret>>
vars       == <<workVars, lockVars, ctxVars, innerDone, mainVars>>

TypeOK ==
    /\ srcState \in [Source -> {"waiting", "taken", "loaded", "skipped"}]
    /\ lpc \in [Loader -> {"range", "read", "pause", "check", "lock", "fn",
                          "cancel", "post", "failed", "ctx", "exit"}]
    /\ src \in [Loader -> Source \cup {"none"}]
    /\ \A w \in Loader : lpc[w] \notin {"range", "exit"} => src[w] \in Source
    /\ retries \in [Loader -> 0..RetryTimes]
    /\ left \in [Loader -> Seq(Batch)]
    /\ fnState \in [Batch -> {"none", "running", "ok", "err"}]
    /\ errCh \in {"empty", "err"}
    /\ {mutex, callbackErr, errClosed, partsClosed, parentDone, innerDone}
         \subseteq BOOLEAN
    /\ mpc \in {"select", "lock", "returned"}
    /\ ret \in {"none", "nil", "err", "ctxErr"}

Init ==
    /\ srcState = [s \in Source |-> "waiting"]
    /\ lpc = [w \in Loader |-> "range"]
    /\ src = [w \in Loader |-> "none"] /\ retries = [w \in Loader |-> 0]
    /\ left = [w \in Loader |-> <<>>]
    /\ fnState = [b \in Batch |-> "none"]
    /\ mutex = FALSE /\ callbackErr = FALSE
    /\ errCh = "empty" /\ errClosed = FALSE
    /\ partsClosed = FALSE /\ parentDone = FALSE /\ innerDone = FALSE
    /\ mpc = "select" /\ ret = "none"

(* A worker moves on; it leaves the contexts to others, but see            *)
(* CancelInner.                                                            *)
Goto(w, pc) == /\ lpc' = [lpc EXCEPT ![w] = pc]
               /\ UNCHANGED <<ctxVars, innerDone, mainVars>>

Same == UNCHANGED <<sourceVars, left, fnState, lockVars>>

-----------------------------------------------------------------------------
(* The feeder goroutine: partsCh has no buffer *)

Feed(w, s) ==
    /\ ~partsClosed /\ srcState[s] = "waiting" /\ lpc[w] = "range"
    /\ srcState' = [srcState EXCEPT ![s] = "taken"]
    /\ src' = [src EXCEPT ![w] = s]
    /\ retries' = [retries EXCEPT ![w] = 0]
    /\ Goto(w, "read")
    /\ UNCHANGED <<left, fnState, lockVars>>

FeedOver == /\ ~partsClosed /\ partsClosed' = TRUE
            /\ UNCHANGED <<workVars, lockVars, parentDone, innerDone, mainVars>>

(* Slip: the feeder does not watch the context.                            *)
FeederIgnoresCtx == FeedOver /\ \A s \in Source : srcState[s] # "waiting"

(* All sources handed out, or the context seen cancelled.                  *)
FeederEnd == /\ FeedOver
             /\ innerDone \/ \A s \in Source : srcState[s] # "waiting"

-----------------------------------------------------------------------------
(* A worker goroutine *)

RangeEnd(w) == lpc[w] = "range" /\ partsClosed /\ Goto(w, "exit") /\ Same

(* Slip: a failed request is repeated, but not counted.                    *)
RequestFailsUncounted(w) ==
    /\ lpc[w] = "read" /\ src[w] \in Remote
    /\ Goto(w, IF retries[w] < RetryTimes THEN "pause" ELSE "failed")
    /\ Same

(* Request got no answer: it pauses and tries again, RetryTimes times.     *)
RequestFails(w) ==
    /\ lpc[w] = "read" /\ src[w] \in Remote
    /\ IF retries[w] < RetryTimes
       THEN Goto(w, "pause") /\ retries' = [retries EXCEPT ![w] = @ + 1]
       ELSE Goto(w, "failed") /\ UNCHANGED retries
    /\ UNCHANGED <<srcState, src, left, fnState, lockVars>>

(* The pause watches the context, and a request under a dead one fails.    *)
PauseOver(w) ==
    lpc[w] = "pause" /\ Goto(w, IF innerDone THEN "failed" ELSE "read") /\ Same

(* The file, or an answer with status 200, and it can be parsed.           *)
ReadOk(w) ==
    /\ lpc[w] = "read"
    /\ left' = [left EXCEPT ![w] = BatchesOf[src[w]]]
    /\ Goto(w, "check")
    /\ UNCHANGED <<sourceVars, fnState, lockVars>>

(* No such file, another status, not to be parsed; or, between two         *)
(* batches, one of the providers the source names fails.                   *)
SourceFails(w) ==
    /\ lpc[w] = "read" \/ (lpc[w] = "check" /\ left[w] # <<>>)
    /\ Goto(w, "failed") /\ Same

(* ctx.Err() before the nodes of the next batch.                           *)
Check(w) ==
    /\ lpc[w] = "check" /\ left[w] # <<>>
    /\ Goto(w, IF innerDone THEN "failed" ELSE "lock") /\ Same

Finish(w, as) == /\ srcState' = [srcState EXCEPT ![src[w]] = as]
                 /\ src' = [src EXCEPT ![w] = "none"]
                 /\ Goto(w, "range")
                 /\ UNCHANGED <<retries, left, fnState, lockVars>>

SourceDone(w) == lpc[w] = "check" /\ left[w] = <<>> /\ Finish(w, "loaded")

CallFn(w) == /\ lpc[w] = "lock" /\ ~callbackErr
             /\ mutex' = TRUE
             /\ fnState' = [fnState EXCEPT ![Head(left[w])] = "running"]
             /\ Goto(w, "fn")
             /\ UNCHANGED <<sourceVars, left, errVars>>

(* Slip: callbackMu is not taken around fn.                                *)
EnterUnlocked(w) == CallFn(w)

(* callback: the mutex, then fn unless an earlier fn failed.               *)
EnterFn(w) == ~mutex /\ CallFn(w)

Refused(w) == lpc[w] = "lock" /\ ~mutex /\ callbackErr /\ Goto(w, "failed") /\ Same

FnOk(w) ==
    /\ lpc[w] = "fn"
    /\ fnState' = [fnState EXCEPT ![Head(left[w])] = "ok"]
    /\ left' = [left EXCEPT ![w] = Tail(@)]
    /\ mutex' = FALSE
    /\ Goto(w, "check")
    /\ UNCHANGED <<sourceVars, errVars>>

(* fn failed: the error is kept, the context cancelled, the error offered  *)
(* to errCh - all before the mutex is released.                            *)
FnErr(w) ==
    /\ lpc[w] = "fn"
    /\ fnState' = [fnState EXCEPT ![Head(left[w])] = "err"]
    /\ callbackErr' = TRUE
    /\ Goto(w, "cancel")
    /\ UNCHANGED <<sourceVars, left, mutex, errCh, errClosed>>

CancelInner(w) ==
    /\ lpc[w] = "cancel" /\ lpc' = [lpc EXCEPT ![w] = "post"]
    /\ innerDone' = TRUE
    /\ Same /\ UNCHANGED <<ctxVars, mainVars>>

Post(w) ==
    /\ lpc[w] = "post"
    /\ errCh' = "err" /\ mutex' = FALSE
    /\ Goto(w, "failed")
    /\ UNCHANGED <<sourceVars, left, fnState, callbackErr, errClosed>>

(* LoadStream returned an error: after a failed fn the worker ends, ...    *)
Aborted(w) ==
    /\ lpc[w] = "failed" /\ ~mutex
    /\ Goto(w, IF callbackErr THEN "exit" ELSE "ctx") /\ Same

(* Slips: any failing source ends its worker; a failing source is read     *)
(* again after its name was dropped.                                       *)
FailureEndsWorker(w)  == lpc[w] = "ctx" /\ Goto(w, "exit") /\ Same
RetryWithoutSource(w) ==
    /\ lpc[w] = "ctx"
    /\ src' = [src EXCEPT ![w] = "none"]
    /\ Goto(w, IF innerDone THEN "exit" ELSE "read")
    /\ UNCHANGED <<srcState, retries, left, fnState, lockVars>>

(* ... and with a cancelled context; any other failing source is skipped.  *)
CtxOrSkip(w) ==
    /\ lpc[w] = "ctx"
    /\ IF innerDone THEN Goto(w, "exit") /\ Same ELSE Finish(w, "skipped")

-----------------------------------------------------------------------------
(* The closer goroutine, and LoadManyStreamBatched's own select *)

CloseErrCh ==
    /\ ~errClosed /\ \A w \in Loader : lpc[w] = "exit"
    /\ errClosed' = TRUE
    /\ UNCHANGED <<workVars, mutex, callbackErr, errCh, ctxVars, innerDone,
                   mainVars>>

SeeDone ==
    /\ mpc = "select" /\ innerDone
    /\ mpc' = "lock"
    /\ UNCHANGED <<workVars, lockVars, ctxVars, innerDone, ret>>

(* Returning runs the deferred cancel.                                     *)
Return(r) == /\ mpc' = "returned" /\ ret' = r
             /\ innerDone' = TRUE
             /\ UNCHANGED <<workVars, lockVars, ctxVars>>

FirstErr == IF callbackErr THEN "err" ELSE "ctxErr"

(* Slips: the callback's error is not looked at; it is read without the    *)
(* mutex; a skipped source makes the whole load fail.                      *)
ReturnCtxErr    == mpc = "lock" /\ ~mutex /\ Return("ctxErr")
ReturnUnlocked  == mpc = "lock" /\ Return(FirstErr)
ReturnSkipsFail ==
    /\ mpc = "select" /\ errCh = "empty" /\ errClosed
    /\ Return(IF \E s \in Source : srcState[s] = "skipped" THEN "err" ELSE "nil")

ReturnDone == mpc = "lock" /\ ~mutex /\ Return(FirstErr)
ReturnErr  == mpc = "select" /\ errCh = "err" /\ Return("err")
ReturnNil  == mpc = "select" /\ errCh = "empty" /\ errClosed /\ Return("nil")

Cancel ==
    /\ ~parentDone /\ parentDone' = TRUE
    /\ UNCHANGED <<workVars, lockVars, partsClosed, innerDone, mainVars>>

PropagateCancel ==
    /\ parentDone /\ ~innerDone /\ innerDone' = TRUE
    /\ UNCHANGED <<workVars, lockVars, ctxVars, mainVars>>

-----------------------------------------------------------------------------
(* Everything a worker does outside fn; fn itself is the caller's code.    *)
Load(w) == \/ RangeEnd(w) \/ RequestFails(w) \/ PauseOver(w) \/ ReadOk(w)
           \/ SourceFails(w) \/ Check(w) \/ SourceDone(w) \/ Refused(w)
           \/ CancelInner(w) \/ Post(w) \/ Aborted(w) \/ CtxOrSkip(w)
Feeder  == FeederEnd \/ \E w \in Loader, s \in Source : Feed(w, s)
Main    == SeeDone \/ ReturnDone \/ ReturnErr \/ ReturnNil

Internal == \/ \E w \in Loader : Load(w)
            \/ Feeder \/ Main \/ CloseErrCh \/ PropagateCancel

Finished == mpc = "returned" /\ errClosed /\ partsClosed

Next == \/ Internal
        \/ \E w \in Loader : EnterFn(w) \/ FnOk(w) \/ FnErr(w)
        \/ Cancel
        \/ Finished /\ UNCHANGED vars

Spec == Init /\ [][Next]_vars

(* Requests end (they carry a timeout), fn returns, goroutines are scheduled. *)
Fairness == /\ \A w \in Loader : WF_vars(Load(w)) /\ SF_vars(EnterFn(w))
                                   /\ WF_vars(FnOk(w) \/ FnErr(w))
                                   /\ SF_vars(Aborted(w))
            /\ WF_vars(Feeder) /\ WF_vars(CloseErrCh) /\ WF_vars(PropagateCancel)
            /\ WF_vars(SeeDone \/ ReturnErr \/ ReturnNil) /\ SF_vars(ReturnDone)

FairSpec == Spec /\ Fairness

-----------------------------------------------------------------------------
(* Properties *)

(* fn is never entered by two workers at once, nor after it failed once:   *)
(* the callers' fn is not written for that ("fn errors abort immediately").*)
FnSerial ==
    /\ \A v, w \in Loader : lpc[v] = "fn" /\ lpc[w] = "fn" => v = w
    /\ \A b, c \in Batch : fnState[b] = "err" =>
          fnState[c] # "running" /\ (fnState[c] = "err" => b = c)

(* nil means nothing was lost: fn failed for no batch and, unless the      *)
(* caller cancelled, every source was loaded to its end or skipped.        *)
NilMeansComplete ==
    ret = "nil" =>
        /\ \A b \in Batch : fnState[b] # "err"
        /\ ~parentDone =>
              \A s \in Source :
                  /\ srcState[s] \in {"loaded", "skipped"}
                  /\ srcState[s] = "loaded" =>
                        \A i \in 1..Len(BatchesOf[s]) :
                            fnState[BatchesOf[s][i]] = "ok"

(* A callback error is what the caller gets, never the context error its   *)
(* own cancel() provokes.                                                  *)
ErrorReported ==
    /\ ret = "err" => \E b \in Batch : fnState[b] = "err"
    /\ ret = "ctxErr" => parentDone

(* Without a cancel by the caller, fn is over for good once the call has   *)
(* returned.                                                               *)
FnOverAtReturn ==
    mpc = "returned" /\ ~parentDone =>
        \A w \in Loader : lpc[w] \notin {"fn", "cancel", "post"}

(* The call returns, and leaves no goroutine behind.                       *)
LoaderEnds == <>(mpc = "returned" /\ errClosed /\ partsClosed)
=============================================================================
