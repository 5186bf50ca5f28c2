----------------------------- MODULE TestSpeed -----------------------------
(***************************************************************************)
(* TestSpeed of speedtest/speedtest.go: the engine of module Stream driven *)
(* by the goroutine that loads ConfigPath through SourceLoader and then    *)
(* adds options.Proxies, and by the loop that collects the results.        *)
(*                                                                         *)
(* Every batch of a source is one AddProxies call of Stream, begun by the  *)
(* loader's callback; Options.Proxies is one more.  One context serves     *)
(* RunStream, the adds and the loader (SharedCtx).  Meanwhile the caller   *)
(* may cancel it, and other goroutines may call Stop and CloseInput.       *)
(***************************************************************************)
EXTENDS Stream, Sequences

CONSTANTS
    Source,       \* the sources ConfigPath names
    BatchesOf,    \* Source -> the batches each yields; a batch is a Call
    Remote,       \* the sources that are URLs, ...
    RetryTimes,   \* ... and how often a failed request for one is repeated
    Loader,       \* the loader's workers
    Inline,       \* {the AddProxies call of options.Proxies}, or {}
    Meddling      \* what may happen meanwhile: Cancel, Stop, CloseInput

ASSUME TestSpeedAssumption ==
    /\ SharedCtx /\ Single = {}
    /\ ~Orderly                \* when it closes the input is in its own code
    /\ BatchesOf \in [Source -> Seq(Call)]
    /\ Remote \subseteq Source /\ RetryTimes \in Nat /\ Loader # {}
    /\ Inline \subseteq Call /\ \A j, k \in Inline : j = k
    /\ Meddling \subseteq {"Cancel", "Stop", "CloseInput"}

VARIABLES
    srcState, lpc, src, retries, left, fnState, mutex, callbackErr, errCh,
    errClosed, partsClosed, innerDone, mpc, ret,  \* the loader: SourceLoader
    config,       \* options.ConfigPath is given
    proxies,      \* the call options.Proxies asks for: Inline, or {} if empty
    started,      \* AddProxyURLs has started the loader
    meddled,      \* history: another goroutine called Stop or CloseInput
    apc,          \* the adding goroutine: url, loading, inline, adding, close, end
    addDone,      \* what it sent on addDone: none, nil or an Error
    tpc,          \* TestSpeed: receive, wait, returned
    tret          \* what TestSpeed returned: none, ok or an Error

(* ctx of AddProxyURLs is the parent of the loader's context.              *)
L == INSTANCE SourceLoader WITH Batch <- Call, parentDone <- addCtxDone

loaderVars == <<srcState, lpc, src, retries, left, fnState, mutex, callbackErr,
                errCh, errClosed, partsClosed, innerDone, mpc, ret>>
optVars    == <<config, proxies>>
addVars    == <<started, apc, addDone>>
testVars   == <<optVars, addVars, tpc, tret, meddled>>
allVars    == <<vars, loaderVars, testVars>>

Error == {"refused", "ctxErr"}

TSInit ==
    /\ Init /\ L!Init
    /\ config \in BOOLEAN /\ proxies \in {{}, Inline}
    /\ config \/ proxies # {}           \* TestSpeed's first check
    /\ apc = IF config THEN "url" ELSE "inline"
    /\ started = FALSE /\ meddled = FALSE
    /\ addDone = "none" /\ tpc = "receive" /\ tret = "none"

(* addDone <- err, and on to the deferred CloseInput.                      *)
SendDone(e) == apc' = "close" /\ addDone' = e

-----------------------------------------------------------------------------
(* The adding goroutine *)

(* AddProxyURLs asks ensureCanAdd itself before it starts the loader.      *)
StartLoader ==
    /\ Up /\ apc = "url"
    /\ IF state = "running"
       THEN apc' = "loading" /\ started' = TRUE /\ UNCHANGED addDone
       ELSE SendDone("refused") /\ UNCHANGED started
    /\ UNCHANGED <<vars, loaderVars, optVars, tpc, tret, meddled>>

(* The error fn failed with: AddProxies was cut short, or refused.         *)
FnError == IF \E k \in Call : fnState[k] = "err" /\ callPc[k] = "refused"
           THEN "refused" ELSE "ctxErr"

LoaderReturned ==
    /\ Up /\ apc = "loading" /\ mpc = "returned"
    /\ CASE ret = "nil"    -> apc' = "inline" /\ UNCHANGED addDone
         [] ret = "err"    -> SendDone(FnError)
         [] ret = "ctxErr" -> SendDone("ctxErr")
    /\ UNCHANGED <<vars, loaderVars, optVars, started, tpc, tret, meddled>>

AddInline(k) ==
    /\ apc = "inline" /\ k \in proxies
    /\ Begin(k)
    /\ apc' = "adding"
    /\ UNCHANGED <<loaderVars, optVars, started, addDone, tpc, tret, meddled>>

InlineReturned(k) ==
    /\ Up /\ apc = "adding" /\ k \in proxies /\ callPc[k] \notin InCall
    /\ SendDone(CASE callPc[k] = "ok"        -> "nil"
                  [] callPc[k] = "cancelled" -> "ctxErr"
                  [] callPc[k] = "refused"   -> "refused")
    /\ UNCHANGED <<vars, loaderVars, optVars, started, tpc, tret, meddled>>

NoInline ==
    /\ Up /\ apc = "inline" /\ proxies = {}
    /\ SendDone("nil")
    /\ UNCHANGED <<vars, loaderVars, optVars, started, tpc, tret, meddled>>

(* Slip: the input is closed while the adds are still going on.            *)
CloseEarly ==
    /\ Up /\ apc \in {"loading", "adding", "close"}
    /\ \/ CloseInput /\ UNCHANGED apc
       \/ apc = "close" /\ once = "done" /\ apc' = "end" /\ UNCHANGED vars
    /\ UNCHANGED <<loaderVars, optVars, started, addDone, tpc, tret, meddled>>

DeferredClose ==
    /\ Up /\ apc = "close"
    /\ \/ CloseInput /\ UNCHANGED apc
       \/ once = "done" /\ apc' = "end" /\ UNCHANGED vars
    /\ UNCHANGED <<loaderVars, optVars, started, addDone, tpc, tret, meddled>>

-----------------------------------------------------------------------------
(* The loader's callback is AddProxies *)

Entered(w) == Head(left[w])

CallbackBegin(w) ==
    /\ L!EnterFn(w)
    /\ Begin(Entered(w))
    /\ UNCHANGED testVars

CallbackEnd(w) ==
    /\ Up /\ lpc[w] = "fn" /\ callPc[Entered(w)] \notin InCall
    /\ IF callPc[Entered(w)] = "ok" THEN L!FnOk(w) ELSE L!FnErr(w)
    /\ UNCHANGED <<vars, testVars>>

(* The loader runs from its call on; its goroutines may outlive it.        *)
Loading    == started /\ UNCHANGED <<vars, testVars>>
LoaderStep == Up /\ Loading /\ L!Internal

-----------------------------------------------------------------------------
(* TestSpeed itself *)

Collect(c) ==
    /\ tpc = "receive" /\ Consume(c)
    /\ UNCHANGED <<loaderVars, testVars>>

ResultsEnd ==
    /\ Up /\ tpc = "receive" /\ resClosed /\ \A c \in Config : out[c] # "sent"
    /\ tpc' = "wait"
    /\ UNCHANGED <<vars, loaderVars, optVars, addVars, tret, meddled>>

(* Slip: the end of the adds is taken for the end of the results.          *)
ReturnAtAddDone ==
    /\ Up /\ tpc # "returned" /\ addDone # "none"
    /\ tpc' = "returned"
    /\ tret' = IF addDone = "nil" THEN "ok" ELSE addDone
    /\ UNCHANGED <<vars, loaderVars, optVars, addVars, meddled>>

TestSpeedReturn ==
    /\ Up /\ tpc = "wait" /\ addDone # "none"
    /\ tpc' = "returned"
    /\ tret' = IF addDone = "nil" THEN "ok" ELSE addDone
    /\ UNCHANGED <<vars, loaderVars, optVars, addVars, meddled>>

CallerCancel ==
    /\ "Cancel" \in Meddling /\ Cancel
    /\ UNCHANGED <<loaderVars, testVars>>

-----------------------------------------------------------------------------
(* Other goroutines; a Close is here what its Stop is *)

Meddle == /\ meddled' = TRUE
          /\ UNCHANGED <<loaderVars, optVars, addVars, tpc, tret>>

OtherStop  == "Stop" \in Meddling /\ Stop /\ Meddle
OtherClose == "CloseInput" \in Meddling /\ CloseInput /\ Meddle

-----------------------------------------------------------------------------

Running    == Up /\ UNCHANGED <<loaderVars, testVars>>
EngineStep == Running /\ Library

TSStep == \/ EngineStep \/ LoaderStep
          \/ \E w \in Loader : CallbackBegin(w) \/ CallbackEnd(w)
          \/ StartLoader \/ LoaderReturned \/ NoInline \/ DeferredClose
          \/ \E k \in Inline : AddInline(k) \/ InlineReturned(k)
          \/ \E c \in Config : Collect(c)
          \/ ResultsEnd \/ TestSpeedReturn
          \/ CallerCancel \/ OtherStop \/ OtherClose

TSFinished == ~Up \/ /\ tpc = "returned" /\ apc = "end"
                     /\ stopPc \in {"idle", "done"}

TSIdle == TSFinished /\ UNCHANGED allVars

TSNext == TSStep \/ TSIdle

TSSpec == TSInit /\ [][TSNext]_allVars

(* Scheduling, tests that end, and a Go mutex that starves nobody.         *)
TSFairness ==
    /\ \A k \in Call : WF_allVars(Running /\ Caller(k))
    /\ \A c \in Config : /\ WF_allVars(Running /\ Adder(c))
                         /\ WF_allVars(Running /\ Worker(c))
                         /\ WF_allVars(Collect(c))
    /\ WF_allVars(Running /\ Dispatcher)
    /\ WF_allVars(Running /\ (CloseChan \/ StopCancel \/ StopClose))
    /\ WF_allVars(Running /\ PropagateCancel)
    /\ WF_allVars(Up /\ Loading /\ L!Feeder)
    /\ WF_allVars(Up /\ Loading /\ L!Main)
    /\ WF_allVars(Up /\ Loading /\ L!CloseErrCh)
    /\ WF_allVars(Up /\ Loading /\ L!PropagateCancel)
    /\ \A w \in Loader : /\ WF_allVars(Up /\ Loading /\ L!Load(w))
                         /\ SF_allVars(CallbackBegin(w))
                         /\ WF_allVars(CallbackEnd(w))
    /\ WF_allVars(StartLoader \/ LoaderReturned \/ NoInline \/ DeferredClose)
    /\ \A k \in Inline : WF_allVars(AddInline(k) \/ InlineReturned(k))
    /\ WF_allVars(ResultsEnd \/ TestSpeedReturn)

TSFairSpec == TSSpec /\ TSFairness

-----------------------------------------------------------------------------
(* Properties *)

(* What TestSpeed returns without an error is complete unless it was       *)
(* cancelled or stopped: each node of a loaded source and of               *)
(* options.Proxies was dealt with, each measured one is in the returned    *)
(* slice, and the counters say so.  A CloseInput by another goroutine may  *)
(* make it fail, but never lose a node silently.                           *)
Handed(c) == \/ CallOf[c] \in proxies
             \/ \E s \in Source : /\ srcState[s] = "loaded"
                                  /\ \E i \in 1..Len(BatchesOf[s]) :
                                        BatchesOf[s][i] = CallOf[c]

ResultComplete ==
    tret = "ok" /\ ~ctxDone /\ ~streamDone =>
        /\ \A c \in Config : Handed(c) =>
              /\ stage[c] = "gone"
              /\ verdict[c] \in {"alive", "dead"} => out[c] = "received"
        /\ config => \A s \in Source : srcState[s] \in {"loaded", "skipped"}
        /\ count = totalCount

(* An error has a cause outside TestSpeed: the context's own error only    *)
(* the cancel, the refusal of an add the cancel or a Stop or CloseInput of *)
(* another goroutine.  Sources that cannot be read are skipped.            *)
ErrorHasCause ==
    /\ tret = "ctxErr" => ctxDone
    /\ tret = "refused" => ctxDone \/ meddled

(* Also when it was stopped, TestSpeed returns without a cancel only when  *)
(* nothing of it can add, load or test a node any more, and nobody can     *)
(* send into a channel that is still to be closed: no callback, no add     *)
(* call, no dispatcher, and the adding goroutine at its deferred           *)
(* CloseInput, whose end may outlast the call (see module Lifecycle).      *)
QuietAtReturn ==
    tpc = "returned" /\ ~ctxDone =>
        /\ NoCallInProgress /\ dpc = "end"
        /\ \A w \in Loader : lpc[w] # "fn"
        /\ apc \in {"close", "end"}
        /\ chanClosed \/ streamDone

(* TestSpeed is an orderly caller of the engine - one that closes the      *)
(* input only between its add calls, for which module StreamProofs proves  *)
(* that nothing panics - unless the loading of a ConfigPath is cancelled   *)
(* or another goroutine calls Stop or CloseInput.  Over options.Proxies    *)
(* alone a cancel is harmless ("does not cause a send on closed channel    *)
(* panic", speedtest_test.go).                                             *)
Engine == INSTANCE Stream WITH Orderly <- TRUE

UsesStream == [][(config /\ ctxDone) \/ meddled' \/ Engine!Next]_vars

(* TestSpeed returns, whatever is cancelled, stopped or closed, unless the *)
(* process panics.                                                         *)
TestSpeedReturns == <>(tpc = "returned" \/ ~Up)
=============================================================================
