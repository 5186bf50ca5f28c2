------------------------------- MODULE Stream -------------------------------
(***************************************************************************)
(* The streaming engine of speedtest/speedtest.go from the moment          *)
(* RunStream returns: callers of AddProxies / AddProxy push nodes into     *)
(* proxiesCh, the dispatcher goroutine takes them out and starts at most   *)
(* Concurrent workers, the workers write to resultsStream, and CloseInput, *)
(* Stop and the contexts bring the whole thing to an end.                  *)
(*                                                                         *)
(* One behaviour is one run.  Restarts and the steps inside RunStream      *)
(* belong to module Lifecycle.  Channel buffers are sets of nodes: their   *)
(* FIFO order is not distinguished.  What a test measures is reduced to    *)
(* whether its result counts as alive.                                     *)
(***************************************************************************)
EXTENDS Naturals, FiniteSets

CONSTANTS
    Config,       \* the nodes handed to the library
    Call,         \* the AddProxies and AddProxy calls that hand them over
    CallOf,       \* Config -> Call, the call a node belongs to
    Single,       \* the calls that are AddProxy calls, of one parsed node
    QueueCap,     \* capacity of proxiesCh (cpuCount*10)
    Concurrent,   \* options.Concurrent
    AddConc,      \* goroutines of one AddProxies call (2*GOMAXPROCS)
    SharedCtx,    \* the adds use the context that RunStream was given
    Orderly       \* CloseInput and Stop are called only between add calls

NodesOf(k) == {c \in Config : CallOf[c] = k}

ASSUME ConfigAssumption ==
    /\ IsFiniteSet(Config)
    /\ CallOf \in [Config -> Call]
    /\ Single \subseteq Call
    /\ \A k \in Single : \E c \in Config : NodesOf(k) = {c}

ASSUME BoundAssumption ==
    /\ QueueCap \in Nat \ {0}
    /\ Concurrent \in Nat \ {0}
    /\ AddConc \in Nat \ {0}
    /\ SharedCtx \in BOOLEAN
    /\ Orderly \in BOOLEAN

VARIABLES
    stage,        \* Config -> how far the node got
    verdict,      \* Config -> what was decided about it
    out,          \* Config -> where its result is
    callPc,       \* Call -> program counter of the add call
    totalCount, count, invalidCount, aliveCount,
    state,        \* t.state
    once,         \* t.closeOnce: fresh, running, done
    chanClosed,   \* proxiesCh is closed
    dpc,          \* program counter of the dispatcher goroutine
    resClosed,    \* resultsStream is closed
    ctxDone,      \* the context given to RunStream is cancelled
    addCtxDone,   \* the context given to the add calls is cancelled
    streamDone,   \* streamCtx is cancelled
    stopPc,       \* program counter of Stop
    fault         \* the panic that ended the process, or "none"

itemVars  == <<stage, verdict, out>>
tallyVars == <<count, invalidCount, aliveCount>>
callVars  == <<callPc, totalCount>>
inputVars == <<state, once, chanClosed>>
loopVars  == <<dpc, resClosed>>
ctxVars   == <<ctxDone, addCtxDone, streamDone>>
vars == <<stage, verdict, out, count, invalidCount, aliveCount, callPc,
          totalCount, state, once, chanClosed, dpc, resClosed, ctxDone,
          addCtxDone, streamDone, stopPc, fault>>

Adding  == {"parse", "failed", "offer", "block"}      \* in an add goroutine
Working == {"testing", "emit", "tally", "leave"}      \* in a worker
Stage   == {"new"} \cup Adding \cup {"queued", "held"} \cup Working
                   \cup {"gone", "lost"}
Verdict == {"none", "skipped", "malformed", "dropped",
            "alive", "dead", "nil", "panic"}
InCall  == {"admitted", "adding", "cut"}

NodeTypeOK ==
    /\ stage \in [Config -> Stage]
    /\ verdict \in [Config -> Verdict]
    /\ out \in [Config -> {"none", "sent", "received"}]
    /\ callPc \in [Call -> {"idle", "ok", "cancelled", "refused"} \cup InCall]
    /\ totalCount \in Nat /\ count \in Nat
    /\ invalidCount \in Nat /\ aliveCount \in Nat

ControlTypeOK ==
    /\ state \in {"running", "inputClosed", "stopped"}
    /\ once \in {"fresh", "running", "done"}
    /\ dpc \in {"recv", "sem", "wait", "update", "close", "end"}
    /\ stopPc \in {"idle", "cancel", "close", "done"}
    /\ fault \in {"none", "send on closed channel"}
    /\ chanClosed \in BOOLEAN /\ resClosed \in BOOLEAN
    /\ ctxDone \in BOOLEAN /\ addCtxDone \in BOOLEAN /\ streamDone \in BOOLEAN

TypeOK == NodeTypeOK /\ ControlTypeOK

At(S) == {c \in Config : stage[c] \in S}

ResultCap == 2 * Concurrent

(* The state RunStream leaves behind: everything allocated and zeroed, the *)
(* dispatcher started.                                                     *)
Init ==
    /\ stage = [c \in Config |-> "new"]
    /\ verdict = [c \in Config |-> "none"]
    /\ out = [c \in Config |-> "none"]
    /\ callPc = [k \in Call |-> "idle"]
    /\ totalCount = 0 /\ count = 0 /\ invalidCount = 0 /\ aliveCount = 0
    /\ state = "running" /\ once = "fresh" /\ chanClosed = FALSE
    /\ dpc = "recv" /\ resClosed = FALSE
    /\ ctxDone = FALSE /\ addCtxDone = FALSE /\ streamDone = FALSE
    /\ stopPc = "idle" /\ fault = "none"

(* A panic nobody recovers ends the process: every action needs this.      *)
Up == fault = "none"

-----------------------------------------------------------------------------
(* The add calls *)

(* Slip: ensureCanAdd knows no stateInputClosed.                           *)
BeginUnlessStopped(k) ==
    /\ Up /\ callPc[k] = "idle"
    /\ callPc' = [callPc EXCEPT ![k] = IF state # "stopped" THEN "admitted"
                                                            ELSE "refused"]
    /\ UNCHANGED <<itemVars, tallyVars, totalCount, inputVars, loopVars,
                   ctxVars, stopPc, fault>>

(* ensureCanAdd: the state is read under stateMu, and used after it.       *)
Begin(k) ==
    /\ Up /\ callPc[k] = "idle"
    /\ callPc' = [callPc EXCEPT ![k] = IF state = "running" THEN "admitted"
                                                            ELSE "refused"]
    /\ UNCHANGED <<itemVars, tallyVars, totalCount, inputVars, loopVars,
                   ctxVars, stopPc, fault>>

(* Slip: AddProxy does not count its node.                                 *)
CountBatchOnly(k) ==
    /\ Up /\ callPc[k] = "admitted"
    /\ callPc' = [callPc EXCEPT ![k] = "adding"]
    /\ totalCount' = IF k \in Single THEN totalCount
                     ELSE totalCount + Cardinality(NodesOf(k))
    /\ stage' = [c \in Config |-> IF k \in Single /\ c \in NodesOf(k)
                                  THEN "offer" ELSE stage[c]]
    /\ UNCHANGED <<verdict, out, tallyVars, inputVars, loopVars, ctxVars,
                   stopPc, fault>>

(* Slip: the loop goes on after ctx.Done() as if the call were new.        *)
CutShortRestarts(k) ==
    /\ Up /\ callPc[k] = "adding" /\ addCtxDone
    /\ \E c \in NodesOf(k) : stage[c] = "new"
    /\ callPc' = [callPc EXCEPT ![k] = "new"]
    /\ UNCHANGED <<itemVars, tallyVars, totalCount, inputVars, loopVars,
                   ctxVars, stopPc, fault>>

(* The total grows by the whole batch before any node of it is looked at;  *)
(* AddProxy goes on with its one parsed node itself.                       *)
CountTotal(k) ==
    /\ Up /\ callPc[k] = "admitted"
    /\ callPc' = [callPc EXCEPT ![k] = "adding"]
    /\ totalCount' = totalCount + Cardinality(NodesOf(k))
    /\ stage' = [c \in Config |-> IF k \in Single /\ c \in NodesOf(k)
                                  THEN "offer" ELSE stage[c]]
    /\ UNCHANGED <<verdict, out, tallyVars, inputVars, loopVars, ctxVars,
                   stopPc, fault>>

Spawn(c) ==
    /\ Up /\ callPc[CallOf[c]] = "adding" /\ stage[c] = "new"
    /\ Cardinality(NodesOf(CallOf[c]) \cap At(Adding)) < AddConc
    /\ stage' = [stage EXCEPT ![c] = "parse"]
    /\ UNCHANGED <<verdict, out, tallyVars, callVars, inputVars, loopVars,
                   ctxVars, stopPc, fault>>

(* The loop sees ctx.Done() before it has started every node.              *)
CutShort(k) ==
    /\ Up /\ callPc[k] = "adding" /\ addCtxDone
    /\ \E c \in NodesOf(k) : stage[c] = "new"
    /\ callPc' = [callPc EXCEPT ![k] = "cut"]
    /\ UNCHANGED <<itemVars, tallyVars, totalCount, inputVars, loopVars,
                   ctxVars, stopPc, fault>>

(* Slip: a cancelled AddProxies returns without wg.Wait().                 *)
ReturnNoWait(k) ==
    /\ Up /\ callPc[k] \in {"adding", "cut"}
    /\ callPc[k] = "adding" => NodesOf(k) \cap At({"new"} \cup Adding) = {}
    /\ callPc' = [callPc EXCEPT ![k] = IF @ = "cut" THEN "cancelled" ELSE "ok"]
    /\ UNCHANGED <<itemVars, tallyVars, totalCount, inputVars, loopVars,
                   ctxVars, stopPc, fault>>

(* wg.Wait(), then return; AddProxy returns nil even when its node was     *)
(* dropped.                                                                *)
Return(k) ==
    /\ Up /\ callPc[k] \in {"adding", "cut"}
    /\ NodesOf(k) \cap At(Adding) = {}
    /\ callPc[k] = "adding" => NodesOf(k) \cap At({"new"}) = {}
    /\ callPc' = [callPc EXCEPT ![k] = IF @ = "cut" THEN "cancelled" ELSE "ok"]
    /\ UNCHANGED <<itemVars, tallyVars, totalCount, inputVars, loopVars,
                   ctxVars, stopPc, fault>>

-----------------------------------------------------------------------------
(* One node in an add goroutine: processConfig, then processProxy *)

(* Slip: filtered nodes are not counted as processed.                      *)
SkipUncounted(c) ==
    /\ Up /\ stage[c] \in {"parse", "offer"}
    /\ stage' = [stage EXCEPT ![c] = "gone"]
    /\ verdict' = [verdict EXCEPT ![c] = "skipped"]
    /\ UNCHANGED <<out, tallyVars, callVars, inputVars, loopVars, ctxVars,
                   stopPc, fault>>

(* The name filter: before parsing in processConfig, after it in           *)
(* processProxy.                                                           *)
Skip(c) ==
    /\ Up /\ stage[c] \in {"parse", "offer"}
    /\ stage' = [stage EXCEPT ![c] = "gone"]
    /\ verdict' = [verdict EXCEPT ![c] = "skipped"]
    /\ count' = count + 1
    /\ UNCHANGED <<out, invalidCount, aliveCount, callVars, inputVars,
                   loopVars, ctxVars, stopPc, fault>>

ParseOk(c) ==
    /\ Up /\ stage[c] = "parse"
    /\ stage' = [stage EXCEPT ![c] = "offer"]
    /\ UNCHANGED <<verdict, out, tallyVars, callVars, inputVars, loopVars,
                   ctxVars, stopPc, fault>>

(* A malformed node adds to invalidCount first and to count second.        *)
ParseFail(c) ==
    /\ Up /\ stage[c] = "parse"
    /\ stage' = [stage EXCEPT ![c] = "failed"]
    /\ verdict' = [verdict EXCEPT ![c] = "malformed"]
    /\ invalidCount' = invalidCount + 1
    /\ UNCHANGED <<out, count, aliveCount, callVars, inputVars, loopVars,
                   ctxVars, stopPc, fault>>

CountFailed(c) ==
    /\ Up /\ stage[c] = "failed"
    /\ stage' = [stage EXCEPT ![c] = "gone"]
    /\ count' = count + 1
    /\ UNCHANGED <<verdict, out, invalidCount, aliveCount, callVars,
                   inputVars, loopVars, ctxVars, stopPc, fault>>

(* Either select sends when the buffer has room.                           *)
Send(c) ==
    /\ Up /\ stage[c] \in {"offer", "block"}
    /\ ~chanClosed /\ Cardinality(At({"queued"})) < QueueCap
    /\ stage' = [stage EXCEPT ![c] = "queued"]
    /\ UNCHANGED <<verdict, out, tallyVars, callVars, inputVars, loopVars,
                   ctxVars, stopPc, fault>>

(* The default case of the first select.                                   *)
Block(c) ==
    /\ Up /\ stage[c] = "offer"
    /\ ~chanClosed /\ Cardinality(At({"queued"})) >= QueueCap
    /\ stage' = [stage EXCEPT ![c] = "block"]
    /\ UNCHANGED <<verdict, out, tallyVars, callVars, inputVars, loopVars,
                   ctxVars, stopPc, fault>>

(* A send on a closed channel is a ready case of either select; choosing   *)
(* it panics, in a goroutine nobody recovers.                              *)
SendPanic(c) ==
    /\ Up /\ stage[c] \in {"offer", "block"}
    /\ chanClosed
    /\ fault' = "send on closed channel"
    /\ UNCHANGED <<itemVars, tallyVars, callVars, inputVars, loopVars,
                   ctxVars, stopPc>>

(* Slip: the blocking send does not watch ctx.                             *)
DropNever(c) == FALSE /\ stage[c] = "block" /\ UNCHANGED vars

(* The blocking send gives way to a cancelled ctx, and counts the node.    *)
Drop(c) ==
    /\ Up /\ stage[c] = "block" /\ addCtxDone
    /\ stage' = [stage EXCEPT ![c] = "gone"]
    /\ verdict' = [verdict EXCEPT ![c] = "dropped"]
    /\ count' = count + 1
    /\ UNCHANGED <<out, invalidCount, aliveCount, callVars, inputVars,
                   loopVars, ctxVars, stopPc, fault>>

-----------------------------------------------------------------------------
(* The dispatcher goroutine of RunStream *)

Recv(c) ==
    /\ Up /\ dpc = "recv" /\ stage[c] = "queued"
    /\ dpc' = "sem"
    /\ stage' = [stage EXCEPT ![c] = "held"]
    /\ UNCHANGED <<verdict, out, tallyVars, callVars, inputVars, resClosed,
                   ctxVars, stopPc, fault>>

(* Slip: a closed channel is taken for an empty one.                       *)
RecvEndNoDrain ==
    /\ Up /\ dpc = "recv"
    /\ streamDone \/ chanClosed
    /\ dpc' = "wait"
    /\ UNCHANGED <<itemVars, tallyVars, callVars, inputVars, resClosed,
                   ctxVars, stopPc, fault>>

(* Slip: a cancelled dispatcher returns, and leaves out workerWg.Wait().   *)
RecvEndReturns ==
    /\ Up /\ dpc = "recv"
    /\ streamDone \/ (chanClosed /\ At({"queued"}) = {})
    /\ dpc' = IF streamDone THEN "update" ELSE "wait"
    /\ UNCHANGED <<itemVars, tallyVars, callVars, inputVars, resClosed,
                   ctxVars, stopPc, fault>>

(* The channel is closed and drained, or streamCtx is done: a select with  *)
(* both ready takes either.                                                *)
RecvEnd ==
    /\ Up /\ dpc = "recv"
    /\ streamDone \/ (chanClosed /\ At({"queued"}) = {})
    /\ dpc' = "wait"
    /\ UNCHANGED <<itemVars, tallyVars, callVars, inputVars, resClosed,
                   ctxVars, stopPc, fault>>

Acquire(c) ==
    /\ Up /\ dpc = "sem" /\ stage[c] = "held"
    /\ Cardinality(At(Working)) < Concurrent
    /\ dpc' = "recv"
    /\ stage' = [stage EXCEPT ![c] = "testing"]
    /\ UNCHANGED <<verdict, out, tallyVars, callVars, inputVars, resClosed,
                   ctxVars, stopPc, fault>>

(* Cancelled while waiting for a worker slot: the node in hand is let go   *)
(* without being counted.                                                  *)
AcquireCancel(c) ==
    /\ Up /\ dpc = "sem" /\ stage[c] = "held" /\ streamDone
    /\ dpc' = "wait"
    /\ stage' = [stage EXCEPT ![c] = "lost"]
    /\ UNCHANGED <<verdict, out, tallyVars, callVars, inputVars, resClosed,
                   ctxVars, stopPc, fault>>

(* Slip: workerWg counts no worker.                                        *)
WaitForNobody ==
    /\ Up /\ dpc = "wait"
    /\ dpc' = "update"
    /\ UNCHANGED <<itemVars, tallyVars, callVars, inputVars, resClosed,
                   ctxVars, stopPc, fault>>

(* workerWg.Wait()                                                         *)
WaitWorkers ==
    /\ Up /\ dpc = "wait" /\ At(Working) = {}
    /\ dpc' = "update"
    /\ UNCHANGED <<itemVars, tallyVars, callVars, inputVars, resClosed,
                   ctxVars, stopPc, fault>>

UpdateState ==
    /\ Up /\ dpc = "update"
    /\ dpc' = "close"
    /\ state' = IF state = "running" THEN "inputClosed" ELSE state
    /\ UNCHANGED <<itemVars, tallyVars, callVars, once, chanClosed, resClosed,
                   ctxVars, stopPc, fault>>

CloseResults ==
    /\ Up /\ dpc = "close"
    /\ dpc' = "end"
    /\ resClosed' = TRUE
    /\ UNCHANGED <<itemVars, tallyVars, callVars, inputVars, ctxVars, stopPc,
                   fault>>

-----------------------------------------------------------------------------
(* A worker goroutine *)

(* Slip: every result is counted as invalid, an alive one too.             *)
TestedCountsTwice(c, v) ==
    /\ Up /\ stage[c] = "testing" /\ v \in {"alive", "dead"}
    /\ stage' = [stage EXCEPT ![c] = "emit"]
    /\ verdict' = [verdict EXCEPT ![c] = v]
    /\ aliveCount' = IF v = "alive" THEN aliveCount + 1 ELSE aliveCount
    /\ invalidCount' = invalidCount + 1
    /\ UNCHANGED <<out, count, callVars, inputVars, loopVars, ctxVars,
                   stopPc, fault>>

(* testspeed returned a result, and the counter of its kind is bumped.     *)
Tested(c, v) ==
    /\ Up /\ stage[c] = "testing" /\ v \in {"alive", "dead"}
    /\ stage' = [stage EXCEPT ![c] = "emit"]
    /\ verdict' = [verdict EXCEPT ![c] = v]
    /\ aliveCount' = IF v = "alive" THEN aliveCount + 1 ELSE aliveCount
    /\ invalidCount' = IF v = "dead" THEN invalidCount + 1 ELSE invalidCount
    /\ UNCHANGED <<out, count, callVars, inputVars, loopVars, ctxVars,
                   stopPc, fault>>

(* testspeed returned no result (a built-in or unsupported type), or it    *)
(* panicked and the deferred function recovered.                           *)
Untestable(c, v) ==
    /\ Up /\ stage[c] = "testing" /\ v \in {"nil", "panic"}
    /\ stage' = [stage EXCEPT ![c] = "tally"]
    /\ verdict' = [verdict EXCEPT ![c] = v]
    /\ invalidCount' = IF v = "nil" THEN invalidCount + 1 ELSE invalidCount
    /\ UNCHANGED <<out, count, aliveCount, callVars, inputVars, loopVars,
                   ctxVars, stopPc, fault>>

Emit(c) ==
    /\ Up /\ stage[c] = "emit"
    /\ Cardinality({d \in Config : out[d] = "sent"}) < ResultCap
    /\ stage' = [stage EXCEPT ![c] = "tally"]
    /\ out' = [out EXCEPT ![c] = "sent"]
    /\ UNCHANGED <<verdict, tallyVars, callVars, inputVars, loopVars,
                   ctxVars, stopPc, fault>>

EmitCancel(c) ==
    /\ Up /\ stage[c] = "emit" /\ streamDone
    /\ stage' = [stage EXCEPT ![c] = "tally"]
    /\ UNCHANGED <<verdict, out, tallyVars, callVars, inputVars, loopVars,
                   ctxVars, stopPc, fault>>

(* The deferred function counts the node before workerWg.Done().           *)
Tally(c) ==
    /\ Up /\ stage[c] = "tally"
    /\ stage' = [stage EXCEPT ![c] = "leave"]
    /\ count' = count + 1
    /\ UNCHANGED <<verdict, out, invalidCount, aliveCount, callVars,
                   inputVars, loopVars, ctxVars, stopPc, fault>>

Leave(c) ==
    /\ Up /\ stage[c] = "leave"
    /\ stage' = [stage EXCEPT ![c] = "gone"]
    /\ UNCHANGED <<verdict, out, tallyVars, callVars, inputVars, loopVars,
                   ctxVars, stopPc, fault>>

-----------------------------------------------------------------------------
(* The reader of resultsStream *)
Consume(c) ==
    /\ Up /\ out[c] = "sent"
    /\ out' = [out EXCEPT ![c] = "received"]
    /\ UNCHANGED <<stage, verdict, tallyVars, callVars, inputVars, loopVars,
                   ctxVars, stopPc, fault>>

-----------------------------------------------------------------------------
(* CloseInput, Stop and the contexts *)

NoCallInProgress == \A k \in Call : callPc[k] \notin InCall

(* closeOnce.Do up to the unlock of stateMu.                               *)
CloseInput ==
    /\ Up /\ once = "fresh"
    /\ once' = "running"
    /\ state' = IF state = "running" THEN "inputClosed" ELSE state
    /\ UNCHANGED <<itemVars, tallyVars, callVars, chanClosed, loopVars,
                   ctxVars, stopPc, fault>>

(* Slip: CloseInput only sets the state.                                   *)
CloseChanForgets ==
    /\ Up /\ once = "running"
    /\ once' = "done"
    /\ UNCHANGED <<itemVars, tallyVars, callVars, state, chanClosed, loopVars,
                   ctxVars, stopPc, fault>>

CloseChan ==
    /\ Up /\ once = "running"
    /\ once' = "done"
    /\ chanClosed' = TRUE
    /\ UNCHANGED <<itemVars, tallyVars, callVars, state, loopVars, ctxVars,
                   stopPc, fault>>

Stop ==
    /\ Up /\ stopPc = "idle" /\ state # "stopped"
    /\ stopPc' = "cancel"
    /\ state' = "stopped"
    /\ UNCHANGED <<itemVars, tallyVars, callVars, once, chanClosed, loopVars,
                   ctxVars, fault>>

StopCancel ==
    /\ Up /\ stopPc = "cancel"
    /\ stopPc' = "close"
    /\ streamDone' = TRUE
    /\ UNCHANGED <<itemVars, tallyVars, callVars, inputVars, loopVars,
                   ctxDone, addCtxDone, fault>>

(* Stop's own CloseInput: it starts closeOnce, or waits until another      *)
(* caller has finished it.                                                 *)
StopClose ==
    /\ Up /\ stopPc = "close"
    /\ \/ CloseInput
       \/ /\ once = "done"
          /\ stopPc' = "done"
          /\ UNCHANGED <<itemVars, tallyVars, callVars, inputVars, loopVars,
                         ctxVars, fault>>

Cancel ==
    /\ Up /\ ~ctxDone
    /\ ctxDone' = TRUE
    /\ addCtxDone' = (addCtxDone \/ SharedCtx)
    /\ UNCHANGED <<itemVars, tallyVars, callVars, inputVars, loopVars,
                   streamDone, stopPc, fault>>

CancelAdds ==
    /\ Up /\ ~SharedCtx /\ ~addCtxDone
    /\ addCtxDone' = TRUE
    /\ UNCHANGED <<itemVars, tallyVars, callVars, inputVars, loopVars,
                   ctxDone, streamDone, stopPc, fault>>

(* A parent context reaches its child streamCtx after its own Done closed. *)
PropagateCancel ==
    /\ Up /\ ctxDone /\ ~streamDone
    /\ streamDone' = TRUE
    /\ UNCHANGED <<itemVars, tallyVars, callVars, inputVars, loopVars,
                   ctxDone, addCtxDone, stopPc, fault>>

-----------------------------------------------------------------------------
Caller(k)   == CountTotal(k) \/ CutShort(k) \/ Return(k)
                 \/ \E c \in NodesOf(k) : Spawn(c)
Adder(c)    == \/ Skip(c) \/ ParseOk(c) \/ ParseFail(c) \/ CountFailed(c)
               \/ Send(c) \/ Block(c) \/ SendPanic(c) \/ Drop(c)
Dispatcher  == \/ \E c \in Config : Recv(c) \/ Acquire(c) \/ AcquireCancel(c)
               \/ RecvEnd \/ WaitWorkers \/ UpdateState \/ CloseResults
Worker(c)   == \/ \E v \in {"alive", "dead"} : Tested(c, v)
               \/ \E v \in {"nil", "panic"} : Untestable(c, v)
               \/ Emit(c) \/ EmitCancel(c) \/ Tally(c) \/ Leave(c)

(* What the library's goroutines do once the caller has set them off.      *)
Library == \/ \E k \in Call : Caller(k)
           \/ \E c \in Config : Adder(c) \/ Worker(c)
           \/ Dispatcher
           \/ CloseChan \/ StopCancel \/ StopClose \/ PropagateCancel

ClientClose == (Orderly => NoCallInProgress) /\ CloseInput
ClientStop  == (Orderly => NoCallInProgress) /\ Stop

Client == \/ \E k \in Call : Begin(k)
          \/ \E c \in Config : Consume(c)
          \/ ClientClose \/ ClientStop
          \/ Cancel \/ CancelAdds

(* The process has ended, or everything has returned and is closed.        *)
Finished ==
    \/ ~Up
    \/ /\ \A k \in Call : callPc[k] \in {"ok", "cancelled", "refused"}
       /\ once = "done" /\ dpc = "end" /\ stopPc \in {"idle", "done"}

Idle == Finished /\ UNCHANGED vars

Next == Library \/ Client \/ Idle

Spec == Init /\ [][Next]_vars

(* The goroutines are scheduled, every test ends (it carries timeouts),    *)
(* the results are read, and the input is closed at the latest when no add *)
(* call is in progress, as in TestSpeed.                                   *)
Fairness ==
    /\ \A k \in Call : WF_vars(Caller(k))
    /\ \A c \in Config : /\ WF_vars(Adder(c))
                         /\ WF_vars(Worker(c))
                         /\ WF_vars(Consume(c))
    /\ WF_vars(Dispatcher) /\ WF_vars(CloseChan)
    /\ WF_vars(StopCancel) /\ WF_vars(StopClose)
    /\ WF_vars(PropagateCancel)
    /\ WF_vars(NoCallInProgress /\ CloseInput)

FairSpec == Spec /\ Fairness

-----------------------------------------------------------------------------
(* checkAndLogProgress, called by the progress goroutine beside all this *)

(* It loads the atomic counters one after another, with no lock around     *)
(* them; alive and invalid behind these two.                               *)
Counter(name) == CASE name = "processed" -> count
                   [] name = "total"     -> totalCount

(* Slip: the order LogNum has.                                             *)
TotalFirst == <<"total", "processed">>

(* The counters in the order they are loaded.                              *)
Loads == <<"processed", "total">>

(* What the line shows if the first load gave n and the second is now.     *)
Line(n) == [name \in {"processed", "total"} |->
               IF name = Loads[1] THEN n ELSE Counter(name)]

-----------------------------------------------------------------------------
(* Properties *)

Cancelled == ctxDone \/ addCtxDone \/ streamDone

(* No goroutine ever sends on proxiesCh after it was closed: the panic the *)
(* comment in AddProxies wants to exclude.                                 *)
NoPanic == Up

(* When the reader of an uncancelled run sees the channel close, the       *)
(* counters are final and complete: every announced node is counted, the   *)
(* alive count is that of the alive results handed out, and the invalid    *)
(* count that of the dead ones and of the nodes that could not be tested,  *)
(* so that no node is in both or in either of them twice.                  *)
EndAccounted ==
    resClosed /\ ~Cancelled
        => /\ count = totalCount
           /\ aliveCount = Cardinality({c \in Config :
                                verdict[c] = "alive" /\ out[c] # "none"})
           /\ invalidCount = Cardinality({c \in Config :
                                \/ verdict[c] \in {"malformed", "nil"}
                                \/ verdict[c] = "dead" /\ out[c] # "none"})

(* The progress line never shows more nodes processed than announced,      *)
(* however long after the first counter the second is loaded and whatever  *)
(* happens between: no bar beyond 100%.                                    *)
ProgressLineSound ==
    \A n \in 0..Cardinality(Config) :
        [](Counter(Loads[1]) = n => [](Line(n).processed <= Line(n).total))

(* Unless streamCtx was cancelled, every measured node was put on the      *)
(* result channel before that channel closed.                              *)
ResultsDelivered ==
    resClosed /\ ~streamDone
        => \A c \in Config : verdict[c] \in {"alive", "dead"}
                                => out[c] # "none"

(* After the result channel closed no result appears in it (a send would   *)
(* panic) and no counter of results moves.                                 *)
ClosedIsFinal ==
    [][resClosed => /\ \A c \in Config : out[c] = "none" => out'[c] = "none"
                    /\ aliveCount' = aliveCount]_vars

(* An orderly caller's total is fixed once the input is closed: no call    *)
(* announces nodes that nobody will read.                                  *)
TotalFixedAfterClose == [][chanClosed => totalCount' = totalCount]_vars

(* The abstract promise: see ResultStream.                                 *)
Item(c) ==
    IF stage[c] = "new" THEN "none"
    ELSE IF out[c] = "sent" THEN "delivered"
    ELSE IF out[c] = "received" THEN "received"
    ELSE IF verdict[c] \in {"skipped", "malformed", "nil", "panic"}
         THEN "rejected"
    ELSE IF \/ verdict[c] = "dropped" \/ stage[c] = "lost"
            \/ verdict[c] \in {"alive", "dead"} /\ stage[c] # "emit"
         THEN "abandoned"
    ELSE "pending"

Abstract == INSTANCE ResultStream
                WITH item <- [c \in Config |-> Item(c)],
                     open <- ~resClosed,
                     cancelled <- Cancelled

ImplementsResultStream == Abstract!Spec

(* The stream always ends, and so does every admitted call: nobody waits   *)
(* for a queue that no one drains.                                         *)
StreamEnds == <>(resClosed \/ ~Up)
CallsReturn == \A k \in Call : callPc[k] \in InCall
                   ~> callPc[k] \notin InCall \/ ~Up

-----------------------------------------------------------------------------
(* What the proofs add to make the properties inductive *)

Announcing == {"adding", "cut", "ok", "cancelled"}   \* totalCount has the call

(* A node, the call it belongs to and the contexts that can end it early.  *)
NodeOK(c) ==
    /\ stage[c] # "new" => callPc[CallOf[c]] \in Announcing
    /\ stage[c] \in Adding => callPc[CallOf[c]] \in {"adding", "cut"}
    /\ callPc[CallOf[c]] = "ok" => stage[c] # "new"
    /\ callPc[CallOf[c]] \in {"cut", "cancelled"} => addCtxDone

NodeInv == \A c \in Config : NodeOK(c)

(* A node's verdict, its place in the pipeline and its result.             *)
VerdictOK(c) ==
    /\ verdict[c] = "none" <=>
          stage[c] \in {"new", "parse", "offer", "block", "queued", "held",
                        "testing", "lost"}
    /\ stage[c] = "emit" => verdict[c] \in {"alive", "dead"} /\ out[c] = "none"
    /\ verdict[c] \in {"alive", "dead"} =>
          stage[c] \in {"emit", "tally", "leave", "gone"}
    /\ out[c] # "none" => verdict[c] \in {"alive", "dead"}
    /\ verdict[c] \in {"alive", "dead"} /\ stage[c] # "emit" =>
          out[c] # "none" \/ streamDone
    /\ stage[c] = "lost" => streamDone
    /\ verdict[c] = "dropped" => addCtxDone

VerdictInv == \A c \in Config : VerdictOK(c)

(* The dispatcher holds at most one node, leaves its loop early only when  *)
(* cancelled, and has outlived its workers when it leaves WaitWorkers.     *)
LoopInv ==
    /\ \A c \in Config : stage[c] = "held" =>
          dpc = "sem" /\ \A d \in Config : stage[d] = "held" => c = d
    /\ dpc \in {"wait", "update", "close", "end"} /\ ~streamDone =>
          chanClosed /\ \A c \in Config : stage[c] # "queued"
    /\ dpc \in {"update", "close", "end"} =>
          \A c \in Config : stage[c] \notin Working
    /\ resClosed <=> dpc = "end"

(* With an orderly caller the input is only closed behind the last call.   *)
HandoverInv ==
    /\ fault = "none"
    /\ once # "fresh" \/ stopPc # "idle" => state # "running" /\ NoCallInProgress
    /\ chanClosed => once = "done"

(* Each counter is the number of nodes in some part of the pipeline.       *)
Announced    == {c \in Config : callPc[CallOf[c]] \in Announcing}
Counted      == At({"leave", "gone"})
AliveNodes   == {c \in Config : verdict[c] = "alive"}
InvalidNodes == {c \in Config : verdict[c] \in {"malformed", "dead", "nil"}}

CountInv == /\ totalCount = Cardinality(Announced)
            /\ count = Cardinality(Counted)
            /\ aliveCount = Cardinality(AliveNodes)
            /\ invalidCount = Cardinality(InvalidNodes)
=============================================================================
