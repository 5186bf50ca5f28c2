------------------------------ MODULE Lifecycle ------------------------------
(***************************************************************************)
(* The life of one Test of speedtest/speedtest.go over several runs: the   *)
(* steps inside RunStream, the end of the dispatcher goroutine, CloseInput *)
(* with its sync.Once, Stop, Close, and the progress goroutine with the    *)
(* ticker and the stop channel it shares with stopProgress.                *)
(*                                                                         *)
(* What goes through a run (nodes, workers, results) is module Stream; a   *)
(* run is here the number of its RunStream call.  Fields of Test that each *)
(* run replaces (proxiesCh, stopChan, cancel, logTicker) hold the number   *)
(* of the run that set them, so a stale one can be told from a fresh one.  *)
(***************************************************************************)
EXTENDS Naturals

CONSTANTS
    MaxRuns,        \* how many RunStream calls are accepted
    MaxPrintRuns,   \* ... and how many if progress is printed
    Waits           \* what a caller waits for, see Awaited: "results" and
                    \* "calls" before a run is started, "setup" before all

ASSUME LifecycleAssumption ==
    /\ MaxRuns \in Nat \ {0} /\ MaxPrintRuns \in 0..MaxRuns
    /\ Waits \subseteq {"results", "calls", "setup"}

Run   == 1..MaxRuns
Field == 0..MaxRuns      \* 0: as NewTest left it

RunStream(g)  == <<"RunStream", g>>
Dispatcher(g) == <<"dispatcher", g>>
Progress(g)   == <<"progress", g>>
CloseInput    == <<"CloseInput", 0>>
Stop          == <<"Stop", 0>>
Close         == <<"Close", 0>>

Closer   == {CloseInput, Stop, Close}                          \* of the input
Stopper  == {Dispatcher(g) : g \in Run} \cup {Close}      \* of the progress
Process  == Closer \cup Stopper \cup {RunStream(g) : g \in Run}
                                \cup {Progress(g) : g \in Run}

VARIABLES
    t,          \* the fields of Test; locked and done are closeOnce's
    pc,         \* Process -> program counter
    shut,       \* the channels closed, tickers stopped, contexts cancelled
    saw,        \* Run -> the channels and the ticker its selects wait on
    toCancel,   \* the cancel Stop has read
    fault       \* the panic that ended the process, or "none"

vars == <<t, pc, shut, saw, toCancel, fault>>

Test == [state : {"new", "running", "inputClosed", "stopped"},
         testing : BOOLEAN, locked : BOOLEAN, done : BOOLEAN,
         proxiesCh : Field, stopChan : Field, cancel : Field,
         ticker : Field,               \* 0: nil, as cancel
         print : BOOLEAN]              \* options.Progress.PrintProgress

Label == {"idle", "testing", "input", "stopChan", "cancel", "progress", "start",
          "loop", "select", "state", "close", "ticker", "tick", "end",
          "once", "lock", "closeChan", "store", "unlock",
          "check", "stopTicker", "nil", "checkChan", "closeStop", "returned"}

TypeOK ==
    /\ t \in Test
    /\ pc \in [Process -> Label]
    /\ shut \in [input : SUBSET Field, stopChan : SUBSET Field,
                 ticker : SUBSET Run, ctx : SUBSET Run]
    /\ saw \in [Run -> [input : Field, tick : Field, stop : Field]]
    /\ toCancel \in Field
    /\ fault \in {"none", "nil logTicker", "stopChan closed twice",
                  "proxiesCh closed twice", "unlock of unlocked mutex"}

(* What NewTest returns.                                                   *)
Init ==
    /\ \E p \in BOOLEAN :
          t = [state |-> "new", testing |-> FALSE, locked |-> FALSE,
               done |-> FALSE, proxiesCh |-> 0, stopChan |-> 0, cancel |-> 0,
               ticker |-> 0, print |-> p]
    /\ pc = [p \in Process |-> "idle"]
    /\ shut = [input |-> {}, stopChan |-> {}, ticker |-> {}, ctx |-> {}]
    /\ saw = [g \in Run |-> [input |-> 0, tick |-> 0, stop |-> 0]]
    /\ toCancel = 0 /\ fault = "none"

Up == fault = "none"

Step(p, from, to) == Up /\ pc[p] = from /\ pc' = [pc EXCEPT ![p] = to]

Set(new)    == t' = new /\ UNCHANGED <<shut, saw, toCancel, fault>>
Shut(new)   == shut' = new /\ UNCHANGED <<t, saw, toCancel, fault>>
Sees(new)   == saw' = new /\ UNCHANGED <<t, shut, toCancel, fault>>
JustGoes    == UNCHANGED <<t, shut, saw, toCancel, fault>>
Panics(how) == fault' = how /\ UNCHANGED <<t, shut, saw, toCancel>>

SettingUp    == \E g \in Run : pc[RunStream(g)] \notin {"idle", "returned"}
ResClosed(g) == pc[Dispatcher(g)] \in {"check", "stopTicker", "nil",
                                       "checkChan", "closeStop", "returned"}

(* What a caller can wait for: that the result channels it was given are   *)
(* closed, that its calls of CloseInput, Stop and Close have returned, and *)
(* that those of RunStream have.                                           *)
Awaited(what) ==
    CASE what = "results" -> \A g \in Run : pc[RunStream(g)] = "returned" => ResClosed(g)
      [] what = "calls"   -> \A p \in Closer : pc[p] \in {"idle", "returned"}
      [] what = "setup"   -> ~SettingUp

-----------------------------------------------------------------------------
(* RunStream *)

MayStart(g) == /\ g <= IF t.print THEN MaxPrintRuns ELSE MaxRuns
               /\ \A h \in Run : h < g => pc[RunStream(h)] # "idle"
               /\ \A what \in Waits : Awaited(what)

MayClose == "setup" \in Waits => Awaited("setup")

Claimed == [t EXCEPT !.state = "running", !.locked = FALSE, !.done = FALSE]

(* Slip: closeOnce is not renewed.                                         *)
ClaimOldOnce(g) ==
    /\ MayStart(g) /\ t.state \notin {"running", "stopped"}
    /\ Step(RunStream(g), "idle", "testing")
    /\ Set([t EXCEPT !.state = "running"])

(* The state is claimed and closeOnce overwritten under stateMu; a running *)
(* or stopped test refuses, with nothing changed.                          *)
Claim(g) ==
    /\ MayStart(g) /\ t.state \notin {"running", "stopped"}
    /\ Step(RunStream(g), "idle", "testing") /\ Set(Claimed)

SetTesting(g) ==
    Step(RunStream(g), "testing", "input") /\ Set([t EXCEPT !.testing = TRUE])

(* Slip: the channel of the run before is kept.                            *)
KeepInput(g) == Step(RunStream(g), "input", "stopChan") /\ JustGoes

MakeInput(g) ==
    Step(RunStream(g), "input", "stopChan") /\ Set([t EXCEPT !.proxiesCh = g])

MakeStopChan(g) ==
    Step(RunStream(g), "stopChan", "cancel") /\ Set([t EXCEPT !.stopChan = g])

MakeCancel(g) ==
    Step(RunStream(g), "cancel", "progress") /\ Set([t EXCEPT !.cancel = g])

StartAutoProgress(g) ==
    IF t.print
    THEN /\ Up /\ pc[RunStream(g)] = "progress"
         /\ pc' = [pc EXCEPT ![RunStream(g)] = "start", ![Progress(g)] = "ticker"]
         /\ Set([t EXCEPT !.ticker = g])
    ELSE Step(RunStream(g), "progress", "start") /\ JustGoes

StartDispatcher(g) ==
    /\ Up /\ pc[RunStream(g)] = "start"
    /\ pc' = [pc EXCEPT ![RunStream(g)] = "returned", ![Dispatcher(g)] = "loop"]
    /\ JustGoes

-----------------------------------------------------------------------------
(* The dispatcher goroutine; workers and nodes are left to Stream *)

(* The select reads the field t.proxiesCh anew each time round.            *)
Enter(g) == /\ Step(Dispatcher(g), "loop", "select")
            /\ Sees([saw EXCEPT ![g].input = t.proxiesCh])

TakeNode(g) == /\ saw[g].input \notin shut.input
               /\ Step(Dispatcher(g), "select", "loop")
               /\ Sees([saw EXCEPT ![g].input = 0])

Leave(g) == /\ g \in shut.ctx \/ saw[g].input \in shut.input
            /\ Step(Dispatcher(g), "select", "testing")
            /\ Sees([saw EXCEPT ![g].input = 0])

ClearTesting(g) ==
    Step(Dispatcher(g), "testing", "state") /\ Set([t EXCEPT !.testing = FALSE])

Ended == [t EXCEPT !.state = IF @ = "running" THEN "inputClosed" ELSE @]

(* Slip: the end of a run overwrites the state.                            *)
EndAnyState(g) == /\ Step(Dispatcher(g), "state", "close")
                  /\ Set([t EXCEPT !.state = "inputClosed"])

EndState(g) == Step(Dispatcher(g), "state", "close") /\ Set(Ended)

CloseResults(g) == Step(Dispatcher(g), "close", "check") /\ JustGoes

-----------------------------------------------------------------------------
(* stopProgress, at the end of the dispatcher and of Close *)

CheckTicker(p) ==
    Step(p, "check", IF t.ticker # 0 THEN "stopTicker" ELSE "checkChan") /\ JustGoes

(* t.logTicker.Stop(): the field is read again.                            *)
StopTicker(p) ==
    /\ Step(p, "stopTicker", "nil")
    /\ IF t.ticker = 0 THEN Panics("nil logTicker")
                       ELSE Shut([shut EXCEPT !.ticker = @ \cup {t.ticker}])

ClearTicker(p) == Step(p, "nil", "checkChan") /\ Set([t EXCEPT !.ticker = 0])

(* Slip: a stopped ticker is taken for a stopped goroutine.                *)
StopTickerOnly(p) == Step(p, "checkChan", "returned") /\ JustGoes

(* The select looks whether stopChan is closed, ...                        *)
CheckStopChan(p) ==
    /\ Step(p, "checkChan", IF t.stopChan \in shut.stopChan THEN "returned"
                                                            ELSE "closeStop")
    /\ JustGoes

(* ... and its default case closes whatever the field holds by then.       *)
CloseStopChan(p) ==
    /\ Step(p, "closeStop", "returned")
    /\ IF t.stopChan \in shut.stopChan
       THEN Panics("stopChan closed twice")
       ELSE Shut([shut EXCEPT !.stopChan = @ \cup {t.stopChan}])

-----------------------------------------------------------------------------
(* The progress goroutine *)

(* The select evaluates t.logTicker.C and t.stopChan, in this order.       *)
ReadTicker(g) ==
    /\ Step(Progress(g), "ticker", "stopChan")
    /\ IF t.ticker = 0 THEN Panics("nil logTicker")
                       ELSE Sees([saw EXCEPT ![g].tick = t.ticker])

ReadStopChan(g) == /\ Step(Progress(g), "stopChan", "select")
                   /\ Sees([saw EXCEPT ![g].stop = t.stopChan])

Tick(g) == /\ saw[g].tick \notin shut.ticker
           /\ Step(Progress(g), "select", "tick") /\ JustGoes

LoadTesting(g) ==
    Step(Progress(g), "tick", IF t.testing THEN "ticker" ELSE "end") /\ JustGoes

SeeStop(g) == /\ saw[g].stop \in shut.stopChan
              /\ Step(Progress(g), "select", "end") /\ JustGoes

-----------------------------------------------------------------------------
(* CloseInput: closeOnce.Do and the function inside it *)

AfterOnce(p) == CASE p = CloseInput -> "idle"
                  [] p = Stop       -> "returned"
                  [] p = Close      -> "check"

(* Do returns at once when it is done; that call changes nothing.          *)
ClientClose ==
    /\ ~t.done /\ MayClose
    /\ Step(CloseInput, "idle", "lock") /\ JustGoes

Do(p) == Step(p, "once", IF t.done THEN AfterOnce(p) ELSE "lock") /\ JustGoes

(* Slip: every caller gets to run the function.                            *)
LockNotDone(p) == /\ ~t.locked
                  /\ Step(p, "lock", "state") /\ Set([t EXCEPT !.locked = TRUE])

(* The mutex of the Once; done is looked at again behind it.               *)
Lock(p) ==
    /\ ~t.locked
    /\ Step(p, "lock", IF t.done THEN "unlock" ELSE "state")
    /\ Set([t EXCEPT !.locked = TRUE])

CloseState(p) == Step(p, "state", "closeChan") /\ Set(Ended)

CloseChan(p) ==
    /\ Step(p, "closeChan", "store")
    /\ IF t.proxiesCh \in shut.input
       THEN Panics("proxiesCh closed twice")
       ELSE Shut([shut EXCEPT !.input = @ \cup {t.proxiesCh}])

(* done is set, and the mutex released, in the Once that is there by then. *)
StoreDone(p) == Step(p, "store", "unlock") /\ Set([t EXCEPT !.done = TRUE])

Unlock(p) ==
    /\ Step(p, "unlock", AfterOnce(p))
    /\ IF t.locked THEN Set([t EXCEPT !.locked = FALSE])
                   ELSE Panics("unlock of unlocked mutex")

-----------------------------------------------------------------------------
(* Stop, and Close, which stops first *)

(* Whoever finds the test not yet stopped goes through with it.            *)
BeginStop(p) ==
    /\ t.state # "stopped" /\ MayClose
    /\ Step(p, "idle", "cancel")
    /\ t' = [t EXCEPT !.state = "stopped"]
    /\ toCancel' = t.cancel
    /\ UNCHANGED <<shut, saw, fault>>

(* Close of a Test that is stopped, or just stopping, goes straight on to  *)
(* stopProgress.                                                           *)
CloseStopped ==
    t.state = "stopped" /\ Step(Close, "idle", "check") /\ JustGoes

(* Slip: the cancel of a Test that never ran is called.                    *)
CancelNil(p) == /\ Step(p, "cancel", "once")
                /\ Shut([shut EXCEPT !.ctx = @ \cup {toCancel}])

CallCancel(p) == /\ Step(p, "cancel", "once")
                 /\ Shut([shut EXCEPT !.ctx = @ \cup ({toCancel} \ {0})])

(* The caller cancels the context it gave to RunStream.                    *)
CancelRun(g) ==
    /\ Up /\ pc[RunStream(g)] = "returned" /\ g \notin shut.ctx
    /\ Shut([shut EXCEPT !.ctx = @ \cup {g}])
    /\ UNCHANGED pc

-----------------------------------------------------------------------------
SetUp(g)        == \/ SetTesting(g) \/ MakeInput(g) \/ MakeStopChan(g)
                   \/ MakeCancel(g) \/ StartAutoProgress(g) \/ StartDispatcher(g)
Dispatch(g)     == \/ Enter(g) \/ Leave(g) \/ ClearTesting(g)
                   \/ EndState(g) \/ CloseResults(g)
StopProgress(p) == \/ CheckTicker(p) \/ StopTicker(p) \/ ClearTicker(p)
                   \/ CheckStopChan(p) \/ CloseStopChan(p)
AutoProgress(g) == \/ ReadTicker(g) \/ ReadStopChan(g) \/ Tick(g)
                   \/ LoadTesting(g) \/ SeeStop(g)
Closing(p)      == \/ Do(p) \/ Lock(p) \/ CloseState(p) \/ CloseChan(p)
                   \/ StoreDone(p) \/ Unlock(p)

Client == \/ \E g \in Run : Claim(g) \/ CancelRun(g)
          \/ \E p \in {Stop, Close} : BeginStop(p)
          \/ ClientClose \/ CloseStopped

Idle == /\ ~Up \/ \A g \in Run : pc[RunStream(g)] # "idle" => ResClosed(g)
        /\ UNCHANGED vars

Next == \/ \E g \in Run : SetUp(g) \/ TakeNode(g) \/ Dispatch(g) \/ AutoProgress(g)
        \/ \E p \in Stopper : StopProgress(p)
        \/ \E p \in Closer : Closing(p)
        \/ \E p \in {Stop, Close} : CallCancel(p)
        \/ Client
        \/ Idle

Spec == Init /\ [][Next]_vars

(* Goroutines are scheduled, the input of a run is closed at last, and a   *)
(* select does not pass over its ready cancel case for ever.  That another *)
(* node comes (TakeNode) is not relied on.                                 *)
Fairness ==
    /\ \A g \in Run : /\ WF_vars(SetUp(g)) /\ WF_vars(AutoProgress(g))
                      /\ WF_vars(Dispatch(g)) /\ SF_vars(Leave(g))
    /\ \A p \in Closer : WF_vars(Closing(p))
    /\ \A p \in Stopper : WF_vars(StopProgress(p))
    /\ \A p \in {Stop, Close} : WF_vars(CallCancel(p))
    /\ WF_vars(ClientClose)

FairSpec == Spec /\ Fairness

-----------------------------------------------------------------------------
(* Properties *)

(* A dispatcher takes nodes from the channel its own RunStream made, until *)
(* a later RunStream replaces the field: then from that run's, as it reads *)
(* the field anew - but never from that of a run before its own, however   *)
(* long the old dispatcher drains.                                         *)
OwnInput == \A g \in Run : pc[Dispatcher(g)] = "select" =>
                \E h \in Run : /\ h >= g /\ saw[g].input = h
                              /\ pc[RunStream(h)] # "idle"

(* CloseInput and Stop together close each proxiesCh once, and unlock the  *)
(* closeOnce they locked, whatever their interleaving with each other and  *)
(* with the draining dispatcher of a run before, which a caller need not   *)
(* wait for.  (One that starts a run while a call of CloseInput is under   *)
(* way, as two TestSpeed calls in a row may, has no such promise.)         *)
InputClosedOnce ==
    fault \notin {"proxiesCh closed twice", "unlock of unlocked mutex"}

(* stopProgress stops "safely": it takes no ticker away under a goroutine  *)
(* that still selects on it, and two calls of it ("Double stop should not  *)
(* panic", statistics_test.go) do not both close stopChan.                 *)
ProgressStopsSafely ==
    fault \notin {"nil logTicker", "stopChan closed twice"}

(* A stopped Test stays stopped, and no RunStream gets past it.            *)
StopIsFinal ==
    [][t.state = "stopped" =>
          /\ t'.state = "stopped"
          /\ \A g \in Run : pc[RunStream(g)] = "idle" => pc'[RunStream(g)] = "idle"]_vars

(* The progress goroutine of a run that no other run follows ends.         *)
ProgressEnds ==
    \A g \in Run : pc[Progress(g)] # "idle" ~>
        \/ pc[Progress(g)] = "end" \/ ~Up
        \/ \E h \in Run : h > g /\ pc[RunStream(h)] # "idle"

(* Every run whose input is closed at last ends, also a second one, and    *)
(* also one whose dispatcher still drains when the second is started.      *)
RunsEnd == \A g \in Run : pc[RunStream(g)] # "idle" ~> ResClosed(g) \/ ~Up
=============================================================================
