-------------------------- MODULE LifecycleProofs --------------------------
(***************************************************************************)
(* What holds of Lifecycle for any number of runs: of every caller that    *)
(* the fields keep their types and a stopped Test stays stopped; of one    *)
(* that waits for its own calls to return, though not for the runs they    *)
(* started, that no dispatcher serves the input of an earlier run and that *)
(* every input is closed once.                                             *)
(***************************************************************************)
EXTENDS Lifecycle, TLAPS

-----------------------------------------------------------------------------
(* Names and steps *)

(* No two processes have the same name.                                    *)
LEMMA Names ==
    /\ \A g, h : /\ RunStream(g) = RunStream(h) => g = h
                 /\ Dispatcher(g) = Dispatcher(h) => g = h
                 /\ Progress(g) = Progress(h) => g = h
                 /\ RunStream(g) # Dispatcher(h) /\ RunStream(g) # Progress(h)
                 /\ Dispatcher(g) # Progress(h)
    /\ \A g : \A p \in Closer : /\ p # RunStream(g) /\ p # Dispatcher(g)
                                /\ p # Progress(g)
    /\ CloseInput # Stop /\ CloseInput # Close /\ Stop # Close
BY DEF RunStream, Dispatcher, Progress, CloseInput, Stop, Close, Closer

(* All of them are processes.                                              *)
LEMMA Processes ==
    /\ \A g \in Run : {RunStream(g), Dispatcher(g), Progress(g)} \subseteq Process
    /\ Closer \subseteq Process /\ Stopper \subseteq Process
    /\ {CloseInput, Stop, Close} \subseteq Closer /\ Close \in Stopper
    /\ \A p \in Stopper : p = Close \/ \E g \in Run : p = Dispatcher(g)
BY DEF Process, Closer, Stopper

(* A step of one process leaves the others where they are.                 *)
Elsewhere(p) == \A q \in Process \ {p} : pc'[q] = pc[q]

LEMMA Moves ==
    ASSUME TypeOK, NEW p \in Process, NEW from, NEW to, Step(p, from, to)
    PROVE  pc[p] = from /\ pc'[p] = to /\ Elsewhere(p)
BY DEF Step, TypeOK, Elsewhere

LEMMA RunStreamMoves ==
    ASSUME TypeOK, NEW g \in Run, Elsewhere(RunStream(g))
    PROVE  /\ \A h \in Run \ {g} : pc'[RunStream(h)] = pc[RunStream(h)]
           /\ \A h \in Run : pc'[Dispatcher(h)] = pc[Dispatcher(h)]
           /\ \A p \in Closer : pc'[p] = pc[p]
BY Names, Processes DEF Elsewhere

LEMMA DispatcherMoves ==
    ASSUME TypeOK, NEW g \in Run, Elsewhere(Dispatcher(g))
    PROVE  /\ \A h \in Run : pc'[RunStream(h)] = pc[RunStream(h)]
           /\ \A h \in Run \ {g} : pc'[Dispatcher(h)] = pc[Dispatcher(h)]
           /\ \A p \in Closer : pc'[p] = pc[p]
BY Names, Processes DEF Elsewhere

LEMMA ProgressMoves ==
    ASSUME TypeOK, NEW g \in Run, Elsewhere(Progress(g))
    PROVE  /\ \A h \in Run : pc'[RunStream(h)] = pc[RunStream(h)]
           /\ \A h \in Run : pc'[Dispatcher(h)] = pc[Dispatcher(h)]
           /\ \A p \in Closer : pc'[p] = pc[p]
BY Names, Processes DEF Elsewhere

LEMMA CloserMoves ==
    ASSUME TypeOK, NEW p \in Closer, Elsewhere(p)
    PROVE  /\ \A h \in Run : pc'[RunStream(h)] = pc[RunStream(h)]
           /\ \A h \in Run : pc'[Dispatcher(h)] = pc[Dispatcher(h)]
           /\ \A q \in Closer \ {p} : pc'[q] = pc[q]
BY Names, Processes DEF Elsewhere

(* The steps, one by one.                                                  *)
LEMMA StepCases ==
    ASSUME [Next]_vars
    PROVE  \/ \E g \in Run : \/ Claim(g) \/ SetTesting(g) \/ MakeInput(g)
                             \/ MakeStopChan(g) \/ MakeCancel(g)
                             \/ StartAutoProgress(g) \/ StartDispatcher(g)
                             \/ Enter(g) \/ TakeNode(g) \/ Leave(g)
                             \/ ClearTesting(g) \/ EndState(g) \/ CloseResults(g)
                             \/ ReadTicker(g) \/ ReadStopChan(g) \/ Tick(g)
                             \/ LoadTesting(g) \/ SeeStop(g) \/ CancelRun(g)
           \/ \E p \in Stopper : \/ CheckTicker(p) \/ StopTicker(p) \/ ClearTicker(p)
                                 \/ CheckStopChan(p) \/ CloseStopChan(p)
           \/ \E p \in Closer : \/ Do(p) \/ Lock(p) \/ CloseState(p) \/ CloseChan(p)
                                \/ StoreDone(p) \/ Unlock(p)
           \/ \E p \in {Stop, Close} : CallCancel(p) \/ BeginStop(p)
           \/ ClientClose \/ CloseStopped \/ UNCHANGED vars
BY DEF Next, SetUp, Dispatch, AutoProgress, StopProgress, Closing, Client, Idle

-----------------------------------------------------------------------------
(* Types *)

(* The initial state is of the types.                                      *)
LEMMA InitTyped == Init => TypeOK
<1> SUFFICES ASSUME Init PROVE TypeOK
  OBVIOUS
<1>1. 0 \in Field
  BY LifecycleAssumption DEF Field
<1>2. t \in Test
  BY <1>1 DEF Init, Test
<1>3. pc \in [Process -> Label]
  BY DEF Init, Label
<1> QED BY <1>1, <1>2, <1>3 DEF Init, TypeOK

(* Every run is a value of a field.                                        *)
LEMMA RunIsField ==
    Run \subseteq Field /\ 0 \in Field /\ 0 \notin Run /\ Field = Run \cup {0}
<1>1. MaxRuns \in Nat
  BY LifecycleAssumption
<1> QED BY <1>1 DEF Run, Field

(* The number of runs is a number.                                         *)
LEMMA MaxRunsNat == MaxRuns \in Nat
BY LifecycleAssumption

(* A step to a label keeps the type of pc.                                 *)
LEMMA StepTyped ==
    ASSUME pc \in [Process -> Label], NEW p, NEW from, NEW to, Step(p, from, to),
           to \in Label
    PROVE  pc' \in [Process -> Label]
BY DEF Step

(* Every step keeps the types.                                             *)
LEMMA TypeStep == TypeOK /\ [Next]_vars => TypeOK'
<1> SUFFICES ASSUME TypeOK, [Next]_vars PROVE TypeOK'
  OBVIOUS
<1>1. /\ t \in Test /\ pc \in [Process -> Label]
      /\ shut \in [input : SUBSET Field, stopChan : SUBSET Field,
                   ticker : SUBSET Run, ctx : SUBSET Run]
      /\ saw \in [Run -> [input : Field, tick : Field, stop : Field]]
      /\ toCancel \in Field
      /\ fault \in {"none", "nil logTicker", "stopChan closed twice",
                    "proxiesCh closed twice", "unlock of unlocked mutex"}
      /\ Run \subseteq Field /\ 0 \in Field /\ Field = Run \cup {0}
  BY RunIsField DEF TypeOK
<1>2. ASSUME pc' \in [Process -> Label], JustGoes PROVE TypeOK'
  BY <1>1, <1>2 DEF JustGoes, TypeOK
<1>3. ASSUME pc' \in [Process -> Label], NEW f \in Test, Set(f) PROVE TypeOK'
  BY <1>1, <1>3 DEF Set, TypeOK
<1>4. ASSUME pc' \in [Process -> Label],
             NEW s \in [input : SUBSET Field, stopChan : SUBSET Field,
                        ticker : SUBSET Run, ctx : SUBSET Run], Shut(s)
      PROVE  TypeOK'
  BY <1>1, <1>4 DEF Shut, TypeOK
<1>5. ASSUME pc' \in [Process -> Label],
             NEW s \in [Run -> [input : Field, tick : Field, stop : Field]], Sees(s)
      PROVE  TypeOK'
  BY <1>1, <1>5 DEF Sees, TypeOK
<1>6. ASSUME pc' \in [Process -> Label],
             NEW h \in {"none", "nil logTicker", "stopChan closed twice",
                        "proxiesCh closed twice", "unlock of unlocked mutex"},
             Panics(h)
      PROVE  TypeOK'
  BY <1>1, <1>6 DEF Panics, TypeOK
<1>7. ASSUME NEW g \in Run, Claim(g) \/ SetTesting(g) \/ MakeInput(g)
                            \/ MakeStopChan(g) \/ MakeCancel(g)
      PROVE  TypeOK'
  <2>1. CASE Claim(g)
    <3>1. Claimed \in Test /\ "testing" \in Label
      BY <1>1 DEF Claimed, Test, Label
    <3> QED BY <1>1, <1>3, <2>1, <3>1, StepTyped DEF Claim
  <2>2. CASE SetTesting(g)
    <3>1. [t EXCEPT !.testing = TRUE] \in Test /\ "input" \in Label
      BY <1>1 DEF Test, Label
    <3> QED BY <1>1, <1>3, <2>2, <3>1, StepTyped DEF SetTesting
  <2>3. CASE MakeInput(g)
    <3>1. [t EXCEPT !.proxiesCh = g] \in Test /\ "stopChan" \in Label
      BY <1>1 DEF Test, Label
    <3> QED BY <1>1, <1>3, <2>3, <3>1, StepTyped DEF MakeInput
  <2>4. CASE MakeStopChan(g)
    <3>1. [t EXCEPT !.stopChan = g] \in Test /\ "cancel" \in Label
      BY <1>1 DEF Test, Label
    <3> QED BY <1>1, <1>3, <2>4, <3>1, StepTyped DEF MakeStopChan
  <2>5. CASE MakeCancel(g)
    <3>1. [t EXCEPT !.cancel = g] \in Test /\ "progress" \in Label
      BY <1>1 DEF Test, Label
    <3> QED BY <1>1, <1>3, <2>5, <3>1, StepTyped DEF MakeCancel
  <2> QED BY <1>7, <2>1, <2>2, <2>3, <2>4, <2>5
<1>8. ASSUME NEW g \in Run, StartAutoProgress(g) \/ StartDispatcher(g) PROVE TypeOK'
  <2>1. CASE StartAutoProgress(g)
    <3>1. pc' \in [Process -> Label]
      BY <1>1, <2>1 DEF StartAutoProgress, Step, Label
    <3>2. [t EXCEPT !.ticker = g] \in Test
      BY <1>1 DEF Test
    <3>3. Set([t EXCEPT !.ticker = g]) \/ JustGoes
      BY <2>1 DEF StartAutoProgress
    <3> QED BY <1>2, <1>3, <3>1, <3>2, <3>3
  <2>2. CASE StartDispatcher(g)
    <3>1. pc' \in [Process -> Label]
      BY <1>1, <2>2 DEF StartDispatcher, Label
    <3> QED BY <1>2, <2>2, <3>1 DEF StartDispatcher
  <2> QED BY <1>8, <2>1, <2>2
<1>9. ASSUME NEW g \in Run, Enter(g) \/ TakeNode(g) \/ Leave(g) PROVE TypeOK'
  <2>1. pc' \in [Process -> Label]
    <3>1. {"loop", "select", "testing"} \subseteq Label
      BY DEF Label
    <3>2. \E from, to : Step(Dispatcher(g), from, to) /\ to \in Label
      BY <1>9, <3>1 DEF Enter, TakeNode, Leave
    <3> QED BY <1>1, <3>2, StepTyped
  <2>2. ASSUME NEW v \in Field
        PROVE  [saw EXCEPT ![g].input = v]
                  \in [Run -> [input : Field, tick : Field, stop : Field]]
    BY ZenonT(30), <1>1
  <2>3. \/ Sees([saw EXCEPT ![g].input = t.proxiesCh])
        \/ Sees([saw EXCEPT ![g].input = 0])
    BY <1>9 DEF Enter, TakeNode, Leave
  <2>4. t.proxiesCh \in Field
    BY <1>1 DEF Test
  <2> QED BY <1>1, <1>5, <2>1, <2>2, <2>3, <2>4
<1>10. Ended \in Test
  BY <1>1 DEF Ended, Test
<1>11. ASSUME NEW g \in Run, ClearTesting(g) \/ EndState(g) \/ CloseResults(g)
       PROVE  TypeOK'
  <2>1. pc' \in [Process -> Label]
    BY <1>1, <1>11, StepTyped DEF ClearTesting, EndState, CloseResults, Label
  <2>2. [t EXCEPT !.testing = FALSE] \in Test
    BY <1>1 DEF Test
  <2>3. Set([t EXCEPT !.testing = FALSE]) \/ Set(Ended) \/ JustGoes
    BY <1>11 DEF ClearTesting, EndState, CloseResults
  <2> QED BY <1>2, <1>3, <1>10, <2>1, <2>2, <2>3
<1>12. ASSUME NEW g \in Run, ReadTicker(g) \/ ReadStopChan(g) \/ Tick(g)
                             \/ LoadTesting(g) \/ SeeStop(g)
       PROVE  TypeOK'
  <2>1. pc' \in [Process -> Label]
    <3>1. {"ticker", "stopChan", "select", "tick", "end"} \subseteq Label
      BY DEF Label
    <3>2. \E from, to : Step(Progress(g), from, to) /\ to \in Label
      BY <1>12, <3>1 DEF ReadTicker, ReadStopChan, Tick, LoadTesting, SeeStop
    <3> QED BY <1>1, <3>2, StepTyped
  <2>2. ASSUME NEW v \in Field
        PROVE  /\ [saw EXCEPT ![g].tick = v]
                     \in [Run -> [input : Field, tick : Field, stop : Field]]
               /\ [saw EXCEPT ![g].stop = v]
                     \in [Run -> [input : Field, tick : Field, stop : Field]]
    BY ZenonT(30), <1>1
  <2>3. \/ Sees([saw EXCEPT ![g].tick = t.ticker])
        \/ Sees([saw EXCEPT ![g].stop = t.stopChan])
        \/ Panics("nil logTicker") \/ JustGoes
    BY <1>12 DEF ReadTicker, ReadStopChan, Tick, LoadTesting, SeeStop
  <2>4. t.ticker \in Field /\ t.stopChan \in Field
    BY <1>1 DEF Test
  <2> QED BY <1>2, <1>5, <1>6, <2>1, <2>2, <2>3, <2>4
<1>13. ASSUME NEW g \in Run, CancelRun(g) PROVE TypeOK'
  <2>1. [shut EXCEPT !.ctx = @ \cup {g}]
          \in [input : SUBSET Field, stopChan : SUBSET Field,
               ticker : SUBSET Run, ctx : SUBSET Run]
    BY <1>1
  <2> QED BY <1>1, <1>4, <1>13, <2>1 DEF CancelRun
<1>14. ASSUME NEW p \in Stopper, CheckTicker(p) \/ StopTicker(p) \/ ClearTicker(p)
                                 \/ CheckStopChan(p) \/ CloseStopChan(p)
       PROVE  TypeOK'
  <2>1. pc' \in [Process -> Label]
    BY <1>1, <1>14, StepTyped DEF CheckTicker, StopTicker, ClearTicker,
       CheckStopChan, CloseStopChan, Label
  <2>2. t.ticker # 0 =>
          [shut EXCEPT !.ticker = @ \cup {t.ticker}]
             \in [input : SUBSET Field, stopChan : SUBSET Field,
                  ticker : SUBSET Run, ctx : SUBSET Run]
    <3>1. t.ticker \in Field
      BY <1>1 DEF Test
    <3> QED BY <1>1, <3>1
  <2>3. [shut EXCEPT !.stopChan = @ \cup {t.stopChan}]
             \in [input : SUBSET Field, stopChan : SUBSET Field,
                  ticker : SUBSET Run, ctx : SUBSET Run]
    <3>1. t.stopChan \in Field
      BY <1>1 DEF Test
    <3> QED BY <1>1, <3>1
  <2>4. [t EXCEPT !.ticker = 0] \in Test
    BY <1>1 DEF Test
  <2>5. \/ t.ticker # 0 /\ Shut([shut EXCEPT !.ticker = @ \cup {t.ticker}])
        \/ Shut([shut EXCEPT !.stopChan = @ \cup {t.stopChan}])
        \/ Set([t EXCEPT !.ticker = 0])
        \/ Panics("nil logTicker") \/ Panics("stopChan closed twice") \/ JustGoes
    BY <1>14 DEF CheckTicker, StopTicker, ClearTicker, CheckStopChan, CloseStopChan
  <2> QED BY <1>2, <1>3, <1>4, <1>6, <2>1, <2>2, <2>3, <2>4, <2>5
<1>15. ASSUME NEW p \in Closer, Do(p) \/ Lock(p) \/ CloseState(p) \/ CloseChan(p)
                                \/ StoreDone(p) \/ Unlock(p)
       PROVE  TypeOK'
  <2>1. AfterOnce(p) \in Label
    BY Names DEF AfterOnce, Closer, Label
  <2>2. pc' \in [Process -> Label]
    BY <1>1, <1>15, <2>1, StepTyped DEF Do, Lock, CloseState, CloseChan,
       StoreDone, Unlock, Label
  <2>3. [shut EXCEPT !.input = @ \cup {t.proxiesCh}]
             \in [input : SUBSET Field, stopChan : SUBSET Field,
                  ticker : SUBSET Run, ctx : SUBSET Run]
    <3>1. t.proxiesCh \in Field
      BY <1>1 DEF Test
    <3> QED BY <1>1, <3>1
  <2>4. /\ [t EXCEPT !.locked = TRUE] \in Test /\ [t EXCEPT !.locked = FALSE] \in Test
        /\ [t EXCEPT !.done = TRUE] \in Test
    BY <1>1 DEF Test
  <2>5. \/ Shut([shut EXCEPT !.input = @ \cup {t.proxiesCh}])
        \/ Set([t EXCEPT !.locked = TRUE]) \/ Set([t EXCEPT !.locked = FALSE])
        \/ Set([t EXCEPT !.done = TRUE]) \/ Set(Ended)
        \/ Panics("proxiesCh closed twice") \/ Panics("unlock of unlocked mutex")
        \/ JustGoes
    BY <1>15 DEF Do, Lock, CloseState, CloseChan, StoreDone, Unlock
  <2> QED BY <1>2, <1>3, <1>4, <1>6, <1>10, <2>2, <2>3, <2>4, <2>5
<1>16. ASSUME NEW p \in {Stop, Close}, CallCancel(p) PROVE TypeOK'
  <2>1. pc' \in [Process -> Label]
    BY <1>1, <1>16, StepTyped DEF CallCancel, Label
  <2>2. [shut EXCEPT !.ctx = @ \cup ({toCancel} \ {0})]
             \in [input : SUBSET Field, stopChan : SUBSET Field,
                  ticker : SUBSET Run, ctx : SUBSET Run]
    BY <1>1
  <2> QED BY <1>4, <1>16, <2>1, <2>2 DEF CallCancel
<1>17. ASSUME NEW p \in {Stop, Close}, BeginStop(p) PROVE TypeOK'
  <2>1. pc' \in [Process -> Label]
    BY <1>1, <1>17, StepTyped DEF BeginStop, Label
  <2>2. [t EXCEPT !.state = "stopped"] \in Test /\ t.cancel \in Field
    BY <1>1 DEF Test
  <2> QED BY <1>1, <1>17, <2>1, <2>2 DEF BeginStop, TypeOK
<1>18. ASSUME ClientClose \/ CloseStopped PROVE TypeOK'
  <2>1. pc' \in [Process -> Label]
    BY <1>1, <1>18, StepTyped DEF ClientClose, CloseStopped, Label
  <2> QED BY <1>2, <1>18, <2>1 DEF ClientClose, CloseStopped
<1>19. CASE UNCHANGED vars
  BY <1>1, <1>19 DEF vars, TypeOK
<1> QED BY StepCases, <1>7, <1>8, <1>9, <1>11, <1>12, <1>13, <1>14, <1>15, <1>16,
           <1>17, <1>18, <1>19

(* TypeOK: of every caller.                                                *)
THEOREM Typed == Spec => []TypeOK
BY InitTyped, TypeStep, PTL DEF Spec

-----------------------------------------------------------------------------
(* Steps beside the input and the runs *)

Once    == {"state", "closeChan", "store", "unlock"}   \* inside closeOnce.Do
Open    == {"state", "closeChan", "store"}             \* ... and it is not done
Serving == {"idle", "loop", "select", "testing"}

(* A step of p inside CloseInput, Stop or Close that leaves closeOnce as   *)
(* it is.                                                                  *)
Passes(p) ==
    /\ pc[p] # "returned"
    /\ pc[p] = "idle" => t.state = "stopped" \/ MayClose
    /\ pc'[p] \in Once => pc[p] \in Once
    /\ pc'[p] \in Open => pc[p] \in Open
    /\ pc[p] # "store"

(* A step that leaves the runs and the closing of the input alone.         *)
Bystands ==
    /\ \A g \in Run : /\ pc'[RunStream(g)] = pc[RunStream(g)]
                      /\ saw'[g].input = saw[g].input
                      /\ \/ pc'[Dispatcher(g)] = pc[Dispatcher(g)]
                         \/ /\ pc[Dispatcher(g)] \notin Serving
                            /\ pc'[Dispatcher(g)] \notin Serving
    /\ \A p \in Closer : pc'[p] = pc[p] \/ Passes(p)
    /\ t'.testing = t.testing /\ t'.locked = t.locked /\ t'.done = t.done
    /\ t'.proxiesCh = t.proxiesCh /\ shut'.input = shut.input
    /\ fault' \in {fault, "nil logTicker", "stopChan closed twice"}
    /\ \/ t'.state = t.state
       \/ t'.state = "stopped" /\ MayClose
       \/ /\ t.state = "running" /\ t'.state = "inputClosed"
          /\ \/ \E g \in Run : pc[Dispatcher(g)] = "state"
             \/ \E p \in Closer : pc[p] = "state"

(* What Ended changes.                                                     *)
LEMMA EndedSound ==
    ASSUME TypeOK
    PROVE  /\ Ended.testing = t.testing /\ Ended.locked = t.locked
           /\ Ended.done = t.done /\ Ended.proxiesCh = t.proxiesCh
           /\ \/ Ended.state = t.state
              \/ t.state = "running" /\ Ended.state = "inputClosed"
BY DEF TypeOK, Test, Ended

(* The steps of stopProgress.                                              *)
LEMMA StopProgressBystands ==
    ASSUME TypeOK, NEW p \in Stopper,
           CheckTicker(p) \/ StopTicker(p) \/ ClearTicker(p)
              \/ CheckStopChan(p) \/ CloseStopChan(p)
    PROVE  Bystands
<1> DEFINE Labels == {"check", "stopTicker", "nil", "checkChan", "closeStop", "returned"}
<1>1. p \in Process
  BY Processes
<1>2. \E from \in Labels \ {"returned"}, to \in Labels : Step(p, from, to)
  BY DEF CheckTicker, StopTicker, ClearTicker, CheckStopChan, CloseStopChan
<1>3. pc[p] \in Labels \ {"returned"} /\ pc'[p] \in Labels /\ Elsewhere(p)
  BY <1>1, <1>2, Moves
<1>4. /\ \A g \in Run : saw'[g] = saw[g]
      /\ t'.testing = t.testing /\ t'.locked = t.locked /\ t'.done = t.done
      /\ t'.proxiesCh = t.proxiesCh /\ shut'.input = shut.input
      /\ t'.state = t.state
      /\ fault' \in {fault, "nil logTicker", "stopChan closed twice"}
  <2>1. t \in Test /\ shut \in [input : SUBSET Field, stopChan : SUBSET Field,
                                ticker : SUBSET Run, ctx : SUBSET Run]
    BY DEF TypeOK
  <2>2. CASE CheckTicker(p) \/ CheckStopChan(p)
    BY <2>2 DEF CheckTicker, CheckStopChan, JustGoes
  <2>3. CASE StopTicker(p)
    BY <2>1, <2>3 DEF StopTicker, Panics, Shut
  <2>4. CASE ClearTicker(p)
    BY <2>1, <2>4 DEF ClearTicker, Set, Test
  <2>5. CASE CloseStopChan(p)
    BY <2>1, <2>5 DEF CloseStopChan, Panics, Shut
  <2> QED BY <2>2, <2>3, <2>4, <2>5
<1>5. CASE p = Close
  <2>1. p \in Closer
    BY <1>5, Processes
  <2>2. Passes(p)
    BY <1>3 DEF Passes, Once, Open
  <2> QED BY <1>3, <1>4, <2>1, <2>2, CloserMoves DEF Bystands
<1>6. ASSUME NEW g \in Run, p = Dispatcher(g) PROVE Bystands
  <2>1. pc[Dispatcher(g)] \notin Serving /\ pc'[Dispatcher(g)] \notin Serving
    BY <1>3, <1>6 DEF Serving
  <2>2. Elsewhere(Dispatcher(g))
    BY <1>3, <1>6
  <2> QED BY <1>4, <2>1, <2>2, DispatcherMoves DEF Bystands
<1> QED BY <1>5, <1>6, Processes

(* The steps of the progress goroutine.                                    *)
LEMMA AutoProgressBystands ==
    ASSUME TypeOK, NEW g \in Run,
           ReadTicker(g) \/ ReadStopChan(g) \/ Tick(g) \/ LoadTesting(g) \/ SeeStop(g)
    PROVE  Bystands
<1>1. \E from, to : Step(Progress(g), from, to)
  BY DEF ReadTicker, ReadStopChan, Tick, LoadTesting, SeeStop
<1>2. Elsewhere(Progress(g))
  BY <1>1, Moves, Processes
<1>3. /\ \A h \in Run : saw'[h].input = saw[h].input
      /\ fault' \in {fault, "nil logTicker"} /\ t' = t /\ shut' = shut
  <2>1. saw \in [Run -> [input : Field, tick : Field, stop : Field]]
    BY DEF TypeOK
  <2>2. CASE ReadTicker(g)
    BY <2>1, <2>2 DEF ReadTicker, Panics, Sees
  <2>3. CASE ReadStopChan(g)
    BY <2>1, <2>3 DEF ReadStopChan, Sees
  <2>4. CASE Tick(g) \/ LoadTesting(g) \/ SeeStop(g)
    BY <2>4 DEF Tick, LoadTesting, SeeStop, JustGoes
  <2> QED BY <2>2, <2>3, <2>4
<1> QED BY <1>2, <1>3, ProgressMoves DEF Bystands

(* The end of the dispatcher.                                              *)
LEMMA EndBystands ==
    ASSUME TypeOK, NEW g \in Run, EndState(g) \/ CloseResults(g)
    PROVE  Bystands
<1>1. /\ pc[Dispatcher(g)] \in {"state", "close"} /\ Elsewhere(Dispatcher(g))
      /\ pc'[Dispatcher(g)] \in {"close", "check"}
  BY Moves, Processes DEF EndState, CloseResults
<1>2. saw' = saw /\ shut' = shut /\ fault' = fault
  BY DEF EndState, CloseResults, Set, JustGoes
<1>3. t' = t \/ (t' = Ended /\ pc[Dispatcher(g)] = "state")
  BY DEF EndState, CloseResults, Set, JustGoes, Step
<1>4. pc[Dispatcher(g)] \notin Serving /\ pc'[Dispatcher(g)] \notin Serving
  BY <1>1 DEF Serving
<1> QED BY <1>1, <1>2, <1>3, <1>4, DispatcherMoves, EndedSound DEF Bystands

(* Calls of CloseInput, Stop and Close up to closeOnce, and the state      *)
(* inside it.                                                              *)
LEMMA CloserBystands ==
    ASSUME TypeOK, NEW p \in Closer,
           \/ Do(p) \/ CloseState(p) \/ CallCancel(p) \/ BeginStop(p)
           \/ p = CloseInput /\ ClientClose
           \/ p = Close /\ CloseStopped
    PROVE  Bystands
<1>1. Passes(p) /\ Elsewhere(p)
  <2>1. p \in Process /\ AfterOnce(p) \in {"idle", "returned", "check"}
    BY Processes, Names DEF AfterOnce, Closer
  <2>2. CASE Do(p)
    BY <2>1, <2>2, Moves DEF Do, Passes, Once, Open
  <2>3. CASE CloseState(p)
    BY <2>1, <2>3, Moves DEF CloseState, Passes, Once, Open
  <2>4. CASE CallCancel(p)
    BY <2>1, <2>4, Moves DEF CallCancel, Passes, Once, Open
  <2>5. CASE BeginStop(p)
    BY <2>1, <2>5, Moves DEF BeginStop, Passes, Once, Open
  <2>6. CASE p = CloseInput /\ ClientClose
    BY <2>1, <2>6, Moves DEF ClientClose, Passes, Once, Open
  <2>7. CASE p = Close /\ CloseStopped
    BY <2>1, <2>7, Moves DEF CloseStopped, Passes, Once, Open
  <2> QED BY <2>2, <2>3, <2>4, <2>5, <2>6, <2>7
<1>2. saw' = saw /\ fault' = fault /\ shut'.input = shut.input
  BY DEF TypeOK, Do, CloseState, CallCancel, BeginStop, ClientClose, CloseStopped,
     Set, Shut, JustGoes
<1>3. \/ t' = t
      \/ t' = Ended /\ pc[p] = "state"
      \/ t' = [t EXCEPT !.state = "stopped"] /\ MayClose
  BY DEF Do, CloseState, CallCancel, BeginStop, ClientClose, CloseStopped, Set, Shut,
     JustGoes, Step
<1>4. \A q \in Closer : pc'[q] = pc[q] \/ Passes(q)
  BY <1>1, CloserMoves
<1>5. t' = [t EXCEPT !.state = "stopped"] =>
         /\ t'.testing = t.testing /\ t'.locked = t.locked /\ t'.done = t.done
         /\ t'.proxiesCh = t.proxiesCh /\ t'.state = "stopped"
  BY DEF TypeOK, Test
<1>6. /\ t'.testing = t.testing /\ t'.locked = t.locked /\ t'.done = t.done
      /\ t'.proxiesCh = t.proxiesCh
      /\ \/ t'.state = t.state
         \/ t'.state = "stopped" /\ MayClose
         \/ /\ t.state = "running" /\ t'.state = "inputClosed"
            /\ \E q \in Closer : pc[q] = "state"
  BY <1>3, <1>5, EndedSound
<1> QED BY <1>1, <1>2, <1>4, <1>6, CloserMoves DEF Bystands

(* All other steps.                                                        *)
LEMMA Bystanders ==
    ASSUME TypeOK, [Next]_vars
    PROVE  \/ Bystands
           \/ \E g \in Run : \/ Claim(g) \/ SetTesting(g) \/ MakeInput(g)
                             \/ MakeStopChan(g) \/ MakeCancel(g)
                             \/ StartAutoProgress(g) \/ StartDispatcher(g)
                             \/ Enter(g) \/ TakeNode(g) \/ Leave(g)
                             \/ ClearTesting(g)
           \/ \E p \in Closer : \/ Lock(p) \/ CloseChan(p)
                                \/ StoreDone(p) \/ Unlock(p)
<1>1. ASSUME NEW g \in Run, CancelRun(g) PROVE Bystands
  <2>1. /\ pc' = pc /\ t' = t /\ saw' = saw /\ fault' = fault
        /\ shut'.input = shut.input
    BY <1>1 DEF TypeOK, CancelRun, Shut
  <2> QED BY <2>1 DEF Bystands
<1>2. ASSUME UNCHANGED vars PROVE Bystands
  BY <1>2 DEF vars, Bystands
<1>3. {CloseInput, Stop, Close} \subseteq Closer
  BY Processes
<1>4. ASSUME NEW p \in Closer, Do(p) \/ CloseState(p) \/ CallCancel(p) \/ BeginStop(p)
      PROVE  Bystands
  BY <1>4, CloserBystands
<1>5. ASSUME ClientClose \/ CloseStopped PROVE Bystands
  BY <1>3, <1>5, CloserBystands
<1>6. ASSUME NEW g \in Run,
             \/ ReadTicker(g) \/ ReadStopChan(g) \/ Tick(g) \/ LoadTesting(g) \/ SeeStop(g)
             \/ EndState(g) \/ CloseResults(g)
      PROVE  Bystands
  BY <1>6, AutoProgressBystands, EndBystands
<1>7. ASSUME NEW p \in Stopper,
             \/ CheckTicker(p) \/ StopTicker(p) \/ ClearTicker(p)
             \/ CheckStopChan(p) \/ CloseStopChan(p)
      PROVE  Bystands
  BY <1>7, StopProgressBystands
<1> QED BY StepCases, <1>1, <1>2, <1>3, <1>4, <1>5, <1>6, <1>7

-----------------------------------------------------------------------------
(* A stopped Test *)

(* StopIsFinal: of every caller.                                           *)
THEOREM StopFinal == Spec => StopIsFinal
<1>1. ASSUME TypeOK, [Next]_vars, t.state = "stopped"
      PROVE  /\ t'.state = "stopped"
             /\ \A g \in Run : pc[RunStream(g)] = "idle" => pc'[RunStream(g)] = "idle"
  <2>1. CASE Bystands
    BY <1>1, <2>1 DEF Bystands
  <2>2. ASSUME NEW g \in Run, NEW from, NEW to, Step(RunStream(g), from, to),
               from # "idle"
        PROVE  \A h \in Run : pc[RunStream(h)] = "idle" => pc'[RunStream(h)] = "idle"
    BY <1>1, <2>2, Moves, Processes, RunStreamMoves
  <2>3. ASSUME NEW g \in Run, Claim(g) PROVE FALSE
    BY <1>1, <2>3 DEF Claim
  <2>4. ASSUME NEW g \in Run,
               \/ SetTesting(g) \/ MakeInput(g) \/ MakeStopChan(g) \/ MakeCancel(g)
        PROVE  /\ t'.state = t.state
               /\ \A h \in Run : pc[RunStream(h)] = "idle" => pc'[RunStream(h)] = "idle"
    <3>1. t'.state = t.state
      BY <1>1, <2>4 DEF TypeOK, Test, SetTesting, MakeInput, MakeStopChan, MakeCancel, Set
    <3> QED BY <2>2, <2>4, <3>1 DEF SetTesting, MakeInput, MakeStopChan, MakeCancel
  <2>5. ASSUME NEW g \in Run, StartAutoProgress(g) \/ StartDispatcher(g)
        PROVE  /\ t'.state = t.state
               /\ \A h \in Run : pc[RunStream(h)] = "idle" => pc'[RunStream(h)] = "idle"
    <3>1. t'.state = t.state
      BY <1>1, <2>5 DEF TypeOK, Test, StartAutoProgress, StartDispatcher, Set, JustGoes
    <3>2. /\ pc[RunStream(g)] # "idle"
          /\ \A q \in Process : q # RunStream(g) /\ q # Progress(g) /\ q # Dispatcher(g)
                                   => pc'[q] = pc[q]
      BY <1>1, <2>5 DEF TypeOK, StartAutoProgress, StartDispatcher, Step
    <3> QED BY <3>1, <3>2, Names, Processes
  <2>6. ASSUME NEW g \in Run, Enter(g) \/ TakeNode(g) \/ Leave(g) \/ ClearTesting(g)
        PROVE  /\ t'.state = t.state
               /\ \A h \in Run : pc'[RunStream(h)] = pc[RunStream(h)]
    <3>1. t'.state = t.state
      BY <1>1, <2>6 DEF TypeOK, Test, Enter, TakeNode, Leave, ClearTesting, Set, Sees
    <3>2. \E from, to : Step(Dispatcher(g), from, to)
      BY <2>6 DEF Enter, TakeNode, Leave, ClearTesting
    <3> QED BY <1>1, <3>1, <3>2, Moves, Processes, DispatcherMoves
  <2>7. ASSUME NEW p \in Closer, Lock(p) \/ CloseChan(p) \/ StoreDone(p) \/ Unlock(p)
        PROVE  /\ t'.state = t.state
               /\ \A h \in Run : pc'[RunStream(h)] = pc[RunStream(h)]
    <3>1. t'.state = t.state
      BY <1>1, <2>7 DEF TypeOK, Test, Lock, CloseChan, StoreDone, Unlock, Set, Shut, Panics
    <3>2. \E from, to : Step(p, from, to)
      BY <2>7 DEF Lock, CloseChan, StoreDone, Unlock
    <3> QED BY <1>1, <3>1, <3>2, Moves, Processes, CloserMoves
  <2> QED BY <1>1, <2>1, <2>3, <2>4, <2>5, <2>6, <2>7, Bystanders
<1>2. TypeOK /\ [Next]_vars =>
        [t.state = "stopped" =>
          /\ t'.state = "stopped"
          /\ \A g \in Run : pc[RunStream(g)] = "idle" => pc'[RunStream(g)] = "idle"]_vars
  BY <1>1
<1> QED BY Typed, <1>2, PTL DEF Spec, StopIsFinal

-----------------------------------------------------------------------------
(* Careful callers *)

(* A caller that lets each of its calls return before the next, but not    *)
(* necessarily a run end before the next.                                  *)
Careful == {"calls", "setup"} \subseteq Waits

(* Its RunStream has made its channel.                                     *)
Past(g) == pc[RunStream(g)] \in {"stopChan", "cancel", "progress", "start", "returned"}

(* RunStream works alone: nothing is closed, stopped or started beside it. *)
AloneInv ==
    /\ \A g, h \in Run : h < g /\ pc[RunStream(g)] # "idle"
                            => pc[RunStream(h)] = "returned"
    /\ \A g \in Run : pc[RunStream(g)] # "returned" => pc[Dispatcher(g)] = "idle"
    /\ SettingUp => /\ t.state # "stopped"
                    /\ \A p \in Closer : pc[p] \in {"idle", "returned"}

(* The channel is that of the latest run that made one; who selects on one *)
(* read it there, later than its own run made its own.                     *)
OwnInv ==
    \A g \in Run :
        /\ Past(g) => t.proxiesCh >= g
        /\ pc[Dispatcher(g)] = "select" =>
              \E h \in Run : h >= g /\ saw[g].input = h /\ Past(h)

(* closeOnce is a mutex, and who is to close finds it not done.            *)
OnceInv ==
    /\ \A p \in Closer : pc[p] \in Once =>
          /\ t.locked
          /\ \A q \in Closer : pc[q] \in Once => p = q
    /\ \A p \in Closer : pc[p] \in Open => ~t.done

(* A closed channel is one that was made; the present one is closed only   *)
(* when closeOnce tells, or is about to.                                   *)
ClosedInv ==
    /\ t.proxiesCh = 0 \/ Past(t.proxiesCh)
    /\ \A h \in shut.input : h = 0 \/ Past(h)
    /\ t.proxiesCh \in shut.input =>
          \/ t.done \/ \E p \in Closer : pc[p] = "store"
          \/ \E g \in Run : pc[RunStream(g)] \in {"testing", "input"}

CarefulInv == TypeOK /\ AloneInv /\ OwnInv /\ OnceInv /\ ClosedInv /\ InputClosedOnce

(* The initial state satisfies it.                                         *)
LEMMA InitCareful == Init => CarefulInv
<1> SUFFICES ASSUME Init PROVE CarefulInv
  OBVIOUS
<1>1. TypeOK
  BY InitTyped
<1>2. /\ \A g \in Run : pc[RunStream(g)] = "idle" /\ pc[Dispatcher(g)] = "idle"
      /\ \A p \in Closer : pc[p] = "idle"
      /\ t.proxiesCh = 0 /\ shut.input = {} /\ fault = "none"
  BY Processes DEF Init
<1> QED BY <1>1, <1>2 DEF CarefulInv, AloneInv, OwnInv, OnceInv, ClosedInv,
           InputClosedOnce, Past, SettingUp, Once, Open

(* Steps beside the input and the runs keep it.                            *)
LEMMA BystandsKeep ==
    ASSUME Careful, CarefulInv, Bystands
    PROVE  AloneInv' /\ OwnInv' /\ OnceInv' /\ ClosedInv' /\ InputClosedOnce'
<1>1. TypeOK /\ AloneInv /\ OwnInv /\ OnceInv /\ ClosedInv /\ InputClosedOnce
  BY DEF CarefulInv
<1>2. /\ \A g \in Run : pc'[RunStream(g)] = pc[RunStream(g)]
      /\ SettingUp' <=> SettingUp
      /\ \A g \in Run : Past(g)' <=> Past(g)
  <2>1. \A g \in Run : pc'[RunStream(g)] = pc[RunStream(g)]
    BY DEF Bystands
  <2> QED BY <2>1 DEF Past, SettingUp
<1>3. SettingUp => ~MayClose
  BY DEF Careful, MayClose, Awaited
<1>4. SettingUp => t'.state # "stopped" /\ \A p \in Closer : pc'[p] = pc[p]
  BY <1>1, <1>3 DEF Bystands, Passes, AloneInv
<1>5. AloneInv'
  BY <1>1, <1>2, <1>3, <1>4 DEF AloneInv, Bystands, Serving
<1>6. OwnInv'
  <2>1. t'.proxiesCh = t.proxiesCh /\ \A g \in Run : saw'[g].input = saw[g].input
    BY DEF Bystands
  <2>2. \A g \in Run : pc'[Dispatcher(g)] = "select" => pc[Dispatcher(g)] = "select"
    BY DEF Bystands, Serving
  <2> QED BY <1>1, <1>2, <2>1, <2>2 DEF OwnInv
<1>7. OnceInv'
  BY <1>1 DEF OnceInv, Bystands, Passes
<1>8. ClosedInv'
  <2>1. t.proxiesCh \in Run \cup {0} /\ shut.input \subseteq Run \cup {0}
    BY <1>1, RunIsField DEF TypeOK, Test
  <2> QED BY <1>1, <1>2, <2>1 DEF ClosedInv, Bystands, Passes
<1>9. InputClosedOnce'
  BY <1>1 DEF InputClosedOnce, Bystands
<1> QED BY <1>5, <1>6, <1>7, <1>8, <1>9

(* A run that starts finds no call under way, and renews closeOnce.        *)
LEMMA ClaimKeeps ==
    ASSUME Careful, CarefulInv, NEW g \in Run, Claim(g)
    PROVE  AloneInv' /\ OwnInv' /\ OnceInv' /\ ClosedInv' /\ InputClosedOnce'
<1>1. /\ TypeOK /\ AloneInv /\ OwnInv /\ OnceInv /\ ClosedInv /\ InputClosedOnce
      /\ t.proxiesCh \in Run \cup {0} /\ shut.input \subseteq Run \cup {0}
  BY RunIsField DEF CarefulInv, TypeOK, Test
<1>2. /\ pc[RunStream(g)] = "idle" /\ pc'[RunStream(g)] = "testing"
      /\ \A h \in Run \ {g} : pc'[RunStream(h)] = pc[RunStream(h)]
      /\ \A h \in Run : pc'[Dispatcher(h)] = pc[Dispatcher(h)]
      /\ \A p \in Closer : pc'[p] = pc[p]
  BY <1>1, Moves, RunStreamMoves, Processes DEF Claim
<1>3. /\ t'.state = "running" /\ t'.testing = t.testing /\ ~t'.done
      /\ t'.proxiesCh = t.proxiesCh
      /\ shut' = shut /\ saw' = saw /\ fault' = fault
  BY <1>1 DEF Claim, Claimed, Set, TypeOK, Test
<1>4. /\ \A h \in Run : pc[RunStream(h)] \in {"idle", "returned"}
      /\ \A h \in Run : h < g => pc[RunStream(h)] # "idle"
      /\ \A p \in Closer : pc[p] \in {"idle", "returned"}
  <2>1. MayStart(g) /\ Awaited("setup") /\ Awaited("calls")
    BY DEF Careful, Claim, MayStart
  <2>2. ~SettingUp /\ \A p \in Closer : pc[p] \in {"idle", "returned"}
    BY <2>1 DEF Awaited
  <2> QED BY <2>1, <2>2 DEF SettingUp, MayStart
<1>5. \A h \in Run : g < h => pc[RunStream(h)] = "idle"
  BY <1>1, <1>2 DEF AloneInv
<1>6. AloneInv'
  <2>1. ASSUME NEW h \in Run, NEW k \in Run, k < h, pc'[RunStream(h)] # "idle"
        PROVE  pc'[RunStream(k)] = "returned"
    <3>1. k # g
      <4>1. ASSUME k = g PROVE FALSE
        <5>1. h # g
          BY <2>1, <4>1, MaxRunsNat DEF Run
        <5> QED BY <1>2, <1>5, <2>1, <4>1, <5>1
      <4> QED BY <4>1
    <3>2. CASE h = g
      BY <1>2, <1>4, <2>1, <3>1, <3>2
    <3>3. CASE h # g
      BY <1>1, <1>2, <2>1, <3>1, <3>3 DEF AloneInv
    <3> QED BY <3>2, <3>3
  <2>2. \A h \in Run : pc'[RunStream(h)] # "returned" => pc'[Dispatcher(h)] = "idle"
    BY <1>1, <1>2 DEF AloneInv
  <2>3. t'.state # "stopped" /\ \A p \in Closer : pc'[p] \in {"idle", "returned"}
    BY <1>2, <1>3, <1>4
  <2> QED BY <2>1, <2>2, <2>3 DEF AloneInv
<1>7. OwnInv'
  <2>1. \A h \in Run : Past(h)' <=> Past(h)
    BY <1>2 DEF Past
  <2> QED BY <1>1, <1>2, <1>3, <2>1 DEF OwnInv
<1>8. OnceInv'
  BY <1>2, <1>3, <1>4 DEF OnceInv, Once, Open
<1>9. ClosedInv'
  <2>1. \A h \in Run : Past(h) => Past(h)'
    BY <1>2 DEF Past
  <2> QED BY <1>1, <1>2, <1>3, <2>1 DEF ClosedInv
<1> QED BY <1>1, <1>3, <1>6, <1>7, <1>8, <1>9 DEF InputClosedOnce

(* The steps of RunStream up to its last.                                  *)
LEMMA SetUpKeeps ==
    ASSUME Careful, CarefulInv, NEW g \in Run,
           \/ SetTesting(g) \/ MakeInput(g) \/ MakeStopChan(g) \/ MakeCancel(g)
           \/ StartAutoProgress(g)
    PROVE  AloneInv' /\ OwnInv' /\ OnceInv' /\ ClosedInv' /\ InputClosedOnce'
<1>1. /\ TypeOK /\ AloneInv /\ OwnInv /\ OnceInv /\ ClosedInv /\ InputClosedOnce
      /\ t.proxiesCh \in Run \cup {0} /\ shut.input \subseteq Run \cup {0}
  BY RunIsField DEF CarefulInv, TypeOK, Test
<1>2. /\ \A h \in Run \ {g} : pc'[RunStream(h)] = pc[RunStream(h)]
      /\ \A h \in Run : pc'[Dispatcher(h)] = pc[Dispatcher(h)]
      /\ \A p \in Closer : pc'[p] = pc[p]
  <2>1. ASSUME NEW from, NEW to, Step(RunStream(g), from, to)
        PROVE  Elsewhere(RunStream(g))
    BY <1>1, <2>1, Moves, Processes
  <2>2. CASE StartAutoProgress(g)
    <3>1. \A q \in Process : q # RunStream(g) /\ q # Progress(g) => pc'[q] = pc[q]
      BY <1>1, <2>2 DEF TypeOK, StartAutoProgress, Step
    <3> QED BY <3>1, Names, Processes
  <2>3. CASE ~StartAutoProgress(g)
    BY <1>1, <2>1, <2>3, RunStreamMoves DEF SetTesting, MakeInput, MakeStopChan, MakeCancel
  <2> QED BY <2>2, <2>3
<1>3. /\ t'.state = t.state /\ t'.done = t.done /\ t'.locked = t.locked
      /\ shut' = shut /\ saw' = saw /\ fault' = fault
      /\ \/ /\ pc[RunStream(g)] = "testing" /\ pc'[RunStream(g)] = "input"
            /\ t'.testing /\ t'.proxiesCh = t.proxiesCh
         \/ /\ pc[RunStream(g)] = "input" /\ pc'[RunStream(g)] = "stopChan"
            /\ t'.testing = t.testing /\ t'.proxiesCh = g
         \/ /\ pc[RunStream(g)] \in {"stopChan", "cancel", "progress"}
            /\ pc'[RunStream(g)] \in {"cancel", "progress", "start"}
            /\ t'.testing = t.testing /\ t'.proxiesCh = t.proxiesCh
  <2>1. RunStream(g) \in Process
    BY Processes
  <2>2. t \in Test /\ pc \in [Process -> Label]
    BY <1>1 DEF TypeOK
  <2>3. CASE SetTesting(g)
    BY <2>1, <2>2, <2>3 DEF SetTesting, Step, Set, Test
  <2>4. CASE MakeInput(g)
    BY <2>1, <2>2, <2>4 DEF MakeInput, Step, Set, Test
  <2>5. CASE MakeStopChan(g)
    BY <2>1, <2>2, <2>5 DEF MakeStopChan, Step, Set, Test
  <2>6. CASE MakeCancel(g)
    BY <2>1, <2>2, <2>6 DEF MakeCancel, Step, Set, Test
  <2>7. CASE StartAutoProgress(g)
    <3>1. RunStream(g) # Progress(g)
      BY Names
    <3> QED BY <2>1, <2>2, <2>7, <3>1 DEF StartAutoProgress, Step, Set, JustGoes, Test
  <2> QED BY <2>3, <2>4, <2>5, <2>6, <2>7
<1>4. SettingUp /\ SettingUp'
  BY <1>3 DEF SettingUp
<1>5. /\ \A h \in Run : h < g => pc[RunStream(h)] = "returned"
      /\ \A h \in Run : g < h => pc[RunStream(h)] = "idle"
  BY <1>1, <1>3 DEF AloneInv
<1>6. \A h \in Run : Past(h) => Past(h)'
  BY <1>2, <1>3 DEF Past
<1>7. AloneInv'
  BY <1>1, <1>2, <1>3, <1>4 DEF AloneInv
<1>8. OwnInv'
  <2>1. ASSUME NEW h \in Run, Past(h)' PROVE t'.proxiesCh >= h
    <3>1. CASE pc[RunStream(g)] = "input"
      <4>1. ~(g < h)
        BY <1>2, <1>5, <2>1, MaxRunsNat DEF Past, Run
      <4> QED BY <1>3, <3>1, <4>1, MaxRunsNat DEF Run
    <3>2. CASE pc[RunStream(g)] # "input"
      <4>1. Past(h) /\ t'.proxiesCh = t.proxiesCh
        BY <1>2, <1>3, <2>1, <3>2 DEF Past
      <4> QED BY <1>1, <4>1 DEF OwnInv
    <3> QED BY <3>1, <3>2
  <2> QED BY <1>1, <1>2, <1>3, <1>6, <2>1 DEF OwnInv
<1>9. OnceInv'
  BY <1>1, <1>2, <1>3, <1>4 DEF OnceInv
<1>10. ClosedInv'
  <2>1. (t.proxiesCh = 0 \/ Past(t.proxiesCh))'
    <3>1. CASE t'.proxiesCh = t.proxiesCh
      <4>1. t.proxiesCh = 0 \/ Past(t.proxiesCh)
        BY <1>1 DEF ClosedInv
      <4> QED BY <1>1, <1>6, <3>1, <4>1 DEF Past
    <3>2. CASE t'.proxiesCh # t.proxiesCh
      BY <1>3, <3>2 DEF Past
    <3> QED BY <3>1, <3>2
  <2>2. \A h \in shut'.input : h = 0 \/ Past(h)'
    BY <1>1, <1>3, <1>6 DEF ClosedInv
  <2>3. ASSUME t'.proxiesCh \in shut'.input, NEW h \in Run,
               pc[RunStream(h)] \in {"testing", "input"}
        PROVE  pc'[RunStream(g)] \in {"testing", "input"}
    <3>1. h = g
      <4>1. ~(h < g) /\ ~(g < h)
        BY <1>2, <1>3, <1>5, <2>3
      <4> QED BY <4>1, MaxRunsNat DEF Run
    <3>2. g \in shut.input => Past(g)
      BY <1>1, RunIsField DEF ClosedInv
    <3> QED BY <1>3, <2>3, <3>1, <3>2 DEF Past
  <2>4. ASSUME t'.proxiesCh \in shut'.input, t'.proxiesCh # t.proxiesCh PROVE FALSE
    <3>1. g \in shut.input /\ pc[RunStream(g)] = "input"
      BY <1>3, <2>4
    <3> QED BY <1>1, <3>1, RunIsField DEF ClosedInv, Past
  <2> QED BY <1>1, <1>2, <1>3, <2>1, <2>2, <2>3, <2>4 DEF ClosedInv
<1> QED BY <1>1, <1>3, <1>7, <1>8, <1>9, <1>10 DEF InputClosedOnce

(* The last starts the dispatcher, which serves until it leaves.           *)
LEMMA DispatchKeeps ==
    ASSUME Careful, CarefulInv, NEW g \in Run,
           \/ StartDispatcher(g) \/ Enter(g) \/ TakeNode(g) \/ Leave(g) \/ ClearTesting(g)
    PROVE  AloneInv' /\ OwnInv' /\ OnceInv' /\ ClosedInv' /\ InputClosedOnce'
<1>1. /\ TypeOK /\ AloneInv /\ OwnInv /\ OnceInv /\ ClosedInv /\ InputClosedOnce
      /\ t.proxiesCh \in Run \cup {0} /\ shut.input \subseteq Run \cup {0}
  BY RunIsField DEF CarefulInv, TypeOK, Test
<1>2. /\ \A h \in Run \ {g} : /\ pc'[RunStream(h)] = pc[RunStream(h)]
                              /\ pc'[Dispatcher(h)] = pc[Dispatcher(h)]
      /\ \A p \in Closer : pc'[p] = pc[p]
  <2>1. CASE StartDispatcher(g)
    <3>1. \A q \in Process : q # RunStream(g) /\ q # Dispatcher(g) => pc'[q] = pc[q]
      BY <1>1, <2>1 DEF TypeOK, StartDispatcher
    <3> QED BY <3>1, Names, Processes
  <2>2. CASE ~StartDispatcher(g)
    <3>1. \E from, to : Step(Dispatcher(g), from, to)
      BY <2>2 DEF Enter, TakeNode, Leave, ClearTesting
    <3>2. Elsewhere(Dispatcher(g))
      BY <1>1, <3>1, Moves, Processes
    <3> QED BY <1>1, <3>2, DispatcherMoves
  <2> QED BY <2>1, <2>2
<1>3. /\ t'.state = t.state /\ t'.done = t.done /\ t'.locked = t.locked
      /\ t'.proxiesCh = t.proxiesCh /\ shut' = shut /\ fault' = fault
      /\ \A h \in Run \ {g} : saw'[h] = saw[h]
      /\ \/ /\ pc[RunStream(g)] = "start" /\ pc'[RunStream(g)] = "returned"
            /\ pc'[Dispatcher(g)] = "loop" /\ t'.testing = t.testing
         \/ /\ pc'[RunStream(g)] = pc[RunStream(g)]
            /\ pc[Dispatcher(g)] \in {"loop", "select"} /\ t'.testing = t.testing
            /\ pc'[Dispatcher(g)] \in {"loop", "select", "testing"}
            /\ pc'[Dispatcher(g)] = "select" => saw'[g].input = t.proxiesCh
         \/ /\ pc'[RunStream(g)] = pc[RunStream(g)]
            /\ pc[Dispatcher(g)] = "testing" /\ pc'[Dispatcher(g)] = "state"
  <2>1. /\ RunStream(g) \in Process /\ Dispatcher(g) \in Process
        /\ RunStream(g) # Dispatcher(g)
    BY Processes, Names
  <2>2. /\ t \in Test /\ pc \in [Process -> Label]
        /\ saw \in [Run -> [input : Field, tick : Field, stop : Field]]
    BY <1>1 DEF TypeOK
  <2>3. CASE StartDispatcher(g)
    BY <2>1, <2>2, <2>3 DEF StartDispatcher, JustGoes
  <2>4. CASE Enter(g)
    BY <2>1, <2>2, <2>4 DEF Enter, Step, Sees
  <2>5. CASE TakeNode(g)
    BY <2>1, <2>2, <2>5 DEF TakeNode, Step, Sees
  <2>6. CASE Leave(g)
    BY <2>1, <2>2, <2>6 DEF Leave, Step, Sees
  <2>7. CASE ClearTesting(g)
    BY <2>1, <2>2, <2>7 DEF ClearTesting, Step, Set, Test
  <2> QED BY <2>3, <2>4, <2>5, <2>6, <2>7
<1>4. pc[RunStream(g)] = "start" \/ pc[Dispatcher(g)] \in {"loop", "select", "testing"}
  BY <1>3
<1>5. /\ Past(g)
      /\ pc[RunStream(g)] = "start" => pc[Dispatcher(g)] = "idle"
  BY <1>1, <1>4 DEF AloneInv, Past
<1>6. /\ \A h \in Run : Past(h)' <=> Past(h)
      /\ SettingUp' => SettingUp
  BY <1>2, <1>3, <1>5 DEF Past, SettingUp
<1>7. AloneInv'
  <2>1. \A h \in Run : pc'[RunStream(h)] # "returned" => pc'[Dispatcher(h)] = "idle"
    BY <1>1, <1>2, <1>3, <1>5 DEF AloneInv
  <2>2. \A h \in Run : pc[RunStream(h)] = "returned" => pc'[RunStream(h)] = "returned"
    BY <1>2, <1>3
  <2>3. \A h \in Run : pc'[RunStream(h)] # "idle" => pc[RunStream(h)] # "idle"
    BY <1>2, <1>3
  <2> QED BY <1>1, <1>2, <1>3, <1>6, <2>1, <2>2, <2>3 DEF AloneInv
<1>8. OwnInv'
  <2>1. ASSUME NEW h \in Run, h # g, pc'[Dispatcher(h)] = "select"
        PROVE  \E k \in Run : k >= h /\ saw'[h].input = k /\ Past(k)'
    BY <1>1, <1>2, <1>3, <1>6, <2>1 DEF OwnInv
  <2>2. ASSUME pc'[Dispatcher(g)] = "select"
        PROVE  \E k \in Run : k >= g /\ saw'[g].input = k /\ Past(k)'
    <3>1. t.proxiesCh >= g /\ t.proxiesCh # 0
      BY <1>1, <1>5, MaxRunsNat DEF OwnInv, Run
    <3>2. PICK k \in Run : t.proxiesCh = k /\ Past(k)
      BY <1>1, <3>1 DEF ClosedInv
    <3>3. saw'[g].input = t.proxiesCh
      BY <1>1, <1>3, <1>5, <2>2 DEF AloneInv
    <3> QED BY <1>6, <3>1, <3>2, <3>3
  <2> QED BY <1>1, <1>3, <1>6, <2>1, <2>2 DEF OwnInv
<1>9. OnceInv'
  BY <1>1, <1>2, <1>3 DEF OnceInv
<1>10. ClosedInv'
  BY <1>1, <1>2, <1>3, <1>6 DEF ClosedInv
<1> QED BY <1>1, <1>3, <1>7, <1>8, <1>9, <1>10 DEF InputClosedOnce

(* The steps inside closeOnce.                                             *)
LEMMA OnceKeeps ==
    ASSUME Careful, CarefulInv, NEW p \in Closer,
           Lock(p) \/ CloseChan(p) \/ StoreDone(p) \/ Unlock(p)
    PROVE  AloneInv' /\ OwnInv' /\ OnceInv' /\ ClosedInv' /\ InputClosedOnce'
<1>1. /\ TypeOK /\ AloneInv /\ OwnInv /\ OnceInv /\ ClosedInv /\ InputClosedOnce
      /\ t.proxiesCh \in Run \cup {0} /\ shut.input \subseteq Run \cup {0}
  BY RunIsField DEF CarefulInv, TypeOK, Test
<1>2. p \in Process /\ AfterOnce(p) \in {"idle", "returned", "check"}
  BY Processes, Names DEF AfterOnce, Closer
<1>3. \E from, to : Step(p, from, to)
  BY DEF Lock, CloseChan, StoreDone, Unlock
<1>4. /\ \A h \in Run : /\ pc'[RunStream(h)] = pc[RunStream(h)]
                        /\ pc'[Dispatcher(h)] = pc[Dispatcher(h)]
      /\ \A q \in Closer \ {p} : pc'[q] = pc[q]
  BY <1>1, <1>2, <1>3, Moves, CloserMoves
<1>5. pc[p] \in {"lock", "closeChan", "store", "unlock"}
  BY <1>1, <1>2 DEF Lock, CloseChan, StoreDone, Unlock, Step
<1>6. ~SettingUp
  BY <1>1, <1>5 DEF AloneInv
<1>7. \A h \in Run : pc[RunStream(h)] \notin {"testing", "input"}
  BY <1>6 DEF SettingUp
<1>8. pc[p] = "closeChan" => t.proxiesCh \notin shut.input
  <2>1. ASSUME pc[p] = "closeChan", NEW q \in Closer, pc[q] = "store" PROVE FALSE
    BY <1>1, <2>1 DEF OnceInv, Once
  <2> QED BY <1>1, <1>7, <2>1 DEF OnceInv, Open, ClosedInv
<1>9. pc[p] = "unlock" => t.locked
  BY <1>1 DEF OnceInv, Once
<1>10. /\ t'.state = t.state /\ t'.testing = t.testing /\ t'.proxiesCh = t.proxiesCh
       /\ saw' = saw /\ fault' = fault
       /\ \/ /\ pc[p] = "lock" /\ ~t.locked /\ t'.locked /\ t'.done = t.done
             /\ pc'[p] = (IF t.done THEN "unlock" ELSE "state") /\ shut' = shut
          \/ /\ pc[p] = "closeChan" /\ pc'[p] = "store"
             /\ t'.locked = t.locked /\ t'.done = t.done
             /\ shut'.input = shut.input \cup {t.proxiesCh}
          \/ /\ pc[p] = "store" /\ pc'[p] = "unlock"
             /\ t'.locked = t.locked /\ t'.done /\ shut' = shut
          \/ /\ pc[p] = "unlock" /\ pc'[p] \notin Once
             /\ t'.done = t.done /\ shut' = shut
  <2>1. /\ t \in Test /\ pc \in [Process -> Label]
        /\ shut \in [input : SUBSET Field, stopChan : SUBSET Field,
                     ticker : SUBSET Run, ctx : SUBSET Run]
    BY <1>1 DEF TypeOK
  <2>2. CASE Lock(p)
    BY <1>2, <2>1, <2>2 DEF Lock, Step, Set, Test
  <2>3. CASE CloseChan(p)
    BY <1>2, <1>8, <2>1, <2>3 DEF CloseChan, Step, Shut, Panics
  <2>4. CASE StoreDone(p)
    BY <1>2, <2>1, <2>4 DEF StoreDone, Step, Set, Test
  <2>5. CASE Unlock(p)
    BY <1>2, <1>9, <2>1, <2>5 DEF Unlock, Step, Set, Panics, Test, Once
  <2> QED BY <2>2, <2>3, <2>4, <2>5
<1>11. /\ \A h \in Run : Past(h)' <=> Past(h)
       /\ SettingUp' <=> SettingUp
  BY <1>4 DEF Past, SettingUp
<1>12. AloneInv'
  BY <1>1, <1>4, <1>6, <1>11 DEF AloneInv
<1>13. OwnInv'
  BY <1>1, <1>4, <1>10, <1>11 DEF OwnInv
<1>14. OnceInv'
  BY <1>1, <1>4, <1>10 DEF OnceInv, Once, Open
<1>15. ClosedInv'
  BY <1>1, <1>4, <1>7, <1>10, <1>11 DEF ClosedInv
<1> QED BY <1>1, <1>10, <1>12, <1>13, <1>14, <1>15 DEF InputClosedOnce

(* Every step keeps it.                                                    *)
LEMMA CarefulStep == Careful /\ CarefulInv /\ [Next]_vars => CarefulInv'
<1> SUFFICES ASSUME Careful, CarefulInv, [Next]_vars PROVE CarefulInv'
  OBVIOUS
<1>1. TypeOK /\ TypeOK'
  BY TypeStep DEF CarefulInv
<1> QED BY <1>1, Bystanders, BystandsKeep, ClaimKeeps, SetUpKeeps, DispatchKeeps,
           OnceKeeps DEF CarefulInv

(* CarefulInv holds of a caller whose calls return before its next one.    *)
THEOREM CarefulInvariance == Careful /\ Spec => []CarefulInv
<1>1. CASE Careful
  <2>1. CarefulInv /\ [Next]_vars => CarefulInv'
    BY <1>1, CarefulStep
  <2> QED BY InitCareful, <2>1, PTL DEF Spec
<1>2. CASE ~Careful
  BY <1>2
<1> QED BY <1>1, <1>2

(* OwnInput: also while dispatchers of earlier runs drain, none serves the *)
(* input of a run before its own.                                          *)
THEOREM InputOwned == Careful /\ Spec => []OwnInput
<1>1. CarefulInv => OwnInput
  BY DEF CarefulInv, OwnInv, OwnInput, Past
<1> QED BY CarefulInvariance, <1>1, PTL

(* InputClosedOnce: also beside draining dispatchers, no input is closed   *)
(* twice, by whoever closes, and no closeOnce unlocked that is not locked. *)
THEOREM ClosedOnce == Careful /\ Spec => []InputClosedOnce
<1>1. CarefulInv => InputClosedOnce
  BY DEF CarefulInv
<1> QED BY CarefulInvariance, <1>1, PTL
=============================================================================
