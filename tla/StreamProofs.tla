---------------------------- MODULE StreamProofs ----------------------------
(***************************************************************************)
(* What holds of Stream for every set of nodes and calls and every queue   *)
(* length and concurrency.                                                 *)
(***************************************************************************)
EXTENDS Stream, FiniteSetTheorems, TLAPS

(* Every disjunct of Library and Client by name: the case splits below     *)
(* follow it.                                                              *)
LEMMA LibraryCases ==
    ASSUME Library
    PROVE  \/ \E k \in Call : CountTotal(k) \/ CutShort(k) \/ Return(k)
           \/ \E c \in Config : \/ Spawn(c) /\ CallOf[c] \in Call
                                \/ Skip(c) \/ ParseOk(c) \/ ParseFail(c)
                                \/ CountFailed(c) \/ Send(c) \/ Block(c)
                                \/ SendPanic(c) \/ Drop(c)
           \/ \E c \in Config : Recv(c) \/ Acquire(c) \/ AcquireCancel(c)
           \/ RecvEnd \/ WaitWorkers \/ UpdateState \/ CloseResults
           \/ \E c \in Config : \/ \E v \in {"alive", "dead"} : Tested(c, v)
                                \/ \E v \in {"nil", "panic"} : Untestable(c, v)
                                \/ Emit(c) \/ EmitCancel(c) \/ Tally(c)
                                \/ Leave(c)
           \/ CloseChan \/ StopCancel \/ StopClose \/ PropagateCancel
BY DEF Library, Caller, Adder, Dispatcher, Worker, NodesOf

LEMMA StepCases ==
    ASSUME Library \/ Client
    PROVE  \/ \E k \in Call : \/ Begin(k) \/ CountTotal(k)
                              \/ CutShort(k) \/ Return(k)
           \/ \E c \in Config : \/ Spawn(c) /\ CallOf[c] \in Call
                                \/ Skip(c) \/ ParseOk(c) \/ ParseFail(c)
                                \/ CountFailed(c) \/ Send(c) \/ Block(c)
                                \/ SendPanic(c) \/ Drop(c)
           \/ \E c \in Config : Recv(c) \/ Acquire(c) \/ AcquireCancel(c)
           \/ RecvEnd \/ WaitWorkers \/ UpdateState \/ CloseResults
           \/ \E c \in Config : \/ \E v \in {"alive", "dead"} : Tested(c, v)
                                \/ \E v \in {"nil", "panic"} : Untestable(c, v)
                                \/ Emit(c) \/ EmitCancel(c) \/ Tally(c)
                                \/ Leave(c) \/ Consume(c)
           \/ ClientClose \/ CloseChan \/ ClientStop \/ StopCancel \/ StopClose
           \/ Cancel \/ CancelAdds \/ PropagateCancel
BY LibraryCases DEF Client

LEMMA BatchFinite ==
    ASSUME NEW k \in Call
    PROVE  IsFiniteSet(NodesOf(k)) /\ Cardinality(NodesOf(k)) \in Nat
<1>1. IsFiniteSet(Config) /\ NodesOf(k) \subseteq Config
  BY ConfigAssumption DEF NodesOf
<1> QED
  BY <1>1, FS_Subset, FS_CardinalityType

LEMMA InitType == Init => TypeOK
<1>1. Init => NodeTypeOK
  BY DEF Init, NodeTypeOK, Stage, Verdict, InCall
<1>2. Init => ControlTypeOK
  BY DEF Init, ControlTypeOK
<1> QED
  BY <1>1, <1>2 DEF TypeOK

LEMMA TypeStep == TypeOK /\ [Next]_vars => TypeOK'
<1> SUFFICES ASSUME TypeOK, [Next]_vars
             PROVE  NodeTypeOK' /\ ControlTypeOK'
  BY DEF TypeOK
<1> USE DEF itemVars, tallyVars, callVars, inputVars, loopVars, ctxVars
<1>1. CASE UNCHANGED vars
  <2>1. NodeTypeOK'
    BY <1>1 DEF vars, TypeOK, NodeTypeOK
  <2>2. ControlTypeOK'
    <3> USE <1>1 DEF vars, TypeOK, ControlTypeOK
    <3>1. /\ state' \in {"running", "inputClosed", "stopped"}
          /\ once' \in {"fresh", "running", "done"}
      OBVIOUS
    <3>2. dpc' \in {"recv", "sem", "wait", "update", "close", "end"}
      OBVIOUS
    <3>3. /\ stopPc' \in {"idle", "cancel", "close", "done"}
          /\ fault' \in {"none", "send on closed channel"}
      OBVIOUS
    <3>4. /\ chanClosed' \in BOOLEAN /\ resClosed' \in BOOLEAN
          /\ ctxDone' \in BOOLEAN /\ addCtxDone' \in BOOLEAN
          /\ streamDone' \in BOOLEAN
      OBVIOUS
    <3> QED
      BY <3>1, <3>2, <3>3, <3>4, Zenon
  <2> QED
    BY <2>1, <2>2
<1>2. CASE Library \/ Client
  <2>1. ASSUME NEW k \in Call,
               Begin(k) \/ CountTotal(k) \/ CutShort(k) \/ Return(k)
        PROVE  NodeTypeOK' /\ ControlTypeOK'
    <3>1. NodeTypeOK'
      BY <2>1, BatchFinite DEF Begin, CountTotal, CutShort, Return, TypeOK,
           NodeTypeOK, Stage, Adding, InCall
    <3>2. ControlTypeOK'
      BY <2>1, ZenonT(60) DEF Begin, CountTotal, CutShort, Return, TypeOK,
           ControlTypeOK
    <3> QED
      BY <3>1, <3>2
  <2>2. ASSUME NEW c \in Config,
               \/ Spawn(c) \/ Skip(c) \/ ParseOk(c) \/ ParseFail(c)
               \/ CountFailed(c) \/ Send(c) \/ Block(c)
               \/ SendPanic(c) \/ Drop(c)
        PROVE  NodeTypeOK' /\ ControlTypeOK'
    <3> USE DEF Spawn, Skip, ParseOk, ParseFail, CountFailed, Send, Block,
                SendPanic, Drop
    <3>1. NodeTypeOK'
      <4>1. CASE \/ Spawn(c) \/ ParseOk(c) \/ Send(c) \/ Block(c)
                 \/ SendPanic(c)
        BY <4>1 DEF TypeOK, NodeTypeOK, Stage, Adding
      <4>2. CASE Skip(c) \/ ParseFail(c)
        BY <4>2 DEF TypeOK, NodeTypeOK, Stage, Verdict, Adding
      <4>3. CASE CountFailed(c) \/ Drop(c)
        BY <4>3 DEF TypeOK, NodeTypeOK, Stage, Verdict, Adding
      <4> QED
        BY <2>2, <4>1, <4>2, <4>3
    <3>2. ControlTypeOK'
      BY <2>2, ZenonT(60) DEF TypeOK, ControlTypeOK
    <3> QED
      BY <3>1, <3>2
  <2>3. ASSUME \/ \E c \in Config : Recv(c) \/ Acquire(c) \/ AcquireCancel(c)
               \/ RecvEnd \/ WaitWorkers \/ UpdateState \/ CloseResults
        PROVE  NodeTypeOK' /\ ControlTypeOK'
    <3> USE DEF Recv, Acquire, AcquireCancel, RecvEnd, WaitWorkers,
                UpdateState, CloseResults
    <3>1. NodeTypeOK'
      BY <2>3 DEF TypeOK, NodeTypeOK, Stage, Working
    <3>2. ControlTypeOK'
      BY <2>3, ZenonT(60) DEF TypeOK, ControlTypeOK
    <3> QED
      BY <3>1, <3>2
  <2>4. ASSUME NEW c \in Config,
               \/ \E v \in {"alive", "dead"} : Tested(c, v)
               \/ \E v \in {"nil", "panic"} : Untestable(c, v)
               \/ Emit(c) \/ EmitCancel(c) \/ Tally(c) \/ Leave(c)
               \/ Consume(c)
        PROVE  NodeTypeOK' /\ ControlTypeOK'
    <3> USE DEF Tested, Untestable, Emit, EmitCancel, Tally, Leave, Consume
    <3>1. NodeTypeOK'
      BY <2>4 DEF TypeOK, NodeTypeOK, Stage, Verdict, Working
    <3>2. ControlTypeOK'
      BY <2>4, ZenonT(60) DEF TypeOK, ControlTypeOK
    <3> QED
      BY <3>1, <3>2
  <2>5. CASE \/ ClientClose \/ CloseChan \/ ClientStop \/ StopCancel
             \/ StopClose \/ Cancel \/ CancelAdds \/ PropagateCancel
    <3> USE DEF ClientClose, CloseInput, CloseChan, ClientStop, Stop,
                StopCancel, StopClose, Cancel, CancelAdds, PropagateCancel
    <3>1. NodeTypeOK'
      BY <2>5 DEF TypeOK, NodeTypeOK
    <3>2. ControlTypeOK'
      BY <2>5, ZenonT(60) DEF TypeOK, ControlTypeOK
    <3> QED
      BY <3>1, <3>2
  <2> QED
    BY <1>2, <2>1, <2>2, <2>3, <2>4, <2>5, StepCases
<1> QED
  BY <1>1, <1>2 DEF Next, Idle

(* Every variable keeps its type.                                          *)
THEOREM TypeCorrect == Spec => []TypeOK
BY InitType, TypeStep, PTL DEF Spec

-----------------------------------------------------------------------------
(* The state of a node agrees with the state of its call.                  *)
LEMMA NodeStep == TypeOK /\ NodeInv /\ [Next]_vars => NodeInv'
<1> SUFFICES ASSUME TypeOK, NodeInv, [Next]_vars, NEW d \in Config
             PROVE  NodeOK(d)'
  BY DEF NodeInv
<1> USE DEF itemVars, tallyVars, callVars, inputVars, loopVars, ctxVars
<1>0. /\ stage \in [Config -> Stage] /\ callPc \in [Call ->
              {"idle", "ok", "cancelled", "refused"} \cup InCall]
      /\ CallOf[d] \in Call
  BY ConfigAssumption DEF TypeOK, NodeTypeOK
<1>1. NodeOK(d)
  BY DEF NodeInv
<1>2. CASE UNCHANGED vars
  BY <1>1, <1>2 DEF vars, NodeOK
<1>3. CASE Library \/ Client
  <2>1. ASSUME NEW k \in Call, Begin(k) \/ CutShort(k)
        PROVE  NodeOK(d)'
    BY <1>0, <1>1, <2>1 DEF Begin, CutShort, NodeOK, Adding, Announcing
  <2>2. ASSUME NEW k \in Call, CountTotal(k)
        PROVE  NodeOK(d)'
    BY <1>0, <1>1, <2>2 DEF CountTotal, NodeOK, Adding, Announcing, NodesOf
  <2>3. ASSUME NEW k \in Call, Return(k)
        PROVE  NodeOK(d)'
    BY <1>0, <1>1, <2>3 DEF Return, NodeOK, Adding, Announcing, NodesOf, At
  <2>4. ASSUME NEW c \in Config,
               \/ Spawn(c) \/ Skip(c) \/ ParseOk(c) \/ ParseFail(c)
               \/ CountFailed(c) \/ Send(c) \/ Block(c)
               \/ SendPanic(c) \/ Drop(c)
        PROVE  NodeOK(d)'
    BY <1>0, <1>1, <2>4 DEF Spawn, Skip, ParseOk, ParseFail, CountFailed,
         Send, Block, SendPanic, Drop, NodeOK, Adding, Announcing
  <2>5. ASSUME \/ \E c \in Config : Recv(c) \/ Acquire(c) \/ AcquireCancel(c)
               \/ RecvEnd \/ WaitWorkers \/ UpdateState \/ CloseResults
        PROVE  NodeOK(d)'
    BY <1>0, <1>1, <2>5 DEF Recv, Acquire, AcquireCancel, RecvEnd,
         WaitWorkers, UpdateState, CloseResults, NodeOK, Adding
  <2>6. ASSUME NEW c \in Config,
               \/ \E v \in {"alive", "dead"} : Tested(c, v)
               \/ \E v \in {"nil", "panic"} : Untestable(c, v)
               \/ Emit(c) \/ EmitCancel(c) \/ Tally(c) \/ Leave(c)
               \/ Consume(c)
        PROVE  NodeOK(d)'
    BY <1>0, <1>1, <2>6 DEF Tested, Untestable, Emit, EmitCancel, Tally, Leave,
         Consume, NodeOK, Adding
  <2>7. CASE \/ ClientClose \/ CloseChan \/ ClientStop \/ StopCancel
             \/ StopClose \/ Cancel \/ CancelAdds \/ PropagateCancel
    BY <1>0, <1>1, <2>7 DEF ClientClose, CloseInput, CloseChan, ClientStop,
         Stop, StopCancel, StopClose, Cancel, CancelAdds, PropagateCancel,
         NodeOK
  <2> QED
    BY <1>3, <2>1, <2>2, <2>3, <2>4, <2>5, <2>6, <2>7, StepCases
<1> QED
  BY <1>2, <1>3 DEF Next, Idle

(* A node's verdict agrees with its stage and its result.                  *)
LEMMA VerdictStep ==
    TypeOK /\ NodeInv /\ VerdictInv /\ [Next]_vars => VerdictInv'
<1> SUFFICES ASSUME TypeOK, NodeInv, VerdictInv, [Next]_vars, NEW d \in Config
             PROVE  VerdictOK(d)'
  BY DEF VerdictInv
<1> USE DEF itemVars, tallyVars, callVars, inputVars, loopVars, ctxVars
<1>0. /\ stage \in [Config -> Stage] /\ verdict \in [Config -> Verdict]
      /\ out \in [Config -> {"none", "sent", "received"}]
  BY DEF TypeOK, NodeTypeOK
<1>1. VerdictOK(d)
  BY DEF VerdictInv
<1>2. CASE UNCHANGED vars
  BY <1>1, <1>2 DEF vars, VerdictOK
<1>3. CASE Library \/ Client
  <2>1. ASSUME NEW k \in Call, Begin(k) \/ CutShort(k) \/ Return(k)
        PROVE  VerdictOK(d)'
    BY <1>1, <2>1 DEF Begin, CutShort, Return, VerdictOK
  <2>2. ASSUME NEW k \in Call, CountTotal(k)
        PROVE  VerdictOK(d)'
    <3>1. d \in NodesOf(k) => stage[d] = "new"
      BY <2>2 DEF CountTotal, NodesOf, NodeInv, NodeOK, Announcing
    <3> QED
      BY <1>0, <1>1, <2>2, <3>1 DEF CountTotal, VerdictOK
  <2>3. ASSUME NEW c \in Config,
               Spawn(c) \/ ParseOk(c) \/ Send(c) \/ Block(c) \/ SendPanic(c)
        PROVE  VerdictOK(d)'
    BY <1>0, <1>1, <2>3 DEF Spawn, ParseOk, Send, Block, SendPanic, VerdictOK
  <2>4. ASSUME NEW c \in Config,
               Skip(c) \/ ParseFail(c) \/ CountFailed(c) \/ Drop(c)
        PROVE  VerdictOK(d)'
    BY <1>0, <1>1, <2>4 DEF Skip, ParseFail, CountFailed, Drop, VerdictOK
  <2>5. ASSUME \/ \E c \in Config : Recv(c) \/ Acquire(c) \/ AcquireCancel(c)
               \/ RecvEnd \/ WaitWorkers \/ UpdateState \/ CloseResults
        PROVE  VerdictOK(d)'
    BY <1>0, <1>1, <2>5 DEF Recv, Acquire, AcquireCancel, RecvEnd,
         WaitWorkers, UpdateState, CloseResults, VerdictOK
  <2>6. ASSUME NEW c \in Config,
               \/ \E v \in {"alive", "dead"} : Tested(c, v)
               \/ \E v \in {"nil", "panic"} : Untestable(c, v)
        PROVE  VerdictOK(d)'
    BY <1>0, <1>1, <2>6 DEF Tested, Untestable, VerdictOK
  <2>7. ASSUME NEW c \in Config,
               Emit(c) \/ EmitCancel(c) \/ Tally(c) \/ Leave(c) \/ Consume(c)
        PROVE  VerdictOK(d)'
    BY <1>0, <1>1, <2>7 DEF Emit, EmitCancel, Tally, Leave, Consume, VerdictOK
  <2>8. CASE \/ ClientClose \/ CloseChan \/ ClientStop \/ StopCancel
             \/ StopClose \/ Cancel \/ CancelAdds \/ PropagateCancel
    BY <1>1, <2>8 DEF ClientClose, CloseInput, CloseChan, ClientStop,
         Stop, StopCancel, StopClose, Cancel, CancelAdds, PropagateCancel,
         VerdictOK
  <2> QED
    BY <1>3, <2>1, <2>2, <2>3, <2>4, <2>5, <2>6, <2>7, <2>8, StepCases
<1> QED
  BY <1>2, <1>3 DEF Next, Idle

(* The dispatcher's loop: see LoopInv.                                     *)
LEMMA LoopStep == TypeOK /\ LoopInv /\ [Next]_vars => LoopInv'
<1> SUFFICES ASSUME TypeOK, LoopInv, [Next]_vars
             PROVE  LoopInv'
  OBVIOUS
<1> USE DEF itemVars, tallyVars, callVars, inputVars, loopVars, ctxVars
<1>0. /\ stage \in [Config -> Stage]
      /\ dpc \in {"recv", "sem", "wait", "update", "close", "end"}
      /\ chanClosed \in BOOLEAN /\ resClosed \in BOOLEAN
      /\ streamDone \in BOOLEAN
  BY DEF TypeOK, NodeTypeOK, ControlTypeOK
<1>2. CASE UNCHANGED vars
  BY <1>2 DEF vars, LoopInv
<1>3. CASE Library \/ Client
  <2>1. ASSUME NEW k \in Call, Begin(k) \/ CutShort(k) \/ Return(k)
        PROVE  LoopInv'
    BY <2>1 DEF Begin, CutShort, Return, LoopInv
  <2>2. ASSUME NEW k \in Call, CountTotal(k)
        PROVE  LoopInv'
    BY <1>0, <2>2 DEF CountTotal, LoopInv, Working
  <2>3. ASSUME NEW c \in Config,
               \/ Spawn(c) \/ Skip(c) \/ ParseOk(c) \/ ParseFail(c)
               \/ CountFailed(c) \/ Block(c) \/ SendPanic(c) \/ Drop(c)
        PROVE  LoopInv'
    <3>1. /\ UNCHANGED <<dpc, resClosed, streamDone, chanClosed>>
          /\ \A d \in Config : \/ stage'[d] = stage[d]
                               \/ stage'[d] \notin {"held", "queued"} \cup Working
      BY <1>0, <2>3 DEF Spawn, Skip, ParseOk, ParseFail, CountFailed, Block,
           SendPanic, Drop, Working
    <3> QED
      BY <1>0, <3>1 DEF LoopInv
  <2>4. ASSUME NEW c \in Config, Send(c)
        PROVE  LoopInv'
    BY <1>0, <2>4 DEF Send, LoopInv, Working
  <2>5. ASSUME NEW c \in Config, Recv(c) \/ Acquire(c) \/ AcquireCancel(c)
        PROVE  LoopInv'
    BY <1>0, <2>5 DEF Recv, Acquire, AcquireCancel, LoopInv, Working
  <2>6. CASE RecvEnd \/ WaitWorkers \/ UpdateState \/ CloseResults
    BY <1>0, <2>6 DEF RecvEnd, WaitWorkers, UpdateState, CloseResults,
         LoopInv, At
  <2>7. ASSUME NEW c \in Config,
               \/ \E v \in {"alive", "dead"} : Tested(c, v)
               \/ \E v \in {"nil", "panic"} : Untestable(c, v)
               \/ Emit(c) \/ EmitCancel(c) \/ Tally(c) \/ Leave(c)
               \/ Consume(c)
        PROVE  LoopInv'
    BY <1>0, <2>7 DEF Tested, Untestable, Emit, EmitCancel, Tally, Leave,
         Consume, LoopInv, Working
  <2>8. CASE \/ ClientClose \/ CloseChan \/ ClientStop \/ StopCancel
             \/ StopClose \/ Cancel \/ CancelAdds \/ PropagateCancel
    BY <1>0, <2>8 DEF ClientClose, CloseInput, CloseChan, ClientStop,
         Stop, StopCancel, StopClose, Cancel, CancelAdds, PropagateCancel,
         LoopInv
  <2> QED
    BY <1>3, <2>1, <2>2, <2>3, <2>4, <2>5, <2>6, <2>7, <2>8, StepCases
<1> QED
  BY <1>2, <1>3 DEF Next, Idle

(* With an orderly caller nobody holds a node to send when proxiesCh       *)
(* closes, and no call is admitted afterwards.  A step of such a caller:   *)
OrderlyStep ==
    \/ Library \/ Cancel \/ CancelAdds
    \/ \E k \in Call : Begin(k)
    \/ \E c \in Config : Consume(c)
    \/ NoCallInProgress /\ (CloseInput \/ Stop)

LEMMA OrderlyKeeps ==
    ASSUME TypeOK, NodeInv, HandoverInv, OrderlyStep
    PROVE  HandoverInv'
<1> USE DEF itemVars, tallyVars, callVars, inputVars, loopVars, ctxVars
<1>0. /\ callPc \in [Call -> {"idle", "ok", "cancelled", "refused"} \cup InCall]
      /\ state \in {"running", "inputClosed", "stopped"}
      /\ \A c \in Config : CallOf[c] \in Call
  BY ConfigAssumption DEF TypeOK, NodeTypeOK, ControlTypeOK
<1>1. ASSUME NEW k \in Call,
             Begin(k) \/ CountTotal(k) \/ CutShort(k) \/ Return(k)
      PROVE  HandoverInv'
  BY <1>0, <1>1 DEF Begin, CountTotal, CutShort, Return, HandoverInv,
       NoCallInProgress, InCall
<1>2. ASSUME NEW c \in Config, SendPanic(c)
      PROVE  FALSE
  <2>1. callPc[CallOf[c]] \in InCall
    BY <1>2 DEF SendPanic, NodeInv, NodeOK, Adding, InCall
  <2>2. NoCallInProgress
    BY <1>2 DEF SendPanic, HandoverInv
  <2> QED
    BY <1>0, <2>1, <2>2 DEF NoCallInProgress
<1>3. ASSUME NEW c \in Config,
             \/ Spawn(c) \/ Skip(c) \/ ParseOk(c) \/ ParseFail(c)
             \/ CountFailed(c) \/ Send(c) \/ Block(c) \/ Drop(c)
      PROVE  HandoverInv'
  BY <1>3 DEF Spawn, Skip, ParseOk, ParseFail, CountFailed, Send, Block,
       Drop, HandoverInv, NoCallInProgress
<1>4. ASSUME \/ \E c \in Config : Recv(c) \/ Acquire(c) \/ AcquireCancel(c)
             \/ RecvEnd \/ WaitWorkers \/ UpdateState \/ CloseResults
      PROVE  HandoverInv'
  BY <1>4 DEF Recv, Acquire, AcquireCancel, RecvEnd, WaitWorkers,
       UpdateState, CloseResults, HandoverInv, NoCallInProgress
<1>5. ASSUME NEW c \in Config,
             \/ \E v \in {"alive", "dead"} : Tested(c, v)
             \/ \E v \in {"nil", "panic"} : Untestable(c, v)
             \/ Emit(c) \/ EmitCancel(c) \/ Tally(c) \/ Leave(c)
             \/ Consume(c)
      PROVE  HandoverInv'
  BY <1>5 DEF Tested, Untestable, Emit, EmitCancel, Tally, Leave, Consume,
       HandoverInv, NoCallInProgress
<1>6. CASE CloseChan \/ (NoCallInProgress /\ (CloseInput \/ Stop))
  BY <1>6 DEF CloseInput, CloseChan, Stop, HandoverInv, NoCallInProgress
<1>7. CASE \/ StopCancel \/ StopClose \/ Cancel \/ CancelAdds
           \/ PropagateCancel
  BY <1>7 DEF StopCancel, StopClose, CloseInput, Cancel, CancelAdds,
       PropagateCancel, HandoverInv, NoCallInProgress
<1> QED
  BY <1>1, <1>2, <1>3, <1>4, <1>5, <1>6, <1>7, LibraryCases
     DEF OrderlyStep

LEMMA HandoverStep ==
    ASSUME Orderly
    PROVE  TypeOK /\ NodeInv /\ HandoverInv /\ [Next]_vars => HandoverInv'
<1> SUFFICES ASSUME TypeOK, NodeInv, HandoverInv, [Next]_vars
             PROVE  HandoverInv'
  OBVIOUS
<1>1. CASE UNCHANGED vars
  BY <1>1 DEF vars, itemVars, callVars, inputVars, HandoverInv, NoCallInProgress
<1>2. CASE Library \/ Client
  BY <1>2, OrderlyKeeps DEF OrderlyStep, Client, ClientClose, ClientStop
<1> QED
  BY <1>1, <1>2 DEF Next, Idle

(* What holds initially.                                                   *)
LEMMA InitInv ==
    Init => /\ TypeOK /\ NodeInv /\ VerdictInv /\ LoopInv /\ HandoverInv
            /\ CountInv
<1> SUFFICES ASSUME Init
             PROVE  /\ TypeOK /\ NodeInv /\ VerdictInv /\ LoopInv
                    /\ HandoverInv /\ CountInv
  OBVIOUS
<1>1. TypeOK
  BY InitType
<1>2. NodeInv /\ VerdictInv
  BY ConfigAssumption
     DEF Init, NodeInv, NodeOK, VerdictInv, VerdictOK, Adding, Announcing
<1>3. LoopInv /\ HandoverInv
  BY DEF Init, LoopInv, HandoverInv, Working, NoCallInProgress, InCall
<1>4. CountInv
  <2>1. Announced = {} /\ Counted = {}
    BY ConfigAssumption DEF Init, Announced, Counted, At, Announcing
  <2>2. AliveNodes = {} /\ InvalidNodes = {}
    BY DEF Init, AliveNodes, InvalidNodes
  <2> QED
    BY <2>1, <2>2, FS_EmptySet DEF Init, CountInv
<1> QED
  BY <1>1, <1>2, <1>3, <1>4

-----------------------------------------------------------------------------
(* Counting *)

LEMMA AddOne ==
    ASSUME NEW S \in SUBSET Config, NEW c \in Config, c \notin S
    PROVE  Cardinality(S \cup {c}) = Cardinality(S) + 1
<1>1. IsFiniteSet(S)
  BY ConfigAssumption, FS_Subset
<1> QED
  BY <1>1, FS_AddElement

(* The four counters follow the nodes.                                     *)
LEMMA CountStep ==
    TypeOK /\ NodeInv /\ VerdictInv /\ CountInv /\ [Next]_vars => CountInv'
<1> SUFFICES ASSUME TypeOK, NodeInv, VerdictInv, CountInv, [Next]_vars
             PROVE  CountInv'
  OBVIOUS
<1> USE DEF itemVars, tallyVars, callVars, inputVars, loopVars, ctxVars
<1> DEFINE SameCalls  == Announced' = Announced /\ totalCount' = totalCount
           SameCounted == Counted' = Counted /\ count' = count
           SameAlive   == AliveNodes' = AliveNodes /\ aliveCount' = aliveCount
           SameInvalid == /\ InvalidNodes' = InvalidNodes
                          /\ invalidCount' = invalidCount
<1>0. /\ stage \in [Config -> Stage] /\ verdict \in [Config -> Verdict]
      /\ callPc \in [Call -> {"idle", "ok", "cancelled", "refused"} \cup InCall]
      /\ \A c \in Config : CallOf[c] \in Call
  BY ConfigAssumption DEF TypeOK, NodeTypeOK
<1>1. /\ Announced \in SUBSET Config /\ Counted \in SUBSET Config
      /\ AliveNodes \in SUBSET Config /\ InvalidNodes \in SUBSET Config
  BY DEF Announced, Counted, At, AliveNodes, InvalidNodes
<1>2. ASSUME SameCalls, SameCounted, SameAlive, SameInvalid
      PROVE  CountInv'
  BY <1>2 DEF CountInv
<1>3. ASSUME NEW c \in Config, c \notin Counted, SameCalls, SameAlive,
             Counted' = Counted \cup {c}, count' = count + 1,
             SameInvalid
      PROVE  CountInv'
  BY <1>1, <1>3, AddOne DEF CountInv
<1>4. ASSUME NEW c \in Config, c \notin InvalidNodes,
             SameCalls, SameCounted, SameAlive,
             InvalidNodes' = InvalidNodes \cup {c},
             invalidCount' = invalidCount + 1
      PROVE  CountInv'
  BY <1>1, <1>4, AddOne DEF CountInv
<1>5. ASSUME NEW c \in Config, c \notin AliveNodes,
             SameCalls, SameCounted, SameInvalid,
             AliveNodes' = AliveNodes \cup {c},
             aliveCount' = aliveCount + 1
      PROVE  CountInv'
  BY <1>1, <1>5, AddOne DEF CountInv
<1>6. CASE UNCHANGED vars
  BY <1>2, <1>6 DEF vars, Announced, Counted, At, AliveNodes, InvalidNodes
<1>7. CASE Library \/ Client
  <2>1. ASSUME NEW k \in Call, Begin(k) \/ CutShort(k) \/ Return(k)
        PROVE  CountInv'
    <3>1. SameCalls
      BY <1>0, <2>1 DEF Begin, CutShort, Return, Announced, Announcing
    <3>2. SameCounted /\ SameAlive /\ SameInvalid
      BY <2>1 DEF Begin, CutShort, Return, Counted, At, AliveNodes,
                  InvalidNodes
    <3> QED
      BY <1>2, <3>1, <3>2
  <2>2. ASSUME NEW k \in Call, CountTotal(k)
        PROVE  CountInv'
    <3>1. Announced' = Announced \cup NodesOf(k)
      BY <1>0, <2>2 DEF CountTotal, Announced, Announcing, NodesOf
    <3>2. Announced \cap NodesOf(k) = {}
      BY <2>2 DEF CountTotal, Announced, Announcing, NodesOf
    <3>3. Cardinality(Announced') = Cardinality(Announced) + Cardinality(NodesOf(k))
      <4>1. IsFiniteSet(Announced) /\ IsFiniteSet(NodesOf(k))
        BY <1>1, ConfigAssumption, FS_Subset, BatchFinite
      <4>2. Cardinality(Announced \cap NodesOf(k)) = 0
        BY <3>2, FS_EmptySet
      <4>3. Cardinality(Announced \cup NodesOf(k))
              = Cardinality(Announced) + Cardinality(NodesOf(k))
                  - Cardinality(Announced \cap NodesOf(k))
        BY <4>1, FS_Union
      <4>4. Cardinality(Announced) \in Nat /\ Cardinality(NodesOf(k)) \in Nat
        BY <4>1, FS_CardinalityType
      <4> QED
        BY <3>1, <4>2, <4>3, <4>4
    <3>4. \A c \in NodesOf(k) : stage[c] = "new"
      BY <2>2 DEF CountTotal, NodesOf, NodeInv, NodeOK, Announcing
    <3>5. SameCounted
      BY <2>2, <3>4 DEF CountTotal, Counted, At
    <3>6. SameAlive /\ SameInvalid
      BY <2>2 DEF CountTotal, AliveNodes, InvalidNodes
    <3>7. totalCount' = Cardinality(Announced')
      BY <2>2, <3>3 DEF CountInv, CountTotal
    <3> QED
      BY <3>5, <3>6, <3>7 DEF CountInv
  <2>3. ASSUME NEW c \in Config,
               \/ Spawn(c) \/ ParseOk(c) \/ Send(c) \/ Block(c)
               \/ SendPanic(c) \/ Recv(c) \/ Acquire(c) \/ AcquireCancel(c)
               \/ Emit(c) \/ EmitCancel(c) \/ Leave(c) \/ Consume(c)
        PROVE  CountInv'
    <3>1. SameCalls /\ SameAlive /\ SameInvalid
      BY <2>3 DEF Spawn, ParseOk, Send, Block, SendPanic, Recv, Acquire,
           AcquireCancel, Emit, EmitCancel, Leave, Consume, Announced,
           AliveNodes, InvalidNodes
    <3>2. SameCounted
      <4>1. count' = count
        BY <2>3 DEF Spawn, ParseOk, Send, Block, SendPanic, Recv, Acquire,
             AcquireCancel, Emit, EmitCancel, Leave, Consume
      <4>2. \A d \in Config : stage'[d] \in {"leave", "gone"}
                                <=> stage[d] \in {"leave", "gone"}
        BY <1>0, <2>3 DEF Spawn, ParseOk, Send, Block, SendPanic, Recv,
             Acquire, AcquireCancel, Emit, EmitCancel, Leave, Consume
      <4> QED
        BY <4>1, <4>2 DEF Counted, At
    <3> QED
      BY <1>2, <3>1, <3>2
  <2>4. ASSUME NEW c \in Config, Skip(c) \/ Drop(c) \/ CountFailed(c) \/ Tally(c)
        PROVE  CountInv'
    <3>1. c \notin Counted /\ Counted' = Counted \cup {c} /\ count' = count + 1
      BY <1>0, <2>4 DEF Skip, Drop, CountFailed, Tally, Counted, At
    <3>2. SameCalls
      BY <2>4 DEF Skip, Drop, CountFailed, Tally, Announced
    <3>3. SameAlive /\ SameInvalid
      <4>1. CASE Skip(c) \/ Drop(c)
        <5>1. verdict[c] = "none"
          BY <4>1 DEF Skip, Drop, VerdictInv, VerdictOK
        <5> QED
          BY <1>0, <4>1, <5>1 DEF Skip, Drop, AliveNodes, InvalidNodes
      <4>2. CASE CountFailed(c) \/ Tally(c)
        BY <4>2 DEF CountFailed, Tally, AliveNodes, InvalidNodes
      <4> QED
        BY <2>4, <4>1, <4>2
    <3> QED
      BY <1>3, <3>1, <3>2, <3>3
  <2>5. ASSUME NEW c \in Config,
               \/ ParseFail(c)
               \/ \E v \in {"alive", "dead"} : Tested(c, v)
               \/ \E v \in {"nil", "panic"} : Untestable(c, v)
        PROVE  CountInv'
    <3>1. verdict[c] = "none"
      BY <2>5 DEF ParseFail, Tested, Untestable, VerdictInv, VerdictOK
    <3>2. SameCalls
      BY <2>5 DEF ParseFail, Tested, Untestable, Announced
    <3>3. SameCounted
      BY <1>0, <2>5 DEF ParseFail, Tested, Untestable, Counted, At
    <3>4. CASE Tested(c, "alive")
      <4>1. /\ c \notin AliveNodes /\ AliveNodes' = AliveNodes \cup {c}
            /\ aliveCount' = aliveCount + 1 /\ SameInvalid
        BY <1>0, <3>1, <3>4 DEF Tested, AliveNodes, InvalidNodes
      <4> QED
        BY <1>5, <3>2, <3>3, <4>1
    <3>5. CASE ParseFail(c) \/ Tested(c, "dead") \/ Untestable(c, "nil")
      <4>1. /\ c \notin InvalidNodes /\ InvalidNodes' = InvalidNodes \cup {c}
            /\ invalidCount' = invalidCount + 1 /\ SameAlive
        BY <1>0, <3>1, <3>5 DEF ParseFail, Tested, Untestable, AliveNodes,
             InvalidNodes
      <4> QED
        BY <1>4, <3>2, <3>3, <4>1
    <3>6. CASE Untestable(c, "panic")
      <4>1. SameAlive /\ SameInvalid
        BY <1>0, <3>1, <3>6 DEF Untestable, AliveNodes, InvalidNodes
      <4> QED
        BY <1>2, <3>2, <3>3, <4>1
    <3> QED
      BY <2>5, <3>4, <3>5, <3>6
  <2>6. CASE \/ RecvEnd \/ WaitWorkers \/ UpdateState \/ CloseResults
             \/ ClientClose \/ CloseChan \/ ClientStop \/ StopCancel
             \/ StopClose \/ Cancel \/ CancelAdds \/ PropagateCancel
    <3>1. /\ UNCHANGED <<stage, verdict, callPc>>
          /\ UNCHANGED <<count, invalidCount, aliveCount, totalCount>>
      BY <2>6 DEF RecvEnd, WaitWorkers, UpdateState, CloseResults,
           ClientClose, CloseInput, CloseChan, ClientStop, Stop, StopCancel,
           StopClose, Cancel, CancelAdds, PropagateCancel
    <3> QED
      BY <1>2, <3>1 DEF Announced, Counted, At, AliveNodes, InvalidNodes
  <2> QED
    BY <1>7, <2>1, <2>2, <2>3, <2>4, <2>5, <2>6, StepCases
<1> QED
  BY <1>6, <1>7 DEF Next, Idle

-----------------------------------------------------------------------------
(* The theorems *)

(* The invariant that needs nothing of the caller.                         *)
StreamInv == TypeOK /\ NodeInv /\ VerdictInv /\ LoopInv /\ CountInv

LEMMA StreamInvariant == Spec => []StreamInv
<1>1. Init => StreamInv
  BY InitInv DEF StreamInv
<1>2. StreamInv /\ [Next]_vars => StreamInv'
  BY TypeStep, NodeStep, VerdictStep, LoopStep, CountStep DEF StreamInv
<1> QED
  BY <1>1, <1>2, PTL DEF Spec

LEMMA HandoverInvariant ==
    ASSUME Orderly
    PROVE  Spec => []HandoverInv
<1>1. Init => HandoverInv
  BY InitInv
<1>2. StreamInv /\ HandoverInv /\ [Next]_vars => HandoverInv'
  BY HandoverStep DEF StreamInv
<1> QED
  BY <1>1, <1>2, StreamInvariant, PTL DEF Spec

(* An orderly caller never makes the library send on a closed channel.     *)
THEOREM OrderlyNoPanic ==
    ASSUME Orderly
    PROVE  Spec => []NoPanic
<1>1. HandoverInv => NoPanic
  BY DEF HandoverInv, NoPanic, Up
<1> QED
  BY <1>1, HandoverInvariant, PTL

(* Whatever the caller does, at no moment are more nodes processed, or     *)
(* more alive and invalid together, than were announced.                   *)
CountsWithinTotal ==
    count <= totalCount /\ aliveCount + invalidCount <= totalCount

(* It follows from what the counters count.                                *)
LEMMA InvBounded == StreamInv => CountsWithinTotal
<1> SUFFICES ASSUME StreamInv PROVE CountsWithinTotal
  OBVIOUS
<1>1. IsFiniteSet(Announced)
  BY ConfigAssumption, FS_Subset DEF Announced
<1>2. Counted \subseteq Announced
  BY DEF StreamInv, NodeInv, NodeOK, Counted, At, Announced
<1>3. AliveNodes \cup InvalidNodes \subseteq Announced
  BY DEF StreamInv, NodeInv, NodeOK, VerdictInv, VerdictOK, AliveNodes,
         InvalidNodes, Announced
<1>4. IsFiniteSet(AliveNodes) /\ IsFiniteSet(InvalidNodes)
  BY <1>1, <1>3, FS_Subset
<1>5. Cardinality(AliveNodes \cup InvalidNodes)
        = Cardinality(AliveNodes) + Cardinality(InvalidNodes)
  <2>1. AliveNodes \cap InvalidNodes = {}
    BY DEF AliveNodes, InvalidNodes
  <2>2. Cardinality(AliveNodes \cap InvalidNodes) = 0
    BY <2>1, FS_EmptySet
  <2>3. /\ Cardinality(AliveNodes) \in Nat
        /\ Cardinality(InvalidNodes) \in Nat
    BY <1>4, FS_CardinalityType
  <2>4. Cardinality(AliveNodes \cup InvalidNodes)
          = Cardinality(AliveNodes) + Cardinality(InvalidNodes)
              - Cardinality(AliveNodes \cap InvalidNodes)
    BY <1>4, FS_Union
  <2> QED
    BY <2>2, <2>3, <2>4
<1>6. /\ Cardinality(Counted) <= Cardinality(Announced)
      /\ Cardinality(AliveNodes \cup InvalidNodes) <= Cardinality(Announced)
  BY <1>1, <1>2, <1>3, FS_Subset
<1> QED
  BY <1>5, <1>6 DEF StreamInv, CountInv, CountsWithinTotal

(* The counters stay within the total, for any caller.                     *)
THEOREM CountsBounded == Spec => []CountsWithinTotal
BY InvBounded, StreamInvariant, PTL

(* Every measured node of an uncancelled stream was put on the result      *)
(* channel before it closed.                                               *)
THEOREM AllResultsDelivered == Spec => []ResultsDelivered
<1>1. StreamInv => ResultsDelivered
  BY DEF StreamInv, VerdictInv, VerdictOK, LoopInv, ResultsDelivered, Working
<1> QED
  BY <1>1, StreamInvariant, PTL

(* An uncancelled stream of an orderly caller ends with every announced    *)
(* node counted, the alive count that of the alive results handed out, and *)
(* the invalid count that of the other nodes tested or malformed.          *)
THEOREM EndCounts ==
    ASSUME Orderly
    PROVE  Spec => []EndAccounted
<1>1. StreamInv /\ HandoverInv => EndAccounted
  <2> SUFFICES ASSUME StreamInv, HandoverInv, resClosed, ~Cancelled
               PROVE  /\ count = totalCount
                      /\ aliveCount = Cardinality({c \in Config :
                             verdict[c] = "alive" /\ out[c] # "none"})
                      /\ invalidCount = Cardinality({c \in Config :
                             \/ verdict[c] \in {"malformed", "nil"}
                             \/ verdict[c] = "dead" /\ out[c] # "none"})
    BY DEF EndAccounted
  <2>1. /\ ~streamDone /\ ~addCtxDone /\ dpc = "end" /\ chanClosed
        /\ \A k \in Call : callPc[k] \notin InCall
    BY DEF Cancelled, StreamInv, LoopInv, HandoverInv, NoCallInProgress
  <2>2. \A c \in Config : stage[c] \in {"new", "gone"}
    <3> SUFFICES ASSUME NEW c \in Config PROVE stage[c] \in {"new", "gone"}
      OBVIOUS
    <3>1. CallOf[c] \in Call /\ stage[c] \in Stage
      BY ConfigAssumption DEF StreamInv, TypeOK, NodeTypeOK
    <3>2. stage[c] \notin Adding
      <4>1. callPc[CallOf[c]] \notin {"adding", "cut"}
        BY <2>1, <3>1 DEF InCall
      <4> QED
        BY <4>1 DEF StreamInv, NodeInv, NodeOK
    <3>3. stage[c] \notin {"queued", "held"} \cup Working
      BY <2>1 DEF StreamInv, LoopInv
    <3>4. stage[c] # "lost"
      BY <2>1 DEF StreamInv, VerdictInv, VerdictOK
    <3> QED
      BY <3>1, <3>2, <3>3, <3>4 DEF Stage
  <2>3. Announced = Counted
    <3>1. \A c \in Config : callPc[CallOf[c]] \in Announcing => stage[c] # "new"
      BY <2>1, ConfigAssumption
         DEF StreamInv, NodeInv, NodeOK, Announcing, InCall
    <3>2. \A c \in Config : stage[c] # "new" => callPc[CallOf[c]] \in Announcing
      BY DEF StreamInv, NodeInv, NodeOK
    <3> QED
      BY <2>2, <3>1, <3>2 DEF Announced, Counted, At
  <2>4. \A c \in Config : verdict[c] \in {"alive", "dead"} => out[c] # "none"
    BY <2>1, <2>2 DEF StreamInv, VerdictInv, VerdictOK
  <2>5. AliveNodes = {c \in Config : verdict[c] = "alive" /\ out[c] # "none"}
    <3>1. \A c \in Config : verdict[c] = "alive" <=>
              verdict[c] = "alive" /\ out[c] # "none"
      BY <2>4
    <3> QED
      BY <3>1, Zenon DEF AliveNodes
  <2>6. InvalidNodes = {c \in Config :
                            \/ verdict[c] \in {"malformed", "nil"}
                            \/ verdict[c] = "dead" /\ out[c] # "none"}
    <3>1. \A c \in Config : (verdict[c] \in {"malformed", "dead", "nil"}) <=>
                (\/ verdict[c] \in {"malformed", "nil"}
                 \/ verdict[c] = "dead" /\ out[c] # "none")
      <4> SUFFICES ASSUME NEW c \in Config
                   PROVE  (verdict[c] \in {"malformed", "dead", "nil"}) <=>
                            (\/ verdict[c] \in {"malformed", "nil"}
                             \/ verdict[c] = "dead" /\ out[c] # "none")
        OBVIOUS
      <4>1. CASE verdict[c] = "dead"
        BY <4>1, <2>4
      <4>2. CASE verdict[c] # "dead"
        BY <4>2
      <4> QED
        BY <4>1, <4>2
    <3> QED
      BY <3>1, Zenon DEF InvalidNodes
  <2> QED
    BY <2>3, <2>5, <2>6 DEF StreamInv, CountInv
<1> QED
  BY <1>1, StreamInvariant, HandoverInvariant, PTL

(* Nothing reaches the result channel, and no alive result is counted,     *)
(* after it closed.                                                        *)
THEOREM ClosedStaysFinal == Spec => ClosedIsFinal
<1>1. StreamInv /\ [Next]_vars =>
        [resClosed => /\ \A c \in Config : out[c] = "none" => out'[c] = "none"
                      /\ aliveCount' = aliveCount]_vars
  <2> SUFFICES ASSUME StreamInv, Next, resClosed
               PROVE  /\ \A c \in Config : out[c] = "none" => out'[c] = "none"
                      /\ aliveCount' = aliveCount
    OBVIOUS
  <2> USE DEF itemVars, tallyVars, callVars, inputVars, loopVars, ctxVars
  <2>1. \A c \in Config : stage[c] \notin Working
    BY DEF StreamInv, LoopInv
  <2>2. out \in [Config -> {"none", "sent", "received"}]
    BY DEF StreamInv, TypeOK, NodeTypeOK
  <2>3. CASE UNCHANGED vars
    BY <2>3 DEF vars
  <2>4. CASE Library \/ Client
    <3>1. ASSUME NEW c \in Config,
                 \/ \E v \in {"alive", "dead"} : Tested(c, v)
                 \/ \E v \in {"nil", "panic"} : Untestable(c, v)
                 \/ Emit(c) \/ EmitCancel(c) \/ Tally(c) \/ Leave(c)
          PROVE  FALSE
      BY <2>1, <3>1 DEF Tested, Untestable, Emit, EmitCancel, Tally, Leave,
                        Working
    <3>2. ASSUME NEW c \in Config, Consume(c)
          PROVE  /\ \A d \in Config : out[d] = "none" => out'[d] = "none"
                 /\ aliveCount' = aliveCount
      BY <2>2, <3>2 DEF Consume
    <3>3. ASSUME \/ \E k \in Call : \/ Begin(k) \/ CountTotal(k)
                                    \/ CutShort(k) \/ Return(k)
                 \/ \E c \in Config :
                       \/ Spawn(c) \/ Skip(c) \/ ParseOk(c) \/ ParseFail(c)
                       \/ CountFailed(c) \/ Send(c) \/ Block(c)
                       \/ SendPanic(c) \/ Drop(c)
          PROVE  UNCHANGED <<out, aliveCount>>
      BY <3>3 DEF Begin, CountTotal, CutShort, Return, Spawn, Skip, ParseOk,
           ParseFail, CountFailed, Send, Block, SendPanic, Drop
    <3>4. ASSUME \/ \E c \in Config : Recv(c) \/ Acquire(c) \/ AcquireCancel(c)
                 \/ RecvEnd \/ WaitWorkers \/ UpdateState \/ CloseResults
                 \/ ClientClose \/ CloseChan \/ ClientStop \/ StopCancel
                 \/ StopClose \/ Cancel \/ CancelAdds \/ PropagateCancel
          PROVE  UNCHANGED <<out, aliveCount>>
      BY <3>4 DEF Recv, Acquire, AcquireCancel, RecvEnd, WaitWorkers,
           UpdateState, CloseResults, ClientClose, CloseInput, CloseChan,
           ClientStop, Stop, StopCancel, StopClose, Cancel, CancelAdds,
           PropagateCancel
    <3> QED
      BY <2>4, <3>1, <3>2, <3>3, <3>4, StepCases
  <2> QED
    BY <2>3, <2>4 DEF Next, Idle
<1> QED
  BY <1>1, StreamInvariant, PTL DEF Spec, ClosedIsFinal

(* No step but CountTotal touches the total.                               *)
LEMMA OnlyCountTotal ==
    ASSUME [Next]_vars
    PROVE  totalCount' = totalCount \/ \E k \in Call : CountTotal(k)
<1> USE DEF itemVars, tallyVars, callVars, inputVars, loopVars, ctxVars
<1>1. CASE UNCHANGED vars
  BY <1>1 DEF vars
<1>2. CASE Library \/ Client
  <2>1. ASSUME \/ \E k \in Call : Begin(k) \/ CutShort(k) \/ Return(k)
               \/ \E c \in Config :
                     \/ Spawn(c) \/ Skip(c) \/ ParseOk(c) \/ ParseFail(c)
                     \/ CountFailed(c) \/ Send(c) \/ Block(c)
                     \/ SendPanic(c) \/ Drop(c)
        PROVE  totalCount' = totalCount
    BY <2>1 DEF Begin, CutShort, Return, Spawn, Skip,
         ParseOk, ParseFail, CountFailed, Send, Block, SendPanic, Drop
  <2>2. ASSUME \/ \E c \in Config : Recv(c) \/ Acquire(c) \/ AcquireCancel(c)
               \/ \E c \in Config :
                     \/ \E v \in {"alive", "dead"} : Tested(c, v)
                     \/ \E v \in {"nil", "panic"} : Untestable(c, v)
                     \/ Emit(c) \/ EmitCancel(c) \/ Tally(c) \/ Leave(c)
                     \/ Consume(c)
        PROVE  totalCount' = totalCount
    BY <2>2 DEF Recv, Acquire, AcquireCancel, Tested, Untestable, Emit,
         EmitCancel, Tally, Leave, Consume
  <2>3. CASE \/ RecvEnd \/ WaitWorkers \/ UpdateState \/ CloseResults
             \/ ClientClose \/ CloseChan \/ ClientStop \/ StopCancel
             \/ StopClose \/ Cancel \/ CancelAdds \/ PropagateCancel
    BY <2>3 DEF RecvEnd, WaitWorkers, UpdateState, CloseResults,
         ClientClose, CloseInput, CloseChan, ClientStop, Stop, StopCancel,
         StopClose, Cancel, CancelAdds, PropagateCancel
  <2> QED
    BY <1>2, <2>1, <2>2, <2>3, StepCases
<1> QED
  BY <1>1, <1>2 DEF Next, Idle

(* An orderly caller's total does not move once the input is closed.       *)
THEOREM TotalStaysFixed ==
    ASSUME Orderly
    PROVE  Spec => TotalFixedAfterClose
<1>1. StreamInv /\ HandoverInv /\ [Next]_vars
        => [chanClosed => totalCount' = totalCount]_vars
  <2> SUFFICES ASSUME StreamInv, HandoverInv, Next, chanClosed
               PROVE  totalCount' = totalCount
    OBVIOUS
  <2>1. \A k \in Call : callPc[k] # "admitted"
    BY DEF HandoverInv, NoCallInProgress, InCall
  <2> QED
    BY <2>1, OnlyCountTotal DEF CountTotal
<1> QED
  BY <1>1, StreamInvariant, HandoverInvariant, PTL DEF Spec, TotalFixedAfterClose

(* Whatever the caller does and however long the progress goroutine takes  *)
(* between its two loads: it never prints more nodes processed than        *)
(* announced, as at no moment there are more, and the total never falls.   *)
THEOREM ProgressLineIsSound == Spec => ProgressLineSound
<1> SUFFICES ASSUME NEW CONSTANT n \in 0..Cardinality(Config)
             PROVE  Spec => [](Counter(Loads[1]) = n
                                 => [](Line(n).processed <= Line(n).total))
  BY DEF ProgressLineSound
<1>1. Counter(Loads[1]) = count
  BY Zenon DEF Loads, Counter
<1>2. (Line(n).processed <= Line(n).total) <=> n <= totalCount
  <2>1. Line(n).processed = n
    BY DEF Line, Loads
  <2>2. Line(n).total = totalCount
    BY DEF Line, Loads, Counter
  <2> QED
    BY <2>1, <2>2
<1>3. StreamInv /\ Counter(Loads[1]) = n => Line(n).processed <= Line(n).total
  BY <1>1, <1>2, InvBounded DEF CountsWithinTotal
<1>4. /\ StreamInv /\ Line(n).processed <= Line(n).total
      /\ [Next]_vars
      => (Line(n).processed <= Line(n).total)'
  <2> SUFFICES ASSUME StreamInv, n <= totalCount, [Next]_vars
               PROVE  n <= totalCount'
    <3>1. Line(n).processed' = n
      BY DEF Line, Loads
    <3>2. Line(n).total' = totalCount'
      BY DEF Line, Loads, Counter
    <3> QED
      BY <1>2, <3>1, <3>2
  <2>1. CASE totalCount' = totalCount
    BY <2>1
  <2>2. ASSUME NEW k \in Call, CountTotal(k) PROVE n <= totalCount'
    <3>1. IsFiniteSet(Config) /\ NodesOf(k) \in SUBSET Config
      BY ConfigAssumption DEF NodesOf
    <3>2. Cardinality(NodesOf(k)) \in Nat /\ Cardinality(Config) \in Nat
      BY <3>1, FS_Subset, FS_CardinalityType
    <3>3. totalCount \in Nat /\ totalCount' = totalCount + Cardinality(NodesOf(k))
      BY <2>2 DEF CountTotal, StreamInv, TypeOK, NodeTypeOK
    <3> QED
      BY <3>2, <3>3
  <2> QED
    BY <2>1, <2>2, OnlyCountTotal
<1> QED
  BY <1>3, <1>4, StreamInvariant, PTL DEF Spec

-----------------------------------------------------------------------------
(* Stream implements ResultStream *)

Items == [c \in Config |-> Item(c)]

(* Two ways a step looks from outside.                                     *)
LEMMA StutterStep ==
    ASSUME \A d \in Config : Item(d)' = Item(d),
           resClosed' = resClosed, Cancelled' = Cancelled
    PROVE  UNCHANGED Abstract!vars
BY DEF Abstract!vars

LEMMA MoveStep ==
    ASSUME NEW c \in Config, NEW from, NEW to,
           Item(c) = from, Item(c)' = to,
           \A d \in Config \ {c} : Item(d)' = Item(d),
           resClosed' = resClosed, Cancelled' = Cancelled
    PROVE  Abstract!Move(c, from, to)
BY DEF Abstract!Move

(* A call in progress means results can still come out, or a cancel.       *)
LEMMA InProgressOpen ==
    ASSUME StreamInv, HandoverInv, NEW k \in Call, callPc[k] \in InCall
    PROVE  ~resClosed \/ Cancelled
BY DEF StreamInv, HandoverInv, LoopInv, NoCallInProgress, Cancelled

(* When the dispatcher closes the results of an uncancelled stream, every  *)
(* node was either never handed over or is done with.                      *)
LEMMA NothingPending ==
    ASSUME StreamInv, HandoverInv, dpc = "close", ~Cancelled
    PROVE  \A c \in Config : Item(c) # "pending"
<1> SUFFICES ASSUME NEW c \in Config PROVE Item(c) # "pending"
  OBVIOUS
<1>1. /\ ~streamDone /\ chanClosed /\ CallOf[c] \in Call /\ stage[c] \in Stage
      /\ verdict[c] \in Verdict
      /\ out[c] \in {"none", "sent", "received"}
  BY ConfigAssumption DEF Cancelled, StreamInv, LoopInv, TypeOK, NodeTypeOK
<1>2. callPc[CallOf[c]] \notin InCall
  BY <1>1 DEF HandoverInv, NoCallInProgress
<1>3. stage[c] \notin Adding
  BY <1>2 DEF StreamInv, NodeInv, NodeOK, InCall
<1>4. stage[c] \notin {"queued", "held"} \cup Working
  BY <1>1 DEF StreamInv, LoopInv
<1>5. stage[c] # "lost"
  BY <1>1 DEF StreamInv, VerdictInv, VerdictOK
<1>6. stage[c] \in {"new", "gone"}
  BY <1>1, <1>3, <1>4, <1>5 DEF Stage
<1>7. stage[c] = "gone" => verdict[c] # "none"
  BY DEF StreamInv, VerdictInv, VerdictOK
<1> QED
  BY <1>1, <1>6, <1>7 DEF Item, Verdict

LEMMA RefineNode ==
    ASSUME StreamInv, StreamInv', HandoverInv, NEW c \in Config,
           \/ Spawn(c) \/ Skip(c) \/ ParseOk(c) \/ ParseFail(c)
           \/ CountFailed(c) \/ Send(c) \/ Block(c) \/ Drop(c)
           \/ Recv(c) \/ Acquire(c) \/ AcquireCancel(c)
    PROVE  Abstract!Next \/ UNCHANGED Abstract!vars
<1> USE DEF itemVars, tallyVars, callVars, inputVars, loopVars, ctxVars
<1>1. /\ stage \in [Config -> Stage] /\ verdict \in [Config -> Verdict]
      /\ CallOf[c] \in Call
  BY ConfigAssumption DEF StreamInv, TypeOK, NodeTypeOK
<1>2. VerdictOK(c)
  BY DEF StreamInv, VerdictInv
<1>3. resClosed' = resClosed /\ Cancelled' = Cancelled
  BY DEF Spawn, Skip, ParseOk, ParseFail, CountFailed, Send, Block, Drop, Recv,
         Acquire, AcquireCancel, Cancelled
<1>4. \A d \in Config \ {c} : Item(d)' = Item(d)
  <2>1. \A d \in Config \ {c} : /\ stage'[d] = stage[d] /\ out'[d] = out[d]
                                /\ verdict'[d] = verdict[d]
    BY <1>1 DEF Spawn, Skip, ParseOk, ParseFail, CountFailed, Send, Block,
         Drop, Recv, Acquire, AcquireCancel
  <2> QED
    BY <2>1 DEF Item
<1>5. CASE Spawn(c)
  <2>1. Item(c) = "none" /\ Item(c)' = "pending"
    BY <1>1, <1>2, <1>5 DEF Spawn, Item, VerdictOK
  <2>2. ~resClosed \/ Cancelled
    BY <1>1, <1>5, InProgressOpen DEF Spawn, InCall
  <2>3. Abstract!Submit(c)
    BY <1>3, <1>4, <2>1, <2>2, MoveStep DEF Abstract!Submit
  <2> QED
    BY <2>3 DEF Abstract!Next
<1>6. CASE Skip(c) \/ ParseFail(c)
  <2>1. Item(c) = "pending"
    BY <1>2, <1>6 DEF Skip, ParseFail, Item, VerdictOK
  <2>2. Item(c)' = "rejected"
    BY <1>1, <1>2, <1>6 DEF Skip, ParseFail, Item, VerdictOK
  <2>3. Abstract!Reject(c)
    BY <1>3, <1>4, <2>1, <2>2, MoveStep DEF Abstract!Reject
  <2> QED
    BY <2>3 DEF Abstract!Next
<1>7. CASE Drop(c) \/ AcquireCancel(c)
  <2>1. Item(c) = "pending"
    BY <1>2, <1>7 DEF Drop, AcquireCancel, Item, VerdictOK
  <2>2. Item(c)' = "abandoned"
    BY <1>1, <1>2, <1>7 DEF Drop, AcquireCancel, Item, VerdictOK
  <2>3. Cancelled
    BY <1>7 DEF Drop, AcquireCancel, Cancelled
  <2>4. Abstract!Abandon(c)
    BY <1>3, <1>4, <2>1, <2>2, <2>3, MoveStep DEF Abstract!Abandon
  <2> QED
    BY <2>4 DEF Abstract!Next
<1>8. CASE \/ ParseOk(c) \/ CountFailed(c) \/ Send(c) \/ Block(c)
           \/ Recv(c) \/ Acquire(c)
  <2>1. Item(c)' = Item(c)
    BY <1>1, <1>2, <1>8 DEF ParseOk, CountFailed, Send, Block, Recv, Acquire,
         Item, VerdictOK
  <2> QED
    BY <1>3, <1>4, <2>1, StutterStep
<1> QED
  BY <1>5, <1>6, <1>7, <1>8

LEMMA RefineWorker ==
    ASSUME StreamInv, NEW c \in Config,
           \/ \E v \in {"alive", "dead"} : Tested(c, v)
           \/ \E v \in {"nil", "panic"} : Untestable(c, v)
           \/ Emit(c) \/ EmitCancel(c) \/ Tally(c) \/ Leave(c) \/ Consume(c)
    PROVE  Abstract!Next \/ UNCHANGED Abstract!vars
<1> USE DEF itemVars, tallyVars, callVars, inputVars, loopVars, ctxVars
<1>1. /\ stage \in [Config -> Stage] /\ verdict \in [Config -> Verdict]
      /\ out \in [Config -> {"none", "sent", "received"}]
  BY DEF StreamInv, TypeOK, NodeTypeOK
<1>2. VerdictOK(c)
  BY DEF StreamInv, VerdictInv
<1>3. resClosed' = resClosed /\ Cancelled' = Cancelled
  BY DEF Tested, Untestable, Emit, EmitCancel, Tally, Leave, Consume, Cancelled
<1>4. \A d \in Config \ {c} : Item(d)' = Item(d)
  <2>1. \A d \in Config \ {c} : /\ stage'[d] = stage[d] /\ out'[d] = out[d]
                                /\ verdict'[d] = verdict[d]
    BY <1>1 DEF Tested, Untestable, Emit, EmitCancel, Tally, Leave, Consume
  <2> QED
    BY <2>1 DEF Item
<1>5. ASSUME NEW v \in {"nil", "panic"}, Untestable(c, v)
      PROVE  Abstract!Reject(c)
  <2>1. Item(c) = "pending" /\ Item(c)' = "rejected"
    BY <1>1, <1>2, <1>5 DEF Untestable, Item, VerdictOK
  <2> QED
    BY <1>3, <1>4, <2>1, MoveStep DEF Abstract!Reject
<1>6. CASE Emit(c)
  <2>1. Item(c) = "pending" /\ Item(c)' = "delivered"
    BY <1>1, <1>2, <1>6 DEF Emit, Item, VerdictOK
  <2>2. ~resClosed
    BY <1>6 DEF Emit, StreamInv, LoopInv, Working
  <2> QED
    BY <1>3, <1>4, <2>1, <2>2, MoveStep DEF Abstract!Deliver, Abstract!Next
<1>7. CASE EmitCancel(c)
  <2>1. Item(c) = "pending" /\ Item(c)' = "abandoned"
    BY <1>1, <1>2, <1>7 DEF EmitCancel, Item, VerdictOK
  <2>2. Cancelled
    BY <1>7 DEF EmitCancel, Cancelled
  <2> QED
    BY <1>3, <1>4, <2>1, <2>2, MoveStep DEF Abstract!Abandon, Abstract!Next
<1>8. CASE Consume(c)
  <2>1. Item(c) = "delivered" /\ Item(c)' = "received"
    BY <1>1, <1>2, <1>8 DEF Consume, Item, VerdictOK
  <2> QED
    BY <1>3, <1>4, <2>1, MoveStep DEF Abstract!Receive, Abstract!Next
<1>9. CASE Tally(c) \/ Leave(c) \/ \E v \in {"alive", "dead"} : Tested(c, v)
  <2>1. Item(c)' = Item(c)
    BY <1>1, <1>2, <1>9 DEF Tally, Leave, Tested, Item, VerdictOK
  <2> QED
    BY <1>3, <1>4, <2>1, StutterStep
<1> QED
  BY <1>5, <1>6, <1>7, <1>8, <1>9 DEF Abstract!Next

LEMMA RefineCall ==
    ASSUME StreamInv, HandoverInv, NEW k \in Call,
           Begin(k) \/ CountTotal(k) \/ CutShort(k) \/ Return(k)
    PROVE  Abstract!Next \/ UNCHANGED Abstract!vars
<1> USE DEF itemVars, tallyVars, callVars, inputVars, loopVars, ctxVars
<1>1. resClosed' = resClosed /\ Cancelled' = Cancelled
  BY DEF Begin, CountTotal, CutShort, Return, Cancelled
<1>2. CASE CountTotal(k) /\ k \in Single
  <2>1. PICK c \in Config : NodesOf(k) = {c}
    BY <1>2, ConfigAssumption
  <2>2. stage[c] = "new" /\ verdict[c] = "none" /\ out[c] = "none"
    <3>1. stage[c] = "new"
      BY <1>2, <2>1 DEF CountTotal, NodesOf, StreamInv, NodeInv, NodeOK,
           Announcing
    <3>2. out[c] \in {"none", "sent", "received"}
      BY DEF StreamInv, TypeOK, NodeTypeOK
    <3> QED
      BY <3>1, <3>2 DEF StreamInv, VerdictInv, VerdictOK
  <2>3. /\ stage'[c] = "offer"
        /\ \A d \in Config \ {c} : stage'[d] = stage[d]
        /\ UNCHANGED <<verdict, out>>
    BY <1>2, <2>1 DEF CountTotal
  <2>4. Item(c) = "none" /\ Item(c)' = "pending"
    BY <2>2, <2>3 DEF Item
  <2>5. \A d \in Config \ {c} : Item(d)' = Item(d)
    BY <2>3 DEF Item
  <2>6. ~resClosed \/ Cancelled
    BY <1>2, InProgressOpen DEF CountTotal, InCall
  <2> QED
    BY <1>1, <2>4, <2>5, <2>6, MoveStep DEF Abstract!Submit, Abstract!Next
<1>3. CASE ~(CountTotal(k) /\ k \in Single)
  <2>1. UNCHANGED <<stage, verdict, out>>
    <3>1. stage \in [Config -> Stage]
      BY DEF StreamInv, TypeOK, NodeTypeOK
    <3> QED
      BY <1>3, <3>1 DEF Begin, CountTotal, CutShort, Return
  <2>2. \A d \in Config : Item(d)' = Item(d)
    BY <2>1 DEF Item
  <2> QED
    BY <1>1, <2>2, StutterStep
<1> QED
  BY <1>2, <1>3

LEMMA RefineControl ==
    ASSUME StreamInv, HandoverInv,
           \/ RecvEnd \/ WaitWorkers \/ UpdateState \/ CloseResults
           \/ ClientClose \/ CloseChan \/ ClientStop \/ StopCancel \/ StopClose
           \/ Cancel \/ CancelAdds \/ PropagateCancel
    PROVE  Abstract!Next \/ UNCHANGED Abstract!vars
<1> USE DEF itemVars, tallyVars, callVars, inputVars, loopVars, ctxVars
<1>1. \A d \in Config : Item(d)' = Item(d)
  <2>1. UNCHANGED <<stage, verdict, out>>
    BY DEF RecvEnd, WaitWorkers, UpdateState, CloseResults, ClientClose,
         CloseInput, CloseChan, ClientStop, Stop, StopCancel, StopClose,
         Cancel, CancelAdds, PropagateCancel
  <2> QED
    BY <2>1 DEF Item
<1>2. Items' = Items
  BY <1>1 DEF Items
<1>3. CASE CloseResults
  <2>1. resClosed' = TRUE /\ ~resClosed /\ Cancelled' = Cancelled
    BY <1>3 DEF CloseResults, StreamInv, LoopInv, Cancelled
  <2>2. Cancelled \/ \A c \in Config : Item(c) # "pending"
    BY <1>3, NothingPending DEF CloseResults
  <2> QED
    BY <1>2, <2>1, <2>2 DEF Items, Abstract!Close, Abstract!Next
<1>4. CASE Cancel \/ CancelAdds \/ StopCancel \/ PropagateCancel
  <2>1. Cancelled' = TRUE /\ resClosed' = resClosed
    BY <1>4 DEF Cancel, CancelAdds, StopCancel, PropagateCancel, Cancelled
  <2> QED
    BY <1>2, <2>1 DEF Items, Abstract!Cancel, Abstract!Next
<1>5. CASE \/ RecvEnd \/ WaitWorkers \/ UpdateState \/ ClientClose \/ CloseChan
           \/ ClientStop \/ StopClose
  <2>1. resClosed' = resClosed /\ Cancelled' = Cancelled
    BY <1>5 DEF RecvEnd, WaitWorkers, UpdateState, ClientClose, CloseInput,
         CloseChan, ClientStop, Stop, StopClose, Cancelled
  <2> QED
    BY <1>1, <2>1, StutterStep
<1> QED
  BY <1>3, <1>4, <1>5

(* Used by an orderly caller, the engine keeps every promise of            *)
(* ResultStream.                                                           *)
THEOREM StreamImplementsResultStream ==
    ASSUME Orderly
    PROVE  Spec => ImplementsResultStream
<1>1. Init => Abstract!Init
  BY DEF Init, Item, Cancelled, Abstract!Init
<1>2. StreamInv /\ StreamInv' /\ HandoverInv /\ HandoverInv' /\ [Next]_vars
        => [Abstract!Next]_(Abstract!vars)
  <2> SUFFICES ASSUME StreamInv, StreamInv', HandoverInv, HandoverInv',
                      [Next]_vars
               PROVE  Abstract!Next \/ UNCHANGED Abstract!vars
    OBVIOUS
  <2>1. CASE UNCHANGED vars
    <3>1. \A d \in Config : Item(d)' = Item(d)
      BY <2>1 DEF vars, Item
    <3>2. resClosed' = resClosed /\ Cancelled' = Cancelled
      BY <2>1 DEF vars, Cancelled
    <3> QED
      BY <3>1, <3>2, StutterStep
  <2>2. CASE Library \/ Client
    <3>1. ASSUME NEW c \in Config, SendPanic(c)
          PROVE  FALSE
      BY <3>1 DEF SendPanic, HandoverInv
    <3> QED
      BY <2>2, <3>1, StepCases, RefineCall, RefineNode, RefineWorker,
         RefineControl
  <2> QED
    BY <2>1, <2>2 DEF Next, Idle
<1> QED
  BY <1>1, <1>2, StreamInvariant, HandoverInvariant, PTL
     DEF Spec, ImplementsResultStream, Abstract!Spec
=============================================================================
