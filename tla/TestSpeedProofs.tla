--------------------------- MODULE TestSpeedProofs ---------------------------
(***************************************************************************)
(* What holds of TestSpeed for any nodes, sources, workers and queue, and  *)
(* whatever is cancelled, stopped or closed by others when.  Its engine is *)
(* Stream and its loader is SourceLoader, so that all that StreamProofs    *)
(* and SourceLoaderProofs show of any caller is known here; what is added  *)
(* ties the two together.                                                  *)
(***************************************************************************)
EXTENDS TestSpeed, StreamProofs

LP == INSTANCE SourceLoaderProofs WITH Batch <- Call, parentDone <- addCtxDone

-----------------------------------------------------------------------------
(* The inductive invariant *)

Closing == apc \in {"close", "end"}        \* the adding goroutine is done

TestTypeOK ==
    /\ config \in BOOLEAN /\ proxies \in {{}, Inline}
    /\ started \in BOOLEAN /\ meddled \in BOOLEAN
    /\ apc \in {"url", "loading", "inline", "adding", "close", "end"}
    /\ addDone \in {"none", "nil"} \cup Error
    /\ tpc \in {"receive", "wait", "returned"}
    /\ tret \in {"none", "ok"} \cup Error

(* One context, one way to close: nothing but a cancel, or another         *)
(* goroutine's Stop or CloseInput, ends the engine before the adding       *)
(* goroutine has reached its deferred CloseInput.                          *)
EngineInv ==
    /\ addCtxDone = ctxDone
    /\ stopPc # "idle" => meddled
    /\ streamDone => ctxDone \/ meddled
    /\ state # "running" => ctxDone \/ meddled \/ Closing
    /\ once # "fresh" \/ chanClosed => meddled \/ Closing

(* An add call in progress is one that the loader's fn or the adding       *)
(* goroutine is in; what fn returned is what its call returned.            *)
CallInv ==
    /\ \A k \in Call : callPc[k] \in InCall =>
          \/ \E w \in Loader : lpc[w] = "fn" /\ Head(left[w]) = k
          \/ apc = "adding" /\ k \in proxies
    /\ \A k \in Call : /\ callPc[k] \in {"cut", "cancelled"} => ctxDone
                       /\ callPc[k] = "refused" => ctxDone \/ meddled
    /\ \A w \in Loader : lpc[w] = "fn" => callPc[Head(left[w])] # "idle"
    /\ apc = "adding" => \A k \in proxies : callPc[k] # "idle"
    /\ \A k \in Call : /\ fnState[k] = "err" => callPc[k] \in {"cancelled", "refused"}
                       /\ fnState[k] = "ok" => callPc[k] = "ok"

(* How far the adding goroutine is, and what it reports.                   *)
AddInv ==
    /\ started => config
    /\ apc = "url" => config /\ ~started
    /\ apc = "loading" => started
    /\ ~started => /\ \A w \in Loader : lpc[w] = "range"
                   /\ \A k \in Call : fnState[k] = "none"
    /\ started /\ apc # "loading" => mpc = "returned"
    /\ Closing <=> addDone # "none"
    /\ addDone = "ctxErr" => ctxDone
    /\ addDone = "refused" => ctxDone \/ meddled
    /\ addDone = "nil" => \A k \in proxies : callPc[k] = "ok"
    /\ config /\ (apc \in {"inline", "adding"} \/ addDone = "nil") =>
          started /\ ret = "nil"

(* How far TestSpeed is, and what it returns.                              *)
ReturnInv ==
    /\ tpc # "receive" => resClosed /\ \A c \in Config : out[c] # "sent"
    /\ tpc = "returned" => /\ addDone # "none"
                           /\ tret = IF addDone = "nil" THEN "ok" ELSE addDone
    /\ tpc # "returned" => tret = "none"

(* The engine's caller is an orderly one, but for a cancelled loading and  *)
(* for what other goroutines do.                                           *)
OrderInv == (config /\ ctxDone) \/ meddled \/ HandoverInv

TestInv == TestTypeOK /\ EngineInv /\ CallInv /\ AddInv /\ ReturnInv /\ OrderInv

-----------------------------------------------------------------------------
(* TestSpeed uses its two parts as their modules say *)

LEMMA LoaderAssumed == LP!LoaderAssumption
BY TestSpeedAssumption DEF LP!LoaderAssumption

LEMMA SameInit == L!Init <=> LP!Init
BY DEF L!Init, LP!Init

(* L and LP are the same loader twice, once without and once with proofs.  *)
LEMMA SameLoader == [L!Next]_(L!vars) <=> [LP!Next]_(LP!vars)
BY DEF
   L!sourceVars, LP!sourceVars, L!workVars, LP!workVars, L!errVars,
   LP!errVars, L!lockVars, LP!lockVars, L!ctxVars, LP!ctxVars, L!mainVars,
   LP!mainVars, L!vars, LP!vars, L!Goto, LP!Goto, L!Same, LP!Same, L!Feed,
   LP!Feed, L!FeedOver, LP!FeedOver, L!FeederEnd, LP!FeederEnd, L!RangeEnd,
   LP!RangeEnd, L!RequestFails, LP!RequestFails, L!PauseOver, LP!PauseOver,
   L!ReadOk, LP!ReadOk, L!SourceFails, LP!SourceFails, L!Check, LP!Check,
   L!Finish, LP!Finish, L!SourceDone, LP!SourceDone, L!CallFn, LP!CallFn,
   L!EnterFn, LP!EnterFn, L!Refused, LP!Refused, L!FnOk, LP!FnOk, L!FnErr,
   LP!FnErr, L!CancelInner, LP!CancelInner, L!Post, LP!Post, L!Aborted,
   LP!Aborted, L!CtxOrSkip, LP!CtxOrSkip, L!CloseErrCh, LP!CloseErrCh,
   L!SeeDone, LP!SeeDone, L!Return, LP!Return, L!FirstErr, LP!FirstErr,
   L!ReturnDone, LP!ReturnDone, L!ReturnErr, LP!ReturnErr, L!ReturnNil,
   LP!ReturnNil, L!Cancel, LP!Cancel, L!PropagateCancel, LP!PropagateCancel,
   L!Load, LP!Load, L!Feeder, LP!Feeder, L!Main, LP!Main, L!Internal,
   LP!Internal, L!Finished, LP!Finished, L!Next, LP!Next

(* What the loader's own goroutines leave alone.                           *)
LEMMA InternalEffect ==
    ASSUME LP!TypeOK, L!Internal
    PROVE  /\ fnState' = fnState /\ addCtxDone' = addCtxDone
           /\ mpc = "returned" => mpc' = mpc /\ ret' = ret
           /\ \A w \in Loader : /\ lpc'[w] = "fn" <=> lpc[w] = "fn"
                                /\ lpc[w] = "fn" => left'[w] = left[w]
<1> USE DEF L!Goto, L!Same, L!Finish, L!Return, L!sourceVars, L!workVars,
            L!errVars, L!lockVars, L!ctxVars, L!mainVars
<1>1. lpc \in [Loader -> {"range", "read", "pause", "check", "lock", "fn",
                          "cancel", "post", "failed", "ctx", "exit"}]
  BY DEF LP!TypeOK
<1>2. left \in [Loader -> Seq(Call)]
  BY DEF LP!TypeOK
<1>3. ASSUME NEW w \in Loader, L!RangeEnd(w) \/ L!RequestFails(w) \/ L!PauseOver(w)
                               \/ L!SourceFails(w) \/ L!Check(w) \/ L!Refused(w)
                               \/ L!Aborted(w)
      PROVE  /\ UNCHANGED <<fnState, addCtxDone, mpc, ret, left>>
             /\ lpc[w] # "fn" /\ \E l \in {"pause", "failed", "read", "exit",
                    "lock", "ctx"} : lpc' = [lpc EXCEPT ![w] = l]
  BY <1>3 DEF L!RangeEnd, L!RequestFails, L!PauseOver, L!SourceFails, L!Check,
       L!Refused, L!Aborted
<1>4. ASSUME NEW w \in Loader, L!SourceDone(w) \/ L!CtxOrSkip(w) \/ L!CancelInner(w)
                               \/ L!Post(w)
      PROVE  /\ UNCHANGED <<fnState, addCtxDone, mpc, ret, left>>
             /\ lpc[w] # "fn" /\ \E l \in {"range", "exit", "post", "failed"} :
                                     lpc' = [lpc EXCEPT ![w] = l]
  BY <1>4 DEF L!SourceDone, L!CtxOrSkip, L!CancelInner, L!Post
<1>5. ASSUME NEW w \in Loader, L!ReadOk(w)
      PROVE  /\ UNCHANGED <<fnState, addCtxDone, mpc, ret>>
             /\ lpc[w] = "read" /\ lpc' = [lpc EXCEPT ![w] = "check"]
             /\ left' = [left EXCEPT ![w] = BatchesOf[src[w]]]
  BY <1>5 DEF L!ReadOk
<1>6. ASSUME NEW w \in Loader, NEW s \in Source, L!Feed(w, s)
      PROVE  /\ UNCHANGED <<fnState, addCtxDone, mpc, ret, left>>
             /\ lpc[w] = "range" /\ lpc' = [lpc EXCEPT ![w] = "read"]
  BY <1>6 DEF L!Feed
<1>7. ASSUME L!FeederEnd \/ L!CloseErrCh \/ L!PropagateCancel
      PROVE  UNCHANGED <<fnState, addCtxDone, mpc, ret, left, lpc>>
  BY <1>7 DEF L!FeederEnd, L!FeedOver, L!CloseErrCh, L!PropagateCancel
<1>8. ASSUME L!SeeDone \/ L!ReturnDone \/ L!ReturnErr \/ L!ReturnNil
      PROVE  UNCHANGED <<fnState, addCtxDone, left, lpc>> /\ mpc # "returned"
  BY <1>8 DEF L!SeeDone, L!ReturnDone, L!ReturnErr, L!ReturnNil
<1>9. CASE \E w \in Loader : L!Load(w)
  <2>1. PICK w \in Loader : L!Load(w)
    BY <1>9
  <2>2. CASE \/ L!RangeEnd(w) \/ L!RequestFails(w) \/ L!PauseOver(w)
             \/ L!SourceFails(w) \/ L!Check(w) \/ L!Refused(w) \/ L!Aborted(w)
    BY <1>1, <1>3, <2>2
  <2>3. CASE L!SourceDone(w) \/ L!CtxOrSkip(w) \/ L!CancelInner(w) \/ L!Post(w)
    BY <1>1, <1>4, <2>3
  <2>4. CASE L!ReadOk(w)
    BY <1>1, <1>2, <1>5, <2>4
  <2> QED
    BY <2>1, <2>2, <2>3, <2>4 DEF L!Load
<1>10. CASE L!Feeder
  BY <1>1, <1>6, <1>7, <1>10 DEF L!Feeder
<1>11. CASE L!Main \/ L!CloseErrCh \/ L!PropagateCancel
  BY <1>7, <1>8, <1>11 DEF L!Main
<1> QED
  BY <1>9, <1>10, <1>11 DEF L!Internal

(* No goroutine of the engine cancels anything but its own context.        *)
LEMMA LibraryCtx == Library => UNCHANGED <<ctxDone, addCtxDone>>
<1> USE DEF itemVars, tallyVars, callVars, inputVars, loopVars, ctxVars
<1>1. ASSUME NEW k \in Call, CountTotal(k) \/ CutShort(k) \/ Return(k)
      PROVE  UNCHANGED <<ctxDone, addCtxDone>>
  BY <1>1 DEF CountTotal, CutShort, Return
<1>2. ASSUME NEW c \in Config,
             \/ Spawn(c) \/ Skip(c) \/ ParseOk(c) \/ ParseFail(c)
             \/ CountFailed(c) \/ Send(c) \/ Block(c) \/ SendPanic(c) \/ Drop(c)
      PROVE  UNCHANGED <<ctxDone, addCtxDone>>
  BY <1>2 DEF Spawn, Skip, ParseOk, ParseFail, CountFailed, Send, Block,
       SendPanic, Drop
<1>3. ASSUME \/ \E c \in Config : Recv(c) \/ Acquire(c) \/ AcquireCancel(c)
             \/ RecvEnd \/ WaitWorkers \/ UpdateState \/ CloseResults
      PROVE  UNCHANGED <<ctxDone, addCtxDone>>
  BY <1>3 DEF Recv, Acquire, AcquireCancel, RecvEnd, WaitWorkers,
       UpdateState, CloseResults
<1>4. ASSUME NEW c \in Config,
             \/ \E v \in {"alive", "dead"} : Tested(c, v)
             \/ \E v \in {"nil", "panic"} : Untestable(c, v)
             \/ Emit(c) \/ EmitCancel(c) \/ Tally(c) \/ Leave(c)
      PROVE  UNCHANGED <<ctxDone, addCtxDone>>
  BY <1>4 DEF Tested, Untestable, Emit, EmitCancel, Tally, Leave
<1>5. ASSUME CloseChan \/ StopCancel \/ StopClose \/ PropagateCancel
      PROVE  UNCHANGED <<ctxDone, addCtxDone>>
  BY <1>5 DEF CloseChan, StopCancel, StopClose, CloseInput, PropagateCancel
<1> QED
  BY <1>1, <1>2, <1>3, <1>4, <1>5, LibraryCases

(* Every step of TestSpeed is one of its loader, or leaves that alone.     *)
LEMMA LoaderPart == [TSNext]_allVars => [L!Next]_(L!vars)
<1> SUFFICES ASSUME TSNext \/ UNCHANGED allVars
             PROVE  L!Next \/ UNCHANGED L!vars
  OBVIOUS
<1> USE DEF loaderVars
<1>1. ASSUME UNCHANGED loaderVars, UNCHANGED addCtxDone
      PROVE  UNCHANGED L!vars
  BY <1>1 DEF L!vars, L!sourceVars, L!workVars, L!errVars, L!lockVars,
       L!ctxVars, L!mainVars
<1>2. CASE LoaderStep
  BY <1>2 DEF LoaderStep, L!Next
<1>3. ASSUME NEW w \in Loader, CallbackBegin(w) \/ CallbackEnd(w)
      PROVE  L!Next
  BY <1>3 DEF CallbackBegin, CallbackEnd, L!Next
<1>4. CASE EngineStep
  BY <1>1, <1>4, LibraryCtx DEF EngineStep, Running
<1>5. CASE CallerCancel
  <2>1. addCtxDone' = TRUE /\ UNCHANGED loaderVars
    BY <1>5, TestSpeedAssumption DEF CallerCancel, Cancel
  <2>2. CASE addCtxDone = TRUE
    BY <1>1, <2>1, <2>2
  <2>3. CASE ~addCtxDone
    BY <2>1, <2>3 DEF L!Next, L!Cancel, L!workVars, L!sourceVars, L!lockVars,
         L!errVars, L!mainVars
  <2> QED
    BY <2>2, <2>3
<1>6. CASE \/ StartLoader \/ LoaderReturned \/ NoInline \/ DeferredClose
           \/ \E k \in Inline : AddInline(k) \/ InlineReturned(k)
           \/ \E c \in Config : Collect(c)
           \/ ResultsEnd \/ TestSpeedReturn \/ OtherStop \/ OtherClose
           \/ UNCHANGED allVars
  <2>1. UNCHANGED loaderVars /\ UNCHANGED addCtxDone
    BY <1>6 DEF StartLoader, LoaderReturned, NoInline, DeferredClose,
         CloseInput, AddInline, Begin, InlineReturned, Collect, Consume,
         ResultsEnd, TestSpeedReturn, OtherStop, OtherClose, Meddle, Stop,
         allVars, vars, ctxVars
  <2> QED
    BY <1>1, <2>1
<1> QED
  BY <1>2, <1>3, <1>4, <1>5, <1>6 DEF TSNext, TSStep, TSIdle

(* TestSpeed is a caller of the loader: all that SourceLoaderProofs shows  *)
(* holds here.                                                             *)
THEOREM TestSpeedUsesLoader == TSSpec => L!Spec
<1>1. TSInit => L!Init
  BY DEF TSInit
<1> QED
  BY <1>1, LoaderPart, PTL DEF TSSpec, L!Spec

LEMMA LoaderInvariant == TSSpec => []LP!Inv
<1>1. TSInit => LP!Init
  BY SameInit DEF TSInit
<1>2. [TSNext]_allVars => [LP!Next]_(LP!vars)
  BY LoaderPart, SameLoader
<1>3. LP!Spec => []LP!Inv
  BY LoaderAssumed, LP!Invariance
<1> QED
  BY <1>1, <1>2, <1>3, PTL DEF TSSpec, LP!Spec

(* What a step of TestSpeed is to the engine.                              *)
Untouched == UNCHANGED <<loaderVars, testVars>>

LEMMA EngineCases ==
    ASSUME LP!Inv, [TSNext]_allVars
    PROVE  \/ Library /\ Untouched
           \/ \E k \in Call : Begin(k)
           \/ \E c \in Config : Consume(c) /\ tpc = "receive" /\ Untouched
           \/ Cancel /\ Untouched
           \/ apc = "close" /\ CloseInput /\ UNCHANGED <<loaderVars, meddled>>
           \/ (Stop \/ CloseInput) /\ Meddle
           \/ UNCHANGED vars
<1>1. CASE EngineStep
  BY <1>1 DEF EngineStep, Running, Untouched
<1>2. CASE \E w \in Loader : CallbackBegin(w)
  <2>1. PICK w \in Loader : L!EnterFn(w) /\ Begin(Entered(w))
    BY <1>2 DEF CallbackBegin
  <2>2. lpc[w] = "lock"
    BY <2>1 DEF L!EnterFn, L!CallFn
  <2>3. Entered(w) \in Call
    BY <2>2 DEF LP!Inv, LP!TypeOK, LP!MutexInv, Entered
  <2> QED
    BY <2>1, <2>3
<1>3. CASE \E k \in Inline : AddInline(k)
  BY <1>3, TestSpeedAssumption DEF AddInline
<1>4. CASE \E c \in Config : Collect(c)
  BY <1>4 DEF Collect, Untouched
<1>5. CASE CallerCancel
  BY <1>5 DEF CallerCancel, Untouched
<1>6. CASE DeferredClose
  BY <1>6 DEF DeferredClose
<1>7. CASE \/ LoaderStep \/ \E w \in Loader : CallbackEnd(w)
           \/ StartLoader \/ LoaderReturned \/ NoInline
           \/ \E k \in Inline : InlineReturned(k)
           \/ ResultsEnd \/ TestSpeedReturn \/ UNCHANGED allVars
  BY <1>7 DEF LoaderStep, Loading, CallbackEnd, StartLoader, LoaderReturned,
       NoInline, InlineReturned, ResultsEnd, TestSpeedReturn, allVars
<1>8. CASE OtherStop \/ OtherClose
  BY <1>8 DEF OtherStop, OtherClose
<1> QED
  BY <1>1, <1>2, <1>3, <1>4, <1>5, <1>6, <1>7, <1>8 DEF TSNext, TSStep, TSIdle

LEMMA EnginePart == LP!Inv /\ [TSNext]_allVars => [Next]_vars
BY EngineCases, TestSpeedAssumption DEF Next, Client, ClientClose, ClientStop

(* TestSpeed is a caller of the engine, if not always an orderly one: what *)
(* StreamProofs shows of any caller holds here.                            *)
THEOREM TestSpeedUsesEngine == TSSpec => Spec
<1>1. TSInit => Init
  BY DEF TSInit
<1> QED
  BY <1>1, EnginePart, LoaderInvariant, PTL DEF TSSpec, Spec

(* An orderly step is one of an orderly caller's engine.                   *)
LEMMA OrderlyEngine ==
    ASSUME OrderlyStep \/ UNCHANGED vars
    PROVE  [Engine!Next]_vars
BY DEF OrderlyStep, Cardinality,
   Engine!Cardinality, Cardinality, Engine!Next, Next, Engine!Library,
   Library, Engine!Client, Client, Engine!Caller, Caller, Engine!Adder, Adder,
   Engine!Dispatcher, Dispatcher, Engine!Worker, Worker, Engine!Begin, Begin,
   Engine!CountTotal, CountTotal, Engine!CutShort, CutShort, Engine!Return,
   Return, Engine!Spawn, Spawn, Engine!Skip, Skip, Engine!ParseOk, ParseOk,
   Engine!ParseFail, ParseFail, Engine!CountFailed, CountFailed, Engine!Send,
   Send, Engine!Block, Block, Engine!SendPanic, SendPanic, Engine!Drop, Drop,
   Engine!Recv, Recv, Engine!RecvEnd, RecvEnd, Engine!Acquire, Acquire,
   Engine!AcquireCancel, AcquireCancel, Engine!WaitWorkers, WaitWorkers,
   Engine!UpdateState, UpdateState, Engine!CloseResults, CloseResults,
   Engine!Tested, Tested, Engine!Untestable, Untestable, Engine!Emit, Emit,
   Engine!EmitCancel, EmitCancel, Engine!Tally, Tally, Engine!Leave, Leave,
   Engine!Consume, Consume, Engine!ClientClose, ClientClose,
   Engine!CloseInput, CloseInput, Engine!CloseChan, CloseChan,
   Engine!ClientStop, ClientStop, Engine!Stop, Stop, Engine!StopCancel,
   StopCancel, Engine!StopClose, StopClose, Engine!Cancel, Cancel,
   Engine!CancelAdds, CancelAdds, Engine!PropagateCancel, PropagateCancel,
   Engine!Idle, Idle, Engine!Finished, Finished, Engine!NoCallInProgress,
   NoCallInProgress, Engine!InCall, InCall, Engine!Up, Up, Engine!At, At,
   Engine!NodesOf, NodesOf, Engine!Adding, Adding, Engine!Working, Working,
   Engine!ResultCap, ResultCap, Engine!vars, vars, Engine!itemVars, itemVars,
   Engine!tallyVars, tallyVars, Engine!callVars, callVars, Engine!inputVars,
   inputVars, Engine!loopVars, loopVars, Engine!ctxVars, ctxVars

-----------------------------------------------------------------------------
(* One lemma per part of the invariant *)

(* What the engine's own goroutines do to what TestSpeed can see of them.  *)
Seen ==
    /\ stopPc' # "idle" => stopPc # "idle"
    /\ \A k \in Call :
          /\ callPc'[k] = callPc[k] \/ callPc[k] \in InCall
          /\ callPc[k] # "idle" => callPc'[k] # "idle"
          /\ callPc'[k] = "refused" => callPc[k] = "refused"
          /\ callPc'[k] \in {"cut", "cancelled"} =>
                callPc[k] \in {"cut", "cancelled"} \/ addCtxDone
    /\ streamDone' => streamDone \/ ctxDone \/ stopPc # "idle"
    /\ state' # "running" => state # "running" \/ dpc = "update" \/ stopPc # "idle"
    /\ once' # "fresh" => once # "fresh" \/ stopPc # "idle"
    /\ chanClosed' => chanClosed \/ once # "fresh"
    /\ resClosed => resClosed'
    /\ \A c \in Config : out'[c] = "sent" => out[c] = "sent" \/ stage[c] = "emit"

LEMMA LibrarySeen ==
    ASSUME TypeOK, Library
    PROVE  Seen
<1> USE DEF itemVars, tallyVars, callVars, inputVars, loopVars, ctxVars, Seen
<1>1. /\ callPc \in [Call -> {"idle", "ok", "cancelled", "refused"} \cup InCall]
      /\ out \in [Config -> {"none", "sent", "received"}]
  BY DEF TypeOK, NodeTypeOK
<1>2. ASSUME NEW k \in Call, CountTotal(k) \/ CutShort(k) \/ Return(k)
      PROVE  Seen
  <2>1. /\ callPc[k] \in InCall
        /\ \/ callPc' = [callPc EXCEPT ![k] = "adding"]
           \/ callPc' = [callPc EXCEPT ![k] = "cut"] /\ addCtxDone
           \/ callPc' = [callPc EXCEPT ![k] = "ok"]
           \/ callPc' = [callPc EXCEPT ![k] = "cancelled"] /\ callPc[k] = "cut"
    BY <1>2 DEF CountTotal, CutShort, Return, InCall
  <2>2. UNCHANGED <<stopPc, streamDone, state, once, chanClosed, resClosed, out>>
    BY <1>2 DEF CountTotal, CutShort, Return
  <2> QED
    BY <1>1, <2>1, <2>2
<1>3. ASSUME NEW c \in Config,
             \/ Spawn(c) \/ Skip(c) \/ ParseOk(c) \/ ParseFail(c)
             \/ CountFailed(c) \/ Send(c) \/ Block(c) \/ SendPanic(c) \/ Drop(c)
      PROVE  Seen
  <2>1. UNCHANGED <<callPc, stopPc, streamDone, inputVars, resClosed, out>>
    BY <1>3 DEF Spawn, Skip, ParseOk, ParseFail, CountFailed, Send, Block,
         SendPanic, Drop
  <2> QED
    BY <2>1
<1>4. ASSUME \/ \E c \in Config : Recv(c) \/ Acquire(c) \/ AcquireCancel(c)
             \/ RecvEnd \/ WaitWorkers \/ UpdateState \/ CloseResults
      PROVE  Seen
  BY <1>4 DEF Recv, Acquire, AcquireCancel, RecvEnd, WaitWorkers,
       UpdateState, CloseResults
<1>5. ASSUME NEW c \in Config,
             \/ \E v \in {"alive", "dead"} : Tested(c, v)
             \/ \E v \in {"nil", "panic"} : Untestable(c, v)
             \/ EmitCancel(c) \/ Tally(c) \/ Leave(c)
      PROVE  Seen
  BY <1>5 DEF Tested, Untestable, EmitCancel, Tally, Leave
<1>6. ASSUME NEW c \in Config, Emit(c)
      PROVE  Seen
  BY <1>1, <1>6 DEF Emit
<1>7. ASSUME CloseChan \/ StopCancel \/ StopClose \/ PropagateCancel
      PROVE  Seen
  BY <1>7 DEF CloseChan, StopCancel, StopClose, CloseInput, PropagateCancel
<1> QED
  BY <1>2, <1>3, <1>4, <1>5, <1>6, <1>7, LibraryCases

(* Once the adding goroutine is done without an error, so is the loader;   *)
(* it reports an error only for a cause.                                   *)
LEMMA LoaderOver ==
    ASSUME LP!Inv, TestInv, Closing, ~(config /\ ctxDone), ~meddled
    PROVE  \A w \in Loader : lpc[w] \in {"range", "exit"}
<1>1. CASE ~started
  BY <1>1 DEF TestInv, AddInv
<1>2. CASE started
  <2>1. config /\ addDone = "nil"
    BY <1>2 DEF TestInv, TestTypeOK, AddInv, Error
  <2>2. ret = "nil"
    BY <2>1 DEF TestInv, AddInv
  <2> QED
    BY <2>2 DEF LP!Inv, LP!ReturnInv, LP!ExitInv
<1> QED
  BY <1>1, <1>2

(* Nothing but a cancel lets fn outlive the loader, and so the adds.       *)
LEMMA FnOver ==
    ASSUME LP!Inv, TestInv, Closing, ~(config /\ ctxDone)
    PROVE  \A w \in Loader : lpc[w] # "fn"
<1>1. CASE ~started
  BY <1>1 DEF TestInv, AddInv
<1>2. CASE started
  <2>1. ~addCtxDone /\ mpc = "returned"
    BY <1>2 DEF TestInv, AddInv, EngineInv, Closing
  <2> QED
    BY <2>1 DEF LP!Inv, LP!ReturnInv, LP!FnOverAtReturn
<1> QED
  BY <1>1, <1>2

(* Then no add call is in progress, either.                                *)
LEMMA CallsOver ==
    ASSUME LP!Inv, TestInv, Closing, ~(config /\ ctxDone)
    PROVE  NoCallInProgress
<1>1. \A w \in Loader : lpc[w] # "fn"
  BY FnOver
<1> QED
  BY <1>1 DEF TestInv, CallInv, Closing, NoCallInProgress

LEMMA LoaderResult ==
    ASSUME TestInv, LP!Inv, mpc = "returned"
    PROVE  \/ ret = "nil"
           \/ ret = "ctxErr" /\ ctxDone
           \/ ret = "err" /\ FnError = "ctxErr" /\ ctxDone
           \/ ret = "err" /\ FnError = "refused" /\ (ctxDone \/ meddled)
<1>1. ret \in {"nil", "err", "ctxErr"}
  BY DEF LP!Inv, LP!TypeOK, LP!ReturnInv
<1>2. ret = "ctxErr" => ctxDone
  BY DEF LP!Inv, LP!ReturnInv, TestInv, EngineInv
<1>3. CASE ret = "err"
  <2>1. PICK b \in Call : fnState[b] = "err"
    BY <1>3 DEF LP!Inv, LP!ReturnInv, LP!ErrInv
  <2>2. CASE \E k \in Call : fnState[k] = "err" /\ callPc[k] = "refused"
    BY <1>3, <2>2 DEF FnError, TestInv, CallInv
  <2>3. CASE ~\E k \in Call : fnState[k] = "err" /\ callPc[k] = "refused"
    <3>1. callPc[b] = "cancelled"
      BY <2>1, <2>3 DEF TestInv, CallInv
    <3>2. FnError = "ctxErr"
      BY <2>3 DEF FnError
    <3> QED
      BY <1>3, <3>1, <3>2 DEF TestInv, CallInv
  <2> QED
    BY <2>2, <2>3
<1> QED
  BY <1>1, <1>2, <1>3

LEMMA InlineResult ==
    ASSUME TestInv, StreamInv, NEW k \in Inline, InlineReturned(k)
    PROVE  \/ callPc[k] = "ok"
           \/ callPc[k] = "cancelled" /\ ctxDone
           \/ callPc[k] = "refused" /\ (ctxDone \/ meddled)
<1>1. k \in Call /\ callPc[k] \notin InCall \cup {"idle"}
  BY TestSpeedAssumption DEF InlineReturned, TestInv, CallInv
<1>2. callPc[k] \in {"idle", "ok", "cancelled", "refused"} \cup InCall
  BY <1>1 DEF StreamInv, TypeOK, NodeTypeOK
<1> QED
  BY <1>1, <1>2 DEF TestInv, CallInv

LEMMA TypeKept ==
    ASSUME TestInv, StreamInv, LP!Inv, TSNext \/ UNCHANGED allVars
    PROVE  TestTypeOK'
<1>0. TestTypeOK
  BY DEF TestInv
<1> USE <1>0 DEF TestTypeOK, optVars, addVars, testVars, SendDone, Error
<1>1. CASE UNCHANGED testVars
  BY <1>1
<1>2. CASE StartLoader \/ NoInline \/ DeferredClose
  BY <1>2 DEF StartLoader, NoInline, DeferredClose
<1>3. CASE LoaderReturned
  <2>1. FnError \in Error
    BY DEF FnError
  <2>2. \/ apc' = "inline" /\ UNCHANGED addDone
        \/ SendDone(FnError) \/ SendDone("ctxErr")
    BY <1>3, LoaderResult DEF LoaderReturned
  <2> QED
    BY <1>3, <2>1, <2>2 DEF LoaderReturned
<1>4. ASSUME NEW k \in Inline, AddInline(k)
      PROVE  TestTypeOK'
  BY <1>4 DEF AddInline
<1>5. ASSUME NEW k \in Inline, InlineReturned(k)
      PROVE  TestTypeOK'
  <2>1. SendDone("nil") \/ SendDone("ctxErr") \/ SendDone("refused")
    BY <1>5, InlineResult DEF InlineReturned
  <2> QED
    BY <1>5, <2>1 DEF InlineReturned
<1>6. CASE ResultsEnd \/ TestSpeedReturn
  BY <1>6 DEF ResultsEnd, TestSpeedReturn
<1>7. CASE \/ EngineStep \/ LoaderStep \/ CallerCancel \/ UNCHANGED allVars
           \/ \E w \in Loader : CallbackBegin(w) \/ CallbackEnd(w)
           \/ \E c \in Config : Collect(c)
  BY <1>1, <1>7 DEF EngineStep, Running, LoaderStep, Loading, CallerCancel,
       CallbackBegin, CallbackEnd, Collect, allVars
<1>8. CASE OtherStop \/ OtherClose
  BY <1>8 DEF OtherStop, OtherClose, Meddle
<1> QED
  BY <1>2, <1>3, <1>4, <1>5, <1>6, <1>7, <1>8 DEF TSNext, TSStep, TSIdle

LEMMA ClosingStays ==
    ASSUME TSNext \/ UNCHANGED allVars, Closing
    PROVE  Closing'
<1>1. CASE DeferredClose
  BY <1>1 DEF DeferredClose, Closing
<1>2. CASE \/ StartLoader \/ LoaderReturned \/ NoInline
           \/ \E k \in Inline : AddInline(k) \/ InlineReturned(k)
  BY <1>2 DEF StartLoader, LoaderReturned, NoInline, AddInline, InlineReturned,
       Closing
<1>3. CASE \/ EngineStep \/ LoaderStep \/ CallerCancel \/ UNCHANGED allVars
           \/ \E w \in Loader : CallbackBegin(w) \/ CallbackEnd(w)
           \/ \E c \in Config : Collect(c)
           \/ ResultsEnd \/ TestSpeedReturn \/ OtherStop \/ OtherClose
  BY <1>3 DEF EngineStep, Running, LoaderStep, Loading, CallerCancel,
       CallbackBegin, CallbackEnd, Collect, ResultsEnd, TestSpeedReturn,
       OtherStop, OtherClose, Meddle, allVars, testVars, addVars, Closing
<1> QED
  BY <1>1, <1>2, <1>3 DEF TSNext, TSStep, TSIdle

(* What other goroutines did stays done, and a cancel too.                 *)
LEMMA HistoryKept ==
    ASSUME TSNext \/ UNCHANGED allVars
    PROVE  /\ config' = config /\ proxies' = proxies
           /\ meddled => meddled'
           /\ ctxDone => ctxDone'
<1> USE DEF testVars, optVars
<1>1. CASE EngineStep
  BY <1>1, LibraryCtx DEF EngineStep, Running
<1>2. CASE \/ LoaderStep \/ StartLoader \/ LoaderReturned \/ NoInline
           \/ ResultsEnd \/ TestSpeedReturn
           \/ \E k \in Inline : InlineReturned(k)
           \/ UNCHANGED allVars
  <2>1. UNCHANGED <<vars, optVars, meddled>>
    BY <1>2 DEF LoaderStep, Loading, StartLoader, LoaderReturned, NoInline,
         ResultsEnd, TestSpeedReturn, InlineReturned, allVars
  <2> QED
    BY <2>1 DEF vars, ctxVars
<1>3. CASE \/ \E k \in Inline : AddInline(k)
           \/ \E w \in Loader : CallbackBegin(w) \/ CallbackEnd(w)
           \/ \E c \in Config : Collect(c)
           \/ DeferredClose \/ CallerCancel
  BY <1>3 DEF AddInline, CallbackBegin, CallbackEnd, Collect, CallerCancel,
       DeferredClose, CloseInput, Begin, Consume, Cancel, vars, ctxVars
<1>4. CASE OtherStop \/ OtherClose
  BY <1>4 DEF OtherStop, OtherClose, Meddle, Stop, CloseInput, ctxVars
<1> QED
  BY <1>1, <1>2, <1>3, <1>4 DEF TSNext, TSStep, TSIdle

LEMMA EngineKept ==
    ASSUME TestInv, StreamInv, LP!Inv, TSNext \/ UNCHANGED allVars
    PROVE  EngineInv'
<1>1. EngineInv /\ (Closing => Closing') /\ (meddled => meddled')
  BY ClosingStays, HistoryKept DEF TestInv
<1> USE DEF EngineInv, itemVars, tallyVars, callVars, inputVars, loopVars, ctxVars
<1>2. CASE Library
  <2>1. Seen /\ UNCHANGED <<ctxDone, addCtxDone>>
    BY <1>2, LibrarySeen, LibraryCtx DEF StreamInv
  <2>2. dpc = "update" => ctxDone \/ meddled \/ Closing
    BY <1>1 DEF StreamInv, LoopInv
  <2> QED
    BY <1>1, <2>1, <2>2 DEF Seen
<1>3. CASE \/ \E k \in Call : Begin(k)
           \/ \E c \in Config : Consume(c)
           \/ UNCHANGED vars
  <2>1. UNCHANGED <<inputVars, ctxVars, stopPc>>
    BY <1>3 DEF Begin, Consume, vars
  <2> QED
    BY <1>1, <2>1
<1>4. CASE Cancel
  <2>1. ctxDone' = TRUE /\ addCtxDone' = TRUE /\ UNCHANGED <<inputVars, stopPc>>
    BY <1>4, TestSpeedAssumption DEF Cancel
  <2> QED
    BY <1>1, <2>1
<1>5. CASE apc = "close" /\ CloseInput
  BY <1>1, <1>5 DEF CloseInput, Closing
<1>6. CASE (Stop \/ CloseInput) /\ Meddle
  BY <1>1, <1>6 DEF Stop, CloseInput, Meddle
<1> QED
  BY <1>2, <1>3, <1>4, <1>5, <1>6, EngineCases

(* What the proofs below need to know of the loader's and the engine's     *)
(* functions.                                                              *)
Functions ==
    /\ lpc \in [Loader -> {"range", "read", "pause", "check", "lock", "fn",
                          "cancel", "post", "failed", "ctx", "exit"}]
    /\ left \in [Loader -> Seq(Call)]
    /\ fnState \in [Call -> {"none", "running", "ok", "err"}]
    /\ callPc \in [Call -> {"idle", "ok", "cancelled", "refused"} \cup InCall]
    /\ \A w \in Loader : lpc[w] \in {"lock", "fn"} => Head(left[w]) \in Call

LEMMA FunctionsTyped == StreamInv /\ LP!Inv => Functions
BY DEF StreamInv, TypeOK, NodeTypeOK, LP!Inv, LP!TypeOK, LP!MutexInv, Functions

(* No batch reaches the callback once TestSpeed has closed the input,      *)
(* unless the context is done or another goroutine closed or stopped it:   *)
(* ensureCanAdd refuses nothing else.                                      *)
LEMMA RefusedForCause ==
    ASSUME TestInv, LP!Inv, NEW w \in Loader, lpc[w] = "lock", state # "running"
    PROVE  ctxDone \/ meddled
<1>1. Closing => ctxDone \/ meddled
  BY LoaderOver
<1> QED
  BY <1>1 DEF TestInv, EngineInv

LEMMA CallKept ==
    ASSUME TestInv, StreamInv, LP!Inv, TSNext \/ UNCHANGED allVars
    PROVE  CallInv'
<1>0. /\ Functions /\ CallInv /\ proxies \subseteq Inline
      /\ proxies' = proxies /\ (ctxDone => ctxDone') /\ (meddled => meddled')
  BY FunctionsTyped, HistoryKept, TestSpeedAssumption DEF TestInv, TestTypeOK
<1> USE DEF Entered
<1>1. CASE EngineStep
  <2>1. Seen /\ UNCHANGED <<ctxDone, addCtxDone, lpc, left, fnState, apc>>
    BY <1>1, LibrarySeen, LibraryCtx
       DEF EngineStep, Running, StreamInv, loaderVars, testVars, addVars
  <2>2. addCtxDone = ctxDone
    BY DEF TestInv, EngineInv
  <2>3. \A k \in Call : /\ callPc'[k] \in InCall => callPc[k] \in InCall
                        /\ \A o \in {"ok", "cancelled", "refused"} :
                              callPc[k] = o => callPc'[k] = o
    BY <2>1 DEF Seen, InCall
  <2>4. ASSUME NEW k \in Call
        PROVE  /\ callPc'[k] \in InCall =>
                     \/ \E w \in Loader : lpc'[w] = "fn" /\ Head(left'[w]) = k
                     \/ apc' = "adding" /\ k \in proxies'
               /\ fnState'[k] = "err" => callPc'[k] \in {"cancelled", "refused"}
               /\ fnState'[k] = "ok" => callPc'[k] = "ok"
    BY <1>0, <2>1, <2>3 DEF CallInv
  <2>5. ASSUME NEW k \in Call
        PROVE  /\ callPc'[k] \in {"cut", "cancelled"} => ctxDone'
               /\ callPc'[k] = "refused" => ctxDone' \/ meddled'
    BY <1>0, <2>1, <2>2 DEF CallInv, Seen
  <2>6. ASSUME NEW k \in Call, callPc[k] # "idle"
        PROVE  callPc'[k] # "idle"
    BY <2>1, <2>6 DEF Seen
  <2>7. \A w \in Loader : lpc'[w] = "fn" => callPc'[Head(left'[w])] # "idle"
    BY <1>0, <2>1, <2>6 DEF CallInv, Functions
  <2>8. apc' = "adding" => \A k \in proxies' : callPc'[k] # "idle"
    BY <1>0, <2>1, <2>6, TestSpeedAssumption DEF CallInv
  <2> QED
    BY <2>4, <2>5, <2>7, <2>8 DEF CallInv
<1>2. CASE LoaderStep
  <2>1. /\ fnState' = fnState /\ UNCHANGED <<callPc, apc>>
        /\ \A w \in Loader : /\ lpc'[w] = "fn" <=> lpc[w] = "fn"
                             /\ lpc[w] = "fn" => left'[w] = left[w]
    BY <1>2, InternalEffect
       DEF LoaderStep, Loading, LP!Inv, vars, callVars, testVars, addVars
  <2>2. ASSUME NEW k \in Call, callPc'[k] \in InCall
        PROVE  (\E w \in Loader : lpc'[w] = "fn" /\ Head(left'[w]) = k)
                  \/ (apc' = "adding" /\ k \in proxies')
    BY <1>0, <2>1, <2>2 DEF CallInv
  <2>3. ASSUME NEW w \in Loader, lpc'[w] = "fn"
        PROVE  callPc'[Head(left'[w])] # "idle"
    <3>1. lpc[w] = "fn" /\ left'[w] = left[w] /\ callPc' = callPc
      BY <2>1, <2>3
    <3>2. callPc[Head(left[w])] # "idle"
      BY <1>0, <3>1 DEF CallInv
    <3> QED
      BY <3>1, <3>2
  <2>4. /\ \A k \in Call : /\ callPc'[k] \in {"cut", "cancelled"} => ctxDone'
                           /\ callPc'[k] = "refused" => ctxDone' \/ meddled'
                           /\ fnState'[k] = "err" => callPc'[k] \in {"cancelled", "refused"}
                           /\ fnState'[k] = "ok" => callPc'[k] = "ok"
        /\ apc' = "adding" => \A k \in proxies' : callPc'[k] # "idle"
    BY <1>0, <2>1 DEF CallInv
  <2> QED
    BY <2>2, <2>3, <2>4 DEF CallInv
<1>3. ASSUME NEW w \in Loader, CallbackBegin(w)
      PROVE  CallInv'
  <2> DEFINE b == Head(left[w])
  <2>1. /\ lpc[w] = "lock" /\ lpc' = [lpc EXCEPT ![w] = "fn"]
        /\ left' = left /\ fnState' = [fnState EXCEPT ![b] = "running"]
    BY <1>3 DEF CallbackBegin, L!EnterFn, L!CallFn, L!Goto
  <2>2. /\ callPc[b] = "idle"
        /\ callPc' = [callPc EXCEPT ![b] = IF state = "running" THEN "admitted"
                                                              ELSE "refused"]
        /\ apc' = apc
    BY <1>3 DEF CallbackBegin, Begin, testVars, addVars
  <2>3. b \in Call
    BY <1>0, <2>1 DEF Functions
  <2>4. state # "running" => ctxDone \/ meddled
    BY <2>1, RefusedForCause
  <2> HIDE DEF b
  <2>5. /\ \A v \in Loader : lpc'[v] = "fn" <=> (v = w \/ lpc[v] = "fn")
        /\ \A k \in Call : fnState'[k] = IF k = b THEN "running" ELSE fnState[k]
        /\ callPc'[b] = (IF state = "running" THEN "admitted" ELSE "refused")
        /\ \A k \in Call : k # b => callPc'[k] = callPc[k]
    BY <1>0, <2>1, <2>2, <2>3 DEF Functions
  <2>6. ASSUME NEW k \in Call, callPc'[k] \in InCall
        PROVE  (\E v \in Loader : lpc'[v] = "fn" /\ Head(left'[v]) = k)
                  \/ (apc' = "adding" /\ k \in proxies')
    <3>1. CASE k = b
      BY <2>1, <2>5, <3>1 DEF b
    <3>2. CASE k # b
      BY <1>0, <2>1, <2>2, <2>5, <2>6, <3>2 DEF CallInv
    <3> QED
      BY <3>1, <3>2
  <2>7. ASSUME NEW k \in Call
        PROVE  /\ callPc'[k] \in {"cut", "cancelled"} => ctxDone'
               /\ callPc'[k] = "refused" => ctxDone' \/ meddled'
               /\ fnState'[k] = "err" => callPc'[k] \in {"cancelled", "refused"}
               /\ fnState'[k] = "ok" => callPc'[k] = "ok"
               /\ callPc[k] # "idle" => callPc'[k] # "idle"
    <3>1. CASE k = b
      BY <1>0, <2>2, <2>4, <2>5, <3>1
    <3>2. CASE k # b
      BY <1>0, <2>2, <2>5, <3>2 DEF CallInv
    <3> QED
      BY <3>1, <3>2
  <2>8. ASSUME NEW v \in Loader, lpc'[v] = "fn"
        PROVE  callPc'[Head(left'[v])] # "idle"
    <3>1. CASE v = w
      BY <2>1, <2>5, <3>1 DEF b
    <3>2. CASE v # w
      <4>1. callPc[Head(left[v])] # "idle" /\ Head(left[v]) \in Call
        BY <1>0, <2>5, <2>8, <3>2 DEF CallInv, Functions
      <4> QED
        BY <2>1, <2>7, <4>1
    <3> QED
      BY <3>1, <3>2
  <2>9. apc' = "adding" => \A k \in proxies' : callPc'[k] # "idle"
    BY <1>0, <2>2, <2>7, TestSpeedAssumption DEF CallInv
  <2> QED
    BY <2>6, <2>7, <2>8, <2>9 DEF CallInv
<1>4. ASSUME NEW w \in Loader, CallbackEnd(w)
      PROVE  CallInv'
  <2> DEFINE b == Head(left[w])
  <2>1. /\ lpc[w] = "fn" /\ callPc[b] \notin InCall
        /\ UNCHANGED <<callPc, apc>>
    BY <1>4 DEF CallbackEnd, vars, testVars, addVars
  <2>2. \/ /\ callPc[b] = "ok"
           /\ fnState' = [fnState EXCEPT ![b] = "ok"]
           /\ left' = [left EXCEPT ![w] = Tail(@)]
           /\ lpc' = [lpc EXCEPT ![w] = "check"]
        \/ /\ callPc[b] # "ok"
           /\ fnState' = [fnState EXCEPT ![b] = "err"]
           /\ left' = left
           /\ lpc' = [lpc EXCEPT ![w] = "cancel"]
    BY <1>4 DEF CallbackEnd, L!FnOk, L!FnErr, L!Goto
  <2>3. b \in Call /\ callPc[b] # "idle"
    BY <1>0, <2>1 DEF Functions, CallInv
  <2>4. callPc[b] # "ok" => callPc[b] \in {"cancelled", "refused"}
    BY <1>0, <2>1, <2>3 DEF Functions
  <2> HIDE DEF b
  <2>5. \A v \in Loader : /\ lpc'[v] = "fn" <=> (v # w /\ lpc[v] = "fn")
                          /\ v # w => left'[v] = left[v]
    BY <1>0, <2>1, <2>2 DEF Functions
  <2>6. \A k \in Call : k # b => fnState'[k] = fnState[k]
    BY <1>0, <2>2 DEF Functions
  <2>7. fnState'[b] = (IF callPc[b] = "ok" THEN "ok" ELSE "err")
    BY <1>0, <2>2, <2>3 DEF Functions
  <2>8. ASSUME NEW k \in Call, callPc'[k] \in InCall
        PROVE  (\E v \in Loader : lpc'[v] = "fn" /\ Head(left'[v]) = k)
                  \/ (apc' = "adding" /\ k \in proxies')
    <3>1. k # b /\ callPc[k] \in InCall
      BY <2>1, <2>8
    <3> QED
      BY <1>0, <2>1, <2>5, <3>1 DEF CallInv, b
  <2>9. ASSUME NEW k \in Call
        PROVE  /\ fnState'[k] = "err" => callPc'[k] \in {"cancelled", "refused"}
               /\ fnState'[k] = "ok" => callPc'[k] = "ok"
    <3>1. CASE k = b
      BY <2>1, <2>4, <2>7, <3>1
    <3>2. CASE k # b
      BY <1>0, <2>1, <2>6, <3>2 DEF CallInv
    <3> QED
      BY <3>1, <3>2
  <2>10. \A v \in Loader : lpc'[v] = "fn" => callPc'[Head(left'[v])] # "idle"
    BY <1>0, <2>1, <2>5 DEF CallInv
  <2> QED
    BY <1>0, <2>1, <2>8, <2>9, <2>10 DEF CallInv
<1>5. ASSUME NEW j \in Inline, AddInline(j)
      PROVE  CallInv'
  <2>1. /\ apc = "inline" /\ apc' = "adding" /\ j \in proxies /\ j \in Call
        /\ callPc[j] = "idle"
        /\ callPc' = [callPc EXCEPT ![j] = IF state = "running" THEN "admitted"
                                                              ELSE "refused"]
        /\ UNCHANGED <<lpc, left, fnState>>
    BY <1>5, TestSpeedAssumption DEF AddInline, Begin, loaderVars
  <2>2. state # "running" => ctxDone \/ meddled
    BY <2>1 DEF TestInv, EngineInv, Closing
  <2>3. /\ callPc'[j] = (IF state = "running" THEN "admitted" ELSE "refused")
        /\ \A k \in Call : k # j => callPc'[k] = callPc[k]
    BY <1>0, <2>1 DEF Functions
  <2>4. \A k \in proxies : k = j
    BY <1>0, TestSpeedAssumption
  <2>5. ASSUME NEW k \in Call
        PROVE  /\ callPc'[k] \in InCall =>
                     \/ \E v \in Loader : lpc'[v] = "fn" /\ Head(left'[v]) = k
                     \/ apc' = "adding" /\ k \in proxies'
               /\ callPc'[k] \in {"cut", "cancelled"} => ctxDone'
               /\ callPc'[k] = "refused" => ctxDone' \/ meddled'
               /\ fnState'[k] = "err" => callPc'[k] \in {"cancelled", "refused"}
               /\ fnState'[k] = "ok" => callPc'[k] = "ok"
               /\ callPc[k] # "idle" => callPc'[k] # "idle"
    <3>1. CASE k = j
      BY <1>0, <2>1, <2>2, <2>3, <3>1 DEF CallInv
    <3>2. CASE k # j
      BY <1>0, <2>1, <2>3, <3>2 DEF CallInv
    <3> QED
      BY <3>1, <3>2
  <2>6. \A k \in proxies' : callPc'[k] # "idle"
    BY <1>0, <2>1, <2>3, <2>4
  <2>7. \A v \in Loader : lpc'[v] = "fn" => callPc'[Head(left'[v])] # "idle"
    BY <1>0, <2>1, <2>5 DEF CallInv, Functions
  <2> QED
    BY <2>5, <2>6, <2>7 DEF CallInv
<1>6. CASE StartLoader \/ LoaderReturned \/ NoInline
  <2>1. UNCHANGED <<callPc, lpc, left, fnState>>
    BY <1>6 DEF StartLoader, LoaderReturned, NoInline, vars, loaderVars
  <2>2. apc # "adding" /\ apc' # "adding"
    BY <1>6, LoaderResult
       DEF StartLoader, LoaderReturned, NoInline, SendDone
  <2> QED
    BY <1>0, <2>1, <2>2 DEF CallInv
<1>7. ASSUME NEW j \in Inline, InlineReturned(j)
      PROVE  CallInv'
  <2>1. /\ UNCHANGED <<callPc, lpc, left, fnState>>
        /\ callPc[j] \notin InCall /\ apc' = "close"
    BY <1>7 DEF InlineReturned, SendDone, vars, loaderVars
  <2>2. \A k \in proxies : k = j
    BY <1>0, TestSpeedAssumption
  <2> QED
    BY <1>0, <2>1, <2>2 DEF CallInv
<1>8. CASE DeferredClose
  <2>1. /\ UNCHANGED <<callPc, lpc, left, fnState>>
        /\ apc = "close" /\ apc' # "adding"
    BY <1>8 DEF DeferredClose, CloseInput, vars, callVars, loaderVars
  <2> QED
    BY <1>0, <2>1 DEF CallInv
<1>9. CASE \/ \E c \in Config : Collect(c)
           \/ ResultsEnd \/ TestSpeedReturn \/ CallerCancel
           \/ OtherStop \/ OtherClose \/ UNCHANGED allVars
  <2>1. UNCHANGED <<callPc, lpc, left, fnState, apc>>
    BY <1>9 DEF Collect, Consume, ResultsEnd, TestSpeedReturn, CallerCancel,
         Cancel, OtherStop, OtherClose, Meddle, Stop, CloseInput, allVars, vars,
         callVars, loaderVars, testVars, addVars
  <2> QED
    BY <1>0, <2>1 DEF CallInv
<1> QED
  BY <1>1, <1>2, <1>3, <1>4, <1>5, <1>6, <1>7, <1>8, <1>9
     DEF TSNext, TSStep, TSIdle

LEMMA AddKept ==
    ASSUME TestInv, StreamInv, LP!Inv, TSNext \/ UNCHANGED allVars
    PROVE  AddInv'
<1>0. /\ Functions /\ AddInv /\ TestTypeOK /\ proxies \subseteq Inline
      /\ \A k \in Inline : k \in Call
  BY FunctionsTyped, TestSpeedAssumption DEF TestInv, TestTypeOK
<1>h. /\ config' = config /\ proxies' = proxies
      /\ (ctxDone => ctxDone') /\ (meddled => meddled')
  BY HistoryKept
<1> USE DEF Closing, Error
<1>1. CASE EngineStep
  <2>1. Seen /\ UNCHANGED <<lpc, fnState, mpc, ret, started, apc, addDone>>
    BY <1>1, LibrarySeen
       DEF EngineStep, Running, StreamInv, loaderVars, testVars, addVars
  <2>2. \A k \in Call : callPc[k] = "ok" => callPc'[k] = "ok"
    BY <2>1 DEF Seen, InCall
  <2> QED
    BY <1>0, <1>h, <2>1, <2>2 DEF AddInv
<1>2. CASE LoaderStep
  <2>1. /\ started /\ UNCHANGED <<started, apc, addDone, callPc>>
        /\ mpc = "returned" => mpc' = mpc /\ ret' = ret
    BY <1>2, InternalEffect
       DEF LoaderStep, Loading, LP!Inv, vars, callVars, testVars, addVars
  <2>2. started /\ apc \in {"inline", "adding", "close", "end"} => mpc = "returned"
    BY <1>0 DEF AddInv
  <2>3. addDone = "nil" => mpc = "returned"
    BY <1>0, <2>1, <2>2 DEF AddInv
  <2> QED
    BY <1>0, <1>h, <2>1, <2>2, <2>3 DEF AddInv, TestTypeOK
<1>3. ASSUME NEW w \in Loader, CallbackBegin(w) \/ CallbackEnd(w)
      PROVE  AddInv'
  <2>1. lpc[w] # "range" /\ UNCHANGED <<started, apc, addDone, mpc, ret>>
    BY <1>3 DEF CallbackBegin, CallbackEnd, L!EnterFn, L!CallFn, L!FnOk, L!FnErr,
         L!Goto, L!mainVars, testVars, addVars
  <2>2. started
    BY <1>0, <2>1 DEF AddInv
  <2>3. ASSUME NEW k \in Call, callPc[k] = "ok"
        PROVE  callPc'[k] = "ok"
    BY <1>0, <1>3, <2>3
       DEF CallbackBegin, CallbackEnd, Begin, vars, callVars, Functions
  <2> QED
    BY <1>0, <1>h, <2>1, <2>2, <2>3 DEF AddInv
<1>4. CASE StartLoader
  <2>1. /\ UNCHANGED <<mpc, ret, lpc, fnState, callPc>>
        /\ apc = "url" /\ addDone = "none"
        /\ \/ state = "running" /\ apc' = "loading" /\ addDone' = addDone /\ started'
           \/ state # "running" /\ apc' = "close" /\ addDone' = "refused"
                 /\ started' = started
    BY <1>0, <1>4 DEF StartLoader, SendDone, vars, callVars, loaderVars, AddInv
  <2>2. state # "running" => ctxDone \/ meddled
    BY <2>1 DEF TestInv, EngineInv
  <2>3. config /\ ~started
    BY <1>0, <2>1 DEF AddInv
  <2> QED
    BY <1>0, <1>h, <2>1, <2>2, <2>3 DEF AddInv
<1>5. CASE LoaderReturned
  <2>1. /\ UNCHANGED <<started, mpc, ret, lpc, fnState, callPc>>
        /\ apc = "loading" /\ addDone = "none" /\ mpc = "returned"
    BY <1>0, <1>5 DEF LoaderReturned, vars, callVars, loaderVars, AddInv
  <2>2. \/ ret = "nil" /\ apc' = "inline" /\ addDone' = addDone
        \/ ctxDone /\ apc' = "close" /\ addDone' = "ctxErr"
        \/ (ctxDone \/ meddled) /\ apc' = "close" /\ addDone' = "refused"
    BY <1>5, <2>1, LoaderResult DEF LoaderReturned, SendDone
  <2>3. started /\ config
    BY <1>0, <2>1 DEF AddInv
  <2> QED
    BY <1>0, <1>h, <2>1, <2>2, <2>3 DEF AddInv
<1>6. CASE NoInline
  <2>1. /\ UNCHANGED <<started, mpc, ret, lpc, fnState, callPc>>
        /\ apc = "inline" /\ apc' = "close" /\ addDone' = "nil" /\ proxies = {}
    BY <1>0, <1>6 DEF NoInline, SendDone, vars, callVars, loaderVars
  <2> QED
    BY <1>0, <1>h, <2>1 DEF AddInv
<1>7. ASSUME NEW j \in Inline, AddInline(j)
      PROVE  AddInv'
  <2>1. /\ UNCHANGED <<started, mpc, ret, lpc, fnState, addDone>>
        /\ apc = "inline" /\ apc' = "adding" /\ addDone = "none"
    BY <1>0, <1>7 DEF AddInline, loaderVars, AddInv
  <2> QED
    BY <1>0, <1>h, <2>1 DEF AddInv
<1>8. ASSUME NEW j \in Inline, InlineReturned(j)
      PROVE  AddInv'
  <2>1. /\ UNCHANGED <<started, mpc, ret, lpc, fnState, callPc>>
        /\ apc = "adding" /\ apc' = "close" /\ j \in proxies
    BY <1>8 DEF InlineReturned, SendDone, vars, callVars, loaderVars
  <2>2. \/ addDone' = "nil" /\ callPc[j] = "ok"
        \/ addDone' = "ctxErr" /\ ctxDone
        \/ addDone' = "refused" /\ (ctxDone \/ meddled)
    BY <1>8, InlineResult DEF InlineReturned, SendDone
  <2>3. \A k \in proxies : k = j
    BY <1>0, TestSpeedAssumption
  <2> QED
    BY <1>0, <1>h, <2>1, <2>2, <2>3 DEF AddInv
<1>9. CASE DeferredClose
  <2>1. /\ UNCHANGED <<started, mpc, ret, lpc, fnState, callPc, addDone>>
        /\ apc = "close" /\ apc' \in {"close", "end"}
    BY <1>9 DEF DeferredClose, CloseInput, vars, callVars, loaderVars
  <2> QED
    BY <1>0, <1>h, <2>1 DEF AddInv
<1>10. CASE \/ \E c \in Config : Collect(c)
            \/ ResultsEnd \/ TestSpeedReturn \/ CallerCancel
            \/ OtherStop \/ OtherClose \/ UNCHANGED allVars
  <2>1. UNCHANGED <<started, mpc, ret, lpc, fnState, callPc, addDone, apc>>
    BY <1>10 DEF Collect, Consume, ResultsEnd, TestSpeedReturn, CallerCancel,
         Cancel, OtherStop, OtherClose, Meddle, Stop, CloseInput, allVars, vars,
         callVars, loaderVars, testVars, addVars
  <2> QED
    BY <1>0, <1>h, <2>1 DEF AddInv
<1> QED
  BY <1>1, <1>2, <1>3, <1>4, <1>5, <1>6, <1>7, <1>8, <1>9, <1>10
     DEF TSNext, TSStep, TSIdle

LEMMA ReturnKept ==
    ASSUME TestInv, StreamInv, LP!Inv, TSNext \/ UNCHANGED allVars
    PROVE  ReturnInv'
<1>0. ReturnInv
  BY DEF TestInv
<1>1. CASE EngineStep
  <2>1. Seen /\ UNCHANGED testVars
    BY <1>1, LibrarySeen DEF EngineStep, Running, StreamInv
  <2>2. resClosed => \A c \in Config : stage[c] # "emit"
    BY DEF StreamInv, LoopInv, Working
  <2> QED
    BY <1>0, <2>1, <2>2 DEF ReturnInv, Seen, testVars, addVars
<1>2. CASE \E c \in Config : Collect(c)
  BY <1>0, <1>2 DEF ReturnInv, Collect, Consume, loopVars, testVars, addVars
<1>3. CASE ResultsEnd
  BY <1>0, <1>3 DEF ReturnInv, ResultsEnd, vars, addVars
<1>4. CASE TestSpeedReturn
  BY <1>0, <1>4 DEF ReturnInv, TestSpeedReturn, vars, addVars
<1>5. CASE \/ StartLoader \/ LoaderReturned \/ NoInline
           \/ \E k \in Inline : AddInline(k) \/ InlineReturned(k)
  <2>1. UNCHANGED <<resClosed, out, tpc, tret>> /\ apc \notin {"close", "end"}
    BY <1>5 DEF StartLoader, LoaderReturned, NoInline, AddInline, InlineReturned,
         Begin, vars, itemVars, loopVars
  <2>2. tpc # "returned"
    BY <1>0, <2>1 DEF ReturnInv, TestInv, AddInv, Closing
  <2> QED
    BY <1>0, <2>1, <2>2 DEF ReturnInv
<1>6. CASE \/ LoaderStep \/ DeferredClose \/ CallerCancel
           \/ OtherStop \/ OtherClose \/ UNCHANGED allVars
           \/ \E w \in Loader : CallbackBegin(w) \/ CallbackEnd(w)
  <2>1. UNCHANGED <<resClosed, out, tpc, tret, addDone>>
    BY <1>6 DEF LoaderStep, Loading, DeferredClose, CloseInput, CallerCancel,
         Cancel, CallbackBegin, CallbackEnd, Begin, OtherStop, OtherClose, Meddle,
         Stop, vars, itemVars, loopVars, testVars, addVars, allVars
  <2> QED
    BY <1>0, <2>1 DEF ReturnInv
<1> QED
  BY <1>1, <1>2, <1>3, <1>4, <1>5, <1>6 DEF TSNext, TSStep, TSIdle

(* A step that is not one of an orderly caller needs a cancelled loading,  *)
(* or is another goroutine's.                                              *)
LEMMA StepOrderly ==
    ASSUME TestInv, LP!Inv, TSNext \/ UNCHANGED allVars, ~(config /\ ctxDone),
           ~meddled'
    PROVE  OrderlyStep \/ UNCHANGED vars
<1>1. apc = "close" => NoCallInProgress
  BY CallsOver DEF Closing
<1>2. ~((Stop \/ CloseInput) /\ Meddle)
  BY DEF Meddle
<1> QED
  BY <1>1, <1>2, EngineCases DEF OrderlyStep

LEMMA OrderKept ==
    ASSUME TestInv, StreamInv, LP!Inv, TSNext \/ UNCHANGED allVars
    PROVE  OrderInv'
<1>1. config' = config /\ (ctxDone => ctxDone') /\ (meddled => meddled')
  BY HistoryKept
<1>2. CASE (config /\ ctxDone) \/ meddled'
  BY <1>1, <1>2 DEF OrderInv
<1>3. CASE ~(config /\ ctxDone) /\ ~meddled'
  <2>1. HandoverInv
    BY <1>1, <1>3 DEF TestInv, OrderInv
  <2>2. CASE OrderlyStep
    BY <2>1, <2>2, OrderlyKeeps DEF StreamInv, OrderInv
  <2>3. CASE UNCHANGED vars
    BY <2>1, <2>3 DEF vars, OrderInv, HandoverInv, NoCallInProgress
  <2> QED
    BY <1>3, <2>2, <2>3, StepOrderly
<1> QED
  BY <1>2, <1>3

LEMMA InitTestInv == TSInit => TestInv
<1> SUFFICES ASSUME TSInit PROVE TestInv
  OBVIOUS
<1>1. Init /\ L!Init
  BY DEF TSInit
<1>2. TestTypeOK
  BY DEF TSInit, TestTypeOK
<1>3. EngineInv /\ ReturnInv
  BY <1>1 DEF TSInit, Init, EngineInv, ReturnInv
<1>4. CallInv /\ AddInv
  BY <1>1, TestSpeedAssumption
     DEF TSInit, Init, L!Init, CallInv, AddInv, Closing, InCall, Error
<1>5. OrderInv
  BY <1>1, InitInv DEF OrderInv
<1> QED
  BY <1>2, <1>3, <1>4, <1>5 DEF TestInv

-----------------------------------------------------------------------------
(* The theorems *)

LEMMA EngineInvariant == TSSpec => []StreamInv
BY TestSpeedUsesEngine, StreamInvariant, PTL

(* Every reachable state of TestSpeed satisfies the invariant.             *)
THEOREM TestSpeedInvariance == TSSpec => []TestInv
<1>1. TestInv /\ StreamInv /\ LP!Inv /\ [TSNext]_allVars => TestInv'
  BY TypeKept, EngineKept, CallKept, AddKept, ReturnKept, OrderKept DEF TestInv
<1> QED
  BY InitTestInv, <1>1, EngineInvariant, LoaderInvariant, PTL DEF TSSpec

(* TestSpeed is an orderly caller of the engine unless the loading of a    *)
(* ConfigPath is cancelled, or another goroutine stops or closes it.       *)
THEOREM EngineUsedOrderly == TSSpec => UsesStream
<1>1. TestInv /\ LP!Inv /\ [TSNext]_allVars
         => [(config /\ ctxDone) \/ meddled' \/ Engine!Next]_vars
  BY StepOrderly, OrderlyEngine
<1> QED
  BY <1>1, TestSpeedInvariance, LoaderInvariant, PTL DEF TSSpec, UsesStream

(* So a send on the closed proxiesCh needs a cancelled loading, or another *)
(* goroutine's Stop or CloseInput; over options.Proxies alone a cancel     *)
(* never does it.                                                          *)
PanicHasCause == ~Up => (config /\ ctxDone) \/ meddled

(* The process ends in a panic only if a loading was cancelled, or another *)
(* goroutine called Stop or CloseInput meanwhile.                          *)
THEOREM PanicsHaveCauses == TSSpec => []PanicHasCause
<1>1. TestInv => PanicHasCause
  BY DEF TestInv, OrderInv, HandoverInv, Up, PanicHasCause
<1> QED
  BY <1>1, TestSpeedInvariance, PTL

(* TestSpeed returns the context's error only to a caller who cancelled,   *)
(* and a refusal only after that or another's Stop or CloseInput.          *)
THEOREM ErrorsHaveCauses == TSSpec => []ErrorHasCause
<1>1. TestInv => ErrorHasCause
  BY DEF TestInv, TestTypeOK, ReturnInv, AddInv, ErrorHasCause, Error
<1> QED
  BY <1>1, TestSpeedInvariance, PTL

LEMMA OverAtReturn ==
    ASSUME TestInv, StreamInv, LP!Inv, tpc = "returned", ~ctxDone
    PROVE  /\ NoCallInProgress /\ dpc = "end"
           /\ \A w \in Loader : lpc[w] # "fn"
           /\ apc \in {"close", "end"}
           /\ chanClosed \/ streamDone
<1>1. Closing /\ resClosed
  BY DEF TestInv, ReturnInv, AddInv
<1>2. \A w \in Loader : lpc[w] # "fn"
  BY <1>1, FnOver
<1> QED
  BY <1>1, <1>2, CallsOver DEF StreamInv, LoopInv, Closing

(* When TestSpeed returns uncancelled, stopped or not, no call, callback   *)
(* or dispatcher of it is at work any more, and the adding goroutine only  *)
(* has its deferred CloseInput to finish.                                  *)
THEOREM QuietReturn == TSSpec => []QuietAtReturn
<1>1. TestInv /\ StreamInv /\ LP!Inv => QuietAtReturn
  BY OverAtReturn DEF QuietAtReturn
<1> QED
  BY <1>1, TestSpeedInvariance, EngineInvariant, LoaderInvariant, PTL

(* A caller who gets no error, and is neither cancelled nor stopped, gets  *)
(* the result of every node of every source that could be read and of      *)
(* options.Proxies.                                                        *)
THEOREM ResultsComplete == TSSpec => []ResultComplete
<1>1. TestInv /\ StreamInv /\ LP!Inv => ResultComplete
  <2> SUFFICES ASSUME TestInv, StreamInv, LP!Inv, tret = "ok", ~ctxDone,
                      ~streamDone
               PROVE  ResultComplete
    BY DEF ResultComplete
  <2>1. /\ tpc = "returned" /\ addDone = "nil"
        /\ resClosed /\ \A c \in Config : out[c] # "sent"
    BY DEF TestInv, TestTypeOK, ReturnInv, Error
  <2>2. /\ ~addCtxDone /\ NoCallInProgress /\ dpc = "end"
        /\ chanClosed
    BY <2>1, OverAtReturn DEF TestInv, EngineInv, StreamInv, LoopInv
  <2>3. config => mpc = "returned" /\ ret = "nil"
    BY <2>1 DEF TestInv, AddInv, LP!Inv, LP!ReturnInv
  <2>4. config => \A s \in Source : srcState[s] \in {"loaded", "skipped"}
    BY <2>2, <2>3 DEF LP!Inv, LP!ReturnInv
  <2>5. ASSUME NEW c \in Config, Handed(c)
        PROVE  callPc[CallOf[c]] = "ok"
    <3>1. CASE CallOf[c] \in proxies
      BY <2>1, <3>1 DEF TestInv, AddInv
    <3>2. CASE CallOf[c] \notin proxies
      <4>1. PICK s \in Source :
                 /\ srcState[s] = "loaded"
                 /\ \E i \in 1..Len(BatchesOf[s]) : BatchesOf[s][i] = CallOf[c]
        BY <2>5, <3>2 DEF Handed
      <4>2. fnState[CallOf[c]] # "none" /\ CallOf[c] \in Call
        BY <4>1, ConfigAssumption DEF LP!Inv, LP!BatchInv, LP!Passed
      <4>3. \A w \in Loader : lpc[w] # "fn"
        BY <2>1, OverAtReturn
      <4>4. fnState[CallOf[c]] \notin {"running", "err"}
        <5>1. started /\ config
          BY <4>2 DEF TestInv, AddInv
        <5>2. ~callbackErr
          BY <2>3, <5>1 DEF LP!Inv, LP!ReturnInv
        <5> QED
          BY <4>2, <4>3, <5>2 DEF LP!Inv, LP!MutexInv, LP!ErrInv
      <4>5. fnState[CallOf[c]] = "ok"
        BY <4>2, <4>4 DEF LP!Inv, LP!TypeOK
      <4> QED
        BY <4>2, <4>5 DEF TestInv, CallInv
    <3> QED
      BY <3>1, <3>2
  <2>6. ASSUME NEW c \in Config, callPc[CallOf[c]] = "ok"
        PROVE  stage[c] = "gone"
    <3>1. stage[c] \in Stage /\ stage[c] # "new" /\ stage[c] \notin Adding
      BY <2>6 DEF StreamInv, TypeOK, NodeTypeOK, NodeInv, NodeOK
    <3>2. stage[c] \notin {"queued", "held"} \cup Working
      BY <2>2 DEF StreamInv, LoopInv
    <3>3. stage[c] # "lost"
      BY <2>2 DEF StreamInv, VerdictInv, VerdictOK
    <3> QED
      BY <3>1, <3>2, <3>3 DEF Stage
  <2>7. ASSUME NEW c \in Config, stage[c] = "gone", verdict[c] \in {"alive", "dead"}
        PROVE  out[c] = "received"
    <3>1. out[c] # "none" /\ out[c] \in {"none", "sent", "received"}
      BY <2>2, <2>7 DEF StreamInv, VerdictInv, VerdictOK, TypeOK, NodeTypeOK
    <3> QED
      BY <2>1, <3>1
  <2>8. count = totalCount
    <3>1. Announced = Counted
      <4>1. ASSUME NEW c \in Config, callPc[CallOf[c]] \in Announcing
            PROVE  stage[c] = "gone"
        <5>1. callPc[CallOf[c]] = "ok"
          BY <2>2, <4>1, ConfigAssumption
             DEF NoCallInProgress, InCall, Announcing, StreamInv, NodeInv, NodeOK
        <5> QED
          BY <2>6, <5>1
      <4>2. ASSUME NEW c \in Config, stage[c] # "new"
            PROVE  callPc[CallOf[c]] \in Announcing
        BY <4>2 DEF StreamInv, NodeInv, NodeOK
      <4>3. \A c \in Config : stage[c] # "leave"
        BY <2>2 DEF StreamInv, LoopInv, Working
      <4> QED
        BY <4>1, <4>2, <4>3 DEF Announced, Counted, At
    <3> QED
      BY <3>1 DEF StreamInv, CountInv
  <2> QED
    BY <2>4, <2>5, <2>6, <2>7, <2>8 DEF ResultComplete
<1> QED
  BY <1>1, TestSpeedInvariance, EngineInvariant, LoaderInvariant, PTL
=============================================================================
