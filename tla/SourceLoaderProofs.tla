------------------------- MODULE SourceLoaderProofs -------------------------
(***************************************************************************)
(* What holds of SourceLoader for any sources, batches, retries and        *)
(* workers, whichever sources, requests and callbacks fail.                *)
(***************************************************************************)
EXTENDS SourceLoader, TLAPS

-----------------------------------------------------------------------------
(* The inductive invariant *)

Critical(w) == lpc[w] \in {"fn", "cancel", "post"}

(* callbackMu is held from the call of fn to the offer of its error, and   *)
(* fn is called only as long as it has not failed.                         *)
MutexInv ==
    /\ \A w \in Loader : Critical(w) => mutex
    /\ \A v, w \in Loader : Critical(v) /\ Critical(w) => v = w
    /\ \A w \in Loader : lpc[w] = "fn" =>
          ~callbackErr /\ fnState[Head(left[w])] = "running"
    /\ \A w \in Loader : lpc[w] \in {"cancel", "post"} => callbackErr
    /\ \A w \in Loader : lpc[w] \in {"lock", "fn"} => left[w] # <<>>
    /\ \A b \in Batch : fnState[b] = "running" =>
          \E w \in Loader : lpc[w] = "fn" /\ b = Head(left[w])

(* callbackErr stands for the one batch fn failed for; its error is in     *)
(* errCh or about to be.                                                   *)
ErrInv ==
    /\ callbackErr => \E b \in Batch : fnState[b] = "err"
    /\ \A b \in Batch : fnState[b] = "err" => callbackErr
    /\ \A b, c \in Batch : fnState[b] = "err" /\ fnState[c] = "err" => b = c
    /\ errCh = "err" => callbackErr /\ \A w \in Loader : ~Critical(w)
    /\ callbackErr =>
          errCh = "err" \/ \E w \in Loader : lpc[w] \in {"cancel", "post"}

(* Why a context is done, a channel closed or a worker gone.               *)
ExitInv ==
    /\ innerDone /\ mpc # "returned" => parentDone \/ callbackErr
    /\ mpc = "lock" => innerDone
    /\ partsClosed => innerDone \/ \A s \in Source : srcState[s] # "waiting"
    /\ \A w \in Loader : lpc[w] = "exit" => partsClosed \/ callbackErr \/ innerDone
    /\ errClosed => \A w \in Loader : lpc[w] = "exit"

(* A taken source is some worker's, who keeps it unless it gave up.        *)
TakenInv ==
    \A s \in Source : srcState[s] = "taken" =>
        \E w \in Loader : /\ src[w] = s /\ lpc[w] # "range"
                          /\ lpc[w] = "exit" => callbackErr \/ innerDone

(* left is what is left of the source in hand, all before it was passed to *)
(* fn, and so was all of a loaded source.                                  *)
Passed(s, i) == fnState[BatchesOf[s][i]] # "none"

Remainder(w) ==
    LET done == Len(BatchesOf[src[w]]) - Len(left[w]) IN
    /\ done >= 0
    /\ \A j \in 1..Len(left[w]) : left[w][j] = BatchesOf[src[w]][done + j]
    /\ \A i \in 1..done : Passed(src[w], i)

BatchInv ==
    /\ \A w \in Loader : lpc[w] \in {"check", "lock", "fn"} => Remainder(w)
    /\ \A s \in Source : srcState[s] = "loaded" =>
          \A i \in 1..Len(BatchesOf[s]) : Passed(s, i)

(* What the call has returned.                                             *)
ReturnInv ==
    /\ mpc = "returned" <=> ret # "none"
    /\ ret = "err" => callbackErr
    /\ ret = "ctxErr" => parentDone
    /\ ret = "nil" => /\ errClosed /\ ~callbackErr
                      /\ parentDone \/ \A s \in Source :
                                          srcState[s] \in {"loaded", "skipped"}
    /\ FnOverAtReturn

Inv == /\ TypeOK /\ MutexInv /\ ErrInv /\ ExitInv /\ TakenInv /\ BatchInv
       /\ ReturnInv

-----------------------------------------------------------------------------
(* The steps *)

(* Worker steps that move on and at most leave their source.               *)
Moves(w) == \/ RangeEnd(w) \/ RequestFails(w) \/ PauseOver(w) \/ SourceFails(w)
            \/ Check(w) \/ Refused(w) \/ Aborted(w)

LEMMA StepCases ==
    ASSUME Next
    PROVE  \/ \E w \in Loader : \/ Moves(w) \/ ReadOk(w) \/ SourceDone(w)
                                \/ CtxOrSkip(w) \/ EnterFn(w) \/ FnOk(w)
                                \/ FnErr(w) \/ CancelInner(w) \/ Post(w)
                                \/ \E s \in Source : Feed(w, s)
           \/ FeederEnd \/ CloseErrCh \/ SeeDone
           \/ ReturnDone \/ ReturnErr \/ ReturnNil
           \/ Cancel \/ PropagateCancel \/ UNCHANGED vars
BY DEF Next, Internal, Load, Feeder, Main, Moves

(* Every kind of state a worker can be in.                                 *)
Label == {"range", "read", "pause", "check", "lock", "fn", "cancel", "post",
          "failed", "ctx", "exit"}

LEMMA InitType == Init => TypeOK
<1> SUFFICES ASSUME Init
             PROVE  TypeOK
  OBVIOUS
<1>1. {mutex, callbackErr, errClosed, partsClosed, parentDone, innerDone}
        \subseteq BOOLEAN
  BY Zenon DEF Init
<1>2. left \in [Loader -> Seq(Batch)] /\ retries \in [Loader -> 0..RetryTimes]
  BY LoaderAssumption DEF Init
<1> QED
  BY <1>1, <1>2 DEF Init, TypeOK

LEMMA TypeStep == TypeOK /\ MutexInv /\ [Next]_vars => TypeOK'
<1> SUFFICES ASSUME TypeOK, MutexInv, Next \/ UNCHANGED vars
             PROVE  TypeOK'
  OBVIOUS
<1> USE LoaderAssumption DEF TypeOK, Goto, Same, Finish, CallFn, Return,
        sourceVars, workVars, errVars, lockVars, ctxVars, mainVars, vars
<1>1. ASSUME NEW w \in Loader, Moves(w)
      PROVE  TypeOK'
  <2>1. CASE RequestFails(w)
    <3>1. retries' \in [Loader -> 0..RetryTimes]
      <4>1. retries \in [Loader -> 0..RetryTimes] /\ RetryTimes \in Nat
        OBVIOUS
      <4>2. \/ UNCHANGED retries
            \/ /\ retries[w] < RetryTimes
               /\ retries' = [retries EXCEPT ![w] = @ + 1]
        BY <2>1 DEF RequestFails
      <4> HIDE DEF TypeOK
      <4> QED
        BY <4>1, <4>2
    <3>2. lpc' \in [Loader -> Label]
      BY ZenonT(30), <2>1 DEF RequestFails, Label
    <3>3. UNCHANGED <<srcState, src, left, fnState, lockVars, ctxVars,
                      innerDone, mainVars>>
      BY <2>1 DEF RequestFails
    <3>4. \A v \in Loader : lpc'[v] \notin {"range", "exit"} => src'[v] \in Source
      BY <2>1 DEF RequestFails
    <3> QED
      BY <3>1, <3>2, <3>3, <3>4 DEF Label
  <2>2. CASE RangeEnd(w) \/ PauseOver(w) \/ Aborted(w)
    BY <2>2 DEF RangeEnd, PauseOver, Aborted
  <2>3. CASE SourceFails(w) \/ Check(w) \/ Refused(w)
    BY <2>3 DEF SourceFails, Check, Refused
  <2> QED
    BY <1>1, <2>1, <2>2, <2>3 DEF Moves
<1>2. ASSUME NEW w \in Loader,
             ReadOk(w) \/ SourceDone(w) \/ CtxOrSkip(w)
      PROVE  TypeOK'
  <2>1. CASE ReadOk(w)
    <3>1. BatchesOf[src[w]] \in Seq(Batch)
      BY <2>1 DEF ReadOk
    <3> QED
      BY <2>1, <3>1 DEF ReadOk
  <2>2. CASE SourceDone(w)
    BY <2>2 DEF SourceDone
  <2>3. CASE CtxOrSkip(w)
    BY ZenonT(30), <2>3 DEF CtxOrSkip
  <2> QED
    BY <1>2, <2>1, <2>2, <2>3
<1>3. ASSUME NEW w \in Loader, EnterFn(w) \/ FnErr(w)
      PROVE  TypeOK'
  <2>1. CASE EnterFn(w)
    BY <2>1 DEF EnterFn
  <2>2. CASE FnErr(w)
    BY <2>2 DEF FnErr
  <2> QED
    BY <1>3, <2>1, <2>2
<1>4. ASSUME NEW w \in Loader, FnOk(w)
      PROVE  TypeOK'
  <2>1. Tail(left[w]) \in Seq(Batch)
    BY <1>4 DEF FnOk, MutexInv
  <2> QED
    BY <1>4, <2>1 DEF FnOk
<1>5. ASSUME NEW w \in Loader, CancelInner(w) \/ Post(w)
      PROVE  TypeOK'
  BY <1>5 DEF CancelInner, Post
<1>6. ASSUME NEW w \in Loader, NEW s \in Source, Feed(w, s)
      PROVE  TypeOK'
  BY <1>6 DEF Feed
<1>7. CASE FeederEnd \/ CloseErrCh \/ SeeDone
  BY <1>7 DEF FeederEnd, FeedOver, CloseErrCh, SeeDone
<1>8. CASE ReturnDone \/ ReturnErr \/ ReturnNil
  BY <1>8 DEF ReturnDone, ReturnErr, ReturnNil, FirstErr
<1>9. CASE Cancel \/ PropagateCancel \/ UNCHANGED vars
  BY <1>9 DEF Cancel, PropagateCancel
<1> QED
  BY <1>1, <1>2, <1>3, <1>4, <1>5, <1>6, <1>7, <1>8, <1>9, StepCases

-----------------------------------------------------------------------------
(* One lemma per part of the invariant, one step per action *)

(* What a step of Moves does, as far as the invariant is concerned.        *)
LEMMA MovesEffect ==
    ASSUME TypeOK, NEW w \in Loader, Moves(w)
    PROVE  /\ \E l \in {"pause", "failed", "read", "exit", "lock", "ctx"} :
                 /\ lpc' = [lpc EXCEPT ![w] = l]
                 /\ l = "exit" => callbackErr \/ (lpc[w] = "range" /\ partsClosed)
                 /\ l = "lock" => lpc[w] = "check" /\ left[w] # <<>>
                 /\ lpc[w] = "range" => l = "exit"
           /\ lpc[w] \notin {"fn", "cancel", "post", "exit"}
           /\ UNCHANGED <<srcState, src, left, fnState, mutex, callbackErr, errCh,
                          errClosed, partsClosed, parentDone, innerDone, mpc, ret>>
<1> USE DEF Goto, Same, sourceVars, errVars, lockVars, ctxVars, mainVars
<1>1. CASE RangeEnd(w) \/ RequestFails(w) \/ PauseOver(w)
  BY <1>1 DEF RangeEnd, RequestFails, PauseOver
<1>2. CASE SourceFails(w) \/ Check(w) \/ Refused(w) \/ Aborted(w)
  BY <1>2 DEF SourceFails, Check, Refused, Aborted, TypeOK
<1> QED
  BY <1>1, <1>2 DEF Moves

(* The functions of the state, without the rest of TypeOK.                 *)
Functional == /\ lpc \in [Loader -> Label]
              /\ srcState \in [Source -> {"waiting", "taken", "loaded", "skipped"}]
              /\ src \in [Loader -> Source \cup {"none"}]
              /\ left \in [Loader -> Seq(Batch)]
              /\ fnState \in [Batch -> {"none", "running", "ok", "err"}]

LEMMA TypeFunctional == TypeOK => Functional
BY DEF TypeOK, Functional, Label

LEMMA InitInv == Init => Inv
<1> SUFFICES ASSUME Init
             PROVE  Inv
  OBVIOUS
<1>1. MutexInv /\ ErrInv
  BY DEF Init, MutexInv, ErrInv, Critical
<1>2. ExitInv /\ TakenInv
  BY LoaderAssumption DEF Init, ExitInv, TakenInv
<1>3. BatchInv
  BY DEF Init, BatchInv
<1>4. ReturnInv
  BY DEF Init, ReturnInv, FnOverAtReturn
<1> QED
  BY InitType, <1>1, <1>2, <1>3, <1>4 DEF Inv

LEMMA MutexStep == TypeOK /\ MutexInv /\ ErrInv /\ ExitInv /\ [Next]_vars => MutexInv'
<1> SUFFICES ASSUME TypeOK, MutexInv, ErrInv, ExitInv, Next \/ UNCHANGED vars
             PROVE  MutexInv'
  OBVIOUS
<1>0. Functional
  BY TypeFunctional
<1> USE DEF MutexInv, Critical, Goto, Same, Finish, CallFn, Return,
        sourceVars, workVars, errVars, lockVars, ctxVars, mainVars, vars
<1>1. ASSUME NEW w \in Loader, Moves(w)
      PROVE  MutexInv'
  <2>1. PICK l \in {"pause", "failed", "read", "exit", "lock", "ctx"} :
             /\ lpc' = [lpc EXCEPT ![w] = l]
             /\ l = "exit" => callbackErr \/ (lpc[w] = "range" /\ partsClosed)
             /\ l = "lock" => lpc[w] = "check" /\ left[w] # <<>>
    BY <1>1, MovesEffect
  <2>2. /\ lpc[w] \notin {"fn", "cancel", "post", "exit"}
        /\ UNCHANGED <<srcState, src, left, fnState, mutex, callbackErr, errCh,
                       errClosed, partsClosed, parentDone, innerDone, mpc, ret>>
    BY <1>1, MovesEffect
  <2> QED
    BY <1>0, <2>1, <2>2 DEF Functional
<1>2. ASSUME NEW w \in Loader,
             ReadOk(w) \/ SourceDone(w) \/ CtxOrSkip(w)
      PROVE  MutexInv'
  <2>1. CASE ReadOk(w)
    BY <1>0, <2>1 DEF ReadOk, Functional
  <2>2. CASE SourceDone(w)
    BY <1>0, <2>2 DEF SourceDone, Functional
  <2>3. CASE CtxOrSkip(w)
    BY SMTT(30), <1>0, <2>3 DEF CtxOrSkip, Functional
  <2> QED
    BY <1>2, <2>1, <2>2, <2>3
<1>3. ASSUME NEW w \in Loader, EnterFn(w)
      PROVE  MutexInv'
  BY <1>0, <1>3 DEF EnterFn, Functional
<1>4. ASSUME NEW w \in Loader, FnOk(w)
      PROVE  MutexInv'
  BY <1>0, <1>4 DEF FnOk, Functional
<1>5. ASSUME NEW w \in Loader, FnErr(w)
      PROVE  MutexInv'
  BY <1>0, <1>5 DEF FnErr, Functional
<1>6. ASSUME NEW w \in Loader, CancelInner(w) \/ Post(w)
      PROVE  MutexInv'
  BY <1>0, <1>6 DEF CancelInner, Post, Functional
<1>7. ASSUME NEW w \in Loader, NEW s \in Source, Feed(w, s)
      PROVE  MutexInv'
  BY <1>0, <1>7 DEF Feed, Functional
<1>8. CASE \/ FeederEnd \/ CloseErrCh \/ SeeDone \/ ReturnDone \/ ReturnErr
           \/ ReturnNil \/ Cancel \/ PropagateCancel \/ UNCHANGED vars
  BY <1>8 DEF FeederEnd, FeedOver, CloseErrCh, SeeDone, ReturnDone, ReturnErr,
       ReturnNil, Cancel, PropagateCancel
<1> QED
  BY <1>1, <1>2, <1>3, <1>4, <1>5, <1>6, <1>7, <1>8, StepCases

LEMMA ErrStep == TypeOK /\ MutexInv /\ ErrInv /\ [Next]_vars => ErrInv'
<1> SUFFICES ASSUME TypeOK, MutexInv, ErrInv, Next \/ UNCHANGED vars
             PROVE  ErrInv'
  OBVIOUS
<1>0. Functional
  BY TypeFunctional
<1> USE DEF ErrInv, Critical, Goto, Same, Finish, CallFn, Return,
        sourceVars, workVars, errVars, lockVars, ctxVars, mainVars, vars
<1>1. ASSUME NEW w \in Loader, Moves(w)
      PROVE  ErrInv'
  <2>1. PICK l \in {"pause", "failed", "read", "exit", "lock", "ctx"} :
             /\ lpc' = [lpc EXCEPT ![w] = l]
             /\ l = "exit" => callbackErr \/ (lpc[w] = "range" /\ partsClosed)
             /\ l = "lock" => lpc[w] = "check" /\ left[w] # <<>>
    BY <1>1, MovesEffect
  <2>2. /\ lpc[w] \notin {"fn", "cancel", "post", "exit"}
        /\ UNCHANGED <<srcState, src, left, fnState, mutex, callbackErr, errCh,
                       errClosed, partsClosed, parentDone, innerDone, mpc, ret>>
    BY <1>1, MovesEffect
  <2> QED
    BY <1>0, <2>1, <2>2 DEF Functional
<1>2. ASSUME NEW w \in Loader,
             ReadOk(w) \/ SourceDone(w) \/ CtxOrSkip(w)
      PROVE  ErrInv'
  BY <1>0, <1>2 DEF ReadOk, SourceDone, CtxOrSkip, Functional
<1>3. ASSUME NEW w \in Loader, EnterFn(w)
      PROVE  ErrInv'
  BY <1>0, <1>3 DEF EnterFn, Functional, MutexInv
<1>4. ASSUME NEW w \in Loader, FnOk(w)
      PROVE  ErrInv'
  BY <1>0, <1>4 DEF FnOk, Functional, MutexInv
<1>5. ASSUME NEW w \in Loader, FnErr(w)
      PROVE  ErrInv'
  BY <1>0, <1>5 DEF FnErr, Functional, MutexInv
<1>6. ASSUME NEW w \in Loader, CancelInner(w)
      PROVE  ErrInv'
  BY <1>0, <1>6 DEF CancelInner, Functional, MutexInv
<1>7. ASSUME NEW w \in Loader, Post(w)
      PROVE  ErrInv'
  BY <1>0, <1>7 DEF Post, Functional, MutexInv
<1>8. ASSUME NEW w \in Loader, NEW s \in Source, Feed(w, s)
      PROVE  ErrInv'
  BY <1>0, <1>8 DEF Feed, Functional
<1>9. CASE \/ FeederEnd \/ CloseErrCh \/ SeeDone \/ ReturnDone \/ ReturnErr
           \/ ReturnNil \/ Cancel \/ PropagateCancel \/ UNCHANGED vars
  BY <1>9 DEF FeederEnd, FeedOver, CloseErrCh, SeeDone, ReturnDone, ReturnErr,
       ReturnNil, Cancel, PropagateCancel
<1> QED
  BY <1>1, <1>2, <1>3, <1>4, <1>5, <1>6, <1>7, <1>8, <1>9, StepCases

LEMMA ExitStep == TypeOK /\ MutexInv /\ ExitInv /\ [Next]_vars => ExitInv'
<1> SUFFICES ASSUME TypeOK, MutexInv, ExitInv, Next \/ UNCHANGED vars
             PROVE  ExitInv'
  OBVIOUS
<1>0. Functional
  BY TypeFunctional
<1> USE LoaderAssumption DEF ExitInv, Goto, Same, Finish, CallFn, Return,
        sourceVars, workVars, errVars, lockVars, ctxVars, mainVars, vars
<1>1. ASSUME NEW w \in Loader, Moves(w)
      PROVE  ExitInv'
  <2>1. PICK l \in {"pause", "failed", "read", "exit", "lock", "ctx"} :
             /\ lpc' = [lpc EXCEPT ![w] = l]
             /\ l = "exit" => callbackErr \/ (lpc[w] = "range" /\ partsClosed)
             /\ l = "lock" => lpc[w] = "check" /\ left[w] # <<>>
    BY <1>1, MovesEffect
  <2>2. /\ lpc[w] \notin {"fn", "cancel", "post", "exit"}
        /\ UNCHANGED <<srcState, src, left, fnState, mutex, callbackErr, errCh,
                       errClosed, partsClosed, parentDone, innerDone, mpc, ret>>
    BY <1>1, MovesEffect
  <2> QED
    BY <1>0, <2>1, <2>2 DEF Functional
<1>2. ASSUME NEW w \in Loader,
             ReadOk(w) \/ SourceDone(w) \/ CtxOrSkip(w)
      PROVE  ExitInv'
  BY <1>0, <1>2 DEF ReadOk, SourceDone, CtxOrSkip, Functional
<1>3. ASSUME NEW w \in Loader, EnterFn(w) \/ FnOk(w) \/ FnErr(w)
      PROVE  ExitInv'
  BY <1>0, <1>3 DEF EnterFn, FnOk, FnErr, Functional
<1>4. ASSUME NEW w \in Loader, CancelInner(w) \/ Post(w)
      PROVE  ExitInv'
  BY <1>0, <1>4 DEF CancelInner, Post, Functional, MutexInv
<1>5. ASSUME NEW w \in Loader, NEW s \in Source, Feed(w, s)
      PROVE  ExitInv'
  BY <1>0, <1>5 DEF Feed, Functional
<1>6. CASE FeederEnd \/ CloseErrCh \/ SeeDone
  BY <1>6 DEF FeederEnd, FeedOver, CloseErrCh, SeeDone
<1>7. CASE ReturnDone \/ ReturnErr \/ ReturnNil
  BY <1>7 DEF ReturnDone, ReturnErr, ReturnNil
<1>8. CASE Cancel \/ PropagateCancel \/ UNCHANGED vars
  BY <1>8 DEF Cancel, PropagateCancel
<1> QED
  BY <1>1, <1>2, <1>3, <1>4, <1>5, <1>6, <1>7, <1>8, StepCases

LEMMA TakenStep ==
    TypeOK /\ MutexInv /\ ErrInv /\ TakenInv /\ [Next]_vars => TakenInv'
<1> SUFFICES ASSUME TypeOK, MutexInv, ErrInv, TakenInv, Next \/ UNCHANGED vars
             PROVE  TakenInv'
  OBVIOUS
<1>0. Functional
  BY TypeFunctional
<1> USE DEF TakenInv, Goto, Same, Finish, CallFn, Return,
        sourceVars, workVars, errVars, lockVars, ctxVars, mainVars, vars
<1>1. ASSUME NEW w \in Loader, Moves(w)
      PROVE  TakenInv'
  <2>1. PICK l \in {"pause", "failed", "read", "exit", "lock", "ctx"} :
             /\ lpc' = [lpc EXCEPT ![w] = l]
             /\ l = "exit" => callbackErr \/ (lpc[w] = "range" /\ partsClosed)
    BY <1>1, MovesEffect
  <2>2. /\ lpc[w] \notin {"fn", "cancel", "post", "exit"}
        /\ UNCHANGED <<srcState, src, callbackErr, innerDone>>
    BY <1>1, MovesEffect
  <2> SUFFICES ASSUME NEW s \in Source, srcState'[s] = "taken"
               PROVE  \E v \in Loader : /\ src'[v] = s /\ lpc'[v] # "range"
                                        /\ lpc'[v] = "exit" => callbackErr' \/ innerDone'
    OBVIOUS
  <2>3. PICK v \in Loader : /\ src[v] = s /\ lpc[v] # "range"
                            /\ lpc[v] = "exit" => callbackErr \/ innerDone
    BY <2>2
  <2>4. lpc'[v] = IF v = w THEN l ELSE lpc[v]
    BY <1>0, <2>1 DEF Functional
  <2> QED
    BY <2>1, <2>2, <2>3, <2>4
<1>2. ASSUME NEW w \in Loader, ReadOk(w)
      PROVE  TakenInv'
  BY <1>0, <1>2 DEF ReadOk, Functional
<1>3. ASSUME NEW w \in Loader, NEW as \in {"loaded", "skipped"},
             Finish(w, as), lpc[w] \in {"check", "ctx"}
      PROVE  TakenInv'
  <2> SUFFICES ASSUME NEW s \in Source, srcState'[s] = "taken"
               PROVE  \E v \in Loader : /\ src'[v] = s /\ lpc'[v] # "range"
                                        /\ lpc'[v] = "exit" => callbackErr' \/ innerDone'
    OBVIOUS
  <2>1. s # src[w] /\ srcState[s] = "taken"
    BY <1>0, <1>3 DEF Functional
  <2>2. PICK v \in Loader : /\ src[v] = s /\ lpc[v] # "range"
                            /\ lpc[v] = "exit" => callbackErr \/ innerDone
    BY <2>1
  <2>3. src'[v] = src[v] /\ lpc'[v] = lpc[v]
    BY <1>0, <1>3, <2>1, <2>2 DEF Functional
  <2> QED
    BY <1>3, <2>2, <2>3
<1>4. ASSUME NEW w \in Loader, SourceDone(w) \/ CtxOrSkip(w)
      PROVE  TakenInv'
  <2>1. CASE lpc[w] = "ctx" /\ innerDone /\ Goto(w, "exit") /\ Same
    BY <1>0, <2>1 DEF Functional
  <2>2. CASE lpc[w] \in {"check", "ctx"} /\ \E as \in {"loaded", "skipped"} : Finish(w, as)
    BY <2>2, <1>3
  <2> QED
    BY <1>4, <2>1, <2>2 DEF SourceDone, CtxOrSkip
<1>5. ASSUME NEW w \in Loader, EnterFn(w) \/ FnOk(w) \/ FnErr(w)
      PROVE  TakenInv'
  BY <1>0, <1>5 DEF EnterFn, FnOk, FnErr, Functional
<1>6. ASSUME NEW w \in Loader, CancelInner(w) \/ Post(w)
      PROVE  TakenInv'
  BY <1>0, <1>6 DEF CancelInner, Post, Functional
<1>7. ASSUME NEW w \in Loader, NEW s \in Source, Feed(w, s)
      PROVE  TakenInv'
  BY <1>0, <1>7 DEF Feed, Functional
<1>8. CASE \/ FeederEnd \/ CloseErrCh \/ SeeDone \/ ReturnDone \/ ReturnErr
           \/ ReturnNil \/ Cancel \/ PropagateCancel \/ UNCHANGED vars
  BY <1>8 DEF FeederEnd, FeedOver, CloseErrCh, SeeDone, ReturnDone, ReturnErr,
       ReturnNil, Cancel, PropagateCancel
<1> QED
  BY <1>1, <1>2, <1>4, <1>5, <1>6, <1>7, <1>8, StepCases

(* As long as a worker keeps its source and what is left of it, and no     *)
(* batch is forgotten, its remainder is one.                               *)
LEMMA RemainderKept ==
    ASSUME TypeOK, NEW w \in Loader, Remainder(w), src[w] \in Source,
           src'[w] = src[w], left'[w] = left[w],
           \A b \in Batch : fnState[b] # "none" => fnState'[b] # "none"
    PROVE  Remainder(w)'
<1>1. BatchesOf[src[w]] \in Seq(Batch) /\ left[w] \in Seq(Batch)
  BY LoaderAssumption DEF TypeOK
<1> DEFINE B    == BatchesOf[src[w]]
           done == Len(B) - Len(left[w])
<1>2. /\ done >= 0
      /\ \A j \in 1..Len(left[w]) : left[w][j] = B[done + j]
      /\ \A i \in 1..done : fnState[B[i]] # "none"
  BY DEF Remainder, Passed
<1>3. \A i \in 1..done : B[i] \in Batch
  BY <1>1, <1>2
<1>4. \A i \in 1..done : fnState'[B[i]] # "none"
  BY <1>2, <1>3
<1> QED
  BY <1>2, <1>4 DEF Remainder, Passed

LEMMA LoadedKept ==
    ASSUME TypeOK, NEW s \in Source,
           \A i \in 1..Len(BatchesOf[s]) : Passed(s, i),
           \A b \in Batch : fnState[b] # "none" => fnState'[b] # "none"
    PROVE  \A i \in 1..Len(BatchesOf[s]) : Passed(s, i)'
<1>1. BatchesOf[s] \in Seq(Batch)
  BY LoaderAssumption
<1> QED
  BY <1>1 DEF Passed

Held(v) == lpc[v] \in {"check", "lock", "fn"}

(* A step that forgets no batch, takes nothing from the workers but w, and *)
(* loads no source, leaves w to be looked at.                              *)
LEMMA BatchByWorker ==
    ASSUME TypeOK, BatchInv, NEW w \in Loader,
           \A b \in Batch : fnState[b] # "none" => fnState'[b] # "none",
           \A v \in Loader \ {w} : /\ lpc'[v] = lpc[v] /\ src'[v] = src[v]
                                   /\ left'[v] = left[v],
           Held(w)' => Remainder(w)',
           \A s \in Source : srcState'[s] = "loaded" =>
               srcState[s] = "loaded" \/ \A i \in 1..Len(BatchesOf[s]) : Passed(s, i)
    PROVE  BatchInv'
<1>1. ASSUME NEW v \in Loader, Held(v)'
      PROVE  Remainder(v)'
  <2>1. CASE v = w
    BY <1>1, <2>1
  <2>2. CASE v # w
    <3>1. Held(v) /\ Remainder(v) /\ src'[v] = src[v] /\ left'[v] = left[v]
      BY <1>1, <2>2 DEF BatchInv, Held
    <3>2. src[v] \in Source
      BY <3>1 DEF TypeOK, Held
    <3> QED
      BY <3>1, <3>2, RemainderKept
  <2> QED
    BY <2>1, <2>2
<1>2. ASSUME NEW s \in Source, srcState'[s] = "loaded"
      PROVE  \A i \in 1..Len(BatchesOf[s]) : Passed(s, i)'
  <2>1. \A i \in 1..Len(BatchesOf[s]) : Passed(s, i)
    BY <1>2 DEF BatchInv
  <2> QED
    BY <2>1, LoadedKept
<1> QED
  BY <1>1, <1>2 DEF BatchInv, Held

LEMMA BatchStep ==
    TypeOK /\ MutexInv /\ BatchInv /\ [Next]_vars => BatchInv'
<1> SUFFICES ASSUME TypeOK, MutexInv, BatchInv, Next \/ UNCHANGED vars
             PROVE  BatchInv'
  OBVIOUS
<1>0. Functional
  BY TypeFunctional
<1> USE DEF Goto, Same, Finish, CallFn, Return, sourceVars, workVars, errVars,
            lockVars, ctxVars, mainVars, vars
<1>1. ASSUME NEW w \in Loader, Moves(w)
      PROVE  BatchInv'
  <2>1. PICK l \in {"pause", "failed", "read", "exit", "lock", "ctx"} :
             /\ lpc' = [lpc EXCEPT ![w] = l]
             /\ l = "lock" => lpc[w] = "check"
    BY <1>1, MovesEffect
  <2>2. UNCHANGED <<srcState, src, left, fnState>>
    BY <1>1, MovesEffect
  <2>3. \A v \in Loader \ {w} : lpc'[v] = lpc[v]
    BY <1>0, <2>1 DEF Functional
  <2>4. ASSUME Held(w)'
        PROVE  Remainder(w)'
    <3>1. Remainder(w)
      BY <1>0, <2>1, <2>4 DEF Functional, BatchInv, Held
    <3> QED
      BY <2>2, <3>1 DEF Remainder, Passed
  <2> QED
    BY <2>2, <2>3, <2>4, BatchByWorker
<1>2. ASSUME NEW w \in Loader, ReadOk(w)
      PROVE  BatchInv'
  <2>1. BatchesOf[src[w]] \in Seq(Batch)
    BY <1>2, LoaderAssumption DEF ReadOk, TypeOK
  <2>2. src'[w] = src[w] /\ left'[w] = BatchesOf[src[w]]
    BY <1>0, <1>2 DEF ReadOk, Functional
  <2>3. Remainder(w)'
    BY <2>1, <2>2 DEF Remainder
  <2>4. /\ UNCHANGED <<srcState, src, fnState>>
        /\ \A v \in Loader \ {w} : lpc'[v] = lpc[v] /\ left'[v] = left[v]
    BY <1>0, <1>2 DEF ReadOk, Functional
  <2> QED
    BY <2>3, <2>4, BatchByWorker
<1>3. ASSUME NEW w \in Loader, SourceDone(w)
      PROVE  BatchInv'
  <2>1. src[w] \in Source /\ Remainder(w) /\ left[w] = <<>>
    BY <1>3 DEF SourceDone, TypeOK, BatchInv
  <2>2. \A i \in 1..Len(BatchesOf[src[w]]) : Passed(src[w], i)
    BY <2>1, LoaderAssumption DEF Remainder
  <2>3. /\ UNCHANGED <<left, fnState>> /\ ~Held(w)'
        /\ \A v \in Loader \ {w} : lpc'[v] = lpc[v] /\ src'[v] = src[v]
        /\ \A s \in Source \ {src[w]} : srcState'[s] = srcState[s]
    BY <1>0, <1>3 DEF SourceDone, Functional, Held
  <2> QED
    BY <2>2, <2>3, BatchByWorker
<1>4. ASSUME NEW w \in Loader, CtxOrSkip(w)
      PROVE  BatchInv'
  <2>1. /\ UNCHANGED <<left, fnState>> /\ ~Held(w)'
        /\ \A v \in Loader \ {w} : lpc'[v] = lpc[v] /\ src'[v] = src[v]
        /\ \A s \in Source : srcState'[s] = "loaded" => srcState[s] = "loaded"
    BY <1>0, <1>4 DEF CtxOrSkip, Functional, Held
  <2> QED
    BY <2>1, BatchByWorker
<1>5. ASSUME NEW w \in Loader, EnterFn(w) \/ FnErr(w)
      PROVE  BatchInv'
  <2>1. /\ UNCHANGED <<srcState, src, left>> /\ Held(w)
        /\ \A v \in Loader \ {w} : lpc'[v] = lpc[v]
        /\ \A b \in Batch : fnState[b] # "none" => fnState'[b] # "none"
    BY <1>0, <1>5 DEF EnterFn, FnErr, Functional, Held
  <2>2. src[w] \in Source /\ Remainder(w)
    BY <2>1 DEF TypeOK, BatchInv, Held
  <2>3. Remainder(w)'
    BY <2>1, <2>2, RemainderKept
  <2> QED
    BY <2>1, <2>3, BatchByWorker
<1>6. ASSUME NEW w \in Loader, FnOk(w)
      PROVE  BatchInv'
  <2> DEFINE B    == BatchesOf[src[w]]
             done == Len(B) - Len(left[w])
  <2>1. src[w] \in Source /\ Remainder(w) /\ left[w] # <<>>
    BY <1>6 DEF FnOk, TypeOK, BatchInv, MutexInv
  <2>2. B \in Seq(Batch) /\ left[w] \in Seq(Batch)
    BY <1>0, <2>1, LoaderAssumption DEF Functional
  <2>3. /\ UNCHANGED <<srcState, src>> /\ left'[w] = Tail(left[w])
        /\ \A v \in Loader \ {w} : lpc'[v] = lpc[v] /\ left'[v] = left[v]
        /\ fnState' = [fnState EXCEPT ![Head(left[w])] = "ok"]
    BY <1>0, <1>6 DEF FnOk, Functional
  <2>4. \A b \in Batch : fnState[b] # "none" => fnState'[b] # "none"
    BY <1>0, <2>3 DEF Functional
  <2>5. /\ done >= 0
        /\ \A j \in 1..Len(left[w]) : left[w][j] = B[done + j]
        /\ \A i \in 1..done : fnState[B[i]] # "none"
    BY <2>1 DEF Remainder, Passed
  <2>6. /\ Len(left'[w]) = Len(left[w]) - 1 /\ Len(left[w]) > 0
        /\ Len(left[w]) \in Nat /\ Len(B) \in Nat
        /\ done \in Nat /\ done <= Len(B)
        /\ Len(B) - Len(left'[w]) = done + 1
    <3>1. Len(left'[w]) = Len(left[w]) - 1 /\ Len(left[w]) > 0
      BY <2>1, <2>2, <2>3
    <3>2. Len(left[w]) \in Nat /\ Len(B) \in Nat
      BY <2>2
    <3>3. done >= 0
      BY <2>5
    <3> HIDE DEF B
    <3> QED
      BY <3>1, <3>2, <3>3
  <2> HIDE DEF done
  <2>7. ASSUME NEW j \in 1..Len(left'[w])
        PROVE  left'[w][j] = B[(done + 1) + j]
    <3>1. left'[w][j] = left[w][j + 1]
      BY <2>1, <2>2, <2>3
    <3>2. j + 1 \in 1..Len(left[w]) /\ done + (j + 1) = (done + 1) + j
      BY <2>6
    <3>3. left[w][j + 1] = B[done + (j + 1)]
      BY <2>5, <3>2
    <3> QED
      BY <3>1, <3>2, <3>3
  <2>8. B[done + 1] = Head(left[w]) /\ Head(left[w]) \in Batch
    <3>1. 1 \in 1..Len(left[w])
      BY <2>6
    <3>2. left[w][1] = B[done + 1]
      BY <2>5, <3>1
    <3> QED
      BY <2>1, <2>2, <3>2
  <2>9. ASSUME NEW i \in 1..(done + 1)
        PROVE  fnState'[B[i]] # "none"
    <3>1. fnState'[B[done + 1]] # "none"
      BY <1>0, <2>3, <2>8 DEF Functional
    <3>2. CASE i \in 1..done
      <4>1. B[i] \in Batch /\ fnState[B[i]] # "none"
        BY <2>2, <2>5, <2>6, <3>2
      <4> QED
        BY <2>4, <4>1
    <3>3. i \in 1..done \/ i = done + 1
      BY <2>6
    <3> QED
      BY <3>1, <3>2, <3>3
  <2>10. Remainder(w)'
    <3>1. src'[w] = src[w]
      BY <2>3
    <3>2. /\ done + 1 >= 0
          /\ \A j \in 1..Len(left'[w]) : left'[w][j] = B[(done + 1) + j]
          /\ \A i \in 1..(done + 1) : fnState'[B[i]] # "none"
      BY <2>6, <2>7, <2>9
    <3> QED
      BY <2>6, <3>1, <3>2 DEF Remainder, Passed
  <2> QED
    BY <2>3, <2>4, <2>10, BatchByWorker
<1>7. ASSUME NEW w \in Loader, CancelInner(w) \/ Post(w)
      PROVE  BatchInv'
  <2>1. /\ UNCHANGED <<srcState, src, left, fnState>> /\ ~Held(w)'
        /\ \A v \in Loader \ {w} : lpc'[v] = lpc[v]
    BY <1>0, <1>7 DEF CancelInner, Post, Functional, Held
  <2> QED
    BY <2>1, BatchByWorker
<1>8. ASSUME NEW w \in Loader, NEW s \in Source, Feed(w, s)
      PROVE  BatchInv'
  <2>1. /\ UNCHANGED <<left, fnState>> /\ ~Held(w)'
        /\ \A v \in Loader \ {w} : lpc'[v] = lpc[v] /\ src'[v] = src[v]
        /\ \A r \in Source : srcState'[r] = "loaded" => srcState[r] = "loaded"
    BY <1>0, <1>8 DEF Feed, Functional, Held
  <2> QED
    BY <2>1, BatchByWorker
<1>9. CASE \/ FeederEnd \/ CloseErrCh \/ SeeDone \/ ReturnDone \/ ReturnErr
           \/ ReturnNil \/ Cancel \/ PropagateCancel \/ UNCHANGED vars
  <2>1. UNCHANGED <<srcState, src, left, fnState, lpc>>
    BY <1>9 DEF FeederEnd, FeedOver, CloseErrCh, SeeDone, ReturnDone,
         ReturnErr, ReturnNil, Cancel, PropagateCancel
  <2> QED
    BY <2>1 DEF BatchInv, Remainder, Passed
<1> QED
  BY <1>1, <1>2, <1>3, <1>4, <1>5, <1>6, <1>7, <1>8, <1>9, StepCases

LEMMA ReturnStep == Inv /\ [Next]_vars => ReturnInv'
<1> SUFFICES ASSUME Inv, Next \/ UNCHANGED vars
             PROVE  ReturnInv'
  OBVIOUS
<1>0. /\ TypeOK /\ Functional /\ ReturnInv
      /\ ret \in {"none", "nil", "err", "ctxErr"}
  BY TypeFunctional DEF Inv, TypeOK
<1> USE DEF ReturnInv, FnOverAtReturn, Goto, Same, Finish, CallFn, Return,
        sourceVars, workVars, errVars, lockVars, ctxVars, mainVars, vars
<1>1. ASSUME NEW w \in Loader, Moves(w)
      PROVE  ReturnInv'
  <2>1. PICK l \in {"pause", "failed", "read", "exit", "lock", "ctx"} :
             lpc' = [lpc EXCEPT ![w] = l]
    BY <1>0, <1>1, MovesEffect
  <2>2. UNCHANGED <<srcState, callbackErr, errClosed, parentDone, mpc, ret>>
    BY <1>0, <1>1, MovesEffect
  <2> QED
    BY <1>0, <2>1, <2>2 DEF Functional
(* After a return of nil every worker has ended.                           *)
<1>2. ASSUME ret = "nil"
      PROVE  \A w \in Loader : lpc[w] = "exit"
  BY <1>0, <1>2 DEF Inv, ExitInv
<1>3. ASSUME NEW w \in Loader, ReadOk(w) \/ SourceDone(w) \/ CtxOrSkip(w)
      PROVE  ReturnInv'
  <2>1. ret # "nil"
    BY <1>2, <1>3 DEF ReadOk, SourceDone, CtxOrSkip
  <2> QED
    BY <1>0, <1>3, <2>1 DEF ReadOk, SourceDone, CtxOrSkip, Functional
<1>4. ASSUME NEW w \in Loader, EnterFn(w)
      PROVE  ReturnInv'
  <2>1. ret \notin {"nil", "err"}
    BY <1>0, <1>2, <1>4 DEF EnterFn
  <2> QED
    BY <1>0, <1>4, <2>1 DEF EnterFn, Functional
<1>5. ASSUME NEW w \in Loader, FnOk(w) \/ FnErr(w)
      PROVE  ReturnInv'
  <2>1. ret # "nil"
    BY <1>2, <1>5 DEF FnOk, FnErr
  <2> QED
    BY <1>0, <1>5, <2>1 DEF FnOk, FnErr, Functional
<1>6. ASSUME NEW w \in Loader, CancelInner(w) \/ Post(w)
      PROVE  ReturnInv'
  <2>1. ret # "nil"
    BY <1>2, <1>6 DEF CancelInner, Post
  <2> QED
    BY <1>0, <1>6, <2>1 DEF CancelInner, Post, Functional
<1>7. ASSUME NEW w \in Loader, NEW s \in Source, Feed(w, s)
      PROVE  ReturnInv'
  <2>1. ret # "nil"
    BY <1>2, <1>7 DEF Feed
  <2> QED
    BY <1>0, <1>7, <2>1 DEF Feed, Functional
<1>8. CASE ReturnDone
  <2>1. ~callbackErr => parentDone
    BY <1>8 DEF ReturnDone, Inv, ExitInv
  <2>2. \A w \in Loader : ~Critical(w)
    BY <1>8 DEF ReturnDone, Inv, MutexInv
  <2> QED
    BY <1>0, <1>8, <2>1, <2>2 DEF ReturnDone, FirstErr, Critical
<1>9. CASE ReturnErr
  <2>1. callbackErr /\ \A w \in Loader : ~Critical(w)
    BY <1>9 DEF ReturnErr, Inv, ErrInv
  <2> QED
    BY <1>0, <1>9, <2>1 DEF ReturnErr, Critical
<1>10. CASE ReturnNil
  <2>1. \A w \in Loader : lpc[w] = "exit"
    BY <1>10 DEF ReturnNil, Inv, ExitInv
  <2>2. ~callbackErr
    BY <1>10, <2>1 DEF ReturnNil, Inv, ErrInv
  <2>3. innerDone => parentDone
    BY <1>10, <2>2 DEF ReturnNil, Inv, ExitInv
  <2>4. ~innerDone => \A s \in Source : srcState[s] \in {"loaded", "skipped"}
    <3> SUFFICES ASSUME ~innerDone, NEW s \in Source
                 PROVE  srcState[s] \in {"loaded", "skipped"}
      OBVIOUS
    <3>1. srcState[s] # "taken"
      BY <2>1, <2>2 DEF Inv, TakenInv
    <3>2. PICK w \in Loader : TRUE
      BY LoaderAssumption
    <3>3. partsClosed
      BY <2>1, <2>2, <3>2 DEF Inv, ExitInv
    <3>4. srcState[s] # "waiting"
      BY <3>3 DEF Inv, ExitInv
    <3> QED
      BY <1>0, <3>1, <3>4 DEF Functional
  <2>5. UNCHANGED <<lpc, srcState, errClosed, callbackErr, parentDone>>
        /\ mpc' = "returned" /\ ret' = "nil" /\ errClosed
    BY <1>10 DEF ReturnNil
  <2> QED
    BY <2>1, <2>2, <2>3, <2>4, <2>5
<1>11. CASE FeederEnd \/ CloseErrCh \/ SeeDone
  BY <1>0, <1>11 DEF FeederEnd, FeedOver, CloseErrCh, SeeDone
<1>12. CASE Cancel \/ PropagateCancel \/ UNCHANGED vars
  BY <1>0, <1>12 DEF Cancel, PropagateCancel
<1> QED
  BY <1>1, <1>3, <1>4, <1>5, <1>6, <1>7, <1>8, <1>9, <1>10, <1>11, <1>12,
     StepCases

-----------------------------------------------------------------------------
(* The theorems *)

(* Every reachable state of the loader satisfies the invariant.            *)
THEOREM Invariance == Spec => []Inv
<1>1. Inv /\ [Next]_vars => Inv'
  BY TypeStep, MutexStep, ErrStep, ExitStep, TakenStep, BatchStep, ReturnStep
     DEF Inv
<1> QED
  BY InitInv, <1>1, PTL DEF Spec

(* Every reachable state of the loader is well typed.                      *)
THEOREM TypeCorrect == Spec => []TypeOK
BY Invariance, PTL DEF Inv

(* callbackMu and callbackErr keep fn from being entered by two workers at *)
(* once, and from being called again after it failed.                      *)
THEOREM FnStaysSerial == Spec => []FnSerial
<1>1. Inv => FnSerial
  BY DEF Inv, MutexInv, ErrInv, Critical, FnSerial
<1> QED
  BY Invariance, <1>1, PTL

(* LoadManyStreamBatched returns nil only if nothing was lost.             *)
THEOREM NilIsComplete == Spec => []NilMeansComplete
<1>1. Inv => NilMeansComplete
  <2> SUFFICES ASSUME Inv, ret = "nil"
               PROVE  NilMeansComplete
    BY DEF NilMeansComplete
  <2>1. ~callbackErr /\ \A w \in Loader : lpc[w] = "exit"
    BY DEF Inv, ReturnInv, ExitInv
  <2>2. \A b \in Batch : fnState[b] \notin {"err", "running"}
    BY <2>1 DEF Inv, ErrInv, MutexInv
  <2>3. ASSUME NEW s \in Source, srcState[s] = "loaded",
               NEW i \in 1..Len(BatchesOf[s])
        PROVE  fnState[BatchesOf[s][i]] = "ok"
    <3>1. BatchesOf[s][i] \in Batch
      BY LoaderAssumption
    <3>2. fnState[BatchesOf[s][i]] # "none"
      BY <2>3 DEF Inv, BatchInv, Passed
    <3> QED
      BY <2>2, <3>1, <3>2 DEF Inv, TypeOK
  <2>4. parentDone \/ \A s \in Source : srcState[s] \in {"loaded", "skipped"}
    BY DEF Inv, ReturnInv
  <2> QED
    BY <2>2, <2>3, <2>4 DEF NilMeansComplete
<1> QED
  BY Invariance, <1>1, PTL

(* The error of a failed fn is what the call reports; the context's error  *)
(* it reports only if the caller's context was cancelled.                  *)
THEOREM ErrorIsReported == Spec => []ErrorReported
<1>1. Inv => ErrorReported
  BY DEF Inv, ErrInv, ReturnInv, ErrorReported
<1> QED
  BY Invariance, <1>1, PTL

(* Unless the caller cancels, no fn runs once the call has returned.       *)
THEOREM FnIsOverAtReturn == Spec => []FnOverAtReturn
<1>1. Inv => FnOverAtReturn
  BY DEF Inv, ReturnInv
<1> QED
  BY Invariance, <1>1, PTL
=============================================================================
