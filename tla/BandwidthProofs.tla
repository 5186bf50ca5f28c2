-------------------------- MODULE BandwidthProofs --------------------------
(***************************************************************************)
(* What holds of Bandwidth for any tests, downloads, sizes and buffer,     *)
(* whatever is cut off: the counts stay in their ranges, a result tells    *)
(* what was received, and the limit is kept up to the second cut-off wait. *)
(***************************************************************************)
EXTENDS Bandwidth, SumLemmas

-----------------------------------------------------------------------------
(* The inductive invariant *)

Pc     == {"idle", "do", "loop", "wait", "read", "tally", "over"}
End    == {"none", "full", "eof", "err", "cut"}
Record == [pc : Pc, left : Nat, n : Nat, act : Nat, got : Nat, end : End]
Run    == [over : BOOLEAN, failed : BOOLEAN, total : Nat,
           result : {"none", "ok", "err"}]

Shape ==
    /\ now \in Nat /\ size \in Nat /\ limited \in BOOLEAN
    /\ limiter \in [tokens : Int, last : Nat]
    /\ dl \in [Downloader -> Record]
    /\ run \in [Test -> Run]

(* What a download has and what it still wants make up its chunk; what it  *)
(* reserved, it still wants.                                               *)
Progress(d) ==
    /\ dl[d].n <= Burst
    /\ dl[d].got <= size
    /\ dl[d].end = "none" <=> dl[d].pc \notin {"tally", "over"}
    /\ dl[d].pc \in {"idle", "do"} => dl[d].got = 0
    /\ dl[d].pc \in {"loop", "wait", "read"} =>
          dl[d].got + dl[d].left = Chunk(TestOf[d])
    /\ dl[d].pc \in {"wait", "read"} => dl[d].n <= dl[d].left
    /\ dl[d].end = "full" => dl[d].got = Chunk(TestOf[d])
    /\ dl[d].pc = "wait" => limited

ProgressInv == \A d \in Downloader : Progress(d)

(* What of a download may have been received by the time T, with a         *)
(* reservation that may be used by then; and all that it reserved.         *)
DueOf(d, T) == dl[d].got + IF \/ dl[d].pc = "read"
                              \/ dl[d].pc = "wait" /\ dl[d].act <= T
                           THEN dl[d].n ELSE 0
ClaimOf(d)  == dl[d].got + IF dl[d].pc \in {"read", "wait"} THEN dl[d].n ELSE 0

DueBy(T) == Sum([d \in Downloader |-> DueOf(d, T)], Downloader)
Claimed  == Sum([d \in Downloader |-> ClaimOf(d)], Downloader)

NoCut == \A d \in Downloader : dl[d].end # "cut"

(* At every time to come no more is due than the limit allows by then.  As *)
(* long as nobody was cut off, the latest reservation is the last to be    *)
(* used, so that a refund is no more than what was reserved.               *)
LimitInv ==
    limited =>
        /\ CutOnce => Claimed + limiter.tokens <= now
        /\ CutOnce => \A T \in Nat : T >= now => DueBy(T) <= T
        /\ NoCut => /\ limiter.last <= now \/ limiter.last <= now - limiter.tokens
                    /\ \A d \in Downloader : dl[d].act <= limiter.last

(* Tokens that are missing at a time to come are those of waits that last  *)
(* longer, or of waits that were cut off and not refunded.                 *)
MissOf(d, T) == IF dl[d].end = "cut" \/ (dl[d].pc = "wait" /\ dl[d].act > T)
                THEN dl[d].n ELSE 0

Missing(T) == Sum([d \in Downloader |-> MissOf(d, T)], Downloader)

TokensInv ==
    /\ limiter.tokens <= Burst
    /\ \A T \in Nat : T >= now => (T - now) + limiter.tokens + Missing(T) >= 0

(* A test has the bytes of the downloads it has tallied.                   *)
Tallied == [d \in Downloader |-> IF dl[d].pc = "over" THEN dl[d].got ELSE 0]

ResultAt(t) ==
    /\ run[t].total = Sum(Tallied, Of(t))
    /\ run[t].result # "none" =>
          /\ \A d \in Of(t) : dl[d].pc = "over"
          /\ run[t].result = "err" <=> run[t].total = 0
    /\ \A d \in Of(t) : dl[d].pc = "over" /\ Failed(d) => run[t].failed

ResultInv == \A t \in Test : ResultAt(t)

Bounds == now <= MaxTime /\ size \in Size

Inv == Shape /\ ProgressInv /\ LimitInv /\ TokensInv /\ ResultInv /\ Bounds

-----------------------------------------------------------------------------
(* The operators *)

(* Min and Max of two numbers.                                             *)
LEMMA MinMax ==
    ASSUME NEW a \in Int, NEW b \in Int
    PROVE  /\ Min({a, b}) = IF a <= b THEN a ELSE b
           /\ Max({a, b}) = IF a <= b THEN b ELSE a
BY DEF Min, Max

(* What a quotient is.                                                     *)
LEMMA Quotient ==
    ASSUME NEW a \in Nat, NEW b \in Nat \ {0}
    PROVE  a \div b \in 0..a /\ (a \div b = 0 => a < b)
OBVIOUS

(* A chunk is no more than the whole size, and empty only if the size is   *)
(* less than the number of downloads.                                      *)
LEMMA ChunkSound ==
    ASSUME Shape, NEW d \in Downloader
    PROVE  /\ Chunk(TestOf[d]) \in 0..size
           /\ Chunk(TestOf[d]) = 0 => size < Cardinality(Of(TestOf[d]))
<1> DEFINE S == Of(TestOf[d])
<1>1. S \in SUBSET Downloader /\ d \in S /\ IsFiniteSet(S)
  BY BandwidthAssumption, FS_Subset DEF Of
<1>2. Cardinality(S) \in Nat /\ Cardinality(S) # 0
  BY <1>1, FS_CardinalityType, FS_EmptySet
<1> HIDE DEF S
<1>3. size \in Nat
  BY DEF Shape
<1> QED BY <1>2, <1>3, Quotient DEF Chunk, S

(* The downloads are finite.                                               *)
LEMMA FiniteDownloads ==
    IsFiniteSet(Downloader) /\ \A t \in Test : IsFiniteSet(Of(t))
BY BandwidthAssumption, FS_Subset DEF Of

(* The steps, one by one.                                                  *)
LEMMA StepCases ==
    ASSUME [Next]_vars
    PROVE  \/ UNCHANGED vars \/ Tick
           \/ \E t \in Test : Start(t) \/ Return(t) \/ CtxOver(t)
           \/ \E d \in Downloader :
                 \/ Response(d) \/ NoResponse(d) \/ CopyFull(d) \/ Reserve(d)
                 \/ WaitOver(d) \/ WaitCancelled(d) \/ Tally(d)
                 \/ \E nr \in 0..Burst, er \in {"none", "eof", "err"} : Read(d, nr, er)
BY DEF Next, Download, Finished

(* What a change of one download changes in the sums.                      *)
LEMMA OneChange ==
    ASSUME Shape, Shape', NEW d \in Downloader,
           \A c \in Downloader \ {d} : dl'[c] = dl[c]
    PROVE  /\ Claimed' = Claimed - ClaimOf(d) + ClaimOf(d)'
           /\ \A T \in Nat : /\ DueBy(T)' = DueBy(T) - DueOf(d, T) + DueOf(d, T)'
                             /\ Missing(T)' = Missing(T) - MissOf(d, T) + MissOf(d, T)'
<1>1. IsFiniteSet(Downloader)
  BY FiniteDownloads
<1> DEFINE f == [c \in Downloader |-> ClaimOf(c)]
           g == [c \in Downloader |-> ClaimOf(c)']
<1>2. Ints(f, Downloader) /\ Ints(g, Downloader)
  BY DEF Ints, Shape, Record, ClaimOf
<1>3. \A c \in Downloader \ {d} : f[c] = g[c]
  BY DEF ClaimOf
<1>4. Sum(g, Downloader) = Sum(f, Downloader) - f[d] + g[d]
  <2> HIDE DEF f, g
  <2> QED BY <1>1, <1>2, <1>3, SumChange
<1>5. Claimed' = Claimed - ClaimOf(d) + ClaimOf(d)'
  BY <1>4 DEF Claimed
<1>6. ASSUME NEW T \in Nat
      PROVE  DueBy(T)' = DueBy(T) - DueOf(d, T) + DueOf(d, T)'
  <2> DEFINE u == [c \in Downloader |-> DueOf(c, T)]
             v == [c \in Downloader |-> DueOf(c, T)']
  <2>1. Ints(u, Downloader) /\ Ints(v, Downloader)
    BY DEF Ints, Shape, Record, DueOf
  <2>2. \A c \in Downloader \ {d} : u[c] = v[c]
    BY DEF DueOf
  <2>3. Sum(v, Downloader) = Sum(u, Downloader) - u[d] + v[d]
    <3> HIDE DEF u, v
    <3> QED BY <1>1, <2>1, <2>2, SumChange
  <2> QED BY <2>3 DEF DueBy
<1>7. ASSUME NEW T \in Nat
      PROVE  Missing(T)' = Missing(T) - MissOf(d, T) + MissOf(d, T)'
  <2> DEFINE u == [c \in Downloader |-> MissOf(c, T)]
             v == [c \in Downloader |-> MissOf(c, T)']
  <2>1. Ints(u, Downloader) /\ Ints(v, Downloader)
    BY DEF Ints, Shape, Record, MissOf
  <2>2. \A c \in Downloader \ {d} : u[c] = v[c]
    BY DEF MissOf
  <2>3. Sum(v, Downloader) = Sum(u, Downloader) - u[d] + v[d]
    <3> HIDE DEF u, v
    <3> QED BY <1>1, <2>1, <2>2, SumChange
  <2> QED BY <2>3 DEF Missing
<1> QED BY <1>5, <1>6, <1>7

(* The sums are numbers, and unchanged with the downloads.                 *)
LEMMA SumsInt ==
    ASSUME Shape
    PROVE  Claimed \in Nat /\ \A T \in Nat : DueBy(T) \in Nat /\ Missing(T) \in Nat
<1>1. IsFiniteSet(Downloader)
  BY FiniteDownloads
<1>2. \A c \in Downloader : /\ ClaimOf(c) \in Nat
                            /\ \A T \in Nat : DueOf(c, T) \in Nat /\ MissOf(c, T) \in Nat
  BY DEF Shape, Record, ClaimOf, DueOf, MissOf
<1>3. Claimed \in Nat
  <2> DEFINE f == [c \in Downloader |-> ClaimOf(c)]
  <2>1. \A c \in Downloader : f[c] \in Nat
    BY <1>2
  <2> HIDE DEF f
  <2>2. Sum(f, Downloader) \in Nat
    BY <1>1, <2>1, SumNat
  <2> QED BY <2>2 DEF Claimed, f
<1>4. ASSUME NEW T \in Nat PROVE DueBy(T) \in Nat
  <2> DEFINE f == [c \in Downloader |-> DueOf(c, T)]
  <2>1. \A c \in Downloader : f[c] \in Nat
    BY <1>2
  <2> HIDE DEF f
  <2>2. Sum(f, Downloader) \in Nat
    BY <1>1, <2>1, SumNat
  <2> QED BY <2>2 DEF DueBy, f
<1>5. ASSUME NEW T \in Nat PROVE Missing(T) \in Nat
  <2> DEFINE f == [c \in Downloader |-> MissOf(c, T)]
  <2>1. \A c \in Downloader : f[c] \in Nat
    BY <1>2
  <2> HIDE DEF f
  <2>2. Sum(f, Downloader) \in Nat
    BY <1>1, <2>1, SumNat
  <2> QED BY <2>2 DEF Missing, f
<1> QED BY <1>3, <1>4, <1>5

(* A step that leaves the downloads alone leaves the sums alone.           *)
LEMMA SameSums ==
    ASSUME dl' = dl
    PROVE  Claimed' = Claimed /\ \A T : DueBy(T)' = DueBy(T) /\ Missing(T)' = Missing(T)
BY DEF Claimed, DueBy, Missing, ClaimOf, DueOf, MissOf

-----------------------------------------------------------------------------
(* Shape and progress *)

(* The size of the read is positive, and within buffer and what is left.   *)
LEMMA ReadSizeSound ==
    ASSUME Shape, NEW d \in Downloader, dl[d].left > 0
    PROVE  ReadSize(d) \in Nat /\ ReadSize(d) <= Burst /\ ReadSize(d) <= dl[d].left
<1>1. Burst \in Nat /\ dl[d].left \in Nat
  BY BandwidthAssumption DEF Shape, Record
<1> QED BY <1>1, MinMax DEF ReadSize

(* What Reserve owes.                                                      *)
Owed(d) == Max({0, ReadSize(d) - limiter.tokens})

(* Max with zero.                                                          *)
LEMMA MaxZero ==
    ASSUME NEW x \in Int
    PROVE  Max({0, x}) = IF 0 <= x THEN x ELSE 0
BY MinMax

(* What is owed is how much the tokens fall short.                         *)
LEMMA OwedSound ==
    ASSUME Shape, NEW d \in Downloader, dl[d].left > 0
    PROVE  /\ Owed(d) \in Nat
           /\ Owed(d) = IF ReadSize(d) <= limiter.tokens THEN 0
                        ELSE ReadSize(d) - limiter.tokens
<1>1. ReadSize(d) \in Nat /\ limiter.tokens \in Int
  BY ReadSizeSound DEF Shape
<1>2. Owed(d) = IF 0 <= ReadSize(d) - limiter.tokens
                THEN ReadSize(d) - limiter.tokens ELSE 0
  <2> DEFINE x == ReadSize(d) - limiter.tokens
  <2>1. x \in Int
    BY <1>1
  <2>2. Max({0, x}) = IF 0 <= x THEN x ELSE 0
    BY <2>1, MaxZero
  <2> QED BY <2>2 DEF Owed
<1> QED BY <1>1, <1>2

(* What Reserve does.                                                      *)
Reserved(d) == [dl[d] EXCEPT !.n = ReadSize(d), !.act = now + Owed(d),
                             !.pc = IF Owed(d) = 0 THEN "read" ELSE "wait"]

(* Reserve takes what it asks for, and is due when it is paid for.         *)
LEMMA ReserveSound ==
    ASSUME NEW d \in Downloader, Reserve(d)
    PROVE  /\ dl[d].pc = "loop" /\ dl[d].left > 0
           /\ now' = now /\ size' = size /\ limited' = limited /\ run' = run
           /\ limited =>
                 /\ limiter' = [tokens |-> limiter.tokens - ReadSize(d),
                                last   |-> now + Owed(d)]
                 /\ dl' = [dl EXCEPT ![d] = Reserved(d)]
           /\ ~limited =>
                 /\ limiter' = limiter
                 /\ dl' = [dl EXCEPT ![d] =
                              [dl[d] EXCEPT !.n = ReadSize(d), !.pc = "read"]]
BY DEF Reserve, Becomes, options, Owed, Reserved

(* The bucket holds no more than Burst.                                   *)
LEMMA MinBurst ==
    ASSUME NEW x \in Int
    PROVE  Min({Burst, x}) = IF Burst <= x THEN Burst ELSE x
BY BandwidthAssumption, MinMax

(* A refund gives tokens back, but not beyond the burst.                   *)
LEMMA RefundSound ==
    ASSUME Shape, NEW d \in Downloader, limiter.tokens <= Burst
    PROVE  /\ Refund(d) \in [tokens : Int, last : Nat]
           /\ limiter.tokens <= Refund(d).tokens /\ Refund(d).tokens <= Burst
           /\ dl[d].act <= limiter.last => Refund(d).tokens <= limiter.tokens + dl[d].n
<1> DEFINE back == dl[d].n - (limiter.last - dl[d].act)
<1>1. /\ dl[d].n \in Nat /\ dl[d].act \in Nat /\ now \in Nat /\ Burst \in Nat
      /\ limiter.tokens \in Int /\ limiter.last \in Nat /\ back \in Int
      /\ limiter \in [tokens : Int, last : Nat]
  BY BandwidthAssumption DEF Shape, Record
<1>2. CASE dl[d].act < now \/ back <= 0
  <2>1. Refund(d) = limiter
    BY <1>2 DEF Refund
  <2> HIDE DEF back
  <2> QED BY <2>1, <1>1
<1>3. CASE ~(dl[d].act < now \/ back <= 0)
  <2>1. Refund(d) = [tokens |-> Min({Burst, limiter.tokens + back}),
                     last   |-> IF dl[d].act = limiter.last /\ dl[d].act - dl[d].n >= now
                                THEN dl[d].act - dl[d].n ELSE limiter.last]
    BY <1>3 DEF Refund
  <2>2. limiter.tokens + back \in Int
    BY <1>1
  <2>3. Min({Burst, limiter.tokens + back}) =
          IF Burst <= limiter.tokens + back THEN Burst ELSE limiter.tokens + back
    BY <2>2, MinBurst
  <2>4. dl[d].act <= limiter.last => back <= dl[d].n
    BY <1>1
  <2> HIDE DEF back
  <2> QED BY <1>1, <1>3, <2>1, <2>3, <2>4
<1> QED BY <1>2, <1>3

(* Every step keeps the shape.                                             *)
LEMMA ShapeStep == ASSUME Inv, [Next]_vars PROVE Shape'
<1> USE DEF Shape
<1>1. Shape /\ ProgressInv /\ limiter.tokens <= Burst /\ Burst \in Nat
  BY BandwidthAssumption DEF Inv, TokensInv
<1>2. CASE UNCHANGED vars
  BY <1>1, <1>2 DEF vars
<1>3. CASE Tick
  <2>1. Min({Burst, limiter.tokens + 1}) \in Int
    BY <1>1, MinBurst
  <2> QED BY <1>1, <1>3, <2>1 DEF Tick, options
<1>4. ASSUME NEW t \in Test, Start(t) PROVE Shape'
  BY <1>1, <1>4 DEF Start, options, Record, Pc
<1>5. ASSUME NEW t \in Test, Return(t) \/ CtxOver(t) PROVE Shape'
  <2>1. CASE Return(t)
    BY <1>1, <2>1 DEF Return, options, Run
  <2>2. CASE CtxOver(t)
    BY <1>1, <2>2 DEF CtxOver, options, Run
  <2> QED BY <1>5, <2>1, <2>2
<1>6. ASSUME NEW d \in Downloader, Response(d) PROVE Shape'
  <2>1. Chunk(TestOf[d]) \in Nat
    BY <1>1, ChunkSound
  <2> QED BY <1>1, <1>6, <2>1 DEF Response, Becomes, options, Record, Pc
<1>7. ASSUME NEW d \in Downloader, NoResponse(d) PROVE Shape'
  BY <1>1, <1>7 DEF NoResponse, Becomes, Ends, options, Record, Pc, End
<1>8. ASSUME NEW d \in Downloader, CopyFull(d) PROVE Shape'
  BY <1>1, <1>8 DEF CopyFull, Becomes, Ends, options, Record, Pc, End
<1>9. ASSUME NEW d \in Downloader, Reserve(d) PROVE Shape'
  <2>1. dl[d].left > 0
    BY <1>9, ReserveSound
  <2>2. ReadSize(d) \in Nat /\ Owed(d) \in Nat
    BY <1>1, <2>1, ReadSizeSound, OwedSound
  <2>3. now + Owed(d) \in Nat /\ limiter.tokens - ReadSize(d) \in Int
    BY <1>1, <2>2
  <2>4. Reserved(d) \in Record
    BY <1>1, <2>2, <2>3 DEF Reserved, Record, Pc
  <2>5. CASE limited
    <3>1. /\ limiter' = [tokens |-> limiter.tokens - ReadSize(d), last |-> now + Owed(d)]
          /\ dl' = [dl EXCEPT ![d] = Reserved(d)]
      BY <1>9, <2>5, ReserveSound
    <3>2. limiter' \in [tokens : Int, last : Nat] /\ dl' \in [Downloader -> Record]
      BY <1>1, <2>3, <2>4, <3>1
    <3> QED BY <1>1, <1>9, <3>2, ReserveSound
  <2>6. CASE ~limited
    <3>1. [dl[d] EXCEPT !.n = ReadSize(d), !.pc = "read"] \in Record
      BY <1>1, <2>2 DEF Record, Pc
    <3> QED BY <1>1, <1>9, <2>6, <3>1, ReserveSound
  <2> QED BY <2>5, <2>6
<1>10. ASSUME NEW d \in Downloader, WaitOver(d) PROVE Shape'
  BY <1>1, <1>10 DEF WaitOver, Becomes, options, Record, Pc
<1>11. ASSUME NEW d \in Downloader, WaitCancelled(d) PROVE Shape'
  <2>1. Refund(d) \in [tokens : Int, last : Nat]
    BY <1>1, RefundSound
  <2> QED BY ZenonT(30), <1>1, <1>11, <2>1 DEF WaitCancelled, Becomes, Ends, options, Record, Pc, End
<1>12. ASSUME NEW d \in Downloader, Tally(d) PROVE Shape'
  <2>1. dl' \in [Downloader -> Record]
    BY <1>1, <1>12 DEF Tally, Becomes, Record, Pc
  <2>2. TestOf[d] \in Test /\ dl[d].got \in Nat /\ Failed(d) \in BOOLEAN
    BY <1>1, BandwidthAssumption DEF Record, Failed
  <2>3. run' \in [Test -> Run]
    BY <1>1, <1>12, <2>2 DEF Tally, Failed, Run
  <2> QED BY <1>1, <1>12, <2>1, <2>3 DEF Tally, Becomes, options
<1>13. ASSUME NEW d \in Downloader, NEW nr \in 0..Burst,
              NEW er \in {"none", "eof", "err"}, Read(d, nr, er)
       PROVE  Shape'
  <2>1. nr \in Nat /\ dl[d].left - nr \in Nat /\ dl[d].got + nr \in Nat
    BY <1>1, <1>13 DEF Read, ProgressInv, Progress, Record
  <2> QED BY ZenonT(30), <1>1, <1>13, <2>1 DEF Read, Becomes, options, Record, Pc, End
<1> QED BY StepCases, <1>2, <1>3, <1>4, <1>5, <1>6, <1>7, <1>8, <1>9, <1>10,
           <1>11, <1>12, <1>13

(* The options never change.                                               *)
LEMMA OptionsFixed ==
    ASSUME [Next]_vars
    PROVE  size' = size /\ limited' = limited /\ \A t : Chunk(t)' = Chunk(t)
<1>1. size' = size /\ limited' = limited
  <2>1. CASE \E d \in Downloader : Reserve(d)
    BY <2>1, ReserveSound
  <2>2. CASE ~\E d \in Downloader : Reserve(d)
    BY <2>2, StepCases DEF Tick, Start, Return, CtxOver, Response, NoResponse,
       CopyFull, WaitOver, WaitCancelled, Tally, Read, Becomes, options, vars
  <2> QED BY <2>1, <2>2
<1> QED BY <1>1 DEF Chunk, Of

(* Every step keeps the downloads in order.                                *)
LEMMA ProgressStep == ASSUME Inv, [Next]_vars PROVE ProgressInv'
<1>1. /\ Shape /\ Burst \in Nat /\ dl \in [Downloader -> Record]
      /\ \A d \in Downloader : Progress(d)
      /\ size' = size /\ limited' = limited /\ \A t : Chunk(t)' = Chunk(t)
  BY BandwidthAssumption, OptionsFixed DEF Inv, Shape, ProgressInv, Progress
<1>2. \A d \in Downloader : Chunk(TestOf[d]) \in Nat /\ Chunk(TestOf[d]) <= size
  BY <1>1, ChunkSound
<1> SUFFICES \A d \in Downloader : Progress(d)'
  BY DEF ProgressInv, Progress
<1>3. ASSUME dl' = dl PROVE \A d \in Downloader : Progress(d)'
  BY <1>1, <1>3 DEF Progress
<1>4. CASE UNCHANGED vars
  BY <1>3, <1>4 DEF vars
<1>5. CASE Tick
  BY <1>3, <1>5 DEF Tick
<1>6. ASSUME NEW t \in Test, Start(t) PROVE \A d \in Downloader : Progress(d)'
  BY <1>1, <1>6 DEF Start, Progress, Record
<1>7. ASSUME NEW t \in Test, Return(t) \/ CtxOver(t)
      PROVE  \A d \in Downloader : Progress(d)'
  BY <1>3, <1>7 DEF Return, CtxOver
<1>8. ASSUME NEW c \in Downloader, \A d \in Downloader \ {c} : dl'[d] = dl[d],
             Progress(c)'
      PROVE  \A d \in Downloader : Progress(d)'
  BY <1>1, <1>8 DEF Progress
<1> DEFINE Goal == \A d \in Downloader : Progress(d)'
<1> HIDE DEF Goal
<1>9. ASSUME NEW c \in Downloader, Response(c) PROVE Goal
  <2>1. dl' = [dl EXCEPT ![c] = [dl[c] EXCEPT !.pc = "loop", !.left = Chunk(TestOf[c])]]
        /\ dl[c].pc = "do"
    BY <1>9 DEF Response, Becomes
  <2>2. Progress(c)'
    BY <1>1, <1>2, <2>1 DEF Progress, Record
  <2> QED BY <1>1, <1>8, <2>1, <2>2 DEF Goal
<1>10. ASSUME NEW c \in Downloader, NoResponse(c) PROVE Goal
  <2>1. dl' = [dl EXCEPT ![c] = [dl[c] EXCEPT !.pc = "tally", !.end = "err"]]
        /\ dl[c].pc = "do"
    BY <1>10 DEF NoResponse, Becomes, Ends
  <2>2. Progress(c)'
    BY <1>1, <1>2, <2>1 DEF Progress, Record
  <2> QED BY <1>1, <1>8, <2>1, <2>2 DEF Goal
<1>11. ASSUME NEW c \in Downloader, CopyFull(c) PROVE Goal
  <2>1. dl' = [dl EXCEPT ![c] = [dl[c] EXCEPT !.pc = "tally", !.end = "full"]]
        /\ dl[c].pc = "loop" /\ dl[c].left = 0
    BY <1>11 DEF CopyFull, Becomes, Ends
  <2>2. Progress(c)'
    BY <1>1, <1>2, <2>1 DEF Progress, Record
  <2> QED BY <1>1, <1>8, <2>1, <2>2 DEF Goal
<1>12. ASSUME NEW c \in Downloader, Reserve(c) PROVE Goal
  <2>1. dl[c].pc = "loop" /\ dl[c].left > 0
    BY <1>12, ReserveSound
  <2>2. ReadSize(c) \in Nat /\ ReadSize(c) <= Burst /\ ReadSize(c) <= dl[c].left
    BY <1>1, <2>1, ReadSizeSound
  <2>3. CASE limited
    <3>1. dl' = [dl EXCEPT ![c] = Reserved(c)]
      BY <1>12, <2>3, ReserveSound
    <3>2. Progress(c)'
      BY <1>1, <2>1, <2>2, <2>3, <3>1 DEF Progress, Record, Reserved
    <3> QED BY <1>1, <1>8, <3>1, <3>2 DEF Goal
  <2>4. CASE ~limited
    <3>1. dl' = [dl EXCEPT ![c] = [dl[c] EXCEPT !.n = ReadSize(c), !.pc = "read"]]
      BY <1>12, <2>4, ReserveSound
    <3>2. Progress(c)'
      BY <1>1, <2>1, <2>2, <3>1 DEF Progress, Record
    <3> QED BY <1>1, <1>8, <3>1, <3>2 DEF Goal
  <2> QED BY <2>3, <2>4
<1>13. ASSUME NEW c \in Downloader, WaitOver(c) PROVE Goal
  <2>1. dl' = [dl EXCEPT ![c] = [dl[c] EXCEPT !.pc = "read"]] /\ dl[c].pc = "wait"
    BY <1>13 DEF WaitOver, Becomes
  <2>2. Progress(c)'
    BY <1>1, <1>2, <2>1 DEF Progress, Record
  <2> QED BY <1>1, <1>8, <2>1, <2>2 DEF Goal
<1>14. ASSUME NEW c \in Downloader, WaitCancelled(c) PROVE Goal
  <2>1. dl' = [dl EXCEPT ![c] = [dl[c] EXCEPT !.pc = "tally", !.end = "cut"]]
        /\ dl[c].pc = "wait"
    BY <1>14 DEF WaitCancelled, Becomes, Ends
  <2>2. Progress(c)'
    BY <1>1, <1>2, <2>1 DEF Progress, Record
  <2> QED BY <1>1, <1>8, <2>1, <2>2 DEF Goal
<1>15. ASSUME NEW c \in Downloader, Tally(c) PROVE Goal
  <2>1. dl' = [dl EXCEPT ![c] = [dl[c] EXCEPT !.pc = "over"]] /\ dl[c].pc = "tally"
    BY <1>15 DEF Tally, Becomes
  <2>2. Progress(c)'
    BY <1>1, <1>2, <2>1 DEF Progress, Record
  <2> QED BY <1>1, <1>8, <2>1, <2>2 DEF Goal
<1>16. ASSUME NEW c \in Downloader, NEW nr \in 0..Burst,
              NEW er \in {"none", "eof", "err"}, Read(c, nr, er)
       PROVE  Goal
  <2>1. dl' = [dl EXCEPT ![c] =
                 [dl[c] EXCEPT !.got = @ + nr, !.left = @ - nr, !.end = er,
                               !.pc = IF er = "none" THEN "loop" ELSE "tally"]]
        /\ dl[c].pc = "read" /\ nr <= dl[c].n
    BY <1>16 DEF Read, Becomes
  <2>2. nr \in Nat
    OBVIOUS
  <2>3. /\ dl'[c].n = dl[c].n
        /\ dl'[c].got = dl[c].got + nr /\ dl'[c].left = dl[c].left - nr
        /\ dl'[c].end = er /\ dl'[c].pc = IF er = "none" THEN "loop" ELSE "tally"
    BY <1>1, <2>1
  <2>4. /\ dl[c].n \in Nat /\ dl[c].got \in Nat /\ dl[c].left \in Nat
        /\ dl[c].n <= Burst /\ dl[c].n <= dl[c].left
        /\ dl[c].got + dl[c].left = Chunk(TestOf[c])
    BY <1>1, <2>1 DEF Progress, Record
  <2>5. /\ dl[c].got + nr <= size
        /\ (dl[c].got + nr) + (dl[c].left - nr) = Chunk(TestOf[c])
    BY <1>1, <1>2, <2>1, <2>2, <2>4 DEF Shape
  <2>6. Progress(c)'
    BY <1>1, <2>3, <2>4, <2>5 DEF Progress
  <2> QED BY <1>1, <1>8, <2>1, <2>6 DEF Goal
<1>17. Goal
  BY StepCases, <1>4, <1>5, <1>6, <1>7, <1>9, <1>10, <1>11, <1>12, <1>13, <1>14,
     <1>15, <1>16 DEF Goal
<1> QED BY <1>17 DEF Goal

-----------------------------------------------------------------------------
(* The limit *)

(* A tick adds one token, unless the bucket is full.                       *)
LEMMA TickSound ==
    ASSUME Shape, Tick, limiter.tokens <= Burst
    PROVE  /\ now' = now + 1 /\ limited' = limited /\ dl' = dl
           /\ limiter'.last = limiter.last
           /\ limiter'.tokens <= limiter.tokens + 1 /\ limiter'.tokens <= Burst
           /\ limiter'.tokens = limiter.tokens + 1 \/ limiter'.tokens = Burst
<1>1. limiter.tokens \in Int /\ limiter \in [tokens : Int, last : Nat] /\ Burst \in Nat
  BY BandwidthAssumption DEF Shape
<1>2. Min({Burst, limiter.tokens + 1}) =
        IF Burst <= limiter.tokens + 1 THEN Burst ELSE limiter.tokens + 1
  BY <1>1, MinBurst
<1>3. limiter' = [limiter EXCEPT !.tokens = Min({Burst, limiter.tokens + 1})]
  BY DEF Tick
<1>4. limiter'.last = limiter.last
      /\ limiter'.tokens = Min({Burst, limiter.tokens + 1})
  BY <1>1, <1>3
<1> QED BY <1>1, <1>2, <1>4 DEF Tick, options

(* A step that neither reserves nor cuts off: no download claims more, and *)
(* none is due more at any time to come.                                   *)
CalmAt(d) ==
    /\ dl'[d].end = "cut" <=> dl[d].end = "cut"
    /\ dl'[d].act = dl[d].act
    /\ limited => ClaimOf(d)' <= ClaimOf(d)
    /\ \A T \in Nat : T >= now => /\ limited => DueOf(d, T)' <= DueOf(d, T)
                                  /\ MissOf(d, T)' = MissOf(d, T)

Calm == /\ now' = now /\ limited' = limited /\ limiter' = limiter
        /\ \A d \in Downloader : CalmAt(d)

(* All steps are calm but Tick, Reserve under a limit and WaitCancelled.   *)
LEMMA CalmSteps ==
    ASSUME Inv, [Next]_vars, ~Tick,
           \A d \in Downloader : ~(limited /\ Reserve(d)) /\ ~WaitCancelled(d)
    PROVE  Calm
<1>1. /\ dl \in [Downloader -> Record] /\ now \in Nat
      /\ \A d \in Downloader : Progress(d)
  BY DEF Inv, Shape, ProgressInv, Progress
<1>2. ASSUME NEW d \in Downloader, dl'[d] = dl[d] PROVE CalmAt(d)
  <2>1. ClaimOf(d)' = ClaimOf(d) /\ ClaimOf(d) \in Nat
    BY <1>1, <1>2 DEF ClaimOf, Record
  <2>2. \A T \in Nat : DueOf(d, T)' = DueOf(d, T) /\ DueOf(d, T) \in Nat
                       /\ MissOf(d, T)' = MissOf(d, T)
    BY <1>1, <1>2 DEF DueOf, MissOf, Record
  <2> QED BY <1>2, <2>1, <2>2 DEF CalmAt
<1>3. ASSUME NEW c \in Downloader, \A d \in Downloader \ {c} : dl'[d] = dl[d],
             CalmAt(c), now' = now, limited' = limited, limiter' = limiter
      PROVE  Calm
  BY <1>2, <1>3 DEF Calm
<1>4. ASSUME dl' = dl, now' = now, limited' = limited, limiter' = limiter
      PROVE  Calm
  BY <1>2, <1>4 DEF Calm
<1>5. CASE UNCHANGED vars
  BY <1>4, <1>5 DEF vars
<1>6. ASSUME NEW t \in Test, Start(t) PROVE Calm
  <2>1. ASSUME NEW d \in Downloader, dl'[d] # dl[d] PROVE CalmAt(d)
    <3>1. dl[d].pc = "idle" /\ dl'[d] = [dl[d] EXCEPT !.pc = "do"]
      BY <1>6, <2>1 DEF Start
    <3>2. /\ dl'[d].pc = "do" /\ dl'[d].end = dl[d].end /\ dl'[d].act = dl[d].act
          /\ dl'[d].got = dl[d].got /\ dl'[d].n = dl[d].n
          /\ dl[d].got \in Nat
      BY <1>1, <3>1 DEF Record
    <3> QED BY <3>1, <3>2 DEF CalmAt, ClaimOf, DueOf, MissOf
  <2> QED BY <1>2, <1>6, <2>1 DEF Start, options, Calm
<1>7. ASSUME NEW t \in Test, Return(t) \/ CtxOver(t) PROVE Calm
  BY <1>4, <1>7 DEF Return, CtxOver, options
<1>8. ASSUME NEW c \in Downloader,
             Response(c) \/ NoResponse(c) \/ CopyFull(c) \/ WaitOver(c) \/ Tally(c)
      PROVE  Calm
  <2>1. /\ now' = now /\ limited' = limited /\ limiter' = limiter
        /\ \E r : dl' = [dl EXCEPT ![c] = r]
    <3>1. CASE Response(c)
      BY <3>1, Zenon DEF Response, Becomes, options
    <3>2. CASE NoResponse(c)
      BY <3>2, Zenon DEF NoResponse, Becomes, options
    <3>3. CASE CopyFull(c)
      BY <3>3, Zenon DEF CopyFull, Becomes, options
    <3>4. CASE WaitOver(c)
      BY <3>4, Zenon DEF WaitOver, Becomes, options
    <3>5. CASE Tally(c)
      BY <3>5, Zenon DEF Tally, Becomes, options
    <3> QED BY <1>8, <3>1, <3>2, <3>3, <3>4, <3>5
  <2>2. /\ dl'[c].got = dl[c].got /\ dl'[c].act = dl[c].act /\ dl'[c].n = dl[c].n
        /\ \/ /\ dl'[c].end = dl[c].end
              /\ \/ dl[c].pc = "do" /\ dl'[c].pc = "loop"
                 \/ dl[c].pc = "wait" /\ dl[c].act <= now /\ dl'[c].pc = "read"
                 \/ dl[c].pc = "tally" /\ dl'[c].pc = "over"
           \/ /\ dl'[c].end \in {"err", "full"} /\ dl'[c].pc = "tally"
              /\ dl[c].pc \in {"do", "loop"}
    <3>1. CASE Response(c)
      BY <1>1, <3>1 DEF Response, Becomes, Record
    <3>2. CASE NoResponse(c)
      BY <1>1, <3>2 DEF NoResponse, Becomes, Ends, Record
    <3>3. CASE CopyFull(c)
      BY <1>1, <3>3 DEF CopyFull, Becomes, Ends, Record
    <3>4. CASE WaitOver(c)
      BY <1>1, <3>4 DEF WaitOver, Becomes, Record
    <3>5. CASE Tally(c)
      BY <1>1, <3>5 DEF Tally, Becomes, Record
    <3> QED BY <1>8, <3>1, <3>2, <3>3, <3>4, <3>5
  <2>3. dl[c].got \in Nat /\ dl[c].n \in Nat /\ dl[c].act \in Nat
    BY <1>1 DEF Record
  <2>4. dl[c].pc \notin {"tally", "over"} => dl[c].end = "none"
    BY <1>1 DEF Progress
  <2>5. dl'[c].end = "cut" <=> dl[c].end = "cut"
    BY <2>2, <2>4
  <2>6. ClaimOf(c)' <= ClaimOf(c)
    BY <2>2, <2>3 DEF ClaimOf
  <2>7. ASSUME NEW T \in Nat, T >= now
        PROVE  DueOf(c, T)' <= DueOf(c, T) /\ MissOf(c, T)' = MissOf(c, T)
    BY <1>1, <2>2, <2>3, <2>5, <2>7 DEF DueOf, MissOf
  <2>8. \A d \in Downloader \ {c} : dl'[d] = dl[d]
    BY <1>1, <2>1
  <2>9. CalmAt(c)
    BY <2>2, <2>5, <2>6, <2>7 DEF CalmAt
  <2> QED BY <1>3, <2>1, <2>8, <2>9
<1>9. ASSUME NEW c \in Downloader, Reserve(c) PROVE Calm
  <2>1. ~limited
    BY <1>9
  <2>2. /\ now' = now /\ limited' = limited /\ limiter' = limiter
        /\ dl[c].pc = "loop" /\ dl[c].left > 0
        /\ dl' = [dl EXCEPT ![c] = [dl[c] EXCEPT !.n = ReadSize(c), !.pc = "read"]]
    BY <1>9, <2>1, ReserveSound
  <2>3. /\ dl'[c].got = dl[c].got /\ dl'[c].act = dl[c].act
        /\ dl'[c].end = dl[c].end /\ dl'[c].pc = "read" /\ dl[c].end = "none"
    BY <1>1, <2>2 DEF Progress, Record
  <2>4. CalmAt(c)
    BY <2>1, <2>2, <2>3 DEF CalmAt, MissOf
  <2> QED BY <1>1, <1>3, <2>2, <2>4
<1>10. ASSUME NEW c \in Downloader, NEW nr \in 0..Burst,
              NEW er \in {"none", "eof", "err"}, Read(c, nr, er)
       PROVE  Calm
  <2>1. dl' = [dl EXCEPT ![c] =
                 [dl[c] EXCEPT !.got = @ + nr, !.left = @ - nr, !.end = er,
                               !.pc = IF er = "none" THEN "loop" ELSE "tally"]]
        /\ dl[c].pc = "read" /\ nr <= dl[c].n
        /\ now' = now /\ limited' = limited /\ limiter' = limiter
    BY <1>10 DEF Read, Becomes, options
  <2>2. /\ dl'[c].n = dl[c].n /\ dl'[c].act = dl[c].act
        /\ dl'[c].got = dl[c].got + nr
        /\ dl'[c].end = er /\ dl'[c].pc \in {"loop", "tally"}
    BY <1>1, <2>1
  <2>3. /\ dl[c].n \in Nat /\ dl[c].got \in Nat /\ dl[c].act \in Nat /\ nr \in Nat
        /\ dl[c].end = "none"
    BY <1>1, <2>1 DEF Progress, Record
  <2>4. CalmAt(c)
    BY <2>1, <2>2, <2>3 DEF CalmAt, ClaimOf, DueOf, MissOf
  <2> QED BY <1>1, <1>3, <2>1, <2>4
<1> QED BY StepCases, <1>5, <1>6, <1>7, <1>8, <1>9, <1>10

(* Every step but the cut-off leaves the same downloads cut off.           *)
LEMMA StillCutOnce ==
    ASSUME \A d \in Downloader : dl[d].end = "cut" => dl'[d].end = "cut"
    PROVE  /\ CutOnce' => CutOnce
           /\ NoCut' => NoCut
BY DEF CutOnce, NoCut

(* A calm step keeps the limit.                                            *)
LEMMA CalmLimit ==
    ASSUME Inv, Shape', Calm
    PROVE  LimitInv' /\ TokensInv'
<1>1. /\ IsFiniteSet(Downloader) /\ now' = now /\ now \in Nat
      /\ limited' = limited /\ limiter' = limiter /\ limiter.tokens \in Int
  BY FiniteDownloads DEF Inv, Shape, Calm
<1>2. (CutOnce' => CutOnce) /\ (NoCut' => NoCut)
  BY StillCutOnce DEF Calm, CalmAt
<1>3. \A T \in Nat : T >= now => Missing(T)' = Missing(T)
  <2> SUFFICES ASSUME NEW T \in Nat, T >= now PROVE Missing(T)' = Missing(T)
    OBVIOUS
  <2> QED BY DEF Calm, CalmAt, Missing
<1>4. TokensInv'
  BY <1>1, <1>3 DEF TokensInv, Inv
<1>5. CASE limited
  <2>1. Claimed' <= Claimed /\ Claimed' \in Int
    <3> DEFINE f == [d \in Downloader |-> ClaimOf(d)']
               g == [d \in Downloader |-> ClaimOf(d)]
    <3>1. Ints(f, Downloader) /\ Ints(g, Downloader)
      BY DEF Inv, Ints, Shape, Record, ClaimOf
    <3>2. \A d \in Downloader : f[d] <= g[d]
      BY <1>5 DEF Calm, CalmAt
    <3> HIDE DEF f, g
    <3>3. Sum(f, Downloader) <= Sum(g, Downloader) /\ Sum(f, Downloader) \in Int
      BY <1>1, <3>1, <3>2, SumMonotone, SumInt
    <3> QED BY <3>3 DEF Claimed, f, g
  <2>2. ASSUME NEW T \in Nat, T >= now PROVE DueBy(T)' <= DueBy(T) /\ DueBy(T)' \in Int
    <3> DEFINE f == [d \in Downloader |-> DueOf(d, T)']
               g == [d \in Downloader |-> DueOf(d, T)]
    <3>1. Ints(f, Downloader) /\ Ints(g, Downloader)
      BY DEF Inv, Ints, Shape, Record, DueOf
    <3>2. \A d \in Downloader : f[d] <= g[d]
      BY <1>5, <2>2 DEF Calm, CalmAt
    <3> HIDE DEF f, g
    <3>3. Sum(f, Downloader) <= Sum(g, Downloader) /\ Sum(f, Downloader) \in Int
      BY <1>1, <3>1, <3>2, SumMonotone, SumInt
    <3> QED BY <3>3 DEF DueBy, f, g
  <2>3. Claimed \in Nat /\ \A T \in Nat : DueBy(T) \in Nat
    BY SumsInt DEF Inv
  <2>4. CutOnce' => Claimed' + limiter'.tokens <= now'
    BY <1>1, <1>2, <1>5, <2>1, <2>3 DEF Inv, LimitInv
  <2>5. CutOnce' => \A T \in Nat : T >= now' => DueBy(T)' <= T
    <3> SUFFICES ASSUME CutOnce', NEW T \in Nat, T >= now' PROVE DueBy(T)' <= T
      OBVIOUS
    <3>1. DueBy(T) <= T
      BY <1>1, <1>2, <1>5 DEF Inv, LimitInv
    <3> QED BY <1>1, <2>2, <2>3, <3>1
  <2>6. NoCut' => /\ limiter'.last <= now' \/ limiter'.last <= now' - limiter'.tokens
                  /\ \A d \in Downloader : dl'[d].act <= limiter'.last
    BY <1>1, <1>2, <1>5 DEF Inv, LimitInv, Calm, CalmAt
  <2> QED BY <1>4, <2>4, <2>5, <2>6, Zenon DEF LimitInv
<1>6. CASE ~limited
  BY <1>1, <1>4, <1>6, Zenon DEF LimitInv
<1> QED BY <1>4, <1>5, <1>6

(* A tick keeps it.                                                        *)
LEMMA TickLimit ==
    ASSUME Inv, Tick
    PROVE  LimitInv' /\ TokensInv'
<1>1. /\ now' = now + 1 /\ limited' = limited /\ dl' = dl
      /\ limiter'.last = limiter.last
      /\ limiter'.tokens <= limiter.tokens + 1 /\ limiter'.tokens <= Burst
      /\ limiter'.tokens = limiter.tokens + 1 \/ limiter'.tokens = Burst
  BY TickSound DEF Inv, TokensInv
<1>2. Claimed' = Claimed /\ \A T : DueBy(T)' = DueBy(T) /\ Missing(T)' = Missing(T)
  BY <1>1, SameSums
<1>3. Claimed \in Nat /\ \A T \in Nat : DueBy(T) \in Nat /\ Missing(T) \in Nat
  BY SumsInt DEF Inv
<1>4. /\ now \in Nat /\ limiter.tokens \in Int /\ limiter'.tokens \in Int
      /\ limiter.last \in Nat /\ Burst \in Nat
  BY ShapeStep, BandwidthAssumption DEF Inv, Shape, Next
<1>5. (CutOnce' <=> CutOnce) /\ (NoCut' <=> NoCut)
  BY <1>1 DEF CutOnce, NoCut
<1>6. TokensInv'
  <2>1. ASSUME NEW T \in Nat, T >= now'
        PROVE  (T - now') + limiter'.tokens + Missing(T)' >= 0
    <3>1. T >= now /\ (T - now) + limiter.tokens + Missing(T) >= 0
      BY <1>1, <1>4, <2>1 DEF Inv, TokensInv
    <3>2. Missing(T)' = Missing(T) /\ Missing(T) \in Nat
      BY <1>2, <1>3
    <3> QED BY <1>1, <1>4, <2>1, <3>1, <3>2
  <2> QED BY <1>1, <2>1 DEF TokensInv
<1>7. CASE limited
  <2>1. CutOnce' => Claimed' + limiter'.tokens <= now'
    BY <1>1, <1>2, <1>3, <1>4, <1>5, <1>7 DEF Inv, LimitInv
  <2>2. CutOnce' => \A T \in Nat : T >= now' => DueBy(T)' <= T
    BY <1>1, <1>2, <1>4, <1>5, <1>7 DEF Inv, LimitInv
  <2>3. NoCut' => /\ limiter'.last <= now' \/ limiter'.last <= now' - limiter'.tokens
                  /\ \A d \in Downloader : dl'[d].act <= limiter'.last
    BY <1>1, <1>4, <1>5, <1>7 DEF Inv, LimitInv
  <2> QED BY <1>6, <2>1, <2>2, <2>3, Zenon DEF LimitInv
<1>8. CASE ~limited
  BY <1>1, <1>6, <1>8, Zenon DEF LimitInv
<1> QED BY <1>6, <1>7, <1>8

(* A reservation that can be used by T was paid for by then; one that      *)
(* cannot is due later.                                                    *)
LEMMA ReserveLimit ==
    ASSUME Inv, Shape', NEW d \in Downloader, limited, Reserve(d)
    PROVE  LimitInv' /\ TokensInv'
<1> DEFINE n == ReadSize(d)
           tok == limiter.tokens
           owed == Owed(d)
<1>1. /\ dl[d].pc = "loop" /\ dl[d].left > 0 /\ now' = now /\ limited' = limited
      /\ limiter' = [tokens |-> tok - n, last |-> now + owed]
      /\ dl' = [dl EXCEPT ![d] = Reserved(d)]
  BY ReserveSound
<1>2. /\ n \in Nat /\ owed \in Nat /\ tok \in Int /\ now \in Nat /\ tok <= Burst
      /\ owed = (IF n <= tok THEN 0 ELSE n - tok) /\ dl \in [Downloader -> Record]
      /\ Burst \in Nat
  BY <1>1, BandwidthAssumption, ReadSizeSound, OwedSound DEF Inv, Shape, TokensInv
<1>3. limiter'.tokens = tok - n /\ limiter'.last = now + owed
  BY <1>1
<1> HIDE DEF n, owed, tok
<1>4. /\ dl'[d].n = n /\ dl'[d].act = now + owed /\ dl'[d].got = dl[d].got
      /\ dl'[d].end = "none" /\ dl[d].end = "none"
      /\ dl'[d].pc = IF owed = 0 THEN "read" ELSE "wait"
      /\ dl[d].got \in Nat
      /\ \A c \in Downloader \ {d} : dl'[c] = dl[c]
  <2>1. dl[d].end = "none"
    BY <1>1 DEF Inv, ProgressInv, Progress
  <2> QED BY <1>1, <1>2, <2>1 DEF Reserved, Record, n, owed
<1>5. /\ Claimed' = Claimed - ClaimOf(d) + ClaimOf(d)'
      /\ \A T \in Nat : /\ DueBy(T)' = DueBy(T) - DueOf(d, T) + DueOf(d, T)'
                        /\ Missing(T)' = Missing(T) - MissOf(d, T) + MissOf(d, T)'
  BY <1>4, OneChange DEF Inv
<1>6. Claimed \in Nat /\ \A T \in Nat : DueBy(T) \in Nat /\ Missing(T) \in Nat
  BY SumsInt DEF Inv
<1>7. Claimed' = Claimed + n
  <2>1. ClaimOf(d) = dl[d].got /\ ClaimOf(d)' = dl[d].got + n
    BY <1>1, <1>4 DEF ClaimOf
  <2> QED BY <1>2, <1>4, <1>5, <1>6, <2>1
<1>8. ASSUME NEW T \in Nat, T >= now
      PROVE  /\ DueBy(T)' = DueBy(T) + IF now + owed <= T THEN n ELSE 0
             /\ Missing(T)' = Missing(T) + IF now + owed <= T THEN 0 ELSE n
  <2>1. DueOf(d, T) = dl[d].got
        /\ DueOf(d, T)' = dl[d].got + IF now + owed <= T THEN n ELSE 0
    BY <1>1, <1>2, <1>4, <1>8 DEF DueOf
  <2>2. MissOf(d, T) = 0 /\ MissOf(d, T)' = IF now + owed <= T THEN 0 ELSE n
    BY <1>1, <1>2, <1>4, <1>8 DEF MissOf
  <2>3. /\ DueBy(T)' = DueBy(T) - DueOf(d, T) + DueOf(d, T)'
        /\ Missing(T)' = Missing(T) - MissOf(d, T) + MissOf(d, T)'
    BY <1>5
  <2>4. DueBy(T) \in Nat /\ Missing(T) \in Nat
    BY <1>6
  <2> QED BY <1>2, <1>4, <2>1, <2>2, <2>3, <2>4
<1>9. TokensInv'
  <2>1. ASSUME NEW T \in Nat, T >= now
        PROVE  (T - now) + (tok - n) + Missing(T)' >= 0
    <3>1. (T - now) + tok + Missing(T) >= 0 /\ Missing(T) \in Nat
      BY <1>6, <2>1 DEF Inv, TokensInv, tok
    <3> QED BY <1>2, <1>8, <2>1, <3>1
  <2>2. tok - n <= Burst
    BY <1>2
  <2> QED BY <1>1, <1>3, <2>1, <2>2 DEF TokensInv
<1>10. (CutOnce' => CutOnce) /\ (NoCut' => NoCut)
  BY <1>4, StillCutOnce
<1>11. CutOnce' => Claimed' + limiter'.tokens <= now'
  <2>1. CutOnce => Claimed + tok <= now
    BY DEF Inv, LimitInv, tok
  <2> QED BY <1>1, <1>2, <1>3, <1>6, <1>7, <1>10, <2>1
<1>12. ASSUME CutOnce', NEW T \in Nat, T >= now' PROVE DueBy(T)' <= T
  <2>1. DueBy(T) <= T /\ Claimed + tok <= now /\ T >= now
    BY <1>1, <1>10, <1>12 DEF Inv, LimitInv, tok
  <2>2. DueBy(T) <= Claimed
    <3> DEFINE f == [c \in Downloader |-> DueOf(c, T)]
               g == [c \in Downloader |-> ClaimOf(c)]
    <3>1. \A c \in Downloader : f[c] <= g[c] /\ f[c] \in Int /\ g[c] \in Int
      BY <1>2 DEF Record, DueOf, ClaimOf
    <3> HIDE DEF f, g
    <3>2. Sum(f, Downloader) <= Sum(g, Downloader)
      BY <3>1, FiniteDownloads, SumMonotone DEF Ints
    <3> QED BY <3>2 DEF DueBy, Claimed, f, g
  <2>3. DueBy(T) \in Nat
    BY <1>6
  <2> QED BY <1>2, <1>6, <1>8, <2>1, <2>2, <2>3
<1>13. NoCut' => /\ limiter'.last <= now' \/ limiter'.last <= now' - limiter'.tokens
                 /\ \A c \in Downloader : dl'[c].act <= limiter'.last
  <2> SUFFICES ASSUME NoCut'
               PROVE  /\ now + owed <= now \/ now + owed <= now - (tok - n)
                      /\ \A c \in Downloader : dl'[c].act <= now + owed
    BY <1>1, <1>3
  <2>1. /\ limiter.last <= now \/ limiter.last <= now - tok
        /\ \A c \in Downloader : dl[c].act <= limiter.last
        /\ limiter.last \in Nat
    BY <1>10 DEF Inv, LimitInv, Shape, tok
  <2>2. limiter.last <= now + owed
    BY <1>2, <2>1
  <2>3. ASSUME NEW c \in Downloader PROVE dl'[c].act <= now + owed
    <3>1. CASE c = d
      BY <1>2, <1>4, <3>1
    <3>2. CASE c # d
      <4>1. dl'[c] = dl[c] /\ dl[c].act \in Nat /\ dl[c].act <= limiter.last
        BY <1>2, <1>4, <2>1, <3>2 DEF Record
      <4> QED BY <1>2, <2>1, <2>2, <4>1
    <3> QED BY <3>1, <3>2
  <2> QED BY <1>2, <2>3
<1> QED BY <1>9, <1>11, <1>12, <1>13, Zenon DEF LimitInv

(* The first wait to be cut off gets no more than it reserved.             *)
LEMMA CutLimit ==
    ASSUME Inv, Shape', NEW d \in Downloader, WaitCancelled(d)
    PROVE  LimitInv' /\ TokensInv'
<1>1. /\ dl[d].pc = "wait" /\ now' = now /\ limited' = limited
      /\ limiter' = Refund(d)
      /\ dl' = [dl EXCEPT ![d] = [dl[d] EXCEPT !.pc = "tally", !.end = "cut"]]
  BY DEF WaitCancelled, Becomes, Ends, options
<1>2. /\ Burst \in Nat /\ now \in Nat /\ limiter.tokens \in Int /\ limiter.tokens <= Burst
      /\ limited \in BOOLEAN /\ limited /\ dl[d].end = "none"
      /\ dl \in [Downloader -> Record]
      /\ dl[d].n \in Nat /\ dl[d].act \in Nat /\ dl[d].got \in Nat
  BY <1>1, BandwidthAssumption DEF Inv, Shape, ProgressInv, Progress, TokensInv, Record
<1>3. /\ limiter'.tokens \in Int /\ limiter.tokens <= limiter'.tokens
      /\ limiter'.tokens <= Burst
      /\ dl[d].act <= limiter.last => limiter'.tokens <= limiter.tokens + dl[d].n
  BY <1>1, <1>2, RefundSound DEF Inv
<1>4. /\ dl'[d].n = dl[d].n /\ dl'[d].act = dl[d].act /\ dl'[d].got = dl[d].got
      /\ dl'[d].end = "cut" /\ dl'[d].pc = "tally"
      /\ \A c \in Downloader \ {d} : dl'[c] = dl[c]
  BY <1>1, <1>2 DEF Record
<1>5. /\ Claimed' = Claimed - ClaimOf(d) + ClaimOf(d)'
      /\ \A T \in Nat : /\ DueBy(T)' = DueBy(T) - DueOf(d, T) + DueOf(d, T)'
                        /\ Missing(T)' = Missing(T) - MissOf(d, T) + MissOf(d, T)'
  BY <1>4, OneChange DEF Inv
<1>6. Claimed \in Nat /\ \A T \in Nat : DueBy(T) \in Nat /\ Missing(T) \in Nat
  BY SumsInt DEF Inv
<1>7. Claimed' = Claimed - dl[d].n
  <2>1. ClaimOf(d) = dl[d].got + dl[d].n /\ ClaimOf(d)' = dl[d].got
    BY <1>1, <1>2, <1>4 DEF ClaimOf
  <2> QED BY <1>2, <1>5, <1>6, <2>1
<1>8. ASSUME NEW T \in Nat
      PROVE  DueBy(T)' <= DueBy(T) /\ Missing(T)' >= Missing(T)
             /\ DueBy(T)' \in Int /\ Missing(T)' \in Int
  <2>1. DueOf(d, T) \in Int /\ DueOf(d, T)' \in Int /\ DueOf(d, T)' <= DueOf(d, T)
    BY <1>1, <1>2, <1>4 DEF DueOf
  <2>2. MissOf(d, T) \in Int /\ MissOf(d, T)' \in Int /\ MissOf(d, T) <= MissOf(d, T)'
    BY <1>1, <1>2, <1>4 DEF MissOf
  <2>3. /\ DueBy(T)' = DueBy(T) - DueOf(d, T) + DueOf(d, T)'
        /\ Missing(T)' = Missing(T) - MissOf(d, T) + MissOf(d, T)'
        /\ DueBy(T) \in Nat /\ Missing(T) \in Nat
    BY <1>5, <1>6
  <2> QED BY <2>1, <2>2, <2>3
<1>9. TokensInv'
  <2>1. ASSUME NEW T \in Nat, T >= now
        PROVE  (T - now) + limiter'.tokens + Missing(T)' >= 0
    <3>1. (T - now) + limiter.tokens + Missing(T) >= 0 /\ Missing(T) \in Nat
      BY <1>6, <2>1 DEF Inv, TokensInv
    <3>2. Missing(T)' >= Missing(T) /\ Missing(T)' \in Int
      BY <1>8
    <3> QED BY <1>2, <1>3, <2>1, <3>1, <3>2
  <2> QED BY <1>1, <1>3, <2>1 DEF TokensInv
<1>10. (CutOnce' => NoCut) /\ ~NoCut'
  BY <1>2, <1>4 DEF CutOnce, NoCut
<1>11. NoCut => CutOnce
  BY DEF NoCut, CutOnce
<1>12. ASSUME CutOnce' PROVE Claimed' + limiter'.tokens <= now'
  <2>1. Claimed + limiter.tokens <= now /\ dl[d].act <= limiter.last
    BY <1>2, <1>10, <1>11, <1>12 DEF Inv, LimitInv
  <2> QED BY <1>1, <1>2, <1>3, <1>6, <1>7, <2>1
<1>13. ASSUME CutOnce', NEW T \in Nat, T >= now' PROVE DueBy(T)' <= T
  <2>1. DueBy(T) <= T
    BY <1>1, <1>2, <1>10, <1>11, <1>13 DEF Inv, LimitInv
  <2> QED BY <1>6, <1>8, <2>1
<1> QED BY <1>9, <1>10, <1>12, <1>13, Zenon DEF LimitInv

(* Every step keeps the limit.                                             *)
LEMMA LimitStep == ASSUME Inv, [Next]_vars PROVE LimitInv' /\ TokensInv'
<1>1. CASE Tick
  BY <1>1, TickLimit
<1>2. CASE \E d \in Downloader : limited /\ Reserve(d)
  BY <1>2, ShapeStep, ReserveLimit
<1>3. CASE \E d \in Downloader : WaitCancelled(d)
  BY <1>3, ShapeStep, CutLimit
<1>4. CASE ~Tick /\ \A d \in Downloader : ~(limited /\ Reserve(d)) /\ ~WaitCancelled(d)
  BY <1>4, ShapeStep, CalmSteps, CalmLimit
<1> QED BY <1>1, <1>2, <1>3, <1>4

-----------------------------------------------------------------------------
(* The result *)

(* Only Tally changes what was tallied.                                    *)
LEMMA TalliedFixed ==
    ASSUME Inv, [Next]_vars, \A d \in Downloader : ~Tally(d)
    PROVE  /\ Tallied' = Tallied
           /\ \A d \in Downloader : /\ dl'[d].pc = "over" <=> dl[d].pc = "over"
                                    /\ dl[d].pc = "over" => dl'[d] = dl[d]
<1> DEFINE Kept == \A d \in Downloader :
                      /\ dl'[d].pc = "over" <=> dl[d].pc = "over"
                      /\ dl[d].pc = "over" => dl'[d] = dl[d]
<1>1. dl \in [Downloader -> Record]
  BY DEF Inv, Shape
<1>2. ASSUME NEW c \in Downloader, NEW r, dl' = [dl EXCEPT ![c] = r],
             r.pc # "over", dl[c].pc # "over"
      PROVE  Kept
  BY <1>1, <1>2
<1>3. ASSUME dl' = dl PROVE Kept
  BY <1>3
<1> HIDE DEF Kept
<1>4. ASSUME UNCHANGED vars \/ Tick PROVE Kept
  BY <1>3, <1>4 DEF vars, Tick
<1>5. ASSUME NEW t \in Test, Return(t) \/ CtxOver(t) PROVE Kept
  BY <1>3, <1>5 DEF Return, CtxOver
<1>6. ASSUME NEW t \in Test, Start(t) PROVE Kept
  BY <1>1, <1>6 DEF Start, Kept, Record
<1>7. ASSUME NEW c \in Downloader, Response(c) PROVE Kept
  <2>1. /\ dl[c].pc = "do"
        /\ dl' = [dl EXCEPT ![c] = [dl[c] EXCEPT !.pc = "loop", !.left = Chunk(TestOf[c])]]
        /\ [dl[c] EXCEPT !.pc = "loop", !.left = Chunk(TestOf[c])].pc = "loop"
    BY <1>1, <1>7 DEF Response, Becomes, Record
  <2> QED BY <1>2, <2>1
<1>8. ASSUME NEW c \in Downloader, NEW e,
             dl[c].pc # "over", dl' = [dl EXCEPT ![c] = Ends(c, e)]
      PROVE  Kept
  <2>1. Ends(c, e).pc = "tally"
    BY <1>1 DEF Ends, Record
  <2> QED BY <1>2, <1>8, <2>1
<1>9. ASSUME NEW c \in Downloader, NoResponse(c) \/ CopyFull(c) \/ WaitCancelled(c)
      PROVE  Kept
  <2>1. CASE NoResponse(c)
    BY <1>8, <2>1 DEF NoResponse, Becomes
  <2>2. CASE CopyFull(c)
    BY <1>8, <2>2 DEF CopyFull, Becomes
  <2>3. CASE WaitCancelled(c)
    BY <1>8, <2>3 DEF WaitCancelled, Becomes
  <2> QED BY <1>9, <2>1, <2>2, <2>3
<1>10. ASSUME NEW c \in Downloader, Reserve(c) PROVE Kept
  <2>1. /\ Reserved(c).pc # "over" /\ dl[c].pc = "loop"
        /\ [dl[c] EXCEPT !.n = ReadSize(c), !.pc = "read"].pc = "read"
    BY ZenonT(30), <1>1, <1>10, ReserveSound DEF Reserved, Record
  <2> QED BY <1>2, <1>10, <2>1, ReserveSound
<1>11. ASSUME NEW c \in Downloader, WaitOver(c) PROVE Kept
  <2>1. /\ dl[c].pc = "wait" /\ dl' = [dl EXCEPT ![c] = [dl[c] EXCEPT !.pc = "read"]]
        /\ [dl[c] EXCEPT !.pc = "read"].pc = "read"
    BY <1>1, <1>11 DEF WaitOver, Becomes, Record
  <2> QED BY <1>2, <2>1
<1>12. ASSUME NEW c \in Downloader, NEW nr \in 0..Burst,
              NEW er \in {"none", "eof", "err"}, Read(c, nr, er)
       PROVE  Kept
  <2> DEFINE r == [dl[c] EXCEPT !.got = @ + nr, !.left = @ - nr, !.end = er,
                               !.pc = IF er = "none" THEN "loop" ELSE "tally"]
  <2>1. dl[c].pc = "read" /\ dl' = [dl EXCEPT ![c] = r] /\ r.pc # "over"
    BY <1>1, <1>12 DEF Read, Becomes, Record
  <2> QED BY <1>2, <2>1
<1>13. Kept
  BY StepCases, <1>4, <1>5, <1>6, <1>7, <1>9, <1>10, <1>11, <1>12
<1> QED BY <1>13 DEF Kept, Tallied

(* Every step keeps the results true.                                      *)
LEMMA ResultStep == ASSUME Inv, [Next]_vars PROVE ResultInv'
<1>1. /\ dl \in [Downloader -> Record] /\ run \in [Test -> Run]
      /\ \A t \in Test : ResultAt(t)
      /\ \A t \in Test : Of(t) \in SUBSET Downloader
  BY DEF Inv, Shape, ResultInv, ResultAt, Of
<1> SUFFICES \A t \in Test : ResultAt(t)'
  BY DEF ResultInv, ResultAt
<1>2. CASE \A d \in Downloader : ~Tally(d)
  <2>1. /\ Tallied' = Tallied
        /\ \A d \in Downloader : /\ dl'[d].pc = "over" <=> dl[d].pc = "over"
                                 /\ dl[d].pc = "over" => dl'[d] = dl[d]
    BY <1>2, TalliedFixed
  <2>2. ASSUME NEW t \in Test, run'[t] = run[t] PROVE ResultAt(t)'
    <3>1. Sum(Tallied, Of(t))' = Sum(Tallied, Of(t))
      BY <2>1, Zenon DEF Of
    <3>2. \A d \in Of(t) : dl[d].pc = "over" => /\ dl'[d].pc = "over"
                                                /\ Failed(d)' = Failed(d)
      BY <1>1, <2>1 DEF Failed
    <3>3. \A d \in Of(t) : dl'[d].pc = "over" => dl[d].pc = "over"
      BY <1>1, <2>1
    <3>4. ResultAt(t) /\ Of(t)' = Of(t)
      BY <1>1 DEF Of
    <3> QED BY <2>2, <3>1, <3>2, <3>3, <3>4 DEF ResultAt
  <2>3. ASSUME NEW t \in Test, Return(t), NEW u \in Test PROVE ResultAt(u)'
    <3>1. CASE u # t
      BY <1>1, <2>2, <2>3, <3>1 DEF Return
    <3>2. CASE u = t
      <4>1. /\ run'[t].total = run[t].total /\ run'[t].failed = run[t].failed
            /\ run'[t].result = (IF run[t].total = 0 THEN "err" ELSE "ok")
            /\ dl' = dl /\ \A d \in Of(t) : dl[d].pc = "over"
        BY <1>1, <2>3 DEF Return, Run
      <4>2. ResultAt(t)
        BY <1>1
      <4>3. Sum(Tallied, Of(t))' = Sum(Tallied, Of(t)) /\ Of(t)' = Of(t)
        BY <2>1, Zenon DEF Of
      <4>4. \A d : Failed(d)' = Failed(d)
        BY <4>1 DEF Failed
      <4> QED BY <3>2, <4>1, <4>2, <4>3, <4>4 DEF ResultAt
    <3> QED BY <3>1, <3>2
  <2>4. ASSUME NEW t \in Test, CtxOver(t), NEW u \in Test PROVE ResultAt(u)'
    <3>1. CASE u # t
      BY <1>1, <2>2, <2>4, <3>1 DEF CtxOver
    <3>2. CASE u = t
      <4>1. /\ run'[t].total = run[t].total /\ run'[t].failed = run[t].failed
            /\ run'[t].result = run[t].result /\ dl' = dl
        BY <1>1, <2>4 DEF CtxOver, Run
      <4>2. ResultAt(t)
        BY <1>1
      <4>3. Sum(Tallied, Of(t))' = Sum(Tallied, Of(t)) /\ Of(t)' = Of(t)
        BY <2>1, Zenon DEF Of
      <4>4. \A d : Failed(d)' = Failed(d)
        BY <4>1 DEF Failed
      <4> QED BY <3>2, <4>1, <4>2, <4>3, <4>4 DEF ResultAt
    <3> QED BY <3>1, <3>2
  <2>5. CASE run' = run
    BY <2>2, <2>5
  <2>6. CASE run' # run
    <3>1. \/ \E t \in Test : Return(t) \/ CtxOver(t)
      BY <1>2, <2>6, StepCases, ReserveSound DEF vars, Tick, Start, Response, NoResponse, CopyFull,
         WaitOver, WaitCancelled, Read
    <3> QED BY <2>3, <2>4, <3>1
  <2> QED BY <2>5, <2>6
<1>3. ASSUME NEW c \in Downloader, Tally(c), NEW t \in Test PROVE ResultAt(t)'
  <2>1. /\ dl[c].pc = "tally" /\ dl' = [dl EXCEPT ![c] = [dl[c] EXCEPT !.pc = "over"]]
        /\ run' = [run EXCEPT ![TestOf[c]].total  = @ + dl[c].got,
                              ![TestOf[c]].failed = @ \/ Failed(c)]
        /\ TestOf[c] \in Test
    BY <1>3, BandwidthAssumption DEF Tally, Becomes
  <2>2. /\ dl'[c].pc = "over" /\ dl'[c].got = dl[c].got /\ dl'[c].end = dl[c].end
        /\ dl[c].got \in Nat
        /\ \A d \in Downloader \ {c} : dl'[d] = dl[d]
    BY <1>1, <2>1 DEF Record
  <2>3. \A d \in Downloader : /\ Tallied[d] = IF dl[d].pc = "over" THEN dl[d].got ELSE 0
                              /\ Tallied'[d] = IF dl'[d].pc = "over" THEN dl'[d].got ELSE 0
    BY DEF Tallied
  <2>4. /\ \A d \in Downloader : Tallied[d] \in Int /\ Tallied'[d] \in Int
        /\ Tallied[c] = 0 /\ Tallied'[c] = dl[c].got
        /\ \A d \in Downloader \ {c} : Tallied'[d] = Tallied[d]
    BY <1>1, <2>1, <2>2, <2>3 DEF Record
  <2>5. ResultAt(t) /\ IsFiniteSet(Of(t)) /\ Of(t)' = Of(t)
    BY <1>1, FiniteDownloads DEF Of
  <2>6. \A d \in Downloader : Failed(d)' = Failed(d)
    BY <2>2 DEF Failed
  <2>7. CASE t = TestOf[c]
    <3>1. c \in Of(t)
      BY <2>7 DEF Of
    <3>2. Sum(Tallied', Of(t)) = Sum(Tallied, Of(t)) - Tallied[c] + Tallied'[c]
      BY <1>1, <2>4, <2>5, <3>1, SumChange DEF Ints
    <3>3. /\ run'[t].total = run[t].total + dl[c].got
          /\ run'[t].failed = (run[t].failed \/ Failed(c))
          /\ run'[t].result = run[t].result
          /\ run[t].total \in Nat
      BY <1>1, <2>1, <2>7 DEF Run
    <3>4. run[t].result = "none"
      BY <2>1, <2>5, <3>1 DEF ResultAt
    <3>5. Sum(Tallied, Of(t))' = run'[t].total
      BY <2>2, <2>4, <2>5, <3>2, <3>3 DEF ResultAt
    <3>6. ASSUME NEW d \in Of(t), dl'[d].pc = "over", Failed(d)' PROVE run'[t].failed
      <4>1. CASE d = c
        BY <2>6, <3>3, <3>6, <4>1
      <4>2. CASE d # c
        <5>1. dl[d].pc = "over" /\ Failed(d)
          BY <1>1, <2>2, <2>6, <3>6, <4>2
        <5> QED BY <2>5, <3>3, <5>1 DEF ResultAt
      <4> QED BY <4>1, <4>2
    <3> QED BY <2>5, <3>3, <3>4, <3>5, <3>6 DEF ResultAt
  <2>8. CASE t # TestOf[c]
    <3>1. run'[t] = run[t] /\ c \notin Of(t)
      BY <1>1, <2>1, <2>8 DEF Of
    <3>2. Sum(Tallied, Of(t)) = Sum(Tallied', Of(t))
      BY <1>1, <2>4, <2>5, <3>1, SumSame DEF Ints
    <3>3. \A d \in Of(t) : dl'[d] = dl[d] /\ Failed(d)' = Failed(d)
      BY <1>1, <2>2, <2>6, <3>1
    <3> QED BY <2>5, <3>1, <3>2, <3>3 DEF ResultAt
  <2> QED BY <2>7, <2>8
<1> QED BY <1>2, <1>3

-----------------------------------------------------------------------------
(* The invariant *)

(* The initial state satisfies it.                                         *)
LEMMA InitInv == ASSUME Init PROVE Inv
<1> USE DEF Init
<1>1. /\ now = 0 /\ size \in Size /\ size \in Nat /\ limited \in BOOLEAN /\ MaxTime \in Nat
      /\ Burst \in Nat
      /\ limiter = [tokens |-> 0, last |-> 0]
      /\ dl \in [Downloader -> Record] /\ run \in [Test -> Run]
      /\ \A d \in Downloader : /\ dl[d].pc = "idle" /\ dl[d].left = 0 /\ dl[d].n = 0
                               /\ dl[d].act = 0 /\ dl[d].got = 0 /\ dl[d].end = "none"
      /\ \A t \in Test : run[t].total = 0 /\ run[t].result = "none"
  BY BandwidthAssumption DEF NewLimiter, Record, Run, Pc, End
<1> HIDE DEF Init
<1>2. Shape /\ Bounds
  BY <1>1 DEF Shape, Bounds
<1>3. ProgressInv
  BY <1>1 DEF ProgressInv, Progress
<1>4. ASSUME NEW S \in SUBSET Downloader, NEW f, \A d \in S : f[d] = 0
      PROVE  Sum(f, S) = 0
  <2>1. IsFiniteSet(S) /\ Cardinality(S) \in Nat
    BY FiniteDownloads, FS_Subset, FS_CardinalityType
  <2>2. Sum(f, S) \in Nat /\ Sum(f, S) <= 0 * Cardinality(S)
    BY <1>4, <2>1, SumNat, SumBounded DEF Ints
  <2> QED BY <2>1, <2>2
<1>5. Claimed = 0 /\ \A T \in Nat : DueBy(T) = 0 /\ Missing(T) = 0
  <2>1. Claimed = 0
    <3> DEFINE f == [d \in Downloader |-> ClaimOf(d)]
    <3>1. \A d \in Downloader : f[d] = 0
      BY <1>1 DEF ClaimOf
    <3> HIDE DEF f
    <3>2. Sum(f, Downloader) = 0
      BY <1>4, <3>1
    <3> QED BY <3>2 DEF Claimed, f
  <2>2. ASSUME NEW T \in Nat PROVE DueBy(T) = 0
    <3> DEFINE f == [d \in Downloader |-> DueOf(d, T)]
    <3>1. \A d \in Downloader : f[d] = 0
      BY <1>1 DEF DueOf
    <3> HIDE DEF f
    <3>2. Sum(f, Downloader) = 0
      BY <1>4, <3>1
    <3> QED BY <3>2 DEF DueBy, f
  <2>3. ASSUME NEW T \in Nat PROVE Missing(T) = 0
    <3> DEFINE f == [d \in Downloader |-> MissOf(d, T)]
    <3>1. \A d \in Downloader : f[d] = 0
      BY <1>1 DEF MissOf
    <3> HIDE DEF f
    <3>2. Sum(f, Downloader) = 0
      BY <1>4, <3>1
    <3> QED BY <3>2 DEF Missing, f
  <2> QED BY <2>1, <2>2, <2>3
<1>6. LimitInv
  BY <1>1, <1>5 DEF LimitInv
<1>7. TokensInv
  BY <1>1, <1>5 DEF TokensInv
<1>8. ResultInv
  <2> SUFFICES ASSUME NEW t \in Test
               PROVE  Sum(Tallied, Of(t)) = 0 /\ \A d \in Of(t) : dl[d].pc # "over"
    BY <1>1 DEF ResultInv, ResultAt
  <2>1. Of(t) \in SUBSET Downloader
    BY DEF Of
  <2>2. \A d \in Of(t) : Tallied[d] = 0
    BY <1>1, <2>1 DEF Tallied
  <2> QED BY <1>1, <1>4, <2>1, <2>2
<1> QED BY <1>2, <1>3, <1>6, <1>7, <1>8 DEF Inv

(* The clock and the size keep their bounds.                               *)
LEMMA BoundsStep == ASSUME Inv, [Next]_vars PROVE Bounds'
<1>1. now' = now \/ (now' = now + 1 /\ now < MaxTime)
  <2>1. CASE \E d \in Downloader : Reserve(d)
    BY <2>1, ReserveSound
  <2>2. CASE ~\E d \in Downloader : Reserve(d)
    BY <2>2, StepCases DEF Tick, Start, Return, CtxOver, Response, NoResponse,
       CopyFull, WaitOver, WaitCancelled, Tally, Read, Becomes, vars
  <2> QED BY <2>1, <2>2
<1>2. now \in Nat /\ MaxTime \in Nat
  BY BandwidthAssumption DEF Inv, Shape
<1> QED BY <1>1, <1>2, OptionsFixed DEF Inv, Bounds

(* Inv is an invariant.                                                    *)
THEOREM Invariance == Spec => []Inv
<1>1. Inv /\ [Next]_vars => Inv'
  BY ShapeStep, ProgressStep, LimitStep, ResultStep, BoundsStep DEF Inv
<1> QED BY InitInv, <1>1, PTL DEF Spec

-----------------------------------------------------------------------------
(* What follows *)

(* TypeOK: the tokens never fall below what Downloader buffers take, since *)
(* at any time only waits still going on and cut-off ones are owed.        *)
THEOREM Typed == Spec => []TypeOK
<1>1. ASSUME Inv PROVE TypeOK
  <2>1. /\ now \in Nat /\ MaxTime \in Nat /\ now <= MaxTime /\ size \in Size
        /\ size \in Nat /\ limited \in BOOLEAN /\ Burst \in Nat
        /\ limiter.tokens \in Int /\ limiter.last \in Nat /\ limiter.tokens <= Burst
        /\ dl \in [Downloader -> Record] /\ run \in [Test -> Run]
        /\ \A d \in Downloader : dl[d].n <= Burst /\ dl[d].got <= size
    BY <1>1, BandwidthAssumption DEF Inv, Shape, Bounds, TokensInv, ProgressInv, Progress
  <2>2. limiter.tokens >= -(Burst * Cardinality(Downloader))
    <3> DEFINE f == [d \in Downloader |-> MissOf(d, now)]
    <3>1. \A d \in Downloader : f[d] \in Int /\ f[d] <= Burst
      BY <2>1 DEF MissOf, Record
    <3> HIDE DEF f
    <3>2. Sum(f, Downloader) <= Burst * Cardinality(Downloader)
      BY <2>1, <3>1, FiniteDownloads, SumBounded DEF Ints
    <3>3. Missing(now) <= Burst * Cardinality(Downloader)
      BY <3>2 DEF Missing, f
    <3>4. Missing(now) \in Nat
      BY <1>1, <2>1, SumsInt DEF Inv
    <3>5. (now - now) + limiter.tokens + Missing(now) >= 0
      BY <1>1, <2>1 DEF Inv, TokensInv
    <3>6. Burst * Cardinality(Downloader) \in Int
      BY <2>1, FiniteDownloads, FS_CardinalityType
    <3> DEFINE B == Burst * Cardinality(Downloader)
    <3> HIDE DEF B
    <3>7. limiter.tokens >= -B
      BY <2>1, <3>3, <3>4, <3>5, <3>6 DEF B
    <3> QED BY <3>7 DEF B
  <2>3. dl \in [Downloader -> [pc : Pc, left : Nat, n : 0..Burst, act : Nat,
                               got : 0..size, end : End]]
    <3>1. \A d \in Downloader : dl[d] \in [pc : Pc, left : Nat, n : 0..Burst,
                                           act : Nat, got : 0..size, end : End]
      BY <2>1 DEF Record
    <3> QED BY <2>1, <3>1
  <2>4. limiter.tokens \in -(Burst * Cardinality(Downloader))..Burst
    <3>1. -(Burst * Cardinality(Downloader)) \in Int
      BY <2>1, FiniteDownloads, FS_CardinalityType
    <3> DEFINE B == -(Burst * Cardinality(Downloader))
    <3> HIDE DEF B
    <3>2. limiter.tokens \in B..Burst
      BY <2>1, <2>2, <3>1 DEF B
    <3> QED BY <3>2 DEF B
  <2> QED BY <2>1, <2>3, <2>4 DEF TypeOK, Pc, End, Run
<1> QED BY Invariance, <1>1, PTL

(* The limiter keeps the rate for any number of tests and downloads, as    *)
(* long as at most one wait was cut off.                                   *)
THEOREM LimitKept == Spec => []RateKept
<1>1. ASSUME Inv, limited, CutOnce PROVE Received(Downloader) <= now
  <2>1. now \in Nat /\ dl \in [Downloader -> Record]
    BY <1>1 DEF Inv, Shape
  <2>2. DueBy(now) <= now
    BY <1>1, <2>1 DEF Inv, LimitInv
  <2> DEFINE f == [d \in Downloader |-> dl[d].got]
             g == [d \in Downloader |-> DueOf(d, now)]
  <2>3. \A d \in Downloader : f[d] \in Int /\ g[d] \in Int /\ f[d] <= g[d]
    BY <2>1 DEF DueOf, Record
  <2>4. Received(Downloader) = Sum(f, Downloader) /\ DueBy(now) = Sum(g, Downloader)
    BY DEF Received, DueBy, Sum
  <2> HIDE DEF f, g
  <2>5. Sum(f, Downloader) <= Sum(g, Downloader)
    BY <2>3, FiniteDownloads, SumMonotone DEF Ints
  <2>6. Sum(f, Downloader) \in Int /\ Sum(g, Downloader) \in Int
    BY <2>3, FiniteDownloads, SumInt DEF Ints
  <2> QED BY <2>1, <2>2, <2>4, <2>5, <2>6
<1>2. Inv => RateKept
  BY <1>1, Zenon DEF RateKept
<1> QED BY Invariance, <1>2, PTL

(* A result tells what was received, and what an error without any byte is *)
(* due to.                                                                 *)
THEOREM ResultsTrue == Spec => []ResultTrue
<1>1. ASSUME Inv, NEW t \in Test, run[t].result # "none"
      PROVE  /\ run[t].total = Received(Of(t))
             /\ run[t].result = "ok" <=> Received(Of(t)) > 0
             /\ run[t].result = "err" =>
                   \/ run[t].failed
                   \/ \A d \in Of(t) : dl[d].end = "eof"
                   \/ size < Cardinality(Of(t))
  <2>1. /\ dl \in [Downloader -> Record] /\ run[t] \in Run
        /\ Of(t) \in SUBSET Downloader /\ IsFiniteSet(Of(t))
        /\ \A d \in Of(t) : TestOf[d] = t
    BY <1>1, FiniteDownloads DEF Inv, Shape, Of
  <2>2. /\ run[t].total = Sum(Tallied, Of(t))
        /\ \A d \in Of(t) : dl[d].pc = "over"
        /\ run[t].result = "err" <=> run[t].total = 0
        /\ \A d \in Of(t) : Failed(d) => run[t].failed
    BY <1>1 DEF Inv, ResultInv, ResultAt
  <2> DEFINE f == [d \in Downloader |-> dl[d].got]
  <2>3. \A d \in Of(t) : f[d] \in Nat /\ Tallied[d] = f[d] /\ f[d] = dl[d].got
    BY <2>1, <2>2 DEF Tallied, Record
  <2>4. Received(Of(t)) = Sum(f, Of(t))
    BY DEF Received, Sum
  <2> HIDE DEF f
  <2>5. Sum(Tallied, Of(t)) = Sum(f, Of(t))
    BY <2>1, <2>3, SumSame DEF Ints
  <2>6. Sum(f, Of(t)) \in Nat /\ \A d \in Of(t) : f[d] <= Sum(f, Of(t))
    BY <2>1, <2>3, SumNat
  <2>7. run[t].result \in {"ok", "err"}
    BY <1>1, <2>1 DEF Run
  <2>8. ASSUME run[t].result = "err", ~run[t].failed,
               NEW d \in Of(t), dl[d].end # "eof"
        PROVE  size < Cardinality(Of(t))
    <3>1. dl[d].end = "full"
      BY <1>1, <2>1, <2>2, <2>8 DEF Inv, ProgressInv, Progress, Record, End, Failed
    <3>2. dl[d].got = Chunk(TestOf[d]) /\ dl[d].got = 0
      BY <1>1, <2>1, <2>2, <2>3, <2>5, <2>6, <2>8, <3>1 DEF Inv, ProgressInv, Progress
    <3> QED BY <1>1, <2>1, <3>2, ChunkSound DEF Inv
  <2> QED BY <2>2, <2>4, <2>5, <2>6, <2>7, <2>8
<1>2. Inv => ResultTrue
  BY <1>1 DEF ResultTrue
<1> QED BY Invariance, <1>2, PTL
=============================================================================
