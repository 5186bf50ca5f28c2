------------------------------ MODULE Bandwidth ------------------------------
(***************************************************************************)
(* testBandwidth and copyLimitedN of speedtest/utils.go under the          *)
(* BandwidthLimiter of models/speedtest.go.  Every test of a Test          *)
(* downloads with several goroutines at once; all of them, of all nodes,   *)
(* share the one limiter that NewTest made.                                *)
(*                                                                         *)
(* The unit of time is the one in which the limit allows one unit of data, *)
(* the unit of data what makes bufSize (the limiter's burst) Burst units.  *)
(* The bucket is golang.org/x/time/rate.                                   *)
(***************************************************************************)
EXTENDS Integers, FiniteSets, FiniteSetsExt

CONSTANTS
    Test,           \* the nodes under test
    Downloader,     \* the download goroutines, ...
    TestOf,         \* ... and the node each is of
    Size,           \* the values options.DownloadSize may have
    Burst,          \* bufSize and bandwidthBurstBytes
    MaxTime         \* bound on the clock

ASSUME BandwidthAssumption ==
    /\ TestOf \in [Downloader -> Test]
    /\ IsFiniteSet(Downloader)
    /\ Size \subseteq Nat \ {0} /\ Burst \in Nat \ {0} /\ MaxTime \in Nat

VARIABLES
    now,            \* the clock
    size,           \* options.DownloadSize
    limited,        \* the limiter is not nil
    limiter,        \* its tokens, and the time of its latest reservation
    dl,             \* Downloader -> its progress
    run             \* Test -> context, downloadErr, totalBytes and outcome

vars    == <<now, size, limited, limiter, dl, run>>
options == <<size, limited>>

Of(t) == {d \in Downloader : TestOf[d] = t}

(* downloadSize / concurrency, in whole bytes.                             *)
Chunk(t) == size \div Cardinality(Of(t))

TypeOK ==
    /\ now \in 0..MaxTime /\ size \in Size /\ limited \in BOOLEAN
    /\ limiter.tokens \in -(Burst * Cardinality(Downloader))..Burst
    /\ limiter.last \in Nat
    /\ dl \in [Downloader ->
         [pc : {"idle", "do", "loop", "wait", "read", "tally", "over"},
          left : Nat,             \* remaining
          n : 0..Burst,           \* readSize
          act : Nat,              \* when the reservation may be used
          got : 0..size,          \* written
          end : {"none", "full", "eof", "err", "cut"}]]   \* cut: ctx.Err()
    /\ run \in [Test -> [over : BOOLEAN, failed : BOOLEAN, total : Nat,
                         result : {"none", "ok", "err"}]]

(* Slip: the bucket is left full.                                          *)
NewLimiterFull == [tokens |-> Burst, last |-> 0]

(* NewBandwidthLimiter drains the initial burst.                           *)
NewLimiter == [tokens |-> 0, last |-> 0]

Init ==
    /\ now = 0 /\ size \in Size /\ limited \in BOOLEAN
    /\ limiter = NewLimiter
    /\ dl = [d \in Downloader |-> [pc |-> "idle", left |-> 0, n |-> 0,
                                   act |-> 0, got |-> 0, end |-> "none"]]
    /\ run = [t \in Test |-> [over |-> FALSE, failed |-> FALSE, total |-> 0,
                              result |-> "none"]]

Tick ==
    /\ now < MaxTime
    /\ now' = now + 1
    /\ limiter' = [limiter EXCEPT !.tokens = Min({Burst, @ + 1})]
    /\ UNCHANGED <<options, dl, run>>

Becomes(d, r) == dl' = [dl EXCEPT ![d] = r] /\ UNCHANGED <<now, options>>
Ends(d, how)  == [dl[d] EXCEPT !.pc = "tally", !.end = how]
Failed(d)     == dl[d].end \in {"err", "cut"}

-----------------------------------------------------------------------------
(* testBandwidth *)

Start(t) ==
    /\ \A d \in Of(t) : dl[d].pc = "idle"
    /\ dl' = [d \in Downloader |-> IF d \in Of(t)
                                   THEN [dl[d] EXCEPT !.pc = "do"] ELSE dl[d]]
    /\ UNCHANGED <<now, options, limiter, run>>

Response(d) ==
    /\ dl[d].pc = "do" /\ ~run[TestOf[d]].over
    /\ Becomes(d, [dl[d] EXCEPT !.pc = "loop", !.left = Chunk(TestOf[d])])
    /\ UNCHANGED <<limiter, run>>

(* client.Do fails, or the status is 400 or more.                          *)
NoResponse(d) ==
    /\ dl[d].pc = "do"
    /\ Becomes(d, Ends(d, "err"))
    /\ UNCHANGED <<limiter, run>>

(* Slip: the bytes of a download that ended in an error are not counted.   *)
TallyIfComplete(d) ==
    /\ dl[d].pc = "tally"
    /\ Becomes(d, [dl[d] EXCEPT !.pc = "over"])
    /\ run' = [run EXCEPT
         ![TestOf[d]].total  = @ + (IF Failed(d) THEN 0 ELSE dl[d].got),
         ![TestOf[d]].failed = @ \/ Failed(d)]
    /\ UNCHANGED limiter

Tally(d) ==
    /\ dl[d].pc = "tally"
    /\ Becomes(d, [dl[d] EXCEPT !.pc = "over"])
    /\ run' = [run EXCEPT ![TestOf[d]].total  = @ + dl[d].got,
                          ![TestOf[d]].failed = @ \/ Failed(d)]
    /\ UNCHANGED limiter

(* wg.Wait(); no byte is an error, whether or not there is a downloadErr.  *)
Return(t) ==
    /\ run[t].result = "none" /\ \A d \in Of(t) : dl[d].pc = "over"
    /\ run' = [run EXCEPT ![t].result = IF run[t].total = 0 THEN "err" ELSE "ok"]
    /\ UNCHANGED <<now, options, limiter, dl>>

-----------------------------------------------------------------------------
(* copyLimitedN *)

CopyFull(d) ==
    /\ dl[d].pc = "loop" /\ dl[d].left = 0
    /\ Becomes(d, Ends(d, "full"))
    /\ UNCHANGED <<limiter, run>>

(* Slip: a whole buffer is asked for and read, whatever remains.           *)
BufSize(d) == Burst

ReadSize(d) == Min({Burst, dl[d].left})

(* Wait: the tokens are taken at once, and paid for by waiting.            *)
Reserve(d) ==
    LET n    == ReadSize(d)
        owed == Max({0, n - limiter.tokens})
    IN  /\ dl[d].pc = "loop" /\ dl[d].left > 0
        /\ IF limited
           THEN /\ limiter' = [tokens |-> limiter.tokens - n, last |-> now + owed]
                /\ Becomes(d, [dl[d] EXCEPT !.n = n, !.act = now + owed,
                                 !.pc = IF owed = 0 THEN "read" ELSE "wait"])
           ELSE /\ Becomes(d, [dl[d] EXCEPT !.n = n, !.pc = "read"])
                /\ UNCHANGED limiter
        /\ UNCHANGED run

WaitOver(d) ==
    /\ dl[d].pc = "wait" /\ dl[d].act <= now
    /\ Becomes(d, [dl[d] EXCEPT !.pc = "read"])
    /\ UNCHANGED <<limiter, run>>

(* Cancel gives back what no later reservation has counted on.             *)
Refund(d) ==
    LET r    == dl[d]
        back == r.n - (limiter.last - r.act)
    IN  IF r.act < now \/ back <= 0 THEN limiter
        ELSE [tokens |-> Min({Burst, limiter.tokens + back}),
              last   |-> IF r.act = limiter.last /\ r.act - r.n >= now
                         THEN r.act - r.n ELSE limiter.last]

WaitCancelled(d) ==
    /\ dl[d].pc = "wait" /\ run[TestOf[d]].over
    /\ limiter' = Refund(d)
    /\ Becomes(d, Ends(d, "cut"))
    /\ UNCHANGED run

(* src.Read yields up to readSize bytes, and may end the body.             *)
Read(d, nr, er) ==
    /\ dl[d].pc = "read" /\ nr <= dl[d].n
    /\ nr > 0 \/ er # "none"
    /\ Becomes(d, [dl[d] EXCEPT !.got = @ + nr, !.left = @ - nr, !.end = er,
                     !.pc = IF er = "none" THEN "loop" ELSE "tally"])
    /\ UNCHANGED <<limiter, run>>

CtxOver(t) ==
    /\ ~run[t].over
    /\ run' = [run EXCEPT ![t].over = TRUE]
    /\ UNCHANGED <<now, options, limiter, dl>>

-----------------------------------------------------------------------------
Download(d) == \/ Response(d) \/ NoResponse(d) \/ CopyFull(d) \/ Reserve(d)
               \/ WaitOver(d) \/ WaitCancelled(d) \/ Tally(d)
               \/ \E nr \in 0..Burst, er \in {"none", "eof", "err"} : Read(d, nr, er)

Finished == /\ \A t \in Test : run[t].result # "none"
            /\ UNCHANGED vars

Next == \/ Tick \/ Finished
        \/ \E d \in Downloader : Download(d)
        \/ \E t \in Test : Start(t) \/ Return(t) \/ CtxOver(t)

Spec == Init /\ [][Next]_vars

-----------------------------------------------------------------------------
(* Properties *)

Received(D) == SumFunctionOnSet([d \in Downloader |-> dl[d].got], D)

(* At most one wait was cut off so far: see the README for why a second    *)
(* may be refunded more than it reserved.                                  *)
CutOnce == \A c, d \in Downloader :
              dl[c].end = "cut" /\ dl[d].end = "cut" => c = d

(* All downloads together never get ahead of the limit, from the first     *)
(* byte on, also when a wait is cut off in between and gets refunded.      *)
RateKept == limited /\ CutOnce => Received(Downloader) <= now

(* The outcome tells what was received: every byte counts, those of        *)
(* downloads cut off too, and a test fails only without any - because a    *)
(* download failed, all bodies were empty, or the size is less than the    *)
(* number of downloads.                                                    *)
ResultTrue ==
    \A t \in Test : run[t].result # "none" =>
        /\ run[t].total = Received(Of(t))
        /\ run[t].result = "ok" <=> Received(Of(t)) > 0
        /\ run[t].result = "err" =>
              \/ run[t].failed
              \/ \A d \in Of(t) : dl[d].end = "eof"
              \/ size < Cardinality(Of(t))
=============================================================================
