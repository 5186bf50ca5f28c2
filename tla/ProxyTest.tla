------------------------------ MODULE ProxyTest ------------------------------
(***************************************************************************)
(* TestProxy and proxyTest.Test of speedtest/utils.go with the checks of   *)
(* speedtest/check: a node is probed for its delay, its latency sampled,   *)
(* and then bandwidth, country, checks and test URLs run side by side.     *)
(*                                                                         *)
(* What the network answers is a choice.  A check is the sequence of its   *)
(* requests, an answer whether it lets the check go on, or the country it  *)
(* tells.  The bandwidth test is one step here: see module Bandwidth.      *)
(***************************************************************************)
EXTENDS Naturals, Sequences, FiniteSetsExt

CONSTANTS
    Worker,         \* the workers, each testing one node
    Tries,          \* tryCount, 3
    Samples,        \* options.LatencySamples; 0: latency metrics disabled;
                    \* the sum of more than 65537 could overflow a uint32
    Elapsed,        \* the milliseconds a probe may take
    Url,            \* options.URLForTest
    Check,          \* options.CheckTypes
    Country,        \* the countries a trace may tell, ...
    GPTCountry      \* ... and those of them in gptSupportCountry

VARIABLE test       \* Worker -> the state of its proxyTest, see Fresh

(* uint16(time.Since(start).Milliseconds()), and no delay at all.          *)
NoDelay   == 65536
Delay(ms) == ms % NoDelay
Ms        == 0 .. NoDelay - 1

ASSUME ProxyTestAssumption ==
    /\ Tries \in Nat \ {0} /\ Elapsed \subseteq Nat
    /\ Samples \in Nat /\ Samples <= NoDelay + 1
    /\ "delay" \notin Url /\ "locate" \notin Check
    /\ "" \notin Country /\ GPTCountry \subseteq Country

Target == Url \cup {"delay"}       \* "delay": options.DelayTestUrl

(* The requests that each Check makes, one after the other.                *)
CountryCheck == <<"trace">>
GPTWeb       == <<"trace">>
GPTApp       == <<"trace", "post">>
GPTiOS       == GPTApp
Netflix      == <<"page">>
Gemini       == <<"page">>
Disney       == <<"device", "token", "region">>

(* mp, and "locate": the country check that every test makes.              *)
Requests == [locate  |-> CountryCheck, country     |-> CountryCheck,
             gpt_web |-> GPTWeb,       gpt_android |-> GPTApp,
             gpt_ios |-> GPTiOS,       netflix     |-> Netflix,
             gemini  |-> Gemini,       disney      |-> Disney]

(* checkProxy passes over a type that mp does not know.                    *)
Job == {"locate"} \cup (Check \cap DOMAIN Requests)

Stats == [min : 0..NoDelay, p50 : Ms, p90 : Ms, p95 : Ms, jitter : Ms]

NoStats == [min |-> 0, p50 |-> 0, p90 |-> 0, p95 |-> 0, jitter |-> 0]

Fresh ==
    [pc |-> "idle",       \* idle, delay, metrics, decide, tasks, done
     ctx |-> "live",      \* live, probeOver (ProbeTimeout), over
     probe |-> [u \in Target |->          \* probeURLMinDelay
                  [at |-> "idle",         \* idle, launch, wait, retry, done
                   launched |-> 0, running |-> 0,
                   failed |-> 0,          \* the compensating one included
                   best |-> NoDelay]],
     turn |-> 0,                          \* measureLatencyMetrics: its i,
     delays |-> <<>>, lost |-> 0,         \* and failedSamples
     stats |-> NoStats,
     job |-> [j \in Job |-> [step |-> 0, ok |-> FALSE, loc |-> ""]],
     bandwidth |-> FALSE,                 \* testBandwidth is running
     country |-> ""]

TestTypeOK ==
    \A w \in Worker :
        LET t == test[w] IN
        /\ DOMAIN t = DOMAIN Fresh
        /\ t.pc \in {"idle", "delay", "metrics", "decide", "tasks", "done"}
        /\ t.ctx \in {"live", "probeOver", "over"}
        /\ t.probe \in [Target -> [at : {"idle", "launch", "wait", "retry", "done"},
                                   launched : 0..Tries, running : 0..Tries,
                                   failed : 0..Tries + 1,
                                   best : {Delay(e) : e \in Elapsed} \cup {NoDelay}]]
        /\ t.turn \in 0..Samples /\ Len(t.delays) + t.lost \in 0..Samples
        /\ t.stats \in Stats
        /\ \A j \in Job : /\ t.job[j].step \in 0..Len(Requests[j]) + 1
                          /\ t.job[j].loc \in Country \cup {""}
        /\ t.country \in Country \cup {""}

TestInit == test = [w \in Worker |-> Fresh]

Become(w, t) == test' = [test EXCEPT ![w] = t]

Begin(w) ==
    /\ test[w].pc = "idle"
    /\ Become(w, [test[w] EXCEPT !.pc = "delay", !.probe["delay"].at = "launch"])

-----------------------------------------------------------------------------
(* probeURLMinDelay of target u; the delay is probed under probeCtx *)

Probe(w, u)     == test[w].probe[u]
Probing(w, u, p) == Become(w, [test[w] EXCEPT !.probe[u] = p])

Live(w, u) == test[w].ctx = "live" \/ (u # "delay" /\ test[w].ctx = "probeOver")

(* Slip: one probe too many.                                               *)
LaunchOneMore(w, u) ==
    LET p == Probe(w, u) IN
    /\ p.at = "launch" /\ p.launched <= Tries
    /\ Probing(w, u, [p EXCEPT !.launched = @ + 1, !.running = @ + 1])

Launch(w, u) ==
    LET p == Probe(w, u) IN
    /\ p.at = "launch" /\ p.launched < Tries
    /\ Probing(w, u, [p EXCEPT !.launched = @ + 1, !.running = @ + 1])

(* All are started, or the pause before the next one saw ctx.Done().       *)
LaunchEnd(w, u) ==
    LET p == Probe(w, u) IN
    /\ p.at = "launch"
    /\ p.launched = Tries \/ (p.launched > 0 /\ ~Live(w, u))
    /\ Probing(w, u, [p EXCEPT !.at = "wait"])

(* requestDelay succeeds only while its context lives.                     *)
ProbeOk(w, u, ms) ==
    LET p == Probe(w, u) IN
    /\ p.running > 0 /\ Live(w, u)
    /\ Probing(w, u, [p EXCEPT !.running = @ - 1, !.best = Min({@, Delay(ms)})])

ProbeFail(w, u) ==
    LET p == Probe(w, u) IN
    /\ p.running > 0
    /\ Probing(w, u, [p EXCEPT !.running = @ - 1, !.failed = @ + 1])

AllBack(w, u) == Probe(w, u).at = "wait" /\ Probe(w, u).running = 0

(* Slip: probes that all failed are not repeated.                          *)
ProbesEndNoRetry(w, u) ==
    AllBack(w, u) /\ Probing(w, u, [Probe(w, u) EXCEPT !.at = "done"])

(* wg.Wait(); when none succeeded, one more is made on its own.            *)
ProbesEnd(w, u) ==
    LET p == Probe(w, u) IN
    /\ AllBack(w, u)
    /\ Probing(w, u, [p EXCEPT !.at = IF p.best = NoDelay THEN "retry" ELSE "done"])

RetryOk(w, u, ms) ==
    LET p == Probe(w, u) IN
    /\ p.at = "retry" /\ Live(w, u)
    /\ Probing(w, u, [p EXCEPT !.at = "done", !.best = Delay(ms)])

RetryFail(w, u) ==
    LET p == Probe(w, u) IN
    /\ p.at = "retry"
    /\ Probing(w, u, [p EXCEPT !.at = "done", !.failed = @ + 1])

UrlOk(w, u) == Probe(w, u).best \notin {0, NoDelay}

-----------------------------------------------------------------------------
(* testURL and measureLatencyMetrics, still under probeCtx *)

(* Slip: the error of probeURLMinDelay is overlooked.                      *)
DelayEndAnyway(w) ==
    /\ test[w].pc = "delay" /\ Probe(w, "delay").at = "done"
    /\ Become(w, [test[w] EXCEPT !.pc = "metrics"])

DelayEnd(w) ==
    LET best == Probe(w, "delay").best IN
    /\ test[w].pc = "delay" /\ Probe(w, "delay").at = "done"
    /\ Become(w, [test[w] EXCEPT
         !.pc = IF best # NoDelay /\ Samples > 0 THEN "metrics" ELSE "decide",
         !.stats.min = IF best = NoDelay THEN 0 ELSE best])

Sampling(w) == test[w].pc = "metrics" /\ test[w].turn < Samples

(* Slip: the sample that was about to start is not lost.                   *)
SamplesCutShort(w) ==
    /\ Sampling(w) /\ ~Live(w, "delay")
    /\ Become(w, [test[w] EXCEPT !.lost = @ + (Samples - test[w].turn - 1),
                                 !.turn = Samples])

(* ctx.Err() is looked at before a sample: all that are left are lost, and *)
(* the loop is left.                                                       *)
SamplesCut(w) ==
    /\ Sampling(w) /\ ~Live(w, "delay")
    /\ Become(w, [test[w] EXCEPT !.lost = @ + (Samples - test[w].turn),
                                 !.turn = Samples])

SampleOk(w, ms) ==
    /\ Sampling(w) /\ Live(w, "delay")
    /\ Become(w, [test[w] EXCEPT !.turn = @ + 1, !.delays = Append(@, Delay(ms))])

SampleFail(w) ==
    /\ Sampling(w)
    /\ Become(w, [test[w] EXCEPT !.turn = @ + 1, !.lost = @ + 1])

(* percentileDelay; the index is rounded, halves upwards.                  *)
Percentile(sorted, p) == sorted[(p * (Len(sorted) - 1) + 50) \div 100 + 1]

(* The mean deviation, cut to whole milliseconds.                          *)
Jitter(d) ==
    LET n    == Len(d)
        sum  == SumFunctionOnSet(d, DOMAIN d)
        dev  == [i \in DOMAIN d |-> IF n * d[i] > sum THEN n * d[i] - sum
                                                     ELSE sum - n * d[i]]
    IN  SumFunctionOnSet(dev, DOMAIN d) \div (n * n)

(* sort.Slice on a copy: the same delays, in order.                        *)
Order(d, p) == /\ p \in [DOMAIN d -> DOMAIN d]
               /\ \A i, j \in DOMAIN d : i < j => p[i] # p[j] /\ d[p[i]] <= d[p[j]]

Sorted(d) == LET p == CHOOSE p \in [DOMAIN d -> DOMAIN d] : Order(d, p)
             IN  [i \in DOMAIN d |-> d[p[i]]]

Metrics(delays) ==
    LET d == Sorted(delays) IN
    CASE Len(d) = 0 -> NoStats
      [] Len(d) = 1 -> [NoStats EXCEPT !.min = d[1]]
      [] OTHER      -> [min |-> d[1], p50 |-> Percentile(d, 50),
                        p90 |-> Percentile(d, 90), p95 |-> Percentile(d, 95),
                        jitter |-> Jitter(d)]

(* Slip: a sample of 0 ms overrules the probe.                             *)
SamplesOverrule(m, warmup) == [m EXCEPT !.min = Min({@, warmup})]

WithWarmup(m, warmup) ==
    [m EXCEPT !.min = IF @ = 0 THEN warmup ELSE Min({@, warmup})]

SamplesEnd(w) ==
    /\ test[w].pc = "metrics" /\ test[w].turn = Samples
    /\ Become(w, [test[w] EXCEPT
         !.pc = "decide",
         !.stats = WithWarmup(Metrics(test[w].delays), Probe(w, "delay").best)])

-----------------------------------------------------------------------------
(* The rest of Test *)

(* A delay of 0 ends the test: the node counts as dead.                    *)
Dead(w) ==
    /\ test[w].pc = "decide" /\ test[w].stats.min = 0
    /\ Become(w, [test[w] EXCEPT !.pc = "done"])

StartTasks(w) ==
    /\ test[w].pc = "decide" /\ test[w].stats.min > 0
    /\ Become(w, [test[w] EXCEPT
         !.pc = "tasks", !.bandwidth = TRUE,
         !.probe = [u \in Target |-> IF u = "delay" THEN @[u]
                                     ELSE [@[u] EXCEPT !.at = "launch"]],
         !.job = [j \in Job |-> [@[j] EXCEPT !.step = 1]]])

BandwidthEnd(w) ==
    test[w].bandwidth /\ Become(w, [test[w] EXCEPT !.bandwidth = FALSE])

Task(w, j)       == test[w].job[j]
Asking(w, j)     == Task(w, j).step \in 1..Len(Requests[j])
Last(w, j)       == Task(w, j).step = Len(Requests[j])
JobOver(j)       == Len(Requests[j]) + 1
Working(w, j, r) == Become(w, [test[w] EXCEPT !.job[j] = r])

(* Request gave up, on its retries or on the context: the check failed.    *)
NoAnswer(w, j) ==
    /\ Asking(w, j)
    /\ Working(w, j, [Task(w, j) EXCEPT !.step = JobOver(j)])

Answered(w, j) == Asking(w, j) /\ test[w].ctx # "over"

(* getCountryCode; without a line "loc=" it tells no country.              *)
Trace(w, j, loc) ==
    /\ Answered(w, j) /\ Requests[j][Task(w, j).step] = "trace"
    /\ Working(w, j, [step |-> IF Last(w, j) THEN JobOver(j) ELSE 2,
                      loc  |-> loc,
                      ok   |-> Last(w, j) /\ (j # "gpt_web" \/ loc \in GPTCountry)])

(* Any other answer: the last one decides, an earlier one must be usable - *)
(* for disney's token "forbidden-location" is, and goes on without one.    *)
Reply(w, j, good) ==
    /\ Answered(w, j) /\ Requests[j][Task(w, j).step] # "trace"
    /\ Working(w, j, [Task(w, j) EXCEPT
         !.step = IF good /\ ~Last(w, j) THEN @ + 1 ELSE JobOver(j),
         !.ok = good /\ Last(w, j)])

(* Slip: gpt_web's country replaces the one the country check told.        *)
LocatedByGPT(w) == IF "gpt_web" \in Job THEN Task(w, "gpt_web").loc
                                        ELSE Task(w, "locate").loc

Located(w) == IF Task(w, "locate").loc = "" /\ "gpt_web" \in Job
              THEN Task(w, "gpt_web").loc ELSE Task(w, "locate").loc

AllOver(w) == /\ ~test[w].bandwidth
              /\ \A u \in Url : Probe(w, u).at = "done"
              /\ \A j \in Job : Task(w, j).step = JobOver(j)

Finish(w) == /\ test[w].pc = "tasks"
             /\ Become(w, [test[w] EXCEPT !.pc = "done", !.country = Located(w)])

(* Slip: Test returns on ctx.Done().                                       *)
TasksEndOrCut(w) == Finish(w) /\ (AllOver(w) \/ test[w].ctx = "over")

(* Test waits for all of them, also after ctx.Done().                      *)
TasksEnd(w) == Finish(w) /\ AllOver(w)

(* ProbeTimeout, and Timeout or a cancelled stream, pass at any time.      *)
TimeOut(w, to) ==
    /\ test[w].pc \notin {"idle", "done"} /\ test[w].ctx \notin {"over", to}
    /\ Become(w, [test[w] EXCEPT !.ctx = to])

-----------------------------------------------------------------------------
ProbeStep(w, u) ==
    \/ Launch(w, u) \/ LaunchEnd(w, u) \/ ProbeFail(w, u) \/ ProbesEnd(w, u)
    \/ RetryFail(w, u)
    \/ \E ms \in Elapsed : ProbeOk(w, u, ms) \/ RetryOk(w, u, ms)

SampleStep(w) == \/ SamplesCut(w) \/ SampleFail(w) \/ SamplesEnd(w)
                 \/ \E ms \in Elapsed : SampleOk(w, ms)

JobStep(w, j) == \/ NoAnswer(w, j)
                 \/ \E loc \in Country \cup {""} : Trace(w, j, loc)
                 \/ \E good \in BOOLEAN : Reply(w, j, good)

TestStep(w) == \/ \E u \in Target : ProbeStep(w, u)
               \/ DelayEnd(w) \/ SampleStep(w) \/ Dead(w) \/ StartTasks(w)
               \/ BandwidthEnd(w) \/ \E j \in Job : JobStep(w, j)
               \/ TasksEnd(w)
               \/ \E to \in {"probeOver", "over"} : TimeOut(w, to)

TestIdle == /\ \A w \in Worker : test[w].pc = "done"
            /\ UNCHANGED test

TestNext == TestIdle \/ \E w \in Worker : Begin(w) \/ TestStep(w)

TestSpec == TestInit /\ [][TestNext]_test

-----------------------------------------------------------------------------
(* Properties *)

(* The samples refine what the probes found and never overrule it: a node  *)
(* is unreachable iff its probes say so, even when a sample took 0 ms; the *)
(* percentiles are in order, no lower than the delay itself unless such a  *)
(* sample is among them, and the jitter is no more than the samples' span. *)
LatencySound ==
    \A w \in Worker : test[w].pc \in {"tasks", "done"} =>
        LET s == test[w].stats
            d == {test[w].delays[i] : i \in DOMAIN test[w].delays}
        IN  /\ s.min = 0 <=> ~UrlOk(w, "delay")
            /\ s.p50 <= s.p90 /\ s.p90 <= s.p95
            /\ Len(test[w].delays) > 1 /\ 0 \notin d => s.min <= s.p50
            /\ s.p95 > 0 => s.p95 \in d
            /\ s.jitter > 0 => s.jitter <= Max(d) - Min(d)

(* Nothing is given up early: a test that no timeout touched reports a URL *)
(* as unreachable only after every probe of it failed, or one took 0 ms,   *)
(* and a country as unknown only if no trace that it may use told one.     *)
NothingGivenUp ==
    \A w \in Worker :
        test[w].pc = "done" /\ test[w].ctx = "live" /\ test[w].stats.min > 0 =>
            /\ \A u \in Url : ~UrlOk(w, u) =>
                  Probe(w, u).best = 0 \/ Probe(w, u).failed = Tries + 1
            /\ test[w].country = "" =>
                  \A j \in Job \cap {"locate", "gpt_web"} : Task(w, j).loc = ""
=============================================================================
