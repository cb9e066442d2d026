----------------------------- MODULE TestRunner -----------------------------
(***************************************************************************)
(* Sweeps of URL tests: TestRunner of the GUI (TestRunner.cpp), with the    *)
(* part of the core they run in, the handlers Test, QueryURLTest and        *)
(* StopTest, runBatch, the shared result buffer and the test session        *)
(* (test_utils/common.go).                                                  *)
(*                                                                         *)
(* Threads: a caller and a worker for each sweep, the pool that runs the    *)
(* probes of a batch, one poller per probe (never joined), the UI thread    *)
(* in stop(), and the goroutines of the core.                               *)
(***************************************************************************)
EXTENDS Naturals, FiniteSets

CONSTANTS
    Sweep,      \* calls of runUrlTests
    MaxBatch,   \* batches of a sweep
    Boxed,      \* the shared test box of a batch: its tags are in tag2entID
    Alone,      \* a full configuration: a box of its own, an empty tag2entID
    MaxStop,    \* calls of stop(), a bound on the environment
    MaxTick,    \* ticks of all pollers, a bound on their number
    NoOne       \* not a sweep

ASSUME SweepAssumption ==
    /\ IsFiniteSet(Sweep) /\ NoOne \notin Sweep
    /\ MaxBatch \in Nat /\ MaxStop \in Nat /\ MaxTick \in Nat

Probe == {Boxed, Alone}
Batch == 1..MaxBatch

(* A result carries the probe it measured. A tag is positional in the test
   configuration of one batch, so that what a result says of itself is only
   whether it is of the Boxed or of the Alone probe.                         *)
Id == Sweep \X Batch \X Probe

VARIABLES
    session,        \* owner of session_, or NoOne
    gen,            \* sessionGen_
    stopRequested,  \* stopRequested_
    worker,         \* where the caller and then the worker of a sweep stands
    batch,          \* batch the worker is in
    at,             \* where each probe of that batch stands
    ctx,            \* the context its Test has taken (0 again once measured)
    testCtx,        \* contexts cancelled so far: the session's one is this many
    buffer,         \* URLReporter.results: what was published and not drained
    tick,           \* poller of each probe, inside a tick or asleep
    genOf,          \* the gen its poller has captured, while it is in a tick
    got,            \* what a tick has drained and not applied
    ticks,          \* ticks so far
    caught,         \* history: ticks past their check when a later sweep began
    fired,          \* sweeps whose onFinished was called
    stops           \* calls of stop() so far, and the one under way

sweepVars == <<session, gen, worker, batch, fired>>
probeVars == <<at, ctx, buffer>>
tickVars  == <<tick, genOf, got, ticks, caught>>
stopVars  == <<stopRequested, testCtx, stops>>
testsVars == <<sweepVars, probeVars, tickVars, stopVars>>

WorkerAt == {"new", "locked", "loop", "batch", "finish", "done"}
InTest  == {"prepare", "run", "stored", "reclaimed"}
ProbeAt == InTest \cup {"idle", "check", "done"}

TestsTypeOK ==
    /\ session \in Sweep \cup {NoOne}
    /\ gen \in 0..Cardinality(Sweep)
    /\ stopRequested \in BOOLEAN
    /\ worker \in [Sweep -> WorkerAt]
    /\ batch \in 0..MaxBatch
    /\ at \in [Probe -> ProbeAt]
    /\ ctx \in [Probe -> 0..MaxStop]
    /\ testCtx \in 0..MaxStop
    /\ buffer \subseteq Id
    /\ tick \in [Id -> {"asleep", "woken", "asking", "answered"}]
    /\ genOf \in [Id -> 0..Cardinality(Sweep)]
    /\ got \in [Id -> SUBSET Id]
    /\ ticks \in 0..MaxTick
    /\ caught \subseteq Id
    /\ fired \subseteq Sweep
    /\ stops \in (0..MaxStop) \X BOOLEAN

TestsInit ==
    /\ session = NoOne /\ gen = 0 /\ batch = 0 /\ fired = {}
    /\ worker = [k \in Sweep |-> "new"]
    /\ at = [p \in Probe |-> "idle"]
    /\ ctx = [p \in Probe |-> 0]
    /\ buffer = {}
    /\ tick = [i \in Id |-> "asleep"]
    /\ genOf = [i \in Id |-> 0]
    /\ got = [i \in Id |-> {}] /\ ticks = 0 /\ caught = {}
    /\ stopRequested = FALSE /\ testCtx = 0 /\ stops = <<0, FALSE>>

Here(p) == <<session, batch, p>>
Sweeping(k, here, there) ==
    /\ worker[k] = here
    /\ worker' = [worker EXCEPT ![k] = there]

-----------------------------------------------------------------------------
(* A sweep: runLatencyGroup *)

\* Mutant: the refusal shows its message box and returns.
RefuseSilently(k) ==
    /\ Sweeping(k, "new", "done")
    /\ UNCHANGED <<session, gen, batch, fired, probeVars, tickVars, stopVars>>

\* Nothing to test, or session_.tryLock() failed: no worker, but onFinished.
Refuse(k) ==
    /\ Sweeping(k, "new", "finish")
    /\ UNCHANGED <<session, gen, batch, fired, probeVars, tickVars, stopVars>>

BeginSweep(k) ==
    /\ session = NoOne
    /\ Sweeping(k, "new", "locked")
    /\ session' = k
    /\ gen' = gen + 1
    /\ caught' = caught \cup {i \in Id : tick[i] = "asking"}
    /\ UNCHANGED <<batch, fired, probeVars, tick, genOf, got, ticks, stopVars>>

\* The worker's first statement. A stop() since tryLock is forgotten here.
Reset(k) ==
    /\ Sweeping(k, "locked", "loop")
    /\ stopRequested' = FALSE
    /\ batch' = 0
    /\ UNCHANGED <<session, gen, fired, probeVars, tickVars, testCtx, stops>>

\* Mutant: every batch of a sweep begins with the flag down.
NextBatchRearms(k) ==
    /\ batch < MaxBatch
    /\ Sweeping(k, "loop", "batch")
    /\ batch' = batch + 1
    /\ stopRequested' = FALSE
    /\ at' \in [Probe -> {"check", "done"}]
    /\ UNCHANGED <<session, gen, fired, ctx, buffer, tickVars, testCtx, stops>>

\* The next slice. BuildTestConfig may fail or have nothing to test.
NextBatch(k) ==
    /\ ~stopRequested
    /\ batch < MaxBatch
    /\ Sweeping(k, "loop", "batch")
    /\ batch' = batch + 1
    /\ at' \in [Probe -> {"check", "done"}]
    /\ UNCHANGED <<session, gen, fired, ctx, buffer, tickVars, stopVars>>

BatchDone(k) ==
    /\ \A p \in Probe : at[p] = "done"
    /\ Sweeping(k, "batch", "loop")
    /\ UNCHANGED <<session, gen, batch, fired, probeVars, tickVars, stopVars>>

End(k) ==
    /\ stopRequested \/ batch = MaxBatch
    /\ Sweeping(k, "loop", "finish")
    /\ session' = NoOne
    /\ UNCHANGED <<gen, batch, fired, probeVars, tickVars, stopVars>>

FinishSweep(k) ==
    /\ Sweeping(k, "finish", "done")
    /\ fired' = fired \cup {k}
    /\ UNCHANGED <<session, gen, batch, probeVars, tickVars, stopVars>>

-----------------------------------------------------------------------------
(* A probe: runUrlProbe, and Test in the core *)

Probing(p, here, there) ==
    /\ at[p] = here
    /\ at' = [at EXCEPT ![p] = there]
    /\ UNCHANGED <<sweepVars, stopVars>>

ProbeStopped(p) ==
    /\ stopRequested
    /\ Probing(p, "check", "done")
    /\ UNCHANGED <<ctx, buffer, tickVars>>

\* The poller starts, and Test is sent.
ProbeCalls(p) ==
    /\ ~stopRequested
    /\ Probing(p, "check", "prepare")
    /\ UNCHANGED <<ctx, buffer, tickVars>>

\* The box of the test is not built, or the call fails: no results at all.
TestFails(p) ==
    /\ Probing(p, "prepare", "done")
    /\ UNCHANGED <<ctx, buffer, tickVars>>

\* Once the box is up: the context is held, not read again. A StopTest handled
\* before this cancels an older one.
TakeContext(p) ==
    /\ Probing(p, "prepare", "run")
    /\ ctx' = [ctx EXCEPT ![p] = testCtx]
    /\ UNCHANGED <<buffer, tickVars>>

\* runBatch: measured, or failed on a cancelled context, and published.
Publish(p) ==
    /\ Probing(p, "run", "stored")
    /\ buffer' = buffer \cup {Here(p)}
    /\ ctx' = [ctx EXCEPT ![p] = 0]
    /\ UNCHANGED tickVars

\* An aborted tag is not a measurement: stored and not published.
Abort(p) ==
    /\ ctx[p] < testCtx
    /\ Probing(p, "run", "stored")
    /\ ctx' = [ctx EXCEPT ![p] = 0]
    /\ UNCHANGED <<buffer, tickVars>>

\* Mutant: what nobody polled stays in the buffer.
ReclaimNothing(p) ==
    /\ Probing(p, "stored", "reclaimed")
    /\ UNCHANGED <<ctx, buffer, tickVars>>

Reclaim(p) ==
    /\ Probing(p, "stored", "reclaimed")
    /\ buffer' = buffer \ {Here(p)}
    /\ UNCHANGED <<ctx, tickVars>>

\* The answer: the poller is told to stop, and the results are written to their
\* profiles whether a poll has seen them or not.
ProbeReturns(p) ==
    /\ Probing(p, "reclaimed", "done")
    /\ UNCHANGED <<ctx, buffer, tickVars>>

-----------------------------------------------------------------------------
(* A poller: ResultPoller, the tick of runUrlProbe, and QueryURLTest *)

Ticking(i, here, there) ==
    /\ tick[i] = here
    /\ tick' = [tick EXCEPT ![i] = there]
    /\ genOf' = [genOf EXCEPT ![i] = IF here = "asleep" THEN gen
                                     ELSE IF there = "asleep" THEN 0 ELSE @]
    /\ UNCHANGED <<sweepVars, at, ctx, stopVars, caught>>

Running(i) == \E p \in Probe : at[p] \in InTest /\ i = Here(p)

\* stop_ is not set yet. (A poller that finds it set ends and changes nothing.)
\* The gen it has captured is that of its own call, hence the current one.
Wake(i) ==
    /\ Running(i)
    /\ ticks < MaxTick
    /\ ticks' = ticks + 1
    /\ Ticking(i, "asleep", "woken")
    /\ UNCHANGED <<buffer, got>>

TickIsOld(i) ==
    /\ gen # genOf[i]
    /\ Ticking(i, "woken", "asleep")
    /\ UNCHANGED <<buffer, got, ticks>>

\* Mutant: the generation is not looked at.
AskResultsUnchecked(i) ==
    /\ Ticking(i, "woken", "asking")
    /\ UNCHANGED <<buffer, got, ticks>>

AskResults(i) ==
    /\ gen = genOf[i]
    /\ Ticking(i, "woken", "asking")
    /\ UNCHANGED <<buffer, got, ticks>>

\* QueryURLTest: Results() drains.
Drain(i) ==
    /\ Ticking(i, "asking", "answered")
    /\ got' = [got EXCEPT ![i] = buffer]
    /\ buffer' = {}
    /\ UNCHANGED ticks

\* Each result is written to the profile its tag has in the poller's own map, if any:
\* the map of the batch it belongs to, whatever batch the result is of.
ApplyTick(i) ==
    /\ Ticking(i, "answered", "asleep")
    /\ got' = [got EXCEPT ![i] = {}]
    /\ UNCHANGED <<buffer, ticks>>

-----------------------------------------------------------------------------
(* stop(), and StopTest in the core *)

StopFlag ==
    /\ ~stops[2]
    /\ stops[1] < MaxStop
    /\ stopRequested' = TRUE
    /\ stops' = <<stops[1] + 1, TRUE>>
    /\ UNCHANGED <<sweepVars, probeVars, tickVars, testCtx>>

\* cancelAndRearm: whoever takes a context from now on takes a fresh one.
StopTest ==
    /\ stops[2]
    /\ stops' = <<stops[1], FALSE>>
    /\ testCtx' = testCtx + 1
    /\ UNCHANGED <<sweepVars, probeVars, tickVars, stopRequested>>

-----------------------------------------------------------------------------
SweepSteps(k) ==
    Reset(k) \/ NextBatch(k) \/ BatchDone(k) \/ End(k) \/ FinishSweep(k)
CoreSteps(p) ==
    \/ ProbeStopped(p) \/ ProbeCalls(p) \/ TestFails(p) \/ TakeContext(p)
    \/ Publish(p) \/ Abort(p) \/ Reclaim(p) \/ ProbeReturns(p)
TickSteps(i) ==
    Wake(i) \/ TickIsOld(i) \/ AskResults(i) \/ Drain(i) \/ ApplyTick(i)

TestsNext ==
    \/ \E k \in Sweep : Refuse(k) \/ BeginSweep(k) \/ SweepSteps(k)
    \/ \E p \in Probe : CoreSteps(p)
    \/ \E i \in Id : TickSteps(i)
    \/ StopFlag \/ StopTest

TestsSpec == TestsInit /\ [][TestsNext]_testsVars

(* Threads and goroutines that can run do, and a measurement ends because it
   has a timeout. Nothing is assumed of pollers, of callers or of stop().     *)
TestsFairness ==
    /\ \A k \in Sweep : WF_testsVars(SweepSteps(k))
    /\ \A p \in Probe : WF_testsVars(CoreSteps(p))
TestsFairSpec == TestsSpec /\ TestsFairness

-----------------------------------------------------------------------------
(* Once Test has returned, none of its results is left in the core's global
   buffer: the next test would drain it, with tags that repeat these.         *)
NothingLeftBehind ==
    \A i \in buffer : \E p \in Probe : at[p] = "stored" /\ i = Here(p)

(* While a stop is pending in a sweep whose worker has begun, it stays pending
   and no batch begins; it cannot be undone by another sweep being asked for. *)
StoppedSweepEnds ==
    [][\A k \in Sweep :
          worker[k] \in {"loop", "batch"} /\ stopRequested =>
              stopRequested' /\ (batch' = batch)]_testsVars

(* A tick drains results of its own sweep only, unless it was past its check of
   the generation and had not drained when a later sweep began: the check keeps
   every other late tick out. (The batches of a sweep share its generation, so
   that nothing keeps a late tick from those.)                                 *)
OnlyATickUnderWayCrosses ==
    \A i \in Id : \A id \in got[i] : id[1] = i[1] \/ i \in caught

(* TestRunner.h:91: "A poll thread is not joined, so a late tick must not drain
   the next sweep." The code breaks it: the check at TestRunner.cpp:173 and the
   call that drains are two steps, and a sweep may end and the next one publish
   between them; the tags of its results are then looked up in the old map.    *)
LateTickLeavesNextSweep ==
    \A i \in Id : \A id \in got[i] : id[1] = i[1]

(* onFinished fires on every exit path: a caller may block on it.             *)
FinishFires == \A k \in Sweep : worker[k] # "new" ~> k \in fired
=============================================================================
