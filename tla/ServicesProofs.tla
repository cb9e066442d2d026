---------------------------- MODULE ServicesProofs ---------------------------
(***************************************************************************)
(* Proofs about what works around a profile that runs.                      *)
(* The loops that ask and listen in the background: the test runner and its *)
(* pollers, for any number of sweeps, batches and calls of stop(); the      *)
(* status of VPN endpoints, for any set of them, which may change as often  *)
(* as they like; the statistics of connections, for any number of these, of *)
(* bytes and of places in the ring; and the monitor of the auto selector,   *)
(* for any grace and any bounds of its backoff.                             *)
(* What a crash may interrupt: the updater, for a release of any files that *)
(* are named once, any number of attempts, and any number of runs, each     *)
(* interrupted anywhere; and the DNS servers of interfaces, for any set of  *)
(* them, any interleaving, and a core that dies anywhere.                   *)
(* Last, all parts together, as the module MCServices runs them.            *)
(***************************************************************************)
EXTENDS MCServices, ListsProofs, RpcChannelProofs, GroupUpdateProofs, ConfigChainProofs

USE SweepAssumption

-----------------------------------------------------------------------------
(* One sweep at a time, and a batch within it *)

SweepTypes ==
    /\ session \in Sweep \cup {NoOne}
    /\ stopRequested \in BOOLEAN
    /\ worker \in [Sweep -> WorkerAt]
    /\ batch \in 0..MaxBatch
    /\ at \in [Probe -> ProbeAt]
    /\ buffer \subseteq Id

\* session_ is held from tryLock to the worker's last batch, and a probe is under way
\* only while the worker that holds it waits for the batch.
SessionInv ==
    /\ SweepTypes
    /\ \A k \in Sweep : worker[k] \in {"locked", "loop", "batch"} <=> session = k
    /\ \A p \in Probe : at[p] \notin {"idle", "done"} =>
          session \in Sweep /\ worker[session] = "batch" /\ batch \in Batch

LEMMA SweepKeepsSession ==
  ASSUME SessionInv, NEW k \in Sweep,
         Refuse(k) \/ BeginSweep(k) \/ SweepSteps(k)
  PROVE  SessionInv'
<1> USE DEF SessionInv, SweepTypes, Sweeping, WorkerAt, probeVars, stopVars, SweepAssumption
<1>1. CASE Refuse(k)
  BY <1>1 DEF Refuse
<1>2. CASE BeginSweep(k)
  BY <1>2 DEF BeginSweep
<1>3. CASE Reset(k)
  <2>1. /\ worker[k] = "locked" /\ worker' = [worker EXCEPT ![k] = "loop"]
        /\ session = k /\ session' = k /\ stopRequested' = FALSE /\ batch' = 0
        /\ UNCHANGED <<at, buffer>>
    BY <1>3 DEF Reset
  <2>2. 0 \in 0..MaxBatch
    OBVIOUS
  <2>3. SweepTypes'
    BY <2>1, <2>2
  <2>4. \A p \in Probe : at[p] \in {"idle", "done"}
    BY <2>1
  <2>5. QED
    BY <2>1, <2>3, <2>4
<1>4. CASE NextBatch(k)
  <2>1. batch' \in 0..MaxBatch /\ batch' \in Batch
    BY <1>4 DEF NextBatch, Batch
  <2>2. at' \in [Probe -> ProbeAt]
    BY <1>4 DEF NextBatch, ProbeAt
  <2>3. session = k /\ session' = session /\ worker' = [worker EXCEPT ![k] = "batch"]
    BY <1>4 DEF NextBatch
  <2>4. UNCHANGED <<stopRequested, buffer>>
    BY <1>4 DEF NextBatch
  <2>5. QED
    BY <2>1, <2>2, <2>3, <2>4
<1>5. CASE BatchDone(k)
  BY <1>5 DEF BatchDone
<1>6. CASE End(k)
  BY <1>6 DEF End
<1>7. CASE FinishSweep(k)
  BY <1>7 DEF FinishSweep
<1>8. QED
  BY <1>1, <1>2, <1>3, <1>4, <1>5, <1>6, <1>7 DEF SweepSteps

LEMMA ProbeKeepsSession ==
  ASSUME SessionInv, NEW p \in Probe, CoreSteps(p)
  PROVE  SessionInv'
<1>1. /\ UNCHANGED <<session, worker, batch, stopRequested>>
      /\ at[p] \notin {"idle", "done"}
      /\ \E there \in ProbeAt : at' = [at EXCEPT ![p] = there]
  BY DEF CoreSteps, ProbeStopped, ProbeCalls, TestFails, TakeContext, Publish, Abort, Reclaim,
         ProbeReturns, Probing, sweepVars, stopVars, ProbeAt, InTest
<1>2. session \in Sweep /\ batch \in Batch
  BY <1>1 DEF SessionInv
<1>3. Here(p) \in Id
  BY <1>2 DEF Here, Id
<1>4. buffer' \subseteq Id
  BY <1>3 DEF SessionInv, SweepTypes, CoreSteps, ProbeStopped, ProbeCalls, TestFails, TakeContext,
              Publish, Abort, Reclaim, ProbeReturns
<1>5. QED
  BY <1>1, <1>4 DEF SessionInv, SweepTypes

LEMMA SessionInductive ==
  SessionInv /\ [TestsNext]_testsVars => SessionInv'
<1> SUFFICES ASSUME SessionInv, [TestsNext]_testsVars
             PROVE  SessionInv'
  OBVIOUS
<1>1. ASSUME NEW i \in Id, TickSteps(i)
      PROVE  SessionInv'
  <2>1. UNCHANGED <<session, worker, batch, stopRequested, at>>
    BY <1>1 DEF TickSteps, Wake, TickIsOld, AskResults, Drain, ApplyTick, Ticking, sweepVars, stopVars
  <2>2. buffer' \subseteq buffer
    BY <1>1 DEF TickSteps, Wake, TickIsOld, AskResults, Drain, ApplyTick
  <2>3. QED
    BY <2>1, <2>2 DEF SessionInv, SweepTypes
<1>2. CASE StopFlag \/ StopTest
  BY <1>2 DEF StopFlag, StopTest, SessionInv, SweepTypes, sweepVars, probeVars
<1>3. CASE UNCHANGED testsVars
  BY <1>3 DEF testsVars, sweepVars, probeVars, stopVars, SessionInv, SweepTypes
<1>4. QED
  BY <1>1, <1>2, <1>3, SweepKeepsSession, ProbeKeepsSession DEF TestsNext

LEMMA SessionInvariant ==
  TestsSpec => []SessionInv
<1>1. ASSUME TestsInit
      PROVE  SessionInv
  <2>1. SweepTypes
    <3>1. session \in Sweep \cup {NoOne} /\ stopRequested \in BOOLEAN /\ buffer \subseteq Id
      BY <1>1 DEF TestsInit
    <3>2. batch \in 0..MaxBatch
      BY <1>1 DEF TestsInit, SweepAssumption
    <3>3. worker \in [Sweep -> WorkerAt] /\ at \in [Probe -> ProbeAt]
      BY <1>1 DEF TestsInit, WorkerAt, ProbeAt
    <3>4. QED
      BY <3>1, <3>2, <3>3 DEF SweepTypes
  <2>2. \A p \in Probe : at[p] = "idle"
    BY <1>1 DEF TestsInit
  <2>3. \A k \in Sweep : worker[k] = "new" /\ session # k
    BY <1>1 DEF TestsInit, SweepAssumption
  <2>4. QED
    BY <2>1, <2>2, <2>3 DEF SessionInv
<1>2. QED
  BY <1>1, SessionInductive, PTL DEF TestsSpec

\* A stop is not lost on a sweep whose worker has begun: no batch begins after it, and no
\* other sweep can take the flag down while this one holds the session.
THEOREM StoppedSweepEndsTheorem ==
  TestsSpec => StoppedSweepEnds
<1> DEFINE Held == \A k \in Sweep : worker[k] \in {"loop", "batch"} /\ stopRequested =>
                        stopRequested' /\ (batch' = batch)
<1>1. SessionInv /\ [TestsNext]_testsVars => [Held]_testsVars
  <2> SUFFICES ASSUME SessionInv, TestsNext, NEW k \in Sweep,
                      worker[k] \in {"loop", "batch"}, stopRequested
               PROVE  stopRequested' /\ batch' = batch
    OBVIOUS
  <2>1. ASSUME NEW j \in Sweep, Reset(j)
        PROVE  FALSE
    <3>1. worker[j] = "locked"
      BY <2>1 DEF Reset, Sweeping
    <3>2. session = j /\ session = k
      BY <3>1 DEF SessionInv
    <3>3. QED
      BY <3>1, <3>2
  <2>2. ASSUME NEW j \in Sweep, Refuse(j) \/ BeginSweep(j) \/ SweepSteps(j)
        PROVE  stopRequested' /\ batch' = batch
    BY <2>1, <2>2 DEF Refuse, BeginSweep, SweepSteps, NextBatch, BatchDone, End, FinishSweep, stopVars
  <2>3. ASSUME NEW p \in Probe, CoreSteps(p)
        PROVE  stopRequested' /\ batch' = batch
    BY <2>3 DEF CoreSteps, ProbeStopped, ProbeCalls, TestFails, TakeContext, Publish, Abort,
                Reclaim, ProbeReturns, Probing, sweepVars, stopVars
  <2>4. ASSUME NEW i \in Id, TickSteps(i)
        PROVE  stopRequested' /\ batch' = batch
    BY <2>4 DEF TickSteps, Wake, TickIsOld, AskResults, Drain, ApplyTick, Ticking, sweepVars, stopVars
  <2>5. CASE StopFlag \/ StopTest
    BY <2>5 DEF StopFlag, StopTest, sweepVars
  <2>6. QED
    BY <2>2, <2>3, <2>4, <2>5 DEF TestsNext
<1>2. QED
  BY <1>1, SessionInvariant, PTL DEF TestsSpec, StoppedSweepEnds

-----------------------------------------------------------------------------
(* The buffer all tests share *)

\* Steps that change neither where probes stand nor which batch it is.
LEMMA BufferStays ==
  ASSUME NothingLeftBehind, UNCHANGED <<session, batch, at>>, buffer' \subseteq buffer
  PROVE  NothingLeftBehind'
BY DEF NothingLeftBehind, Here

LEMMA BufferInductive ==
  SessionInv /\ NothingLeftBehind /\ [TestsNext]_testsVars => NothingLeftBehind'
<1> SUFFICES ASSUME SessionInv, NothingLeftBehind, [TestsNext]_testsVars
             PROVE  NothingLeftBehind'
  OBVIOUS
<1>1. ASSUME NEW k \in Sweep, Refuse(k) \/ BeginSweep(k) \/ SweepSteps(k)
      PROVE  NothingLeftBehind'
  <2>1. buffer' = buffer
    BY <1>1 DEF Refuse, BeginSweep, SweepSteps, Reset, NextBatch, BatchDone, End, FinishSweep, probeVars
  <2>2. CASE buffer = {}
    BY <2>1, <2>2 DEF NothingLeftBehind
  <2>3. CASE buffer # {}
    <3>1. PICK p \in Probe : at[p] = "stored"
      BY <2>3 DEF NothingLeftBehind
    <3>2. session \in Sweep /\ worker[session] = "batch"
      BY <3>1 DEF SessionInv
    <3>3. worker[k] \notin {"locked", "loop"}
      BY <3>2 DEF SessionInv
    <3>4. UNCHANGED <<session, batch, at>>
      BY <1>1, <3>1, <3>2, <3>3
         DEF Refuse, BeginSweep, SweepSteps, Reset, NextBatch, BatchDone, End, FinishSweep, Sweeping,
             probeVars, SweepAssumption
    <3>5. QED
      BY <2>1, <3>4, BufferStays
  <2>4. QED
    BY <2>2, <2>3
<1>2. ASSUME NEW p \in Probe, CoreSteps(p)
      PROVE  NothingLeftBehind'
  <2>1. UNCHANGED <<session, batch>> /\ at \in [Probe -> ProbeAt]
    BY <1>2 DEF CoreSteps, ProbeStopped, ProbeCalls, TestFails, TakeContext, Publish, Abort,
                Reclaim, ProbeReturns, Probing, sweepVars, SessionInv, SweepTypes
  <2>2. \A q \in Probe : q # p => at'[q] = at[q]
    BY <1>2, <2>1 DEF CoreSteps, ProbeStopped, ProbeCalls, TestFails, TakeContext, Publish,
                      Abort, Reclaim, ProbeReturns, Probing
  <2>3. CASE Publish(p)
    <3>1. buffer' = buffer \cup {Here(p)} /\ at'[p] = "stored" /\ at[p] = "run"
      BY <2>1, <2>3 DEF Publish, Probing
    <3>2. QED
      BY <2>1, <2>2, <3>1 DEF NothingLeftBehind, Here
  <2>4. CASE Reclaim(p)
    <3>1. buffer' = buffer \ {Here(p)}
      BY <2>4 DEF Reclaim
    <3>2. QED
      BY <2>1, <2>2, <3>1 DEF NothingLeftBehind, Here
  <2>5. CASE ~Publish(p) /\ ~Reclaim(p)
    <3>1. buffer' = buffer /\ at[p] # "stored"
      BY <1>2, <2>5 DEF CoreSteps, ProbeStopped, ProbeCalls, TestFails, TakeContext, Abort,
                        ProbeReturns, Probing
    <3>2. QED
      BY <2>1, <2>2, <3>1 DEF NothingLeftBehind, Here
  <2>6. QED
    BY <2>3, <2>4, <2>5
<1>3. ASSUME NEW i \in Id, TickSteps(i)
      PROVE  NothingLeftBehind'
  <2>1. buffer' \subseteq buffer /\ UNCHANGED <<session, batch, at>>
    BY <1>3 DEF TickSteps, Wake, TickIsOld, AskResults, Drain, ApplyTick, Ticking, sweepVars
  <2>2. QED
    BY <2>1, BufferStays
<1>4. CASE StopFlag \/ StopTest \/ UNCHANGED testsVars
  <2>1. buffer' = buffer /\ UNCHANGED <<session, batch, at>>
    BY <1>4 DEF StopFlag, StopTest, testsVars, sweepVars, probeVars
  <2>2. QED
    BY <2>1, BufferStays
<1>5. QED
  BY <1>1, <1>2, <1>3, <1>4 DEF TestsNext

\* Once a Test has returned, nothing of it is left for the next one to drain.
THEOREM NothingLeftBehindTheorem ==
  TestsSpec => []NothingLeftBehind
<1>1. TestsInit => NothingLeftBehind
  BY DEF TestsInit, NothingLeftBehind
<1>2. QED
  BY <1>1, SessionInvariant, BufferInductive, PTL DEF TestsSpec

-----------------------------------------------------------------------------
(* What a tick has drained *)

TickTypes ==
    /\ gen \in Nat
    /\ tick \in [Id -> {"asleep", "woken", "asking", "answered"}]
    /\ genOf \in [Id -> Nat]
    /\ got \in [Id -> SUBSET Id]

(* While the generation of a tick is the current one, no sweep has begun since its own; *)
(* a tick that has looked at it and not drained keeps it, or was caught by a new sweep. *)
TickInv ==
    /\ TickTypes
    /\ \A i \in Id :
          /\ tick[i] # "asleep" => genOf[i] <= gen
          /\ tick[i] # "asleep" /\ genOf[i] = gen => session \in {i[1], NoOne}
          /\ tick[i] = "asking" => genOf[i] = gen \/ i \in caught
    /\ OnlyATickUnderWayCrosses

\* Steps after which the session is what it was, or over, and no tick has moved.
LEMMA TicksStay ==
  ASSUME TickInv, UNCHANGED <<gen, tick, genOf, got, caught>>, session' \in {session, NoOne}
  PROVE  TickInv'
BY DEF TickInv, TickTypes, OnlyATickUnderWayCrosses

\* A sweep that begins catches the ticks that stand before their drain, and makes the
\* generation of all others an old one.
LEMMA BeginKeepsTicks ==
  ASSUME TickInv, NEW k \in Sweep, BeginSweep(k)
  PROVE  TickInv'
<1>1. /\ gen' = gen + 1 /\ UNCHANGED <<tick, genOf, got>>
      /\ caught' = caught \cup {i \in Id : tick[i] = "asking"}
  BY DEF BeginSweep
<1>2. TickTypes' /\ OnlyATickUnderWayCrosses'
  BY <1>1 DEF TickInv, TickTypes, OnlyATickUnderWayCrosses
<1>3. ASSUME NEW i \in Id
      PROVE  /\ tick[i] # "asleep" => genOf[i] < gen'
             /\ tick[i] = "asking" => i \in caught'
  <2>1. genOf[i] \in Nat /\ gen \in Nat /\ (tick[i] # "asleep" => genOf[i] <= gen)
    BY DEF TickInv, TickTypes
  <2>2. QED
    BY <1>1, <2>1
<1>4. ASSUME NEW i \in Id
      PROVE  /\ tick'[i] # "asleep" => genOf'[i] <= gen' /\ genOf'[i] # gen'
             /\ tick'[i] = "asking" => i \in caught'
  <2>1. genOf[i] \in Nat /\ gen' \in Nat
    BY <1>1 DEF TickInv, TickTypes
  <2>2. QED
    BY <1>1, <1>3, <2>1
<1>5. QED
  BY <1>2, <1>4 DEF TickInv

\* A tick wakes in its own sweep, and drains what is in the buffer.
LEMMA TickKeepsTicks ==
  ASSUME SessionInv, NothingLeftBehind, TickInv, NEW i \in Id, TickSteps(i)
  PROVE  TickInv'
<1>1. /\ UNCHANGED <<session, gen, caught>>
      /\ \A j \in Id : j # i => tick'[j] = tick[j] /\ genOf'[j] = genOf[j]
      /\ tick' \in [Id -> {"asleep", "woken", "asking", "answered"}]
      /\ genOf' \in [Id -> Nat]
  BY DEF TickSteps, Wake, TickIsOld, AskResults, Drain, ApplyTick, Ticking, sweepVars, TickInv,
         TickTypes
<1>2. /\ got' \in [Id -> SUBSET Id]
      /\ \A j \in Id : j # i => got'[j] = got[j]
  <2>1. got \in [Id -> SUBSET Id] /\ buffer \subseteq Id
    BY DEF TickInv, TickTypes, SessionInv, SweepTypes
  <2>2. got' = got \/ got' = [got EXCEPT ![i] = buffer] \/ got' = [got EXCEPT ![i] = {}]
    BY DEF TickSteps, Wake, TickIsOld, AskResults, Drain, ApplyTick
  <2>3. QED
    BY <2>1, <2>2
<1>3. SUFFICES /\ tick'[i] # "asleep" => genOf'[i] <= gen
               /\ tick'[i] # "asleep" /\ genOf'[i] = gen => session \in {i[1], NoOne}
               /\ tick'[i] = "asking" => genOf'[i] = gen \/ i \in caught
               /\ \A id \in got'[i] : id[1] = i[1] \/ i \in caught
  <2>1. TickTypes'
    BY <1>1, <1>2 DEF TickInv, TickTypes
  <2>2. OnlyATickUnderWayCrosses'
    BY <1>1, <1>2, <1>3 DEF TickInv, OnlyATickUnderWayCrosses
  <2>3. ASSUME NEW j \in Id
        PROVE  /\ tick'[j] # "asleep" => genOf'[j] <= gen'
               /\ tick'[j] # "asleep" /\ genOf'[j] = gen' => session' \in {j[1], NoOne}
               /\ tick'[j] = "asking" => genOf'[j] = gen' \/ j \in caught'
    <3>1. CASE j = i
      BY <1>1, <1>3, <3>1
    <3>2. CASE j # i
      BY <1>1, <3>2 DEF TickInv
    <3>3. QED
      BY <3>1, <3>2
  <2>4. QED
    BY <2>1, <2>2, <2>3 DEF TickInv
<1>4. \A id \in got[i] : id[1] = i[1] \/ i \in caught
  BY DEF TickInv, OnlyATickUnderWayCrosses
<1>5. CASE Wake(i)
  <2>1. PICK p \in Probe : i = Here(p)
    BY <1>5 DEF Wake, Running
  <2>2. session = i[1]
    BY <2>1 DEF Here
  <2>3. genOf'[i] = gen /\ gen <= gen /\ got' = got
    BY <1>5 DEF Wake, Ticking, TickInv, TickTypes
  <2>4. QED
    BY <1>4, <2>2, <2>3
<1>6. CASE TickIsOld(i) \/ ApplyTick(i)
  <2>1. tick'[i] = "asleep" /\ (got' = got \/ got' = [got EXCEPT ![i] = {}])
    BY <1>6 DEF TickIsOld, ApplyTick, Ticking, TickInv, TickTypes
  <2>2. QED
    BY <1>4, <2>1 DEF TickInv, TickTypes
<1>7. CASE AskResults(i)
  <2>1. tick[i] # "asleep" /\ genOf'[i] = genOf[i] /\ genOf[i] = gen /\ got' = got
    BY <1>7 DEF AskResults, Ticking, TickInv, TickTypes
  <2>2. QED
    BY <1>4, <2>1 DEF TickInv
<1>8. CASE Drain(i)
  <2>1. /\ tick[i] = "asking" /\ tick'[i] = "answered" /\ genOf'[i] = genOf[i]
        /\ got'[i] = buffer
    BY <1>8 DEF Drain, Ticking, TickInv, TickTypes
  <2>2. ASSUME NEW id \in buffer
        PROVE  id[1] = i[1] \/ i \in caught
    <3>1. id[1] = session
      BY DEF NothingLeftBehind, Here
    <3>2. id[1] \in Sweep
      BY DEF SessionInv, SweepTypes, Id
    <3>3. session \in {i[1], NoOne} \/ i \in caught
      BY <2>1 DEF TickInv
    <3>4. QED
      BY <3>1, <3>2, <3>3
  <2>3. QED
    BY <2>1, <2>2 DEF TickInv
<1>9. QED
  BY <1>5, <1>6, <1>7, <1>8 DEF TickSteps

TickedInv == SessionInv /\ NothingLeftBehind /\ TickInv

LEMMA TickedInvariant ==
  TestsSpec => []TickedInv
<1>1. TestsInit => TickInv
  BY DEF TestsInit, TickInv, TickTypes, OnlyATickUnderWayCrosses
<1>2. TickedInv /\ [TestsNext]_testsVars => TickInv'
  <2> SUFFICES ASSUME TickedInv, [TestsNext]_testsVars
               PROVE  TickInv'
    OBVIOUS
  <2> USE DEF TickedInv
  <2>1. ASSUME NEW k \in Sweep, Refuse(k) \/ SweepSteps(k)
        PROVE  TickInv'
    <3>1. UNCHANGED <<gen, tick, genOf, got, caught>> /\ session' \in {session, NoOne}
      BY <2>1 DEF Refuse, SweepSteps, Reset, NextBatch, BatchDone, End, FinishSweep, tickVars
    <3>2. QED
      BY <3>1, TicksStay
  <2>2. ASSUME NEW p \in Probe, CoreSteps(p)
        PROVE  TickInv'
    <3>1. UNCHANGED <<gen, tick, genOf, got, caught>> /\ session' = session
      BY <2>2 DEF CoreSteps, ProbeStopped, ProbeCalls, TestFails, TakeContext, Publish, Abort,
                  Reclaim, ProbeReturns, Probing, sweepVars, tickVars
    <3>2. QED
      BY <3>1, TicksStay
  <2>3. CASE StopFlag \/ StopTest \/ UNCHANGED testsVars
    <3>1. UNCHANGED <<gen, tick, genOf, got, caught>> /\ session' = session
      BY <2>3 DEF StopFlag, StopTest, testsVars, sweepVars, tickVars
    <3>2. QED
      BY <3>1, TicksStay
  <2>4. QED
    BY <2>1, <2>2, <2>3, BeginKeepsTicks, TickKeepsTicks DEF TestsNext
<1>3. TestsSpec => [](SessionInv /\ NothingLeftBehind)
  BY SessionInvariant, NothingLeftBehindTheorem, PTL
<1>4. QED
  BY <1>1, <1>2, <1>3, SessionInductive, BufferInductive, PTL DEF TestsSpec, TickedInv

\* The check of the generation keeps late ticks out of later sweeps, but for those that a
\* sweep finds between their check and their drain. (The tick of runUrlProbe, QueryURLTest.)
THEOREM OnlyATickUnderWayCrossesTheorem ==
  TestsSpec => []OnlyATickUnderWayCrosses
<1>1. TickedInv => OnlyATickUnderWayCrosses
  BY DEF TickedInv, TickInv
<1>2. QED
  BY <1>1, TickedInvariant, PTL

HIDE SweepAssumption

-----------------------------------------------------------------------------
(* The counters of sweeps: sessionGen_ counts those that have begun, and of the  *)
(* contexts of the core one is cancelled for each StopTest that was handled.     *)
HaveBegun == {k \in Sweep : worker[k] # "new"}

CountInv ==
    /\ gen \in Nat /\ gen <= Cardinality(HaveBegun)
    /\ ctx \in [Probe -> Nat] /\ \A p \in Probe : ctx[p] <= testCtx
    /\ stops \in (0..MaxStop) \X BOOLEAN
    /\ testCtx = IF stops[2] THEN stops[1] - 1 ELSE stops[1]
    /\ testCtx \in Nat

\* The rest of the types: those of the pollers.
PollerTypes ==
    /\ tick \in [Id -> {"asleep", "woken", "asking", "answered"}]
    /\ genOf \in [Id -> 0..Cardinality(Sweep)]
    /\ got \in [Id -> SUBSET Id]
    /\ ticks \in 0..MaxTick
    /\ fired \subseteq Sweep
    /\ caught \subseteq Id

CountedInv == SessionInv /\ CountInv /\ PollerTypes

LEMMA BegunBounded ==
  /\ IsFiniteSet(HaveBegun) /\ Cardinality(HaveBegun) \in Nat /\ Cardinality(Sweep) \in Nat
  /\ Cardinality(HaveBegun) <= Cardinality(Sweep)
<1>1. HaveBegun \in SUBSET Sweep /\ IsFiniteSet(Sweep)
  BY SweepAssumption DEF HaveBegun
<1>2. QED
  BY <1>1, FS_Subset, FS_CardinalityType

LEMMA SweepKeepsCount ==
  ASSUME CountedInv, NEW k \in Sweep, Refuse(k) \/ BeginSweep(k) \/ SweepSteps(k)
  PROVE  CountInv' /\ PollerTypes'
<1> USE DEF CountedInv
<1>1. /\ UNCHANGED <<ctx, testCtx, stops, tick, genOf, got, ticks>>
      /\ fired' \subseteq fired \cup {k} /\ caught' \subseteq caught \cup Id
      /\ gen' = gen \/ (gen' = gen + 1 /\ worker[k] = "new")
      /\ \E there \in WorkerAt \ {"new"} : worker' = [worker EXCEPT ![k] = there]
  BY DEF Refuse, BeginSweep, SweepSteps, Reset, NextBatch, BatchDone, End, FinishSweep, Sweeping,
         sweepVars, probeVars, tickVars, stopVars, WorkerAt
<1>2. HaveBegun' = HaveBegun \cup {k}
  BY <1>1 DEF HaveBegun, SessionInv, SweepTypes
<1>3. Cardinality(HaveBegun') = IF k \in HaveBegun THEN Cardinality(HaveBegun)
                                ELSE Cardinality(HaveBegun) + 1
  BY <1>2, BegunBounded, FS_AddElement
<1>4. gen' = gen + 1 => k \notin HaveBegun
  <2>1. CASE worker[k] = "new"
    BY <2>1 DEF HaveBegun
  <2>2. CASE worker[k] # "new"
    BY <1>1, <2>2 DEF CountInv
  <2>3. QED
    BY <2>1, <2>2
<1>5. gen' \in Nat /\ gen' <= Cardinality(HaveBegun')
  BY <1>1, <1>3, <1>4, BegunBounded DEF CountInv
<1>6. CountInv'
  BY <1>1, <1>5 DEF CountInv
<1>7. QED
  BY <1>1, <1>6 DEF PollerTypes

LEMMA ProbeKeepsCount ==
  ASSUME CountedInv, NEW p \in Probe, CoreSteps(p)
  PROVE  CountInv' /\ PollerTypes'
<1> USE DEF CountedInv
<1>1. /\ UNCHANGED <<gen, worker, fired, testCtx, stops, tick, genOf, got, ticks, caught>>
      /\ ctx' = ctx \/ ctx' = [ctx EXCEPT ![p] = testCtx] \/ ctx' = [ctx EXCEPT ![p] = 0]
  BY DEF CoreSteps, ProbeStopped, ProbeCalls, TestFails, TakeContext, Publish, Abort, Reclaim,
         ProbeReturns, Probing, sweepVars, stopVars, tickVars
<1>2. HaveBegun' = HaveBegun
  BY <1>1 DEF HaveBegun
<1>3. ctx' \in [Probe -> Nat] /\ \A q \in Probe : ctx'[q] <= testCtx
  BY <1>1 DEF CountInv
<1>4. CountInv'
  BY <1>1, <1>2, <1>3 DEF CountInv
<1>5. QED
  BY <1>1, <1>4 DEF PollerTypes

LEMMA TickKeepsCount ==
  ASSUME CountedInv, NEW i \in Id, TickSteps(i)
  PROVE  CountInv' /\ PollerTypes'
<1> USE DEF CountedInv
<1>1. \E here, there \in {"asleep", "woken", "asking", "answered"} : Ticking(i, here, there)
  BY DEF TickSteps, Wake, TickIsOld, AskResults, Drain, ApplyTick
<1> DEFINE Captured(was) == was \in {gen, 0, genOf[i]}
<1>2. /\ UNCHANGED <<gen, worker, fired, caught, ctx, testCtx, stops>>
      /\ \E there \in {"asleep", "woken", "asking", "answered"} : tick' = [tick EXCEPT ![i] = there]
      /\ \E was : Captured(was) /\ genOf' = [genOf EXCEPT ![i] = was]
  BY <1>1 DEF Ticking, sweepVars, stopVars
<1>3. /\ got' = got \/ got' = [got EXCEPT ![i] = buffer] \/ got' = [got EXCEPT ![i] = {}]
      /\ ticks' = ticks \/ (ticks < MaxTick /\ ticks' = ticks + 1)
  BY DEF TickSteps, Wake, TickIsOld, AskResults, Drain, ApplyTick
<1>4. HaveBegun' = HaveBegun
  BY <1>2 DEF HaveBegun
<1>5. CountInv'
  BY <1>2, <1>4 DEF CountInv
<1>6. gen \in 0..Cardinality(Sweep) /\ 0 \in 0..Cardinality(Sweep)
  BY BegunBounded DEF CountInv
<1>7. genOf' \in [Id -> 0..Cardinality(Sweep)]
  BY <1>2, <1>6 DEF PollerTypes
<1>8. got' \in [Id -> SUBSET Id]
  BY <1>3 DEF PollerTypes, SessionInv, SweepTypes
<1>9. ticks' \in 0..MaxTick
  BY <1>3, SweepAssumption DEF PollerTypes
<1>10. tick' \in [Id -> {"asleep", "woken", "asking", "answered"}]
  BY <1>2 DEF PollerTypes
<1>11. QED
  BY <1>2, <1>5, <1>7, <1>8, <1>9, <1>10 DEF PollerTypes

LEMMA StopKeepsCount ==
  ASSUME CountedInv, StopFlag \/ StopTest
  PROVE  CountInv' /\ PollerTypes'
<1> USE DEF CountedInv
<1>1. UNCHANGED <<gen, worker, fired, caught, ctx, tick, genOf, got, ticks>>
  BY DEF StopFlag, StopTest, sweepVars, probeVars, tickVars
<1>2. HaveBegun' = HaveBegun
  BY <1>1 DEF HaveBegun
<1>3. CASE StopFlag
  <2>1. ~stops[2] /\ stops[1] < MaxStop /\ stops' = <<stops[1] + 1, TRUE>> /\ testCtx' = testCtx
    BY <1>3 DEF StopFlag
  <2> DEFINE n == stops[1] + 1
  <2>2. stops[1] \in Nat /\ MaxStop \in Nat /\ testCtx = stops[1]
    BY <2>1, SweepAssumption DEF CountInv
  <2>3. n \in 0..MaxStop /\ testCtx = n - 1
    BY <2>1, <2>2
  <2>4. stops'[1] = n /\ stops'[2] = TRUE /\ stops' \in (0..MaxStop) \X BOOLEAN
    <3> HIDE DEF n
    <3> QED
      BY <2>1, <2>3 DEF n
  <2>5. CountInv'
    BY <1>1, <1>2, <2>1, <2>3, <2>4 DEF CountInv
  <2>6. QED
    BY <1>1, <2>5 DEF PollerTypes
<1>4. CASE StopTest
  <2>1. stops[2] /\ stops' = <<stops[1], FALSE>> /\ testCtx' = testCtx + 1
    BY <1>4 DEF StopTest
  <2>2. stops[1] \in 0..MaxStop /\ testCtx = stops[1] - 1 /\ testCtx \in Nat
    BY <2>1 DEF CountInv
  <2>3. stops'[1] = stops[1] /\ stops'[2] = FALSE /\ stops' \in (0..MaxStop) \X BOOLEAN
    BY <2>1, <2>2
  <2>4. testCtx' = stops[1] /\ testCtx' \in Nat /\ testCtx <= testCtx'
    BY <2>1, <2>2, SweepAssumption
  <2>5. \A p \in Probe : ctx[p] <= testCtx'
    BY <2>2, <2>4 DEF CountInv
  <2>6. CountInv'
    BY <1>1, <1>2, <2>3, <2>4, <2>5 DEF CountInv
  <2>7. QED
    BY <1>1, <2>6 DEF PollerTypes
<1>5. QED
  BY <1>3, <1>4

LEMMA CountInductive == CountedInv /\ [TestsNext]_testsVars => CountedInv'
<1> SUFFICES ASSUME CountedInv, [TestsNext]_testsVars
             PROVE  CountedInv'
  OBVIOUS
<1>1. SessionInv'
  BY SessionInductive DEF CountedInv
<1>2. CASE UNCHANGED testsVars
  BY <1>1, <1>2 DEF CountedInv, CountInv, PollerTypes, HaveBegun, testsVars, sweepVars, probeVars, tickVars,
                    stopVars
<1>3. QED
  BY <1>1, <1>2, SweepKeepsCount, ProbeKeepsCount, TickKeepsCount, StopKeepsCount
  DEF CountedInv, TestsNext

\* The counters of a sweep stay in their bounds: a generation per sweep that began, a
\* cancelled context per StopTest that was handled, none taken that is newer.
\* (runLatencyGroup and stop() of TestRunner.cpp, cancelAndRearm of common.go.)
THEOREM TestsTypeCorrect == TestsSpec => []TestsTypeOK
<1>1. TestsInit => CountInv /\ PollerTypes
  <2> SUFFICES ASSUME TestsInit PROVE CountInv /\ PollerTypes
    OBVIOUS
  <2>1. 0 \in Nat /\ 0 <= Cardinality(HaveBegun) /\ 0 \in 0..MaxStop /\ 0 \in 0..MaxTick
        /\ 0 \in 0..Cardinality(Sweep)
    BY BegunBounded, SweepAssumption
  <2>2. stops[1] = 0 /\ stops[2] = FALSE /\ stops \in (0..MaxStop) \X BOOLEAN
    BY <2>1 DEF TestsInit
  <2>3. CountInv
    BY <2>1, <2>2 DEF TestsInit, CountInv
  <2>4. PollerTypes
    BY <2>1 DEF TestsInit, PollerTypes
  <2>5. QED
    BY <2>3, <2>4
<1>2. CountedInv => TestsTypeOK
  <2> SUFFICES ASSUME CountedInv PROVE TestsTypeOK
    OBVIOUS
  <2>1. gen \in 0..Cardinality(Sweep)
    BY BegunBounded DEF CountedInv, CountInv
  <2>2. testCtx \in 0..MaxStop /\ ctx \in [Probe -> 0..MaxStop]
    BY SweepAssumption DEF CountedInv, CountInv
  <2>3. QED
    BY <2>1, <2>2 DEF CountedInv, CountInv, PollerTypes, SessionInv, SweepTypes, TestsTypeOK
<1>3. QED
  BY <1>1, <1>2, SessionInvariant, CountInductive, PTL DEF TestsSpec, CountedInv

-----------------------------------------------------------------------------
(* VPN endpoints *)

LEMMA VpnTypeInductive == VpnTypeOK /\ [VpnNext]_vpnVars => VpnTypeOK'
<1> SUFFICES ASSUME VpnTypeOK, [VpnNext]_vpnVars
             PROVE  VpnTypeOK'
  OBVIOUS
<1> USE DEF VpnTypeOK, endpointVars, queryVars
<1>1. ASSUME NEW e \in Endpoint, Change(e) \/ Notify(e)
      PROVE  VpnTypeOK'
  BY <1>1 DEF Change, Notify
<1>2. ASSUME NEW e \in Endpoint, Subscribe(e) \/ Snapshot(e)
      PROVE  VpnTypeOK'
  BY <1>2 DEF Subscribe, Snapshot, Waits, Round, Then, State, Settled
<1>3. ASSUME NEW e \in Endpoint, WaiterWoken(e) \/ Expires(e) \/ Deadline(e)
      PROVE  VpnTypeOK'
  BY <1>3 DEF WaiterWoken, Expires, Deadline, Waits
<1>4. CASE Query \/ Cancel \/ Answer
  BY <1>4 DEF Query, Cancel, Answer
<1>5. CASE UNCHANGED vpnVars
  BY <1>5 DEF vpnVars
<1>6. QED
  BY <1>1, <1>2, <1>3, <1>4, <1>5 DEF VpnNext, WaiterSteps

\* The types of VpnStatus hold of every behaviour of QueryVPNStatus.
THEOREM VpnTypeCorrect == VpnSpec => []VpnTypeOK
<1>1. VpnInit => VpnTypeOK
  BY DEF VpnInit, VpnTypeOK, State
<1>2. QED
  BY <1>1, VpnTypeInductive, PTL DEF VpnSpec

-----------------------------------------------------------------------------
(* A subscription is to a channel that exists, and the library tells of a      *)
(* change only after it.                                                       *)
ChannelInv ==
    \A e \in Endpoint : updated[e] <= channel[e] /\ channel[e] <= changes[e]

WakeInv == VpnTypeOK /\ ChannelInv /\ NoLostWakeup

LEMMA WakeInductive == WakeInv /\ [VpnNext]_vpnVars => WakeInv'
<1> SUFFICES ASSUME WakeInv, [VpnNext]_vpnVars
             PROVE  ChannelInv' /\ NoLostWakeup'
  BY VpnTypeInductive DEF WakeInv
<1> USE DEF WakeInv, ChannelInv, NoLostWakeup, VpnTypeOK, endpointVars, queryVars
<1>1. ASSUME NEW e \in Endpoint, Change(e)
      PROVE  ChannelInv' /\ NoLostWakeup'
  BY <1>1 DEF Change
<1>2. ASSUME NEW e \in Endpoint, Notify(e)
      PROVE  ChannelInv' /\ NoLostWakeup'
  BY <1>2 DEF Notify
<1>3. ASSUME NEW e \in Endpoint, Subscribe(e)
      PROVE  ChannelInv' /\ NoLostWakeup'
  BY <1>3 DEF Subscribe, Waits, Round, Then
<1>4. ASSUME NEW e \in Endpoint, Snapshot(e)
      PROVE  ChannelInv' /\ NoLostWakeup'
  BY <1>4 DEF Snapshot, Waits, Round, Then
<1>5. ASSUME NEW e \in Endpoint, WaiterWoken(e) \/ Expires(e) \/ Deadline(e)
      PROVE  ChannelInv' /\ NoLostWakeup'
  BY <1>5 DEF WaiterWoken, Expires, Deadline, Waits
<1>6. CASE Query \/ Cancel \/ Answer
  BY <1>6 DEF Query, Cancel, Answer
<1>7. CASE UNCHANGED vpnVars
  BY <1>7 DEF vpnVars
<1>8. QED
  BY <1>1, <1>2, <1>3, <1>4, <1>5, <1>6, <1>7 DEF VpnNext, WaiterSteps

\* A waiter whose snapshot is out of date has been woken or is about to be, however
\* the endpoint changes between the subscription, the snapshot and the wait.
THEOREM NoLostWakeupTheorem == VpnSpec => []NoLostWakeup
<1>1. VpnInit => WakeInv
  BY DEF VpnInit, WakeInv, VpnTypeOK, ChannelInv, NoLostWakeup, State
<1>2. WakeInv => NoLostWakeup
  BY DEF WakeInv
<1>3. QED
  BY <1>1, <1>2, WakeInductive, PTL DEF VpnSpec

-----------------------------------------------------------------------------
(* Statistics of connections *)

StatsTypes ==
    /\ up \subseteq Connection /\ accounted \subseteq Connection /\ torn \subseteq Connection
    /\ evicted \subseteq Connection
    /\ bytes \in [Connection -> Nat] /\ credited \in [Connection -> Nat]
    /\ ring \in Seq(Connection)
    /\ DOMAIN listed \subseteq Connection /\ \A c \in DOMAIN listed : listed[c] \in Nat
    /\ DOMAIN lastBytes \subseteq Connection /\ \A c \in DOMAIN lastBytes : lastBytes[c] \in Nat

(* Whoever is known to the core or to the lister has sent something, so that it is    *)
(* not opened again; what is closed moves no more bytes.                              *)
KnownInv ==
    /\ \A c \in up \cup ToSet(ring) \cup accounted \cup DOMAIN lastBytes \cup DOMAIN listed :
          bytes[c] > 0
    /\ \A c \in ToSet(ring) \cup accounted : c \notin up

(* Of a connection that is not torn what is credited is what the next poll counts     *)
(* from, as long as that poll counts it at all; and no poll has it twice.             *)
CreditInv ==
    \A c \in Connection \ torn :
        /\ credited[c] <= bytes[c]
        /\ c \in up \/ c \in ToSet(ring) \ accounted => credited[c] = Base(c)
        /\ poll = "reading" =>
              /\ c \in DOMAIN listed => c \in up /\ Base(c) <= listed[c] /\ listed[c] <= bytes[c]
              /\ c \in up /\ c \in DOMAIN lastBytes => c \in DOMAIN listed

(* What the lister takes to be accounted for has been credited. *)
DoneInv == \A c \in accounted : credited[c] >= bytes[c]

StatsInv == StatsTypes /\ KnownInv /\ DoneInv /\ NothingMissed /\ CreditInv

\* The ring after one more connection has closed: it forgets its oldest one at most.
LEMMA RingGrows ==
  ASSUME NEW r \in Seq(Connection), NEW c \in Connection
  PROVE  LET s == Append(IF Len(r) = RingSize THEN Tail(r) ELSE r, c)
         IN  /\ s \in Seq(Connection) /\ ToSet(s) \subseteq ToSet(r) \cup {c}
             /\ c \in ToSet(s)
             /\ Len(r) = RingSize => Head(r) \in Connection /\ ToSet(r) \subseteq ToSet(s) \cup {Head(r)}
             /\ Len(r) # RingSize => ToSet(r) \subseteq ToSet(s)
<1>1. ASSUME NEW t \in Seq(Connection)
      PROVE  /\ Append(t, c) \in Seq(Connection)
             /\ ToSet(Append(t, c)) = ToSet(t) \cup {c}
  <2>1. /\ Append(t, c) \in Seq(Connection) /\ Len(Append(t, c)) = Len(t) + 1 /\ Len(t) \in Nat
        /\ \A i \in 1..Len(t) : Append(t, c)[i] = t[i]
        /\ Append(t, c)[Len(t) + 1] = c
    OBVIOUS
  <2>2. 1..(Len(t) + 1) = (1..Len(t)) \cup {Len(t) + 1}
    BY <2>1
  <2>3. DOMAIN t = 1..Len(t) /\ DOMAIN Append(t, c) = 1..(Len(t) + 1)
    BY <2>1
  <2>4. QED
    BY <2>1, <2>2, <2>3 DEF ToSet
<1>2. CASE Len(r) = RingSize
  <2>1. Len(r) > 0 /\ Len(r) \in Nat
    BY <1>2, StatsAssumption
  <2>2. /\ Tail(r) \in Seq(Connection) /\ Head(r) = r[1] /\ r[1] \in Connection
        /\ Len(Tail(r)) = Len(r) - 1 /\ \A i \in 1..(Len(r) - 1) : Tail(r)[i] = r[i + 1]
    BY <2>1
  <2>3. DOMAIN r = 1..Len(r) /\ DOMAIN Tail(r) = 1..(Len(r) - 1)
    BY <2>2
  <2>4. ToSet(Tail(r)) \subseteq ToSet(r)
    BY <2>1, <2>2, <2>3 DEF ToSet
  <2>5. ToSet(r) \subseteq ToSet(Tail(r)) \cup {Head(r)}
    <3>1. ASSUME NEW i \in 1..Len(r), i # 1
          PROVE  r[i] \in ToSet(Tail(r))
      <4>1. i - 1 \in 1..(Len(r) - 1) /\ (i - 1) + 1 = i
        BY <3>1, <2>1
      <4>2. Tail(r)[i - 1] = r[i]
        BY <2>2, <4>1
      <4>3. QED
        BY <2>3, <4>1, <4>2 DEF ToSet
    <3>2. QED
      BY <2>2, <2>3, <3>1 DEF ToSet
  <2>6. QED
    BY <1>1, <1>2, <2>2, <2>4, <2>5
<1>3. CASE Len(r) # RingSize
  BY <1>1, <1>3
<1>4. QED
  BY <1>2, <1>3

LEMMA StatsInitially == StatsInit => StatsInv
<1> SUFFICES ASSUME StatsInit PROVE StatsInv
  OBVIOUS
<1> USE DEF StatsInit, Nothing
<1>1. ToSet(ring) = {} /\ ring \in Seq(Connection)
  BY DEF ToSet
<1>2. QED
  BY <1>1 DEF StatsInv, StatsTypes, KnownInv, DoneInv, NothingMissed, CreditInv, Base

LEMMA OpenKeeps ==
  ASSUME StatsInv, NEW c \in Connection, Open(c)
  PROVE  StatsInv'
<1> USE DEF StatsInv
<1>1. /\ bytes[c] = 0 /\ bytes' = [bytes EXCEPT ![c] = 1] /\ up' = up \cup {c}
      /\ UNCHANGED <<ring, poll, listed, lastBytes, accounted, credited, torn, evicted>>
  BY DEF Open, listVars
<1>2. StatsTypes'
  BY <1>1 DEF StatsTypes
<1>3. ToSet(ring)' = ToSet(ring)
  BY <1>1
<1>4. c \notin ToSet(ring) \cup accounted \cup DOMAIN lastBytes \cup DOMAIN listed
  BY <1>1 DEF KnownInv
<1>5. KnownInv'
  BY <1>1, <1>3, <1>4 DEF KnownInv, StatsTypes
<1>6. DoneInv' /\ NothingMissed'
  <2>1. DoneInv'
    BY <1>1, <1>4 DEF DoneInv, StatsTypes
  <2>2. NothingMissed'
    BY <1>1, <1>3, <1>4 DEF NothingMissed, StatsTypes
  <2>3. QED
    BY <2>1, <2>2
<1>7. CreditInv'
  BY <1>1, <1>3, <1>4 DEF CreditInv, StatsTypes, Base
<1>8. QED
  BY <1>2, <1>5, <1>6, <1>7

LEMMA TransferKeeps ==
  ASSUME StatsInv, NEW c \in Connection, Transfer(c)
  PROVE  StatsInv'
<1> USE DEF StatsInv
<1>1. /\ c \in up /\ bytes' = [bytes EXCEPT ![c] = @ + 1]
      /\ UNCHANGED <<up, ring, poll, listed, lastBytes, accounted, credited, torn, evicted>>
  BY DEF Transfer, listVars
<1>2. StatsTypes'
  BY <1>1 DEF StatsTypes
<1>3. ToSet(ring)' = ToSet(ring)
  BY <1>1
<1>4. \A d \in Connection : bytes'[d] >= bytes[d] /\ bytes[d] \in Nat /\ bytes'[d] \in Nat
  BY <1>1 DEF StatsTypes
<1>5. c \notin accounted
  BY <1>1 DEF KnownInv
<1>6. KnownInv'
  BY <1>1, <1>3 DEF KnownInv, StatsTypes
<1>7. DoneInv' /\ NothingMissed'
  <2>1. DoneInv'
    BY <1>1, <1>5 DEF DoneInv, StatsTypes
  <2>2. NothingMissed'
    BY <1>1, <1>3 DEF NothingMissed, StatsTypes
  <2>3. QED
    BY <2>1, <2>2
<1>8. CreditInv'
  BY <1>1, <1>3, <1>4 DEF CreditInv, StatsTypes, Base
<1>9. QED
  BY <1>2, <1>6, <1>7, <1>8

LEMMA CloseKeeps ==
  ASSUME StatsInv, NEW c \in Connection, Close(c)
  PROVE  StatsInv'
<1> USE DEF StatsInv
<1>1. /\ c \in up /\ up' = up \ {c}
      /\ ring' \in Seq(Connection) /\ ToSet(ring') \subseteq ToSet(ring) \cup {c}
      /\ c \in ToSet(ring') /\ evicted' \subseteq Connection /\ evicted \subseteq evicted'
      /\ ToSet(ring) \ accounted \subseteq ToSet(ring') \cup evicted'
      /\ torn' \subseteq Connection /\ torn \subseteq torn'
      /\ poll # "idle" => c \in torn'
      /\ UNCHANGED <<bytes, poll, listed, lastBytes, accounted, credited>>
  <2>1. ring \in Seq(Connection) /\ torn \subseteq Connection /\ evicted \subseteq Connection
    BY DEF StatsTypes
  <2>2. CASE Len(ring) = RingSize
    <3>1. evicted' = evicted \cup ({Head(ring)} \ accounted) /\ ring' = Append(Tail(ring), c)
      BY <2>2 DEF Close
    <3>2. /\ ring' \in Seq(Connection) /\ ToSet(ring') \subseteq ToSet(ring) \cup {c}
          /\ c \in ToSet(ring') /\ Head(ring) \in Connection
          /\ ToSet(ring) \subseteq ToSet(ring') \cup {Head(ring)}
      BY <2>1, <2>2, <3>1, RingGrows
    <3>3. QED
      BY <2>1, <3>1, <3>2 DEF Close, listVars
  <2>3. CASE Len(ring) # RingSize
    <3>1. evicted' = evicted /\ ring' = Append(ring, c)
      BY <2>3 DEF Close
    <3>2. /\ ring' \in Seq(Connection) /\ ToSet(ring') \subseteq ToSet(ring) \cup {c}
          /\ c \in ToSet(ring') /\ ToSet(ring) \subseteq ToSet(ring')
      BY <2>1, <2>3, <3>1, RingGrows
    <3>3. QED
      BY <2>1, <3>1, <3>2 DEF Close, listVars
  <2>4. QED
    BY <2>2, <2>3
<1>2. StatsTypes'
  BY <1>1 DEF StatsTypes
<1>3. KnownInv'
  BY <1>1 DEF KnownInv
<1>4. DoneInv' /\ NothingMissed'
  <2>1. c \notin accounted
    BY <1>1 DEF KnownInv
  <2>2. DoneInv'
    BY <1>1 DEF DoneInv
  <2>3. NothingMissed'
    BY <1>1, <2>1 DEF NothingMissed
  <2>4. QED
    BY <2>2, <2>3
<1>5. CreditInv'
  BY <1>1 DEF CreditInv, Base
<1>6. QED
  BY <1>2, <1>3, <1>4, <1>5

LEMMA PollUpKeeps ==
  ASSUME StatsInv, PollUp
  PROVE  StatsInv'
<1> USE DEF StatsInv
<1>1. /\ listed' = [c \in up |-> bytes[c]] /\ poll' = "reading"
      /\ UNCHANGED <<up, bytes, ring, lastBytes, accounted, credited, torn, evicted>>
  BY DEF PollUp, coreVars, listVars
<1>2. StatsTypes'
  BY <1>1 DEF StatsTypes
<1>3. ToSet(ring)' = ToSet(ring)
  BY <1>1
<1>4. KnownInv' /\ DoneInv' /\ NothingMissed'
  BY <1>1, <1>3 DEF KnownInv, DoneInv, NothingMissed
<1>5. CreditInv'
  BY <1>1, <1>3 DEF CreditInv, Base, StatsTypes
<1>6. QED
  BY <1>2, <1>4, <1>5

LEMMA PollFailsKeeps ==
  ASSUME StatsInv, PollFails
  PROVE  StatsInv'
<1> USE DEF StatsInv
<1>1. /\ DOMAIN listed' = {} /\ DOMAIN lastBytes' = {} /\ accounted' = {} /\ torn' = Connection
      /\ UNCHANGED <<up, bytes, ring, credited, evicted>>
  BY DEF PollFails, Nothing, coreVars
<1>2. ToSet(ring)' = ToSet(ring)
  BY <1>1
<1>3. NothingMissed'
  BY <1>1, <1>2 DEF NothingMissed
<1>4. StatsTypes' /\ KnownInv' /\ DoneInv' /\ CreditInv'
  BY <1>1, <1>2 DEF StatsTypes, KnownInv, DoneInv, CreditInv
<1>5. QED
  BY <1>3, <1>4

\* What a poll credits: the difference to the poll before of what is listed as up, and
\* to the end of what has closed.
Gained(c) ==
    (IF c \in DOMAIN listed THEN Above(listed[c], Base(c)) ELSE 0)
  + (IF c \in ToSet(ring) \ accounted THEN Above(bytes[c], Base(c)) ELSE 0)

LEMMA PollClosedKeeps ==
  ASSUME StatsInv, PollClosed
  PROVE  StatsInv'
<1> USE DEF StatsInv
<1>1. /\ poll = "reading" /\ poll' = "idle"
      /\ credited' = [c \in Connection |-> credited[c] + Gained(c)]
      /\ accounted' = ToSet(ring) /\ lastBytes' = listed /\ DOMAIN listed' = {}
      /\ UNCHANGED <<up, bytes, ring, torn, evicted>>
  BY DEF PollClosed, Gained, Fresh, Accounted, Nothing, coreVars
<1>2. ToSet(ring)' = ToSet(ring) /\ ToSet(ring) \subseteq Connection
  BY <1>1 DEF StatsTypes, ToSet
<1>3. \A c \in Connection : Base(c) \in Nat /\ Gained(c) \in Nat /\ bytes[c] \in Nat
                            /\ credited[c] \in Nat
  BY DEF Gained, Base, Above, StatsTypes
<1>4. \A c \in Connection : credited'[c] = credited[c] + Gained(c)
  BY <1>1
<1>5. StatsTypes'
  BY <1>1, <1>2, <1>3 DEF StatsTypes
<1>6. KnownInv'
  BY <1>1, <1>2 DEF KnownInv
<1>7. \A c \in Connection : Base(c) <= credited[c]
  BY <1>3 DEF Base, NothingMissed
<1>8. DoneInv' /\ NothingMissed'
  <2>1. ASSUME NEW c \in ToSet(ring)
        PROVE  credited'[c] >= bytes[c]
    <3>1. CASE c \in accounted
      BY <1>2, <1>3, <1>4, <3>1 DEF DoneInv
    <3>2. CASE c \notin accounted
      <4>1. Gained(c) >= Above(bytes[c], Base(c))
        BY <1>2, <1>3, <3>2 DEF Gained, Above, StatsTypes
      <4>2. QED
        BY <1>2, <1>3, <1>4, <1>7, <4>1 DEF Above
    <3>3. QED
      BY <3>1, <3>2
  <2>2. ASSUME NEW c \in DOMAIN listed
        PROVE  credited'[c] >= listed[c]
    <3>1. c \in Connection /\ listed[c] \in Nat
      BY DEF StatsTypes
    <3>2. Gained(c) >= Above(listed[c], Base(c))
      BY <1>3, <3>1 DEF Gained, Above
    <3>3. QED
      BY <1>3, <1>4, <1>7, <3>1, <3>2 DEF Above
  <2>3. ASSUME NEW c \in Connection \ up
        PROVE  credited'[c] >= bytes[c] \/ c \in evicted
    <3>1. CASE c \in ToSet(ring)
      BY <2>1, <3>1
    <3>2. CASE c \notin ToSet(ring)
      BY <1>3, <1>4, <3>2 DEF NothingMissed
    <3>3. QED
      BY <3>1, <3>2
  <2>4. DoneInv'
    BY <1>1, <2>1 DEF DoneInv
  <2>5. NothingMissed'
    BY <1>1, <2>2, <2>3 DEF NothingMissed
  <2>6. QED
    BY <2>4, <2>5
<1>9. CreditInv'
  <2> SUFFICES ASSUME NEW c \in Connection \ torn
               PROVE  /\ credited[c] + Gained(c) <= bytes[c]
                      /\ c \in up => credited[c] + Gained(c) = Base(c)'
    BY <1>1, <1>2, <1>4 DEF CreditInv
  <2>1. CASE c \in up
    <3>1. c \notin ToSet(ring) /\ credited[c] = Base(c)
      BY <2>1 DEF KnownInv, CreditInv
    <3>2. CASE c \in DOMAIN listed
      <4>1. Gained(c) = listed[c] - Base(c) /\ Base(c) <= listed[c] /\ listed[c] <= bytes[c]
            /\ listed[c] \in Nat
        BY <1>1, <1>3, <3>1, <3>2 DEF Gained, Above, CreditInv, StatsTypes
      <4>2. Base(c)' = listed[c]
        BY <1>1, <3>2 DEF Base
      <4>3. QED
        BY <1>3, <3>1, <4>1, <4>2
    <3>3. CASE c \notin DOMAIN listed
      <4>1. Gained(c) = 0 /\ c \notin DOMAIN lastBytes
        BY <1>1, <2>1, <3>1, <3>3 DEF Gained, CreditInv
      <4>2. Base(c) = 0 /\ Base(c)' = 0
        BY <1>1, <3>3, <4>1 DEF Base
      <4>3. QED
        BY <1>3, <3>1, <4>1, <4>2
    <3>4. QED
      BY <3>2, <3>3
  <2>2. CASE c \notin up
    <3>1. c \notin DOMAIN listed
      BY <1>1, <2>2 DEF CreditInv
    <3>2. CASE c \in ToSet(ring) \ accounted
      <4>1. credited[c] = Base(c) /\ credited[c] <= bytes[c]
        BY <3>2 DEF CreditInv
      <4>2. Gained(c) = Above(bytes[c], Base(c))
        BY <1>3, <3>1, <3>2 DEF Gained, Above
      <4>3. QED
        BY <1>3, <2>2, <4>1, <4>2 DEF Above
    <3>3. CASE c \notin ToSet(ring) \ accounted
      <4>1. Gained(c) = 0
        BY <3>1, <3>3 DEF Gained
      <4>2. QED
        BY <1>3, <2>2, <4>1 DEF CreditInv
    <3>4. QED
      BY <3>2, <3>3
  <2>3. QED
    BY <2>1, <2>2
<1>10. QED
  BY <1>5, <1>6, <1>8, <1>9

LEMMA StatsInvariant == StatsSpec => []StatsInv
<1>1. StatsInv /\ [StatsNext]_statsVars => StatsInv'
  <2> SUFFICES ASSUME StatsInv, [StatsNext]_statsVars
               PROVE  StatsInv'
    OBVIOUS
  <2>1. CASE UNCHANGED statsVars
    BY <2>1 DEF statsVars, coreVars, listVars, StatsInv, StatsTypes, KnownInv, DoneInv,
                NothingMissed, CreditInv, Base
  <2>2. QED
    BY <2>1, OpenKeeps, TransferKeeps, CloseKeeps, PollUpKeeps, PollFailsKeeps, PollClosedKeeps
    DEF StatsNext
<1>2. QED
  BY <1>1, StatsInitially, PTL DEF StatsSpec

(* What a closed connection had sent has been credited, or is in the ring for the next   *)
(* poll that is answered, or was forgotten by the ring before any poll counted it there; *)
(* and what an open one had when it was last polled has been credited.                   *)
(* (ConnectionLister::update, the ring of QueryConnections.)                             *)
THEOREM NothingMissedTheorem == StatsSpec => []NothingMissed
<1>1. StatsInv => NothingMissed
  BY DEF StatsInv
<1>2. QED
  BY <1>1, StatsInvariant, PTL

(* A connection that closed between polls, all of them answered, is credited no byte     *)
(* twice, however long it stays in the ring and however often it is listed.              *)
THEOREM CreditedOnceIfWholeTheorem == StatsSpec => []CreditedOnceIfWhole
<1>1. StatsInv => CreditedOnceIfWhole
  BY DEF StatsInv, CreditInv, CreditedOnceIfWhole
<1>2. QED
  BY <1>1, StatsInvariant, PTL

-----------------------------------------------------------------------------
(* The bounds of the counters and of the ring                                    *)

BoundInv ==
    /\ bytes \in [Connection -> 0..MaxBytes]
    /\ Len(ring) <= RingSize
    /\ poll \in {"idle", "reading"}
    /\ listed \in Counters /\ lastBytes \in Counters
    /\ fails \in 0..MaxFail

LEMMA CountersAre ==
  /\ Nothing \in Counters
  /\ \A S \in SUBSET Connection : [S -> 0..MaxBytes] \subseteq Counters
BY DEF Counters, Nothing

LEMMA BoundInductive == StatsInv /\ BoundInv /\ [StatsNext]_statsVars => BoundInv'
<1> SUFFICES ASSUME StatsInv, BoundInv, [StatsNext]_statsVars
             PROVE  BoundInv'
  OBVIOUS
<1> USE DEF BoundInv
<1>1. ASSUME NEW c \in Connection, Open(c)
      PROVE  BoundInv'
  BY <1>1, StatsAssumption DEF Open, listVars
<1>2. ASSUME NEW c \in Connection, Transfer(c)
      PROVE  BoundInv'
  BY <1>2, StatsAssumption DEF Transfer, listVars
<1>3. ASSUME NEW c \in Connection, Close(c)
      PROVE  BoundInv'
  <2>1. ring \in Seq(Connection)
    BY DEF StatsInv, StatsTypes
  <2>2. Len(ring') <= RingSize
    <3>1. CASE Len(ring) = RingSize
      <4>1. ring # <<>>
        BY <2>1, <3>1, StatsAssumption
      <4>2. Tail(ring) \in Seq(Connection) /\ Len(Tail(ring)) = Len(ring) - 1
        BY <2>1, <4>1
      <4>3. ring' = Append(Tail(ring), c)
        BY <1>3, <3>1 DEF Close
      <4>4. QED
        BY <2>1, <3>1, <4>2, <4>3
    <3>2. CASE Len(ring) # RingSize
      <4>1. ring' = Append(ring, c)
        BY <1>3, <3>2 DEF Close
      <4>2. QED
        BY <2>1, <3>2, <4>1, StatsAssumption
    <3>3. QED
      BY <3>1, <3>2
  <2>3. QED
    BY <1>3, <2>2 DEF Close, listVars
<1>4. CASE PollUp
  <2>1. listed' \in [up -> 0..MaxBytes] /\ up \subseteq Connection
    BY <1>4 DEF PollUp, StatsInv, StatsTypes
  <2>2. listed' \in Counters
    BY <2>1, CountersAre
  <2>3. QED
    BY <1>4, <2>2 DEF PollUp, coreVars, listVars
<1>5. CASE PollClosed
  <2>1. UNCHANGED <<bytes, ring, fails>> /\ lastBytes' = listed /\ listed' = Nothing /\ poll' = "idle"
    BY <1>5 DEF PollClosed, coreVars
  <2>2. QED
    BY <2>1, CountersAre
<1>6. CASE PollFails
  <2>1. /\ UNCHANGED <<bytes, ring>> /\ lastBytes' = Nothing /\ listed' = Nothing /\ poll' = "idle"
        /\ fails < MaxFail /\ fails' = fails + 1
    BY <1>6 DEF PollFails, coreVars
  <2>2. QED
    BY <2>1, CountersAre, StatsAssumption
<1>7. CASE UNCHANGED statsVars
  BY <1>7 DEF statsVars, coreVars, listVars
<1>8. QED
  BY <1>1, <1>2, <1>3, <1>4, <1>5, <1>6, <1>7 DEF StatsNext

\* The ring never outgrows its size, and counters are kept of connections only, each up to
\* what a connection carries. (ClosedConnections() of the core, lastBytes_ of the lister.)
THEOREM StatsTypeCorrect == StatsSpec => []StatsTypeOK
<1>1. StatsInit => BoundInv
  <2> SUFFICES ASSUME StatsInit PROVE BoundInv
    OBVIOUS
  <2>1. Len(ring) <= RingSize
    BY StatsAssumption DEF StatsInit
  <2>2. QED
    BY <2>1, CountersAre, StatsAssumption DEF StatsInit, BoundInv
<1>2. StatsInv /\ BoundInv => StatsTypeOK
  BY DEF StatsInv, StatsTypes, BoundInv, StatsTypeOK
<1>3. QED
  BY <1>1, <1>2, StatsInvariant, BoundInductive, PTL DEF StatsSpec

-----------------------------------------------------------------------------
(* The pace of rebuilds *)

USE PaceAssumption DEF PaceAssumption

(* A pool that has been dead for a while was not found alive since; and the floor    *)
(* between two rebuilds has grown with those that followed one another.              *)
PaceInv ==
    /\ MonitorTypeOK
    /\ exhausted # Never => lively >= exhausted
    /\ streak = 0 => backoff = 0
    /\ backoff >= Floor

LEMMA FloorBounded == MonitorTypeOK => Floor \in 0..BackoffMax
  BY DEF MonitorTypeOK, Floor, Lesser, Never

LEMMA JudgeKeepsPace == PaceInv /\ Judge => PaceInv'
<1> SUFFICES ASSUME PaceInv, Judge PROVE PaceInv'
  OBVIOUS
<1>1. /\ exhausted \in 0..Grace \cup {Never} /\ rebuilt \in 0..Never /\ backoff \in 0..BackoffMax
      /\ lively \in 0..Grace /\ streak \in 0..3 /\ answer \in Pool /\ gaveUp \in BOOLEAN
      /\ life' = life /\ pool' = pool /\ active' = active /\ answer' = "none"
      /\ Never \in Nat /\ Never > Grace
  BY DEF PaceInv, MonitorTypeOK, Judge, lifeVars, Never
<1>2. Countdown \in 0..Grace \cup {Never}
  BY <1>1 DEF Countdown
<1>3. lively' \in 0..Grace /\ worked' \in BOOLEAN /\ gaveUp' \in BOOLEAN /\ rebuilt' \in 0..Never
  <2>1. worked' \in BOOLEAN
    BY ZenonT(20) DEF Judge, PaceInv, MonitorTypeOK
  <2>2. gaveUp' \in BOOLEAN
    BY ZenonT(20) DEF Judge, PaceInv, MonitorTypeOK
  <2>3. rebuilt' = 0 \/ rebuilt' = rebuilt
    BY DEF Judge
  <2>4. lively' = 0 \/ lively' = lively
    BY DEF Judge
  <2>5. QED
    BY <1>1, <2>1, <2>2, <2>3, <2>4
<1>4. CASE Due
  <2>1. /\ exhausted' = Never /\ streak' = Lesser(streak + 1, 3)
        /\ backoff' = IF backoff = 0 THEN BackoffMin ELSE Lesser(backoff * 2, BackoffMax)
    BY <1>4 DEF Judge
  <2>2. streak' \in 1..3 /\ backoff' \in 0..BackoffMax
    BY <1>1, <2>1 DEF Lesser
  <2>3. backoff' >= Floor'
    <3>1. CASE streak = 0
      BY <1>1, <2>1, <3>1 DEF PaceInv, Floor, Lesser
    <3>2. CASE streak = 1
      BY <1>1, <2>1, <3>2 DEF PaceInv, Floor, Lesser
    <3>3. CASE streak = 2
      BY <1>1, <2>1, <3>3 DEF PaceInv, Floor, Lesser
    <3>4. CASE streak = 3
      BY <1>1, <2>1, <3>4 DEF PaceInv, Floor, Lesser
    <3>5. QED
      BY <1>1, <3>1, <3>2, <3>3, <3>4
  <2>4. QED
    BY <1>1, <1>3, <2>1, <2>2, <2>3 DEF PaceInv, MonitorTypeOK
<1>5. CASE ~Due
  <2>1. /\ exhausted' = Countdown
        /\ backoff' = IF Usable(answer) THEN 0 ELSE backoff
        /\ streak' = IF Usable(answer) THEN 0 ELSE streak
    BY <1>5 DEF Judge
  <2>2. streak' \in 0..3 /\ backoff' \in 0..BackoffMax
    BY <1>1, <2>1
  <2>3. (streak' = 0 => backoff' = 0) /\ backoff' >= Floor'
    <3>1. CASE Usable(answer)
      BY <1>1, <2>1, <3>1 DEF Floor
    <3>2. CASE ~Usable(answer)
      BY <1>1, <2>1, <3>2 DEF PaceInv, Floor
    <3>3. QED
      BY <3>1, <3>2
  <2>4. exhausted' # Never => lively' >= exhausted'
    <3>1. CASE answer = "dead"
      <4>1. lively' = lively
        BY <3>1 DEF Judge
      <4>2. QED
        BY <1>1, <2>1, <3>1, <4>1 DEF PaceInv, Countdown
    <3>2. CASE answer # "dead"
      BY <2>1, <3>2 DEF Countdown
    <3>3. QED
      BY <3>1, <3>2
  <2>5. QED
    BY <1>1, <1>2, <1>3, <2>1, <2>2, <2>3, <2>4 DEF PaceInv, MonitorTypeOK
<1>6. QED
  BY <1>4, <1>5

LEMMA PaceInductive == PaceInv /\ [MonitorNext]_monitorVars => PaceInv'
<1> SUFFICES ASSUME PaceInv, [MonitorNext]_monitorVars PROVE PaceInv'
  OBVIOUS
<1> USE DEF PaceInv, MonitorTypeOK, lifeVars, paceVars, pastVars
<1>1. CASE UNCHANGED monitorVars
  BY <1>1 DEF monitorVars, Floor
<1>2. CASE CoreStarts
  BY <1>2 DEF CoreStarts, Life, Floor, Pool
<1>3. CASE SetBuild
  <2>1. /\ life' = "up" /\ active' = TRUE /\ exhausted' = Never /\ gaveUp' = FALSE /\ lively' = 0
        /\ UNCHANGED <<pool, rebuilt, backoff, answer, streak, worked>>
    BY <1>3 DEF SetBuild, Life
  <2>2. Floor' = Floor
    BY <2>1 DEF Floor
  <2>3. 0 \in 0..Grace
    OBVIOUS
  <2>4. QED
    BY <2>1, <2>2, <2>3
<1>4. CASE Clear
  BY <1>4 DEF Clear, Life, Floor
<1>5. CASE CoreStops
  BY <1>5 DEF CoreStops, Life, Floor
<1>6. CASE PoolChanges
  BY <1>6 DEF PoolChanges, Floor
<1>7. CASE Ask
  BY <1>7 DEF Ask, Floor
<1>8. CASE Drop
  BY <1>8 DEF Drop, Floor
<1>9. CASE Judge
  BY <1>9, JudgeKeepsPace
<1>10. CASE Tick
  <2>1. /\ exhausted' = Older(exhausted, Grace) /\ rebuilt' = Older(rebuilt, Never)
        /\ lively' = Lesser(lively + 1, Grace)
        /\ UNCHANGED <<life, pool, active, backoff, answer, gaveUp, streak, worked>>
    BY <1>10 DEF Tick
  <2>2. /\ exhausted' \in 0..Grace \cup {Never} /\ rebuilt' \in 0..Never /\ lively' \in 0..Grace
        /\ exhausted' # Never => lively' >= exhausted'
    BY <2>1 DEF Older, Lesser, Never
  <2>3. QED
    BY <2>1, <2>2 DEF Floor
<1>11. QED
  BY <1>1, <1>2, <1>3, <1>4, <1>5, <1>6, <1>7, <1>8, <1>9, <1>10 DEF MonitorNext

LEMMA PaceInvariant == MonitorSpec => []PaceInv
<1>1. MonitorInit => PaceInv
  <2> SUFFICES ASSUME MonitorInit PROVE PaceInv
    OBVIOUS
  <2>1. Never \in 0..Never /\ 0 \in 0..Grace /\ 0 \in 0..BackoffMax
    BY DEF Never
  <2>2. life = "down" /\ pool = "untested" /\ active = FALSE /\ exhausted = Never /\ rebuilt = Never
        /\ backoff = 0 /\ answer = "none" /\ gaveUp = FALSE /\ lively = 0 /\ streak = 0 /\ worked = TRUE
    BY DEF MonitorInit
  <2>3. MonitorTypeOK
    <3>1. exhausted \in 0..Grace \cup {Never} /\ rebuilt \in 0..Never /\ backoff \in 0..BackoffMax
          /\ lively \in 0..Grace /\ streak \in 0..3
      BY <2>1, <2>2
    <3>2. /\ life \in {"down", "started", "up", "cleared"} /\ pool \in Pool /\ active \in BOOLEAN
          /\ answer \in Pool \cup {"none"} /\ gaveUp \in BOOLEAN /\ worked \in BOOLEAN
      BY <2>2 DEF Pool
    <3>3. QED
      BY <3>1, <3>2 DEF MonitorTypeOK
  <2>4. QED
    BY <2>2, <2>3 DEF PaceInv, Floor
<1>2. QED
  BY <1>1, PaceInductive, PTL DEF MonitorSpec

\* The clocks of the monitor stay in their ranges.
THEOREM MonitorTypeCorrect == MonitorSpec => []MonitorTypeOK
<1>1. PaceInv => MonitorTypeOK
  BY DEF PaceInv
<1>2. QED
  BY <1>1, PaceInvariant, PTL

(* Whatever the pool does and whenever builds come and go, a rebuild is asked for only *)
(* when the pool was dead for the whole grace, and after a floor that doubles.         *)
THEOREM RebuildsPacedTheorem == MonitorSpec => RebuildsPaced
<1>1. PaceInv /\ [MonitorNext]_monitorVars => [Asks => lively >= Grace /\ rebuilt >= Floor]_monitorVars
  <2> SUFFICES ASSUME PaceInv, MonitorNext, Asks
               PROVE  lively >= Grace /\ rebuilt >= Floor
    BY DEF monitorVars, lifeVars, paceVars, pastVars, Asks
  <2>1. /\ exhausted \in 0..Grace \cup {Never} /\ rebuilt \in 0..Never /\ backoff \in 0..BackoffMax
        /\ lively \in 0..Grace /\ Floor \in 0..BackoffMax /\ Never = BackoffMax + 1
    BY FloorBounded DEF PaceInv, MonitorTypeOK, Never
  <2>2. rebuilt' < rebuilt
    BY DEF Asks
  <2>3. Judge /\ Due
    <3>1. CASE Tick
      BY <2>1, <2>2, <3>1 DEF Tick, Older, Lesser
    <3>2. CASE CoreStarts \/ SetBuild \/ Clear \/ CoreStops \/ PoolChanges \/ Ask \/ Drop
      BY <2>1, <2>2, <3>2 DEF CoreStarts, SetBuild, Clear, CoreStops, PoolChanges, Ask, Drop, paceVars
    <3>3. CASE Judge /\ ~Due
      BY <2>1, <2>2, <3>3 DEF Judge
    <3>4. QED
      BY <3>1, <3>2, <3>3 DEF MonitorNext
  <2>4. Countdown = Grace /\ (rebuilt = Never \/ rebuilt >= backoff)
    BY <2>3 DEF Due
  <2>5. exhausted = Grace
    BY <2>1, <2>4 DEF Countdown
  <2>6. QED
    BY <2>1, <2>4, <2>5 DEF PaceInv
<1>2. QED
  BY <1>1, PaceInvariant, PTL DEF MonitorSpec, RebuildsPaced

HIDE PaceAssumption DEF PaceAssumption

-----------------------------------------------------------------------------
(* The updater *)

USE TreeAssumption

Before(n) == {Tree[i] : i \in 1..(n - 1)}

Installing == {"copy", "copying", "replace", "rename"}

(* What is on the disk at each place of a run: a file is handled while there is  *)
(* one; what was unpacked is whole and complete before the first file is         *)
(* replaced, and so is what is renamed; the files handled are those of the new   *)
(* release; and the archive goes only after all of them.                         *)
DiskInv ==
    /\ step \in {"unzipping", "copying", "replace", "rename"} => next <= Len(Tree)
    /\ step \in {"unzip", "unzipping"} => \A f \in Before(next) : payload[f] = "new"
    /\ step \in Installing => \A f \in File : payload[f] = "new"
    /\ step \in {"replace", "rename"} => temporary[Tree[next]] = "new"
    /\ step \in Installing => \A f \in Before(next) : disk[f] = "new"
    /\ step \in {"clean", "restart"} \/ ~archive => \A f \in File : disk[f] = "new"
    /\ ~archive => step \in {"off", "clean", "restart"}
    /\ \A f \in File : disk[f] # "torn"

UpdateInv == UpdaterTypeOK /\ DiskInv

\* A file that is handled next has not been handled before, and once all have been
\* there is none left.
LEMMA TreeFacts ==
  /\ Len(Tree) \in Nat
  /\ \A n \in 1..Len(Tree) : /\ Tree[n] \in File
                             /\ Tree[n] \notin Before(n)
                             /\ Before(n + 1) = Before(n) \cup {Tree[n]}
  /\ Before(1) = {}
  /\ \A n \in Nat : n > Len(Tree) => File \subseteq Before(n)
<1>1. DOMAIN Tree = 1..Len(Tree) /\ Len(Tree) \in Nat
  BY DEF TreeAssumption
<1>2. File = {Tree[i] : i \in 1..Len(Tree)}
  BY <1>1 DEF File, ToSet
<1>3. Before(1) = {}
  BY DEF Before
<1>4. ASSUME NEW n \in 1..Len(Tree)
      PROVE  /\ Tree[n] \in File
             /\ Tree[n] \notin Before(n)
             /\ Before(n + 1) = Before(n) \cup {Tree[n]}
  <2>1. Tree[n] \in File
    BY <1>2
  <2>2. Tree[n] \notin Before(n)
    BY <1>1 DEF TreeAssumption, Before
  <2>3. 1..((n + 1) - 1) = (1..(n - 1)) \cup {n}
    BY <1>1
  <2>4. Before(n + 1) = Before(n) \cup {Tree[n]}
    BY <2>3 DEF Before
  <2>5. QED
    BY <2>1, <2>2, <2>4
<1>5. ASSUME NEW n \in Nat, n > Len(Tree)
      PROVE  File \subseteq Before(n)
  BY <1>1, <1>2, <1>5 DEF Before
<1>6. QED
  BY <1>1, <1>3, <1>4, <1>5

LEMMA UpdateInitially ==
  UpdaterInit => UpdateInv
<1> SUFFICES ASSUME UpdaterInit PROVE UpdateInv
  OBVIOUS
<1> USE DEF UpdaterInit, AllOf, Content
<1>1. Len(Tree) \in Nat
  BY TreeFacts
<1>2. UpdaterTypeOK
  BY <1>1 DEF UpdaterTypeOK, TreeAssumption
<1>3. DiskInv
  BY DEF DiskInv, Installing
<1>4. QED
  BY <1>2, <1>3 DEF UpdateInv

LEMMA UpdaterTypeInductive ==
  ASSUME UpdateInv, [UpdaterNext]_updaterVars
  PROVE  UpdaterTypeOK'
<1> USE TreeFacts DEF UpdateInv, UpdaterTypeOK, Goes, Content, diskVars, runVars, AllOf, AtEnd, This
<1>1. /\ Len(Tree) \in Nat
      /\ MaxAttempt \in Nat /\ MaxRun \in Nat
  BY DEF TreeAssumption
<1>2. CASE Launch \/ Stops \/ Restart
  BY <1>1, <1>2 DEF Launch, Stops, Restart
<1>3. ASSUME NEW f \in File, BusyChanges(f)
      PROVE  UpdaterTypeOK'
  BY <1>3 DEF BusyChanges
<1>4. CASE Unzip \/ UnzipEnds
  <2>1. CASE Unzip
    BY <1>1, <2>1 DEF Unzip
  <2>2. CASE UnzipEnds
    BY <1>1, <2>2 DEF UnzipEnds
  <2>3. QED
    BY <1>4, <2>1, <2>2
<1>5. CASE Unzipped
  BY <1>1, <1>5 DEF Unzipped, DiskInv
<1>6. CASE Copy \/ Copied
  BY <1>1, <1>6 DEF Copy, Copied
<1>7. CASE RemoveOld
  BY <1>1, <1>7 DEF RemoveOld
<1>8. CASE Rename
  BY <1>1, <1>8 DEF Rename, DiskInv
<1>9. CASE RenameFails \/ GiveUp
  BY <1>1, <1>9 DEF RenameFails, GiveUp
<1>10. CASE Clean \/ RemoveExtracted
  BY <1>1, <1>10 DEF Clean, RemoveExtracted
<1>11. CASE UNCHANGED updaterVars
  BY <1>11 DEF updaterVars
<1>12. QED
  BY <1>2, <1>3, <1>4, <1>5, <1>6, <1>7, <1>8, <1>9, <1>10, <1>11 DEF UpdaterNext

LEMMA DiskInductive ==
  ASSUME UpdateInv, [UpdaterNext]_updaterVars
  PROVE  DiskInv'
<1> USE DEF UpdateInv, DiskInv, Goes, Installing, diskVars, runVars
<1>0. UpdaterTypeOK /\ Len(Tree) \in Nat /\ next \in 1..(Len(Tree) + 1)
  BY TreeFacts DEF UpdaterTypeOK
<1>1. CASE Launch
  BY <1>0, <1>1, TreeFacts DEF Launch
<1>2. CASE Stops \/ Restart
  BY <1>2 DEF Stops, Restart
<1>3. ASSUME NEW f \in File, BusyChanges(f)
      PROVE  DiskInv'
  BY <1>3 DEF BusyChanges
<1>4. CASE Unzip
  <2>1. next \in 1..Len(Tree)
    BY <1>0, <1>4 DEF Unzip, AtEnd
  <2>2. QED
    BY <1>0, <1>4, <2>1, TreeFacts DEF Unzip, This, UpdaterTypeOK
<1>5. CASE Unzipped
  <2>1. next \in 1..Len(Tree)
    BY <1>0, <1>5 DEF Unzipped
  <2>2. \A f \in Before(next + 1) : payload'[f] = "new"
    BY <1>5, <2>1, TreeFacts DEF Unzipped, This, UpdaterTypeOK
  <2>3. QED
    BY <1>5, <2>2 DEF Unzipped
<1>6. CASE UnzipEnds
  <2>1. \A f \in File : payload[f] = "new"
    BY <1>0, <1>6, TreeFacts DEF UnzipEnds, AtEnd
  <2>2. QED
    BY <1>6, <2>1, TreeFacts DEF UnzipEnds
<1>7. CASE Copy
  BY <1>0, <1>7 DEF Copy, AtEnd
<1>8. CASE Copied
  <2>1. next \in 1..Len(Tree)
    BY <1>0, <1>8 DEF Copied
  <2>2. QED
    BY <1>0, <1>8, <2>1, TreeFacts DEF Copied, This, UpdaterTypeOK
<1>9. CASE RemoveOld
  <2>1. next \in 1..Len(Tree)
    BY <1>0, <1>9 DEF RemoveOld
  <2>2. QED
    BY <1>0, <1>9, <2>1, TreeFacts DEF RemoveOld, This, UpdaterTypeOK
<1>10. CASE Rename
  <2>1. next \in 1..Len(Tree)
    BY <1>0, <1>10 DEF Rename
  <2>2. disk' = [disk EXCEPT ![Tree[next]] = "new"]
    BY <1>10 DEF Rename, This
  <2>3. \A f \in Before(next + 1) : disk'[f] = "new"
    BY <1>0, <1>10, <2>1, <2>2, TreeFacts DEF Rename, UpdaterTypeOK
  <2>4. QED
    BY <1>0, <1>10, <2>1, <2>2, <2>3 DEF Rename, UpdaterTypeOK
<1>11. CASE RenameFails \/ GiveUp
  BY <1>11 DEF RenameFails, GiveUp
<1>12. CASE Clean
  <2>1. \A f \in File : disk[f] = "new"
    BY <1>0, <1>12, TreeFacts DEF Clean, AtEnd
  <2>2. QED
    BY <1>12, <2>1 DEF Clean
<1>13. CASE RemoveExtracted
  BY <1>13 DEF RemoveExtracted
<1>14. CASE UNCHANGED updaterVars
  BY <1>14 DEF updaterVars
<1>15. QED
  BY <1>1, <1>2, <1>3, <1>4, <1>5, <1>6, <1>7, <1>8, <1>9, <1>10, <1>11, <1>12, <1>13, <1>14
  DEF UpdaterNext

LEMMA UpdateInvariant ==
  UpdaterSpec => []UpdateInv
<1>1. UpdaterInit => UpdateInv
  BY UpdateInitially
<1>2. UpdateInv /\ [UpdaterNext]_updaterVars => UpdateInv'
  BY UpdaterTypeInductive, DiskInductive DEF UpdateInv
<1>3. QED
  BY <1>1, <1>2, PTL DEF UpdaterSpec

\* The updater's places, files and attempts stay what they are.
THEOREM UpdaterTypeCorrect ==
  UpdaterSpec => []UpdaterTypeOK
<1>1. UpdateInv => UpdaterTypeOK
  BY DEF UpdateInv
<1>2. QED
  BY <1>1, UpdateInvariant, PTL

\* Wherever it is interrupted, and however often, the updater leaves all of the new
\* release or the archive to take it from, and starts nothing but all of it.
THEOREM NothingHalfDoneTheorem ==
  UpdaterSpec => []NothingHalfDone
<1>1. UpdateInv => NothingHalfDone
  BY DEF UpdateInv, UpdaterTypeOK, DiskInv, NothingHalfDone
<1>2. UpdaterSpec => []UpdateInv
  BY UpdateInvariant
<1>3. QED
  BY <1>1, <1>2, PTL

\* No file of the program is ever one that a copy left half written.
THEOREM NoTornFileTheorem ==
  UpdaterSpec => []NoTornFile
<1>1. UpdateInv => NoTornFile
  BY DEF UpdateInv, DiskInv, NoTornFile
<1>2. UpdaterSpec => []UpdateInv
  BY UpdateInvariant
<1>3. QED
  BY <1>1, <1>2, PTL

HIDE TreeAssumption

-----------------------------------------------------------------------------
(* The DNS servers of interfaces *)

(* What the servers written to an interface can be, and those a thread has read.      *)
(* Those of an automatic one are none or carry the DHCP mark; one with a server of    *)
(* its own has that one, alone or between "local" and the mark.                       *)
Plain     == <<"own4", "own6">>
Overlaid  == <<"local", "own4", "setMark", "own6">>
Fixed(i)  == i \notin Automatic /\ i \notin SixFirst

Kept(i, list) ==
    /\ i \in Automatic => list = <<>> \/ "dhcpMark" \in ToSet(list)
    /\ Fixed(i) => list \in {<<"own4">>, <<"local", "own4", "setMark">>}

Seen(i, list) ==
    /\ i \in Automatic /\ MarkIn(list) => "dhcpMark" \in ToSet(list)
    /\ Fixed(i) => list \in {Plain, Overlaid}

JobOK(j) ==
    /\ j.at # "idle" => j.ifc \in Iface
    /\ j.at \in {"check", "write"} => Seen(j.ifc, j.list)
    /\ j.at = "write" /\ j.do = "set" /\ (j.ifc \in Automatic \/ Fixed(j.ifc))
          => j.auto = (j.ifc \in Automatic)

DnsInv ==
    /\ DnsTypeOK
    /\ \A i \in Iface : Kept(i, nameServers[i])
    /\ \A t \in Thread : JobOK(job[t])

-----------------------------------------------------------------------------
\* Lists of concrete servers, element by element.
LEMMA SameList ==
  ASSUME NEW X, NEW s \in Seq(X), NEW t \in Seq(X), Len(s) = Len(t),
         \A i \in 1..Len(s) : s[i] = t[i]
  PROVE  s = t
  OBVIOUS

LEMMA Tuples ==
  ASSUME NEW a, NEW b, NEW c
  PROVE  /\ Append(<<a>>, b) = <<a, b>>
         /\ Append(<<a, b>>, c) = <<a, b, c>>
<1> DEFINE X == {a, b, c}
<1>1. Append(<<a>>, b) = <<a, b>>
  <2> DEFINE s == Append(<<a>>, b)
             t == <<a, b>>
  <2>1. s \in Seq(X) /\ t \in Seq(X)
    OBVIOUS
  <2>2. Len(s) = 2 /\ Len(t) = 2 /\ s[1] = a /\ s[2] = b /\ t[1] = a /\ t[2] = b
    OBVIOUS
  <2> HIDE DEF s, t, X
  <2>3. s = t
    BY <2>1, <2>2, SameList
  <2>4. QED
    BY <2>3 DEF s, t
<1>2. Append(<<a, b>>, c) = <<a, b, c>>
  <2> DEFINE s == Append(<<a, b>>, c)
             t == <<a, b, c>>
  <2>1. s \in Seq(X) /\ t \in Seq(X)
    OBVIOUS
  <2>2. /\ Len(s) = 3 /\ s[1] = a /\ s[2] = b /\ s[3] = c
        /\ Len(t) = 3 /\ t[1] = a /\ t[2] = b /\ t[3] = c
    OBVIOUS
  <2> HIDE DEF s, t, X
  <2>3. s = t
    BY <2>1, <2>2, SameList
  <2>4. QED
    BY <2>3 DEF s, t
<1>3. QED
  BY <1>1, <1>2

LEMMA OverlaidIs == Append(<<"local", "own4", "setMark">>, "own6") = Overlaid
<1> DEFINE s == Append(<<"local", "own4", "setMark">>, "own6")
<1>1. s \in Seq(Server) /\ Overlaid \in Seq(Server)
  BY DEF Server, Overlaid
<1>2. /\ Len(s) = 4 /\ s[1] = "local" /\ s[2] = "own4" /\ s[3] = "setMark" /\ s[4] = "own6"
      /\ Len(Overlaid) = 4 /\ Overlaid[1] = "local" /\ Overlaid[2] = "own4"
      /\ Overlaid[3] = "setMark" /\ Overlaid[4] = "own6"
  BY DEF Overlaid
<1> HIDE DEF s
<1>3. s = Overlaid
  BY <1>1, <1>2, SameList
<1>4. QED
  BY <1>3 DEF s

LEMMA Narrowed ==
  ASSUME NEW X, NEW Y, NEW s \in Seq(X), ToSet(s) \subseteq Y
  PROVE  s \in Seq(Y)
<1>1. \A i \in 1..Len(s) : s[i] \in Y
  BY DEF ToSet
<1>2. QED
  BY <1>1

LEMMA FourFacts ==
  ASSUME NEW list \in Seq(Server)
  PROVE  /\ FourOf(list) \in Seq(Server \ {"own6"})
         /\ ToSet(FourOf(list)) = ToSet(list) \ {"own6"}
<1> DEFINE T == Server \ {"own6"}
           f == Filter(list, T)
<1>1. f \in Seq(Server) /\ ToSet(f) = ToSet(list) \cap T
  BY FilterFacts
<1>2. ToSet(list) \subseteq Server
  BY DEF ToSet
<1>3. f \in Seq(T)
  BY <1>1, Narrowed
<1>4. QED
  BY <1>1, <1>2, <1>3 DEF FourOf

LEMMA OwnTypes ==
  ASSUME NEW list \in Seq(Server)
  PROVE  OwnIn(list) \in Seq(Server)
<1>1. Unmarked(list) \in Seq(Server)
  BY FilterFacts DEF Unmarked
<1>2. QED
  BY <1>1 DEF OwnIn

LEMMA OverriddenFacts ==
  ASSUME NEW list \in Seq(Server), NEW auto
  PROVE  /\ Overridden(list, auto) \in Seq(Server)
         /\ auto = TRUE => "dhcpMark" \in ToSet(Overridden(list, auto))
<1> DEFINE o == OwnIn(list)
           m == IF auto THEN "dhcpMark" ELSE "setMark"
<1>1. o \in Seq(Server)
  BY OwnTypes
<1>2. m \in Server /\ (auto = TRUE => m = "dhcpMark")
  BY DEF Server
<1>3. <<"local">> \in Seq(Server) /\ <<m>> \in Seq(Server)
  BY <1>2 DEF Server
<1>4. <<m>>[1] = m /\ 1 \in DOMAIN <<m>>
  OBVIOUS
<1>5. m \in ToSet(<<m>>)
  BY <1>4 DEF ToSet
<1> HIDE DEF o, m
<1> DEFINE p == <<"local">> \o o
           q == <<m>>
<1>6. p \in Seq(Server) /\ q \in Seq(Server) /\ m \in ToSet(q)
  BY <1>1, <1>3, <1>5
<1>7. Overridden(list, auto) = p \o q
  BY DEF Overridden, o, m
<1> HIDE DEF p, q
<1>8. ToSet(p \o q) = ToSet(p) \cup ToSet(q) /\ p \o q \in Seq(Server)
  BY <1>6, ConcatFacts
<1>9. QED
  BY <1>2, <1>6, <1>7, <1>8

LEMMA ListedFacts ==
  ASSUME DnsInv, NEW i \in Iface
  PROVE  /\ Listed(i) \in Seq(Server)
         /\ Seen(i, Listed(i))
         /\ i \in Automatic => nameServers[i] = <<>> \/ "dhcpMark" \in ToSet(Listed(i))
<1> DEFINE four == IF nameServers[i] = <<>> THEN <<"own4">> ELSE nameServers[i]
           six  == <<"own6">>
<1>1. nameServers[i] \in Seq(Server \ {"own6"}) /\ Kept(i, nameServers[i])
  BY DEF DnsInv, DnsTypeOK
<1>2. four \in Seq(Server) /\ six \in Seq(Server)
  <2>1. <<"own4">> \in Seq(Server) /\ six \in Seq(Server)
    BY DEF Server
  <2>2. nameServers[i] \in Seq(Server)
    <3>1. ToSet(nameServers[i]) \subseteq Server
      BY <1>1 DEF ToSet
    <3>2. QED
      BY <1>1, <3>1, Narrowed
  <2>3. QED
    BY <2>1, <2>2
<1>3. ToSet(<<"own4">>) = {"own4"} /\ ToSet(six) = {"own6"}
  BY DEF ToSet
<1>4. nameServers[i] # <<>> => four = nameServers[i]
  OBVIOUS
<1>5. nameServers[i] = <<>> => four = <<"own4">>
  OBVIOUS
<1> HIDE DEF four
<1>6. Append(four, "own6") = four \o six
  BY <1>2
<1> HIDE DEF six
<1>7. ToSet(four \o six) = ToSet(four) \cup {"own6"} /\ ToSet(six \o four) = ToSet(four) \cup {"own6"}
  BY <1>2, <1>3, ConcatFacts
<1>8. Listed(i) = IF i \in SixFirst THEN six \o four ELSE four \o six
  BY <1>6 DEF Listed, four, six
<1>9. Listed(i) \in Seq(Server) /\ ToSet(Listed(i)) = ToSet(four) \cup {"own6"}
  BY <1>2, <1>7, <1>8
<1>10. CASE i \in Automatic
  <2>1. CASE nameServers[i] = <<>>
    <3>1. ToSet(Listed(i)) = {"own4", "own6"}
      BY <1>3, <1>5, <1>9, <2>1
    <3>2. ~MarkIn(Listed(i))
      BY <3>1 DEF MarkIn, Marks
    <3>3. QED
      BY <1>9, <1>10, <2>1, <3>2 DEF Seen, Fixed
  <2>2. CASE nameServers[i] # <<>>
    <3>1. "dhcpMark" \in ToSet(four)
      BY <1>1, <1>4, <1>10, <2>2 DEF Kept
    <3>2. QED
      BY <1>9, <1>10, <3>1 DEF Seen, Fixed
  <2>3. QED
    BY <2>1, <2>2
<1>11. CASE Fixed(i)
  <2>1. nameServers[i] \in {<<"own4">>, <<"local", "own4", "setMark">>}
    BY <1>1, <1>11 DEF Kept
  <2>2. nameServers[i] # <<>>
    BY <2>1
  <2>3. Listed(i) = Append(nameServers[i], "own6")
    BY <1>4, <1>6, <1>8, <1>11, <2>2 DEF Fixed
  <2>4. Listed(i) \in {Plain, Overlaid}
    <3>1. Append(<<"own4">>, "own6") = Plain
      BY Tuples DEF Plain
    <3>2. Append(<<"local", "own4", "setMark">>, "own6") = Overlaid
      BY OverlaidIs
    <3>3. QED
      BY <2>1, <2>3, <3>1, <3>2
  <2>5. QED
    BY <1>9, <1>11, <2>4 DEF Seen, Fixed
<1>12. CASE i \notin Automatic /\ ~Fixed(i)
  BY <1>9, <1>12 DEF Seen
<1>13. QED
  BY <1>10, <1>11, <1>12

LEMMA PlainFacts ==
  /\ OwnIn(Plain) = Plain
  /\ "dhcpMark" \notin ToSet(Plain) /\ ~MarkIn(Plain)
<1>1. Plain \in Seq(Server) /\ ToSet(Plain) = {"own4", "own6"}
  BY DEF Plain, Server, ToSet
<1>2. Unmarked(Plain) = Plain
  BY <1>1, FilterAll DEF Unmarked, Server, Marks
<1>3. ~MarkIn(Plain) /\ "dhcpMark" \notin ToSet(Plain)
  BY <1>1 DEF MarkIn, Marks
<1>4. QED
  BY <1>2, <1>3 DEF OwnIn

LEMMA OverlaidFacts ==
  /\ OwnIn(Overlaid) = Plain
  /\ MarkIn(Overlaid) /\ "dhcpMark" \notin ToSet(Overlaid)
<1> DEFINE T == Server \ Marks
           a == <<"local", "own4">>
           b == Append(a, "setMark")
<1>1. /\ a \in Seq(Server) /\ ToSet(a) = {"local", "own4"}
      /\ b \in Seq(Server) /\ Overlaid = Append(b, "own6")
  BY DEF Overlaid, Server, ToSet
<1>2. T = {"local", "own4", "own6"} /\ "setMark" \in Server /\ "own6" \in Server
  BY DEF Server, Marks
<1>3. ToSet(Overlaid) = {"local", "own4", "setMark", "own6"}
  BY DEF Overlaid, ToSet
<1> HIDE DEF a, T
<1>4. Filter(a, T) = a
  BY <1>1, <1>2, FilterAll
<1>5. Filter(b, T) = a
  <2> DEFINE mark == "setMark"
  <2>1. a \in Seq(Server) /\ mark \in Server /\ mark \notin T /\ b = Append(a, mark)
    BY <1>1, <1>2
  <2> HIDE DEF mark, b
  <2>2. Filter(Append(a, mark), T) = Filter(a, T)
    BY <2>1, FilterAppend
  <2>3. QED
    BY <1>4, <2>1, <2>2
<1> HIDE DEF b
<1>6. Filter(Overlaid, T) = Append(a, "own6")
  <2> DEFINE last == "own6"
  <2>1. b \in Seq(Server) /\ last \in Server /\ last \in T /\ Overlaid = Append(b, last)
    BY <1>1, <1>2
  <2> HIDE DEF last
  <2>2. Filter(Append(b, last), T) = Append(Filter(b, T), last)
    BY <2>1, FilterAppend
  <2>3. QED
    BY <1>5, <2>1, <2>2 DEF last
<1>7. Append(a, "own6") = <<"local", "own4", "own6">>
  BY Tuples DEF a
<1>8. Unmarked(Overlaid) = <<"local", "own4", "own6">>
  BY <1>6, <1>7 DEF Unmarked, T
<1>9. MarkIn(Overlaid) /\ "dhcpMark" \notin ToSet(Overlaid)
  BY <1>3 DEF MarkIn, Marks
<1>10. Tail(<<"local", "own4", "own6">>) = Plain
  BY DEF Plain
<1>11. QED
  BY <1>8, <1>9, <1>10 DEF OwnIn

LEMMA FixedFacts ==
  ASSUME NEW list \in {Plain, Overlaid}
  PROVE  /\ OwnIn(list) = Plain
         /\ "dhcpMark" \notin ToSet(list)
         /\ FourOf(Plain) = <<"own4">>
         /\ FourOf(Overridden(list, FALSE)) = <<"local", "own4", "setMark">>
<1> DEFINE T == Server \ {"own6"}
           a == <<"local", "own4">>
           b == <<"local", "own4", "own6">>
           c == <<"own4">>
<1>1. OwnIn(list) = Plain /\ "dhcpMark" \notin ToSet(list)
  BY PlainFacts, OverlaidFacts
<1>2. Overridden(list, FALSE) = Append(b, "setMark") /\ b = Append(a, "own6")
  BY <1>1 DEF Overridden, Plain
<1>3. /\ a \in Seq(Server) /\ b \in Seq(Server)
      /\ ToSet(a) = {"local", "own4"}
  BY DEF Server, ToSet
<1>4. /\ {"local", "own4", "setMark"} \subseteq T /\ "own6" \notin T
      /\ "setMark" \in Server /\ "own6" \in Server
  BY DEF Server
<1>5. Append(a, "setMark") = <<"local", "own4", "setMark">>
  BY Tuples
<1>6. c \in Seq(Server) /\ ToSet(c) = {"own4"} /\ Plain = Append(c, "own6")
  BY DEF Server, ToSet, Plain
<1> HIDE DEF a, b, c, T
<1>7. Filter(c, T) = c
  BY <1>4, <1>6, FilterAll
<1>8. Filter(Plain, T) = c
  BY <1>4, <1>6, <1>7, FilterAppend
<1>9. Filter(a, T) = a
  BY <1>3, <1>4, FilterAll
<1>10. Filter(b, T) = a
  BY <1>2, <1>3, <1>4, <1>9, FilterAppend
<1>11. Filter(Append(b, "setMark"), T) = Append(a, "setMark")
  BY <1>3, <1>4, <1>10, FilterAppend
<1>12. QED
  BY <1>1, <1>2, <1>5, <1>8, <1>11 DEF FourOf, T, c

-----------------------------------------------------------------------------
\* What Write puts into the registry keeps to Kept.
LEMMA Written ==
  ASSUME NEW i \in Iface, NEW list \in Seq(Server), Seen(i, list), NEW auto \in BOOLEAN,
         i \in Automatic \/ Fixed(i) => auto = (i \in Automatic)
  PROVE  /\ FourOf(Overridden(list, auto)) \in Seq(Server \ {"own6"})
         /\ Kept(i, FourOf(Overridden(list, auto)))
         /\ FourOf(Restored(list)) \in Seq(Server \ {"own6"})
         /\ MarkIn(list) => Kept(i, FourOf(Restored(list)))
<1>1. /\ Overridden(list, auto) \in Seq(Server)
      /\ auto = TRUE => "dhcpMark" \in ToSet(Overridden(list, auto))
  BY OverriddenFacts
<1>2. /\ FourOf(Overridden(list, auto)) \in Seq(Server \ {"own6"})
      /\ ToSet(FourOf(Overridden(list, auto))) = ToSet(Overridden(list, auto)) \ {"own6"}
  BY <1>1, FourFacts
<1>3. Restored(list) \in Seq(Server)
  BY OwnTypes DEF Restored
<1>4. FourOf(Restored(list)) \in Seq(Server \ {"own6"})
  BY <1>3, FourFacts
<1>5. FourOf(<<>>) = <<>>
  <2>1. <<>> \in Seq(Server) /\ ToSet(<<>>) = {}
    BY DEF ToSet
  <2>2. QED
    BY <2>1, FilterAll DEF FourOf
<1>6. CASE i \in Automatic
  <2>1. auto = TRUE /\ ~Fixed(i)
    BY <1>6 DEF Fixed
  <2>2. Kept(i, FourOf(Overridden(list, auto)))
    BY <1>1, <1>2, <2>1 DEF Kept
  <2>3. MarkIn(list) => Restored(list) = <<>>
    BY <1>6 DEF Seen, Restored
  <2>4. QED
    BY <1>2, <1>4, <1>5, <2>1, <2>2, <2>3 DEF Kept
<1>7. CASE Fixed(i)
  <2>1. auto = FALSE /\ i \notin Automatic /\ list \in {Plain, Overlaid}
    BY <1>7 DEF Fixed, Seen
  <2>2. /\ FourOf(Overridden(list, auto)) = <<"local", "own4", "setMark">>
        /\ FourOf(Restored(list)) = <<"own4">>
    BY <2>1, FixedFacts DEF Restored
  <2>3. QED
    BY <1>2, <1>4, <2>1, <2>2 DEF Kept
<1>8. CASE i \notin Automatic /\ ~Fixed(i)
  BY <1>2, <1>4, <1>8 DEF Kept
<1>9. QED
  BY <1>6, <1>7, <1>8

Jobs == [at : {"idle", "read", "check", "write"}, do : {"set", "restore"},
         ifc : Iface \cup {NoIface}, list : Seq(Server), auto : BOOLEAN, after : BOOLEAN]

LEMMA NoJobOK == NoJob \in Jobs /\ JobOK(NoJob)
<1>1. <<>> \in Seq(Server)
  OBVIOUS
<1>2. QED
  BY <1>1 DEF NoJob, Jobs, JobOK

\* A step that only starts, or ends, jobs.
LEMMA StartKeeps ==
  ASSUME DnsInv, NEW t \in Thread, NEW do \in {"set", "restore"}, NEW i \in Iface,
         NEW after \in BOOLEAN, Starts(t, do, i, after), UNCHANGED nameServers,
         route' \in Iface, dnsIsSet' \in BOOLEAN, lastIfc' \in Iface \cup {NoIface},
         dnsEvents' \in 0..MaxEvent
  PROVE  DnsInv'
<1> DEFINE n == [NoJob EXCEPT !.at = "read", !.do = do, !.ifc = i, !.after = after]
<1>1. n \in Jobs /\ n.at = "read" /\ n.ifc = i
  BY NoJobOK DEF NoJob, Jobs
<1>2. JobOK(n)
  BY <1>1 DEF JobOK
<1>3. job \in [Thread -> Jobs] /\ job' = [job EXCEPT ![t] = n]
  BY DEF DnsInv, DnsTypeOK, Jobs, Starts
<1> HIDE DEF n
<1>4. job' \in [Thread -> Jobs] /\ \A u \in Thread : job'[u] = IF u = t THEN n ELSE job[u]
  BY <1>1, <1>3
<1>5. DnsTypeOK'
  BY <1>4 DEF DnsInv, DnsTypeOK, Jobs
<1>6. \A u \in Thread : JobOK(job'[u])
  BY <1>2, <1>4 DEF DnsInv
<1>7. \A j \in Iface : Kept(j, nameServers[j])'
  BY DEF DnsInv, Kept, Fixed
<1>8. (\A u \in Thread : JobOK(job[u]))'
  BY <1>6 DEF JobOK, Seen, Fixed, MarkIn
<1>9. QED
  BY <1>5, <1>7, <1>8 DEF DnsInv

LEMMA ReadKeeps == ASSUME DnsInv, NEW t \in Thread, Read(t) PROVE DnsInv'
<1> DEFINE l == Listed(job[t].ifc)
           a == IF job[t].do = "set" THEN "check" ELSE "write"
           n == [job[t] EXCEPT !.list = l, !.at = a]
<1>1. job \in [Thread -> Jobs] /\ job[t] \in Jobs /\ JobOK(job[t]) /\ job[t].at = "read"
  BY DEF DnsInv, DnsTypeOK, Jobs, Read
<1>2. job[t].ifc \in Iface
  BY <1>1 DEF JobOK
<1>3. l \in Seq(Server) /\ Seen(job[t].ifc, l)
  BY <1>2, ListedFacts
<1>4. job' = [job EXCEPT ![t] = n]
  BY <1>1 DEF Read, Jobs
<1>5. a \in {"check", "write"} /\ (a = "write" => job[t].do # "set")
  OBVIOUS
<1> HIDE DEF l, a
<1>6. /\ n \in Jobs /\ n.at = a /\ n.list = l
      /\ n.ifc = job[t].ifc /\ n.do = job[t].do /\ n.auto = job[t].auto
  BY <1>1, <1>3, <1>5 DEF Jobs
<1> HIDE DEF n
<1>7. JobOK(n)
  BY <1>2, <1>3, <1>5, <1>6 DEF JobOK
<1>8. job' \in [Thread -> Jobs] /\ \A u \in Thread : job'[u] = IF u = t THEN n ELSE job[u]
  BY <1>1, <1>4, <1>6
<1>9. UNCHANGED <<nameServers, route, dnsIsSet, lastIfc, dnsEvents>>
  BY DEF Read
<1>10. DnsTypeOK'
  BY <1>8, <1>9 DEF DnsInv, DnsTypeOK, Jobs
<1>11. \A u \in Thread : JobOK(job'[u])
  BY <1>7, <1>8 DEF DnsInv
<1>12. QED
  BY <1>9, <1>10, <1>11 DEF DnsInv, JobOK, Seen, Fixed, MarkIn, Kept

LEMMA CheckKeeps == ASSUME DnsInv, NEW t \in Thread, Check(t) PROVE DnsInv'
<1> DEFINE i == job[t].ifc
           a == IsIfcDNSDhcp(i) \/ "dhcpMark" \in ToSet(job[t].list)
           n == [job[t] EXCEPT !.auto = a, !.at = "write"]
<1>1. job \in [Thread -> Jobs] /\ job[t] \in Jobs /\ JobOK(job[t]) /\ job[t].at = "check"
  BY DEF DnsInv, DnsTypeOK, Jobs, Check
<1>2. i \in Iface /\ Seen(i, job[t].list)
  BY <1>1 DEF JobOK
<1>3. /\ Seen(i, Listed(i)) /\ Kept(i, nameServers[i])
      /\ i \in Automatic => nameServers[i] = <<>> \/ "dhcpMark" \in ToSet(Listed(i))
  BY <1>2, ListedFacts DEF DnsInv
<1>4. a \in BOOLEAN
  BY DEF IsIfcDNSDhcp
<1>5. i \in Automatic => a = TRUE
  BY <1>3 DEF IsIfcDNSDhcp
<1>6. Fixed(i) => a = FALSE
  <2> SUFFICES ASSUME Fixed(i) PROVE ~a
    BY <1>4
  <2>1. "dhcpMark" \notin ToSet(Listed(i)) /\ "dhcpMark" \notin ToSet(job[t].list)
    BY <1>2, <1>3, FixedFacts DEF Seen
  <2>2. nameServers[i] # <<>>
    BY <1>3 DEF Kept
  <2>3. QED
    BY <2>1, <2>2 DEF IsIfcDNSDhcp
<1>7. job' = [job EXCEPT ![t] = n]
  BY <1>1 DEF Check, Jobs
<1> HIDE DEF a
<1>8. /\ n \in Jobs /\ n.at = "write" /\ n.list = job[t].list
      /\ n.ifc = i /\ n.do = job[t].do /\ n.auto = a
  BY <1>1, <1>4 DEF Jobs
<1> HIDE DEF n, i
<1>9. a = (i \in Automatic) \/ (i \notin Automatic /\ ~Fixed(i))
  BY <1>4, <1>5, <1>6 DEF Fixed
<1>10. JobOK(n)
  BY <1>2, <1>8, <1>9 DEF JobOK
<1>11. job' \in [Thread -> Jobs] /\ \A u \in Thread : job'[u] = IF u = t THEN n ELSE job[u]
  BY <1>1, <1>7, <1>8
<1>12. UNCHANGED <<nameServers, route, dnsIsSet, lastIfc, dnsEvents>>
  BY DEF Check
<1>13. DnsTypeOK'
  BY <1>11, <1>12 DEF DnsInv, DnsTypeOK, Jobs
<1>14. \A u \in Thread : JobOK(job'[u])
  BY <1>10, <1>11 DEF DnsInv
<1>15. QED
  BY <1>12, <1>13, <1>14 DEF DnsInv, JobOK, Seen, Fixed, MarkIn, Kept

LEMMA WriteKeeps == ASSUME DnsInv, NEW t \in Thread, Write(t) PROVE DnsInv'
<1> DEFINE j == job[t]
           leaves == j.after /\ lastIfc \notin {NoIface, j.ifc}
           n == IF leaves THEN [NoJob EXCEPT !.at = "read", !.ifc = lastIfc] ELSE NoJob
           set == FourOf(Overridden(j.list, j.auto))
           back == FourOf(Restored(j.list))
           DnsList == Seq(Server \ {"own6"})
<1>1. /\ job \in [Thread -> Jobs] /\ j \in Jobs /\ JobOK(j) /\ j.at = "write"
      /\ nameServers \in [Iface -> DnsList] /\ lastIfc \in Iface \cup {NoIface}
  BY DEF DnsInv, DnsTypeOK, Jobs, Write
<1>2. /\ j.ifc \in Iface /\ Seen(j.ifc, j.list) /\ j.auto \in BOOLEAN /\ j.list \in Seq(Server)
      /\ j.do = "set" /\ (j.ifc \in Automatic \/ Fixed(j.ifc)) => j.auto = (j.ifc \in Automatic)
  BY <1>1 DEF JobOK, Jobs
<1>3. /\ j.do = "set" => set \in DnsList /\ Kept(j.ifc, set)
      /\ MarkIn(j.list) => back \in DnsList /\ Kept(j.ifc, back)
  <2> HIDE DEF j
  <2>1. CASE j.do = "set"
    BY <1>2, <2>1, Written
  <2>2. CASE j.do # "set"
    <3> DEFINE b == (j.ifc \in Automatic)
    <3>1. b \in BOOLEAN
      OBVIOUS
    <3>2. QED
      BY <1>2, <2>2, <3>1, Written
  <2>3. QED
    BY <2>1, <2>2
<1>4. \/ nameServers' = [nameServers EXCEPT ![j.ifc] = set] /\ j.do = "set"
      \/ nameServers' = [nameServers EXCEPT ![j.ifc] = back] /\ MarkIn(j.list)
      \/ nameServers' = nameServers
  BY DEF Write, SetDNS
<1>5. n \in Jobs /\ JobOK(n)
  <2>1. CASE leaves
    <3>1. lastIfc \in Iface
      BY <1>1, <2>1
    <3>2. n = [NoJob EXCEPT !.at = "read", !.ifc = lastIfc]
      BY <2>1
    <3> HIDE DEF n, j
    <3>3. n \in Jobs /\ n.at = "read" /\ n.ifc = lastIfc
      BY <3>1, <3>2, NoJobOK DEF NoJob, Jobs
    <3>4. QED
      BY <3>1, <3>3 DEF JobOK
  <2>2. CASE ~leaves
    BY <2>2, NoJobOK
  <2>3. QED
    BY <2>1, <2>2
<1>6. job' = [job EXCEPT ![t] = n]
  BY DEF Write
<1>7. UNCHANGED <<route, dnsIsSet, lastIfc, dnsEvents>>
  BY DEF Write
<1> HIDE DEF set, back, DnsList, n, j
<1>8. nameServers' \in [Iface -> DnsList] /\ \A i \in Iface : Kept(i, nameServers'[i])
  <2>1. \A i \in Iface : Kept(i, nameServers[i])
    BY DEF DnsInv
  <2>2. QED
    BY <1>1, <1>2, <1>3, <1>4, <2>1
<1>9. job' \in [Thread -> Jobs] /\ \A u \in Thread : job'[u] = IF u = t THEN n ELSE job[u]
  BY <1>1, <1>5, <1>6
<1>10. DnsTypeOK'
  BY <1>7, <1>8, <1>9 DEF DnsInv, DnsTypeOK, Jobs, DnsList
<1>11. \A u \in Thread : JobOK(job'[u])
  BY <1>5, <1>9 DEF DnsInv
<1>12. QED
  BY <1>8, <1>10, <1>11 DEF DnsInv, JobOK, Seen, Fixed, MarkIn, Kept

LEMMA DnsInductive == DnsInv /\ [DnsNext]_dnsVars => DnsInv'
<1> SUFFICES ASSUME DnsInv, [DnsNext]_dnsVars PROVE DnsInv'
  OBVIOUS
<1>1. CASE UNCHANGED dnsVars
  BY <1>1 DEF dnsVars, DnsInv, DnsTypeOK, JobOK, Seen, Fixed, MarkIn, Kept
<1>2. ASSUME NEW clear \in BOOLEAN, SetSystemDNS(clear) PROVE DnsInv'
  <2> DEFINE do == IF clear THEN "restore" ELSE "set"
  <2>1. /\ Starts("rpc", do, route, FALSE) /\ UNCHANGED <<nameServers, route>>
        /\ route \in Iface /\ do \in {"set", "restore"} /\ "rpc" \in Thread /\ FALSE \in BOOLEAN
    BY <1>2 DEF SetSystemDNS, DnsInv, DnsTypeOK, Thread
  <2>2. /\ dnsIsSet' \in BOOLEAN /\ lastIfc' \in Iface \cup {NoIface}
    BY <1>2 DEF SetSystemDNS, DnsInv, DnsTypeOK
  <2>3. dnsEvents' \in 0..MaxEvent
    BY <1>2, IfaceAssumption DEF SetSystemDNS, DnsEvent, DnsInv, DnsTypeOK
  <2>4. route' \in Iface
    BY <2>1
  <2> HIDE DEF do
  <2>5. QED
    BY <2>1, <2>2, <2>3, <2>4, StartKeeps
<1>3. ASSUME NEW i \in Iface, HandleSystemDNS(i) PROVE DnsInv'
  <2> DEFINE do == IF dnsIsSet THEN "set" ELSE "restore"
  <2>1. /\ Starts("monitor", do, i, TRUE) /\ UNCHANGED <<nameServers, dnsIsSet, lastIfc>>
        /\ route' = i /\ do \in {"set", "restore"} /\ "monitor" \in Thread /\ TRUE \in BOOLEAN
    BY <1>3 DEF HandleSystemDNS, Thread
  <2>2. /\ dnsIsSet' \in BOOLEAN /\ lastIfc' \in Iface \cup {NoIface} /\ route' \in Iface
    BY <2>1 DEF DnsInv, DnsTypeOK
  <2>3. dnsEvents' \in 0..MaxEvent
    BY <1>3, IfaceAssumption DEF HandleSystemDNS, DnsEvent, DnsInv, DnsTypeOK
  <2> HIDE DEF do
  <2>4. QED
    BY <2>1, <2>2, <2>3, StartKeeps
<1>4. ASSUME NEW t \in Thread, Read(t) \/ Check(t) \/ Write(t) PROVE DnsInv'
  BY <1>4, ReadKeeps, CheckKeeps, WriteKeeps
<1>5. CASE CoreLost
  <2>1. /\ job' = [t \in Thread |-> NoJob] /\ dnsIsSet' = FALSE /\ lastIfc' = NoIface
        /\ UNCHANGED <<nameServers, route>>
    BY <1>5 DEF CoreLost
  <2>2. dnsEvents' \in 0..MaxEvent
    BY <1>5, IfaceAssumption DEF CoreLost, DnsEvent, DnsInv, DnsTypeOK
  <2>3. job' \in [Thread -> Jobs] /\ \A u \in Thread : JobOK(job'[u])
    BY <2>1, NoJobOK
  <2>4. DnsTypeOK'
    BY <2>1, <2>2, <2>3 DEF DnsInv, DnsTypeOK, Jobs
  <2>5. QED
    BY <2>1, <2>3, <2>4 DEF DnsInv, JobOK, Seen, Fixed, MarkIn, Kept
<1>6. QED
  BY <1>1, <1>2, <1>3, <1>4, <1>5 DEF DnsNext

LEMMA DnsInitially == DnsInit => DnsInv
<1> SUFFICES ASSUME DnsInit PROVE DnsInv
  OBVIOUS
<1>1. /\ nameServers = [i \in Iface |-> Own(i)] /\ route \in Iface /\ dnsIsSet = FALSE
      /\ lastIfc = NoIface /\ job = [t \in Thread |-> NoJob] /\ dnsEvents = 0
  BY IfaceAssumption DEF DnsInit
<1>2. \A i \in Iface : Own(i) \in Seq(Server \ {"own6"}) /\ Kept(i, Own(i))
  <2> SUFFICES ASSUME NEW i \in Iface PROVE Own(i) \in Seq(Server \ {"own6"}) /\ Kept(i, Own(i))
    OBVIOUS
  <2>1. <<>> \in Seq(Server \ {"own6"}) /\ <<"own4">> \in Seq(Server \ {"own6"})
    BY DEF Server
  <2>2. CASE i \in Automatic
    BY <2>1, <2>2 DEF Own, Kept, Fixed
  <2>3. CASE i \notin Automatic
    BY <2>1, <2>3 DEF Own, Kept, Fixed
  <2>4. QED
    BY <2>2, <2>3
<1>3. job \in [Thread -> Jobs] /\ \A t \in Thread : JobOK(job[t])
  BY <1>1, NoJobOK
<1>4. dnsEvents \in 0..MaxEvent
  BY <1>1, IfaceAssumption
<1>5. nameServers \in [Iface -> Seq(Server \ {"own6"})] /\ \A i \in Iface : Kept(i, nameServers[i])
  BY <1>1, <1>2
<1>6. QED
  BY <1>1, <1>3, <1>4, <1>5 DEF DnsInv, DnsTypeOK, Jobs

LEMMA Reversible == DnsInv => OverrideIsReversible
<1> SUFFICES ASSUME DnsInv, NEW i \in Iface, i \in Automatic \/ i \notin SixFirst
             PROVE  \/ nameServers[i] = Own(i)
                    \/ MarkIn(Listed(i)) /\ FourOf(Restored(Listed(i))) = Own(i)
  BY DEF OverrideIsReversible
<1>1. /\ Listed(i) \in Seq(Server) /\ Kept(i, nameServers[i])
      /\ i \in Automatic => nameServers[i] = <<>> \/ "dhcpMark" \in ToSet(Listed(i))
  BY ListedFacts DEF DnsInv
<1>2. CASE i \in Automatic
  <2>1. CASE nameServers[i] = <<>>
    BY <1>2, <2>1 DEF Own
  <2>2. CASE nameServers[i] # <<>>
    <3>1. "dhcpMark" \in ToSet(Listed(i))
      BY <1>1, <1>2, <2>2
    <3>2. MarkIn(Listed(i)) /\ Restored(Listed(i)) = <<>>
      BY <3>1 DEF MarkIn, Marks, Restored
    <3>3. <<>> \in Seq(Server) /\ ToSet(<<>>) = {}
      BY DEF ToSet
    <3>4. FourOf(<<>>) = <<>>
      BY <3>3, FilterAll DEF FourOf
    <3>5. QED
      BY <1>2, <3>2, <3>4 DEF Own
  <2>3. QED
    BY <2>1, <2>2
<1>3. CASE Fixed(i)
  <2>1. CASE nameServers[i] = <<"own4">>
    BY <1>3, <2>1 DEF Own, Fixed
  <2>2. CASE nameServers[i] = <<"local", "own4", "setMark">>
    <3>1. nameServers[i] # <<>>
      BY <2>2
    <3>2. Listed(i) = Append(<<"local", "own4", "setMark">>, "own6")
      BY <1>3, <2>2, <3>1 DEF Listed, Fixed
    <3>3. Append(<<"local", "own4", "setMark">>, "own6") = Overlaid
      BY OverlaidIs
    <3>4. Listed(i) = Overlaid
      BY <3>2, <3>3
    <3>5. MarkIn(Overlaid) /\ Restored(Overlaid) = Plain
      BY OverlaidFacts DEF Restored
    <3>6. FourOf(Plain) = <<"own4">>
      BY FixedFacts
    <3>7. QED
      BY <1>3, <3>4, <3>5, <3>6 DEF Own, Fixed
  <2>3. QED
    BY <1>1, <1>3, <2>1, <2>2 DEF Kept
<1>4. QED
  BY <1>2, <1>3 DEF Fixed

LEMMA DnsInvariant == DnsSpec => []DnsInv
  BY DnsInitially, DnsInductive, PTL DEF DnsSpec

\* Lists of IPv6 servers are never written, and a thread that works knows its interface.
THEOREM DnsTypeCorrect == DnsSpec => []DnsTypeOK
<1>1. DnsInv => DnsTypeOK
  BY DEF DnsInv
<1>2. QED
  BY <1>1, DnsInvariant, PTL

(* However the goroutine of SetSystemDNS and the monitor's callback interleave, and     *)
(* wherever the core dies between them: the servers of an interface are what its user   *)
(* or its network chose, or its own marks say how to get back there. (Not of one whose  *)
(* own servers are listed behind its IPv6 ones.)                                        *)
THEOREM OverrideIsReversibleTheorem == DnsSpec => []OverrideIsReversible
  BY DnsInvariant, Reversible, PTL

-----------------------------------------------------------------------------
(* Together                                                                      *)

\* Whichever part runs begins as its module says, and takes its steps or none.
LEMMA PartsBegin ==
  ASSUME ServicesInit
  PROVE  /\ Init /\ TestsInit /\ MonitorInit /\ StatsInit /\ GroupInit /\ DnsInit
         /\ VpnInit /\ UpdaterInit /\ ConfigInit
BY DEF ServicesInit

LEMMA PartsStep ==
  ASSUME [ServicesNext]_allVars
  PROVE  /\ [Next]_vars /\ [TestsNext]_testsVars /\ [MonitorNext]_monitorVars
         /\ [StatsNext]_statsVars /\ [GroupNext]_groupVars /\ [DnsNext]_dnsVars
         /\ [VpnNext]_vpnVars /\ [UpdaterNext]_updaterVars /\ [ConfigNext]_configVars
<1>1. CASE ServicesNext
  BY <1>1 DEF ServicesNext
<1>2. CASE UNCHANGED allVars
  BY <1>2 DEF allVars
<1>3. QED
  BY <1>1, <1>2

\* The parts that a behaviour of the services is about are behaviours of their modules, so
\* that what is proved of each holds of all together.
LEMMA PartsRun ==
  ServicesSpec => /\ Spec /\ TestsSpec /\ MonitorSpec /\ StatsSpec /\ GroupSpec /\ DnsSpec
                  /\ VpnSpec /\ UpdaterSpec /\ ConfigSpec
BY PartsBegin, PartsStep, PTL
DEF ServicesSpec, Spec, TestsSpec, MonitorSpec, StatsSpec, GroupSpec, DnsSpec, VpnSpec,
    UpdaterSpec, ConfigSpec

EachTypeOK ==
    /\ TypeOK /\ TestsTypeOK /\ MonitorTypeOK /\ StatsTypeOK /\ GroupTypeOK /\ DnsTypeOK
    /\ VpnTypeOK /\ UpdaterTypeOK /\ ConfigTypeOK

PartOK == part \in {"rpc", "tests", "monitor", "stats", "group", "dns", "vpn", "update", "config"}

\* The part that runs is always in a state of its type. (The channel, the sweeps, the
\* monitor, the lister, a refresh, the DNS, endpoints, the updater and the generator.)
THEOREM ServicesTypeTheorem == ServicesSpec => []ServicesTypeOK
<1>1. ServicesSpec => []EachTypeOK
  BY PartsRun, TypeCorrect, TestsTypeCorrect, MonitorTypeCorrect, StatsTypeCorrect,
     GroupTypeCorrect, DnsTypeCorrect, VpnTypeCorrect, UpdaterTypeCorrect, ConfigTypeTheorem, PTL
  DEF EachTypeOK
<1>2. ServicesInit => PartOK
  BY DEF ServicesInit, PartOK
<1>3. PartOK /\ [ServicesNext]_allVars => PartOK'
  BY DEF ServicesNext, allVars, PartOK
<1>4. EachTypeOK /\ PartOK => ServicesTypeOK
  BY DEF ServicesTypeOK, EachTypeOK, PartOK
<1>5. QED
  BY <1>1, <1>2, <1>3, <1>4, PTL DEF ServicesSpec
=============================================================================
