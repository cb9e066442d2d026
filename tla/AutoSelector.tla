---------------------------- MODULE AutoSelector ----------------------------
(***************************************************************************)
(* AutoSelectorMonitor of the GUI: the loop that polls the core for the     *)
(* state of the running selector, the verdict that its whole pool is dead,  *)
(* and the builds it is about, which come and go while a poll is in flight. *)
(*                                                                         *)
(* A pool is one word: "untested" (not reached by the prober yet), "ok",    *)
(* "dead" (probed, no member usable) or "suspended" (the core believes the  *)
(* local network is down). Clocks are ages that stop growing where no       *)
(* comparison of the code tells them apart any more.                        *)
(***************************************************************************)
EXTENDS Naturals

CONSTANTS
    Grace,       \* kPoolExhaustedGraceSecs
    BackoffMin,  \* kRebuildBackoffMinSecs
    BackoffMax   \* kRebuildBackoffMaxSecs

ASSUME PaceAssumption ==
    /\ Grace \in Nat \ {0} /\ BackoffMin \in Nat \ {0} /\ BackoffMax \in Nat
    /\ Grace <= BackoffMax /\ BackoffMin <= BackoffMax

Pool  == {"untested", "ok", "dead", "suspended"}
Never == BackoffMax + 1

VARIABLES
    life,       \* of the profile's life: what core and monitor have been told
    pool,       \* the selector in the core, while it runs one
    active,     \* active: SetBuild has given the monitor a build
    exhausted,  \* age of exhaustedSince, Never for 0
    rebuilt,    \* age of lastRebuildRequest, Never for 0 and for long ago
    backoff,    \* rebuildBackoffSecs
    answer,     \* what the poll in flight has been told, "none" without one
    gaveUp,     \* poolExhausted was emitted for this build
    lively,     \* history: age of the last judged poll that was not dead, or of SetBuild
    streak,     \* history: rebuilds asked for since a poll found something usable
    worked      \* history: a poll has found a working member since the last rebuild

lifeVars  == <<life, pool>>
paceVars  == <<exhausted, rebuilt, backoff>>
pastVars  == <<lively, streak, worked>>
monitorVars == <<lifeVars, active, paceVars, answer, gaveUp, pastVars>>

MonitorTypeOK ==
    /\ life \in {"down", "started", "up", "cleared"}
    /\ pool \in Pool
    /\ active \in BOOLEAN
    /\ exhausted \in 0..Grace \cup {Never}
    /\ rebuilt \in 0..Never
    /\ backoff \in 0..BackoffMax
    /\ answer \in Pool \cup {"none"}
    /\ gaveUp \in BOOLEAN
    /\ lively \in 0..Grace
    /\ streak \in 0..3
    /\ worked \in BOOLEAN

MonitorInit ==
    /\ life = "down" /\ pool = "untested" /\ active = FALSE
    /\ exhausted = Never /\ rebuilt = Never /\ backoff = 0
    /\ answer = "none" /\ gaveUp = FALSE
    /\ lively = 0 /\ streak = 0 /\ worked = TRUE

Lesser(a, b) == IF a < b THEN a ELSE b

-----------------------------------------------------------------------------
(* The profile's life, from profile_start and profile_stop *)

Life(here, there) == life = here /\ life' = there

\* The core answers Start: it runs the selector, and the monitor does not know yet.
CoreStarts ==
    /\ Life("down", "started")
    /\ pool' = "untested"
    /\ UNCHANGED <<active, paceVars, answer, gaveUp, pastVars>>

SetBuild ==
    /\ Life("started", "up")
    /\ active' = TRUE
    /\ exhausted' = Never
    /\ gaveUp' = FALSE
    /\ lively' = 0
    /\ UNCHANGED <<pool, rebuilt, backoff, answer, streak, worked>>

Clear ==
    /\ Life("up", "cleared")
    /\ active' = FALSE
    /\ exhausted' = Never
    /\ UNCHANGED <<pool, rebuilt, backoff, answer, gaveUp, pastVars>>

CoreStops ==
    /\ Life("cleared", "down")
    /\ UNCHANGED <<pool, active, paceVars, answer, gaveUp, pastVars>>

\* The prober of the core, and the network it probes.
PoolChanges ==
    /\ life # "down"
    /\ pool' \in Pool \ {"untested", pool}
    /\ UNCHANGED <<life, active, paceVars, answer, gaveUp, pastVars>>

-----------------------------------------------------------------------------
(* poll() *)

\* QueryAutoSelectors, outside the mutex. Without a box there is no status and
\* the poll ends.
Ask ==
    /\ active
    /\ answer = "none"
    /\ life # "down"
    /\ answer' = pool
    /\ UNCHANGED <<lifeVars, active, paceVars, gaveUp, pastVars>>

\* A build was cleared meanwhile. (A build that was replaced is not noticed: the
\* tag of the group is the same, and so is active.)
Drop ==
    /\ answer # "none"
    /\ ~active
    /\ answer' = "none"
    /\ UNCHANGED <<lifeVars, active, paceVars, gaveUp, pastVars>>

Usable(p) == p \in {"untested", "ok"}

\* Mutant: every answer that finds the pool dead starts the countdown.
CountdownRestarts == IF answer # "dead" THEN Never ELSE 0

\* exhaustedSince as the answer leaves it.
Countdown == IF answer # "dead" THEN Never ELSE IF exhausted = Never THEN 0 ELSE exhausted

\* Mutant: a rebuild may be asked for as soon as the pool has been dead for long.
DueAtOnce == Countdown = Grace

Due == Countdown = Grace /\ (rebuilt = Never \/ rebuilt >= backoff)

Judge ==
    /\ active
    /\ answer # "none"
    /\ answer' = "none"
    /\ IF Due
         THEN /\ exhausted' = Never
              /\ rebuilt' = 0
              /\ backoff' = IF backoff = 0 THEN BackoffMin
                            ELSE Lesser(backoff * 2, BackoffMax)
              /\ gaveUp' \in {gaveUp, TRUE}  \* not emitted without a default interface
              /\ streak' = Lesser(streak + 1, 3)
              /\ worked' = FALSE
         ELSE /\ exhausted' = Countdown
              /\ backoff' = IF Usable(answer) THEN 0 ELSE backoff
              /\ streak' = IF Usable(answer) THEN 0 ELSE streak
              /\ worked' = (worked \/ answer = "ok")
              /\ UNCHANGED <<rebuilt, gaveUp>>
    /\ lively' = IF answer = "dead" THEN lively ELSE 0
    /\ UNCHANGED <<lifeVars, active>>

\* One unit of time, shorter than the grace and longer than a poll, so that an
\* answer is judged in the unit it was asked for.
Older(age, last) == IF age = Never THEN Never ELSE Lesser(age + 1, last)
Tick ==
    /\ answer = "none"
    /\ exhausted' = Older(exhausted, Grace)
    /\ rebuilt' = Older(rebuilt, Never)
    /\ lively' = Lesser(lively + 1, Grace)
    /\ UNCHANGED <<lifeVars, active, backoff, answer, gaveUp, streak, worked>>

-----------------------------------------------------------------------------
MonitorNext ==
    \/ CoreStarts \/ SetBuild \/ Clear \/ CoreStops \/ PoolChanges
    \/ Ask \/ Drop \/ Judge \/ Tick

MonitorSpec == MonitorInit /\ [][MonitorNext]_monitorVars

\* The loop polls every two seconds, and time passes.
MonitorFairness == WF_monitorVars(Ask) /\ WF_monitorVars(Drop \/ Judge) /\ SF_monitorVars(Tick)
MonitorFairSpec == MonitorSpec /\ MonitorFairness

-----------------------------------------------------------------------------
Asks == rebuilt' < rebuilt

(* A rebuild is asked for only when every poll judged for this build said that
   the pool is dead, for the whole grace; and those that follow one another
   without a usable member in between are apart by a floor that doubles up to
   its ceiling.                                                               *)
Floor == IF streak = 0 THEN 0
         ELSE IF streak = 1 THEN BackoffMin
         ELSE Lesser(BackoffMin * (IF streak = 2 THEN 2 ELSE 4), BackoffMax)
RebuildsPaced == [][Asks => lively >= Grace /\ rebuilt >= Floor]_monitorVars

(* A pool that is and stays dead is given up.                                 *)
DeadPoolIsGivenUp ==
    active /\ pool = "dead" ~> gaveUp \/ pool # "dead" \/ ~active \/ rebuilt < BackoffMax

(* AutoSelectorMonitor.hpp: "Floor between two rebuilds, doubled on each
   consecutive rebuild up to the ceiling, so a subscription that is entirely
   dead cannot spin". Stated for rebuilds between which no member ever worked. *)
RebuildsAreSpaced == [][Asks => worked \/ rebuilt >= BackoffMin]_monitorVars
=============================================================================
