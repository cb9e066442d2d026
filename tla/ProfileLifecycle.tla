-------------------------- MODULE ProfileLifecycle --------------------------
(***************************************************************************)
(* The GUI's side of a profile's life: profile_start and profile_stop of   *)
(* mainwindow_profile_lifecycle.cpp, with the threads they spawn, and the  *)
(* supervision of the core process of src/sys/Process.cpp.                 *)
(*                                                                         *)
(* Four threads act: the UI thread; the worker of profile_start; the       *)
(* worker of profile_stop; and DS_cores, which owns the CoreProcess.  The  *)
(* core is what CoreSession promises: Start and Stop are atomic there, a   *)
(* Start that finds a box published is refused and forgets it (see         *)
(* CoreLifecycle), and a request whose caller gave up is still carried     *)
(* out.  The mode is system proxy, so that there is a proxy to clear.      *)
(***************************************************************************)
EXTENDS Integers, FiniteSets

CONSTANTS
    Profile,
    NoProfile,      \* nullptr, or the id -1
    MaxClicks,      \* bound on what the user does
    MaxCrashes,     \* bound on what happens to the core
    MaxLost         \* bound on the calls whose answer comes after the 30 s

ASSUME ProfileAssumption ==
    /\ NoProfile \notin Profile
    /\ MaxClicks \in Nat /\ MaxCrashes \in Nat /\ MaxLost \in Nat

VARIABLES
    running,        \* MainWindow::running
    startedId,      \* settingsRepo->started_id
    systemProxy,    \* the system proxy points at the core
    muStarting, muStopping,
    ui,             \* where the UI thread is in profile_start
    starter,        \* the worker of profile_start
    stopper,        \* the worker of profile_stop
    cores,          \* what DS_cores is in the middle of
    coreRunning,    \* settingsRepo->core_running
    pendingStart,   \* start_profile_when_core_is_up
    restartAsked,   \* the restart profile_start posted to DS_cores, by its profile
    restartDue,     \* the 200 ms timer of the exit handler runs
    timerValid,     \* coreRestartTimer.isValid()
    process,        \* the core process
    exitPending,    \* it has ended, and DS_cores does not know yet
    todo,           \* the Start and Stop requests the core has not carried out
    boxes,          \* the profiles whose sing-box is up
    published,      \* the one the core knows of
    clicks, crashes, lost

locks   == <<muStarting, muStopping>>
shown   == <<running, startedId, systemProxy>>
session == <<todo, boxes, published>>
watch   == <<cores, coreRunning, pendingStart, restartAsked, restartDue, timerValid>>
life    == <<process, exitPending>>
bounds  == <<clicks, crashes, lost>>
vars == <<locks, shown, session, watch, life, bounds, ui, starter, stopper>>

Maybe == Profile \cup {NoProfile}

\* waited: the worker that sent it still waits for the answer.
Request == [kind : {"start", "stop"}, profile : Maybe, waited : BOOLEAN]

TypeOK ==
    /\ running \in Maybe
    /\ startedId \in Maybe
    /\ systemProxy \in BOOLEAN
    /\ muStarting \in BOOLEAN
    /\ muStopping \in BOOLEAN
    /\ ui \in [at : {"idle", "probe", "launch"}, profile : Maybe]
    /\ starter \in [at : {"none", "check", "restop", "await", "send", "sent", "id", "run",
                          "unlock"}, profile : Maybe]
    /\ stopper \in [at : {"none", "send", "sent", "proxy", "id", "null", "ui"},
                    manual : BOOLEAN]
    /\ cores \in {"idle", "stopCrash", "limit", "stopProxy", "kill"}
    /\ coreRunning \in BOOLEAN
    /\ pendingStart \in Maybe
    /\ restartAsked \in Maybe
    /\ restartDue \in BOOLEAN
    /\ timerValid \in BOOLEAN
    /\ process \in {"down", "booting", "up"}
    /\ exitPending \in BOOLEAN
    /\ todo \subseteq Request
    /\ boxes \subseteq Profile
    /\ published \in Maybe
    /\ clicks \in 0..MaxClicks /\ crashes \in 0..MaxCrashes /\ lost \in 0..MaxLost

NoStarter == [at |-> "none", profile |-> NoProfile]
NoStopper == [at |-> "none", manual |-> FALSE]
UiIdle == [at |-> "idle", profile |-> NoProfile]

\* The application has just started its first core, perhaps to restore a profile.
Init ==
    /\ running = NoProfile /\ startedId = NoProfile /\ systemProxy = FALSE
    /\ muStarting = FALSE /\ muStopping = FALSE
    /\ ui = UiIdle /\ starter = NoStarter /\ stopper = NoStopper
    /\ cores = "idle"
    /\ coreRunning = FALSE
    /\ pendingStart \in Maybe
    /\ restartAsked = NoProfile
    /\ restartDue = FALSE /\ timerValid = FALSE
    /\ process = "booting" /\ exitPending = FALSE
    /\ todo = {} /\ boxes = {} /\ published = NoProfile
    /\ clicks = 0 /\ crashes = 0 /\ lost = 0

Linked == process = "up"

-----------------------------------------------------------------------------
(* profile_stop, up to its worker *)

MayStop == running # NoProfile /\ ~muStopping

LaunchStop(crash, manual) ==
    /\ muStopping' = TRUE
    /\ stopper' = [at |-> IF crash THEN "proxy" ELSE "send", manual |-> manual]

\* The user disconnects.
StopClick ==
    /\ ui.at = "idle" /\ clicks < MaxClicks
    /\ MayStop
    /\ LaunchStop(FALSE, TRUE)
    /\ clicks' = clicks + 1
    /\ UNCHANGED <<muStarting, shown, session, watch, life, crashes, lost, ui, starter>>

\* "Extra process exited unexpectedly" in the log of the core.
ExtraExited ==
    /\ ui.at = "idle" /\ crashes < MaxCrashes
    /\ boxes # {}
    /\ MayStop
    /\ LaunchStop(FALSE, FALSE)
    /\ crashes' = crashes + 1
    /\ UNCHANGED <<muStarting, shown, session, watch, life, clicks, lost, ui, starter>>

-----------------------------------------------------------------------------
(* profile_stop, its worker *)

StopSend ==
    /\ stopper.at = "send"
    /\ IF Linked
       THEN /\ todo' = todo \cup {[kind |-> "stop", profile |-> NoProfile, waited |-> TRUE]}
            /\ stopper' = [stopper EXCEPT !.at = "sent"]
       ELSE /\ stopper' = [stopper EXCEPT !.at = "id"]
            /\ UNCHANGED todo
    /\ UNCHANGED <<locks, shown, boxes, published, watch, life, bounds, ui, starter>>

StopProxy ==
    /\ stopper.at = "proxy"
    /\ systemProxy' = FALSE
    /\ stopper' = [stopper EXCEPT !.at = "id"]
    /\ UNCHANGED <<locks, running, startedId, session, watch, life, bounds, ui, starter>>

StopId ==
    /\ stopper.at = "id"
    /\ startedId' = IF stopper.manual THEN NoProfile ELSE startedId
    /\ stopper' = [stopper EXCEPT !.at = "null"]
    /\ UNCHANGED <<locks, running, systemProxy, session, watch, life, bounds, ui, starter>>

StopNull ==
    /\ stopper.at = "null"
    /\ running' = NoProfile
    /\ stopper' = [stopper EXCEPT !.at = "ui"]
    /\ UNCHANGED <<locks, startedId, systemProxy, session, watch, life, bounds, ui, starter>>

\* The last lambda runs on the UI thread and unlocks there.
StopUnlock ==
    /\ stopper.at = "ui"
    /\ ui.at = "idle"
    /\ muStopping' = FALSE
    /\ stopper' = NoStopper
    /\ UNCHANGED <<muStarting, shown, session, watch, life, bounds, ui, starter>>

-----------------------------------------------------------------------------
(* profile_start on the UI thread *)

ProfileStart(p) ==
    IF muStarting
    THEN UNCHANGED <<ui, muStarting>>
    ELSE /\ muStarting' = TRUE
         /\ ui' = [at |-> "probe", profile |-> p]

StartClick(p) ==
    /\ ui.at = "idle" /\ clicks < MaxClicks
    /\ ProfileStart(p)
    /\ clicks' = clicks + 1
    /\ UNCHANGED <<muStopping, shown, session, watch, life, crashes, lost, starter, stopper>>

\* The dashboard's recovery button: "restarts the active profile".
Recover ==
    /\ ui.at = "idle" /\ clicks < MaxClicks
    /\ ~muStarting /\ ~muStopping
    /\ startedId # NoProfile
    /\ ProfileStart(startedId)
    /\ clicks' = clicks + 1
    /\ UNCHANGED <<muStopping, shown, session, watch, life, crashes, lost, starter, stopper>>

\* Mutant: returns with mu_starting locked when another profile is stopping.
ProbeKeepsLock ==
    /\ ui.at = "probe"
    /\ IF muStopping
       THEN /\ ui' = UiIdle
            /\ UNCHANGED muStopping
       ELSE /\ muStopping' = TRUE
            /\ ui' = [ui EXCEPT !.at = "launch"]
    /\ UNCHANGED <<muStarting, shown, session, watch, life, bounds, starter, stopper>>

\* mu_stopping is only tried here: held for a moment, and let go.
Probe ==
    /\ ui.at = "probe"
    /\ IF muStopping
       THEN /\ muStarting' = FALSE
            /\ ui' = UiIdle
            /\ UNCHANGED muStopping
       ELSE /\ muStopping' = TRUE
            /\ ui' = [ui EXCEPT !.at = "launch"]
            /\ UNCHANGED muStarting
    /\ UNCHANGED <<shown, session, watch, life, bounds, starter, stopper>>

\* Without a core, DS_cores is asked to restart it for this profile.
Launch ==
    /\ ui.at = "launch"
    /\ muStopping' = FALSE
    /\ ui' = UiIdle
    /\ IF coreRunning
       THEN /\ starter' = [at |-> "check", profile |-> ui.profile]
            /\ UNCHANGED <<muStarting, restartAsked>>
       ELSE /\ restartAsked' = ui.profile
            /\ muStarting' = FALSE
            /\ UNCHANGED starter
    /\ UNCHANGED <<shown, session, cores, coreRunning, pendingStart, restartDue, timerValid,
                   life, bounds, stopper>>

-----------------------------------------------------------------------------
(* profile_start, its worker *)

StartCheck ==
    /\ starter.at = "check"
    /\ starter' = [starter EXCEPT !.at = IF running = NoProfile THEN "send" ELSE "restop"]
    /\ UNCHANGED <<locks, shown, session, watch, life, bounds, ui, stopper>>

\* Mutant: stops the old profile and does not wait for it.
StartRestopOnly ==
    /\ starter.at = "restop"
    /\ IF MayStop THEN LaunchStop(FALSE, TRUE) ELSE UNCHANGED <<muStopping, stopper>>
    /\ starter' = [starter EXCEPT !.at = "send"]
    /\ UNCHANGED <<muStarting, shown, session, watch, life, bounds, ui>>

\* profile_stop returns at once when somebody else is stopping already.
StartRestop ==
    /\ starter.at = "restop"
    /\ IF MayStop THEN LaunchStop(FALSE, TRUE) ELSE UNCHANGED <<muStopping, stopper>>
    /\ starter' = [starter EXCEPT !.at = "await"]
    /\ UNCHANGED <<muStarting, shown, session, watch, life, bounds, ui>>

\* Mutant: waits for the mutex it holds itself.
StartAwaitOwn ==
    /\ starter.at = "await"
    /\ ~muStarting
    /\ starter' = [starter EXCEPT !.at = "send"]
    /\ UNCHANGED <<locks, shown, session, watch, life, bounds, ui, stopper>>

\* mu_stopping.lock(), mu_stopping.unlock()
StartAwait ==
    /\ starter.at = "await"
    /\ ~muStopping
    /\ starter' = [starter EXCEPT !.at = "send"]
    /\ UNCHANGED <<locks, shown, session, watch, life, bounds, ui, stopper>>

StartSend ==
    /\ starter.at = "send"
    /\ IF Linked
       THEN /\ todo' = todo \cup {[kind |-> "start", profile |-> starter.profile,
                                   waited |-> TRUE]}
            /\ starter' = [starter EXCEPT !.at = "sent"]
       ELSE /\ starter' = [starter EXCEPT !.at = "unlock"]
            /\ UNCHANGED todo
    /\ UNCHANGED <<locks, shown, boxes, published, watch, life, bounds, ui, stopper>>

\* Mutant: stores the whole entity where its id is meant.
StartIdEntity ==
    /\ starter.at = "id"
    /\ startedId' = starter
    /\ starter' = [starter EXCEPT !.at = "run"]
    /\ UNCHANGED <<locks, running, systemProxy, session, watch, life, bounds, ui, stopper>>

StartId ==
    /\ starter.at = "id"
    /\ startedId' = starter.profile
    /\ starter' = [starter EXCEPT !.at = "run"]
    /\ UNCHANGED <<locks, running, systemProxy, session, watch, life, bounds, ui, stopper>>

\* Mutant: a start that succeeded and does not say what runs.
StartRunForgets ==
    /\ starter.at = "run"
    /\ systemProxy' = TRUE
    /\ starter' = [starter EXCEPT !.at = "unlock"]
    /\ UNCHANGED <<locks, running, startedId, session, watch, life, bounds, ui, stopper>>

StartRun ==
    /\ starter.at = "run"
    /\ running' = starter.profile
    /\ systemProxy' = TRUE
    /\ starter' = [starter EXCEPT !.at = "unlock"]
    /\ UNCHANGED <<locks, startedId, session, watch, life, bounds, ui, stopper>>

StartUnlock ==
    /\ starter.at = "unlock"
    /\ muStarting' = FALSE
    /\ starter' = NoStarter
    /\ UNCHANGED <<muStopping, shown, session, watch, life, bounds, ui, stopper>>

-----------------------------------------------------------------------------
(* The core: its answers *)

StartAnswered(req, ok) ==
    starter' = IF req.waited
               THEN [starter EXCEPT !.at = IF ok THEN "id" ELSE "unlock"]
               ELSE starter

CoreStarts(req) ==
    /\ req \in todo /\ req.kind = "start"
    /\ published = NoProfile
    /\ todo' = todo \ {req}
    /\ \/ /\ boxes' = boxes \cup {req.profile}
          /\ published' = req.profile
          /\ StartAnswered(req, TRUE)
       \/ /\ UNCHANGED <<boxes, published>>
          /\ StartAnswered(req, FALSE)
    /\ UNCHANGED <<locks, shown, watch, life, bounds, ui, stopper>>

\* "instance already started"
CoreRefuses(req) ==
    /\ req \in todo /\ req.kind = "start"
    /\ published # NoProfile
    /\ todo' = todo \ {req}
    /\ published' = NoProfile
    /\ StartAnswered(req, FALSE)
    /\ UNCHANGED <<locks, shown, boxes, watch, life, bounds, ui, stopper>>

CoreStops(req) ==
    /\ req \in todo /\ req.kind = "stop"
    /\ todo' = todo \ {req}
    /\ boxes' = boxes \ {published}
    /\ published' = NoProfile
    /\ stopper' = IF req.waited THEN [stopper EXCEPT !.at = "proxy"] ELSE stopper
    /\ UNCHANGED <<locks, shown, watch, life, bounds, ui, starter>>

\* Call gives up after 30 s; the request stays with the core.
GiveUp(req) ==
    /\ lost < MaxLost
    /\ req \in todo /\ req.waited
    /\ todo' = (todo \ {req}) \cup {[req EXCEPT !.waited = FALSE]}
    /\ lost' = lost + 1
    /\ IF req.kind = "start"
       THEN starter' = [starter EXCEPT !.at = "unlock"] /\ UNCHANGED stopper
       ELSE stopper' = [stopper EXCEPT !.at = "id"] /\ UNCHANGED starter
    /\ UNCHANGED <<locks, shown, boxes, published, watch, life, clicks, crashes, ui>>

-----------------------------------------------------------------------------
(* The core process, and DS_cores *)

\* The process ends: its boxes go with it, and the calls in flight fail.
ProcessEnds ==
    /\ boxes' = {} /\ published' = NoProfile /\ todo' = {}
    /\ starter' = [starter EXCEPT !.at = IF @ = "sent" THEN "unlock" ELSE @]
    /\ stopper' = [stopper EXCEPT !.at = IF @ = "sent" THEN "id" ELSE @]

CoreCrashes ==
    /\ process # "down" /\ crashes < MaxCrashes
    /\ crashes' = crashes + 1
    /\ process' = "down" /\ exitPending' = TRUE
    /\ ProcessEnds
    /\ UNCHANGED <<locks, shown, watch, clicks, lost, ui>>

\* stateChanged(NotRunning), with profile_stop(true, true).
HandleExit ==
    /\ cores = "idle" /\ exitPending
    /\ exitPending' = FALSE
    /\ coreRunning' = FALSE
    /\ IF MayStop
       THEN /\ LaunchStop(TRUE, FALSE)
            /\ cores' = "stopCrash"
       ELSE /\ cores' = "limit"
            /\ UNCHANGED <<muStopping, stopper>>
    /\ UNCHANGED <<muStarting, shown, session, pendingStart, restartAsked, restartDue,
                   timerValid, process, bounds, ui, starter>>

\* profile_stop blocks DS_cores until its worker is through.
StopReturns ==
    /\ cores \in {"stopCrash", "stopProxy"}
    /\ stopper.at = "none"
    /\ cores' = IF cores = "stopCrash" THEN "limit" ELSE "kill"
    /\ UNCHANGED <<locks, shown, session, coreRunning, pendingStart, restartAsked,
                   restartDue, timerValid, life, bounds, ui, starter, stopper>>

\* "Core exits too frequently": twice within 10 s.
TooFrequent ==
    /\ cores = "limit" /\ timerValid
    /\ timerValid' = FALSE
    /\ cores' = "idle"
    /\ UNCHANGED <<locks, shown, session, coreRunning, pendingStart, restartAsked,
                   restartDue, life, bounds, ui, starter, stopper>>

ScheduleRestart ==
    /\ cores = "limit"
    /\ timerValid' = TRUE
    /\ pendingStart' = startedId
    /\ restartDue' = TRUE
    /\ cores' = "idle"
    /\ UNCHANGED <<locks, shown, session, coreRunning, restartAsked, life, bounds, ui,
                   starter, stopper>>

\* CoreProcess::Restart: the exit it causes itself is not handled as a crash.
Restart ==
    /\ process' = "booting" /\ exitPending' = FALSE
    /\ coreRunning' = FALSE
    /\ ProcessEnds
    /\ UNCHANGED <<locks, shown, cores, timerValid, bounds, ui>>

RestartByTimer ==
    /\ cores = "idle" /\ restartDue
    /\ restartDue' = FALSE
    /\ Restart
    /\ UNCHANGED <<pendingStart, restartAsked>>

RestartForProfile ==
    /\ cores = "idle" /\ restartAsked # NoProfile
    /\ pendingStart' = restartAsked
    /\ restartAsked' = NoProfile
    /\ Restart
    /\ UNCHANGED restartDue

\* newConnection, then the CoreStarted message, on the UI thread.
CoreConnects ==
    /\ process = "booting" /\ ui.at = "idle"
    /\ process' = "up"
    /\ coreRunning' = TRUE
    /\ pendingStart' = NoProfile
    /\ IF pendingStart = NoProfile THEN UNCHANGED <<ui, muStarting>>
                                   ELSE ProfileStart(pendingStart)
    /\ UNCHANGED <<muStopping, shown, session, cores, restartAsked, restartDue, timerValid,
                   exitPending, bounds, starter, stopper>>

\* The "Restart proxy" action: profile_stop(true, true, true), then Kill.
RestartProxy ==
    /\ cores = "idle" /\ clicks < MaxClicks
    /\ clicks' = clicks + 1
    /\ IF MayStop
       THEN /\ LaunchStop(TRUE, TRUE)
            /\ cores' = "stopProxy"
       ELSE /\ cores' = "kill"
            /\ UNCHANGED <<muStopping, stopper>>
    /\ UNCHANGED <<muStarting, shown, session, coreRunning, pendingStart, restartAsked,
                   restartDue, timerValid, life, crashes, lost, ui, starter>>

Kill ==
    /\ cores = "kill"
    /\ cores' = "idle"
    /\ process' = "down"
    /\ exitPending' = (exitPending \/ process # "down")
    /\ ProcessEnds
    /\ UNCHANGED <<locks, shown, coreRunning, pendingStart, restartAsked, restartDue,
                   timerValid, bounds, ui>>

-----------------------------------------------------------------------------

UiStep == Probe \/ Launch \/ StopUnlock \/ CoreConnects

StarterStep ==
    \/ StartCheck \/ StartRestop \/ StartAwait \/ StartSend
    \/ StartId \/ StartRun \/ StartUnlock

StopperStep == StopSend \/ StopProxy \/ StopId \/ StopNull

CoreStep == \E req \in todo : CoreStarts(req) \/ CoreRefuses(req) \/ CoreStops(req)

CoresStep ==
    \/ HandleExit \/ StopReturns \/ TooFrequent \/ ScheduleRestart
    \/ RestartByTimer \/ RestartForProfile \/ Kill

Next ==
    \/ StopClick \/ Recover \/ RestartProxy
    \/ \E p \in Profile : StartClick(p)
    \/ UiStep \/ StarterStep \/ StopperStep
    \/ CoreStep \/ CoresStep
    \/ ExtraExited \/ CoreCrashes
    \/ \E req \in todo : GiveUp(req)

Spec == Init /\ [][Next]_vars

\* Every thread runs, the core answers, and a new core connects.
Fairness ==
    /\ WF_vars(UiStep) /\ WF_vars(StarterStep) /\ WF_vars(StopperStep)
    /\ WF_vars(CoreStep) /\ WF_vars(CoresStep)

FairSpec == Spec /\ Fairness

-----------------------------------------------------------------------------
(* Properties *)

\* Each mutex is locked exactly while its one holder is at work: the UI thread hands
\* mu_starting over to the worker, mu_stopping is locked on one thread and unlocked on
\* another, and every early return lets go of what it holds.
LocksHeld ==
    /\ muStarting <=> ui.at # "idle" \/ starter.at # "none"
    /\ ~(ui.at # "idle" /\ starter.at # "none")
    /\ muStopping <=> ui.at = "launch" \/ stopper.at # "none"
    /\ ~(ui.at = "launch" /\ stopper.at # "none")

\* The GUI is the polite client of CoreLifecycle: it has no Start outstanding beside a
\* Stop, and none while a box is up.  Two things excuse it: a call it gave up on, and a
\* "Restart proxy" that has cleared running and is about to kill the core.
PoliteCalls ==
    lost = 0 /\ cores \notin {"stopProxy", "kill"} /\ starter.at = "sent" =>
        stopper.at # "sent" /\ boxes = {}

Quiet ==
    /\ ui.at = "idle" /\ starter.at = "none" /\ stopper.at = "none"
    /\ cores = "idle" /\ ~exitPending /\ ~restartDue /\ restartAsked = NoProfile
    /\ process # "booting" /\ todo = {}

\* Once everything has settled, a GUI that shows "disconnected" has a core that runs
\* nothing, whatever crashed or raced on the way, if no answer was given up on.
DisconnectedIsDown ==
    lost = 0 /\ Quiet /\ running = NoProfile => boxes = {}

\* "Connecting" and "Disconnecting" end: no worker waits for a mutex that its holder
\* does not let go, and a call never outlives the core it went to.
TransitionsEnd ==
    /\ starter.at # "none" ~> starter.at = "none"
    /\ stopper.at # "none" ~> stopper.at = "none"

\* QA_CHECKLIST.md:84: "Recovery ... restarts the active profile, without connecting
\* when disconnected".  The code breaks it: only a manual stop forgets started_id.
RecoveryDoesNotConnect ==
    [][Recover /\ Quiet /\ running = NoProfile => UNCHANGED ui]_vars
=============================================================================
