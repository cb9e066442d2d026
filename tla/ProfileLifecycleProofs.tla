----------------------- MODULE ProfileLifecycleProofs -----------------------
(* Proofs about ProfileLifecycle, for any profiles and any number of clicks,   *)
(* crashes and lost answers.                                                   *)
EXTENDS ProfileLifecycle, TLAPS

-----------------------------------------------------------------------------
(* The parts of the invariant *)

UiAt == [at : {"idle", "probe", "launch"}, profile : Maybe]
StarterAt == [at : {"none", "check", "restop", "await", "send", "sent", "id", "run", "unlock"},
              profile : Maybe]
StopperAt == [at : {"none", "send", "sent", "proxy", "id", "null", "ui"}, manual : BOOLEAN]

Threads == ui \in UiAt /\ starter \in StarterAt /\ stopper \in StopperAt

Shown ==
    /\ running \in Maybe /\ startedId \in Maybe /\ systemProxy \in BOOLEAN
    /\ muStarting \in BOOLEAN /\ muStopping \in BOOLEAN
    /\ clicks \in 0..MaxClicks /\ crashes \in 0..MaxCrashes /\ lost \in 0..MaxLost

Watched ==
    /\ cores \in {"idle", "stopCrash", "limit", "stopProxy", "kill"}
    /\ coreRunning \in BOOLEAN
    /\ pendingStart \in Maybe /\ restartAsked \in Maybe
    /\ restartDue \in BOOLEAN /\ timerValid \in BOOLEAN
    /\ process \in {"down", "booting", "up"} /\ exitPending \in BOOLEAN

Served == todo \subseteq Request /\ boxes \subseteq Profile /\ published \in Maybe

\* A start that is under way, on the UI thread or on its worker, has a profile.
NamedInv ==
    /\ ui.at # "idle" => ui.profile \in Profile
    /\ starter.at # "none" => starter.profile \in Profile

\* So has a Start the core has to carry out, and whoever waits for an answer still stands
\* where the request was sent; nobody waits for two.
AskedInv ==
    \A req \in todo :
        /\ req.kind = "start" => req.profile \in Profile
        /\ req.waited => IF req.kind = "start" THEN starter.at = "sent"
                                               ELSE stopper.at = "sent"
        /\ req.waited => \A other \in todo :
              other.waited /\ other.kind = req.kind => other = req

(* The client keeps its turn: whoever stops finds a profile running until the stop is   *)
(* through, and whoever has passed its first look finds none running.                  *)
TurnInv ==
    /\ stopper.at \notin {"none", "ui"} => running # NoProfile
    /\ starter.at \in {"send", "sent", "id", "run"} => running = NoProfile
    /\ starter.at = "await" /\ stopper.at = "none" => running = NoProfile
    /\ starter.at \in {"check", "restop", "await"} /\ stopper.at = "ui" => running = NoProfile

\* Only a process that is up has anything to do or to run.
ProcessInv ==
    /\ process # "up" => boxes = {} /\ todo = {}
    /\ exitPending => process = "down"

(* As long as no answer was given up on and no "Restart proxy" is about to kill it, the *)
(* core runs at most the box it knows of, and somebody in the GUI knows that one runs.  *)
BoxInv ==
    lost = 0 =>
        /\ \A req \in todo : req.waited
        /\ cores \notin {"stopProxy", "kill"} =>
              /\ boxes = IF published = NoProfile THEN {} ELSE {published}
              /\ boxes # {} => running # NoProfile \/ starter.at \in {"id", "run"}
              /\ stopper.at \in {"proxy", "id", "null"} => boxes = {}

Inv == Threads /\ Shown /\ Watched /\ Served /\ NamedInv /\ AskedInv /\ LocksHeld

ClientInv == Inv /\ TurnInv /\ ProcessInv /\ BoxInv

LEMMA InvInitially == Init => Inv
<1> SUFFICES ASSUME Init
             PROVE  Inv
  OBVIOUS
<1>1. Threads
  BY DEF Init, Threads, UiAt, StarterAt, StopperAt, Maybe, UiIdle, NoStarter, NoStopper
<1>2. Shown
  <2>1. 0 \in 0..MaxClicks /\ 0 \in 0..MaxCrashes /\ 0 \in 0..MaxLost
    BY ProfileAssumption
  <2>2. QED
    BY <2>1 DEF Init, Shown, Maybe
<1>3. Watched /\ Served
  BY DEF Init, Watched, Served, Maybe
<1>4. NamedInv /\ AskedInv /\ LocksHeld
  BY DEF Init, NamedInv, AskedInv, LocksHeld, UiIdle, NoStarter, NoStopper
<1>5. QED
  BY <1>1, <1>2, <1>3, <1>4 DEF Inv

-----------------------------------------------------------------------------
(* Each part is kept by every step *)

\* The three threads of the GUI.
LEMMA ThreadsInductive == Inv /\ [Next]_vars => Threads'
<1> SUFFICES ASSUME Inv, [Next]_vars
             PROVE  Threads'
  OBVIOUS
<1> USE DEF Inv, Threads, Shown, NamedInv, Served, Watched, UiAt, StarterAt, StopperAt,
            Maybe, locks, shown, session, watch, life, bounds
<1>1. CASE StopClick
  BY <1>1 DEF StopClick, MayStop, LaunchStop
<1>2. CASE Recover
  BY <1>2 DEF Recover, ProfileStart
<1>3. CASE ExtraExited
  BY <1>3 DEF ExtraExited, MayStop, LaunchStop
<1>4. CASE RestartProxy
  <2>1. /\ UNCHANGED <<ui, starter>>
        /\ stopper' = stopper \/ \E manual \in BOOLEAN : \E where \in {"proxy", "send"} :
              stopper' = [at |-> where, manual |-> manual]
    BY <1>4 DEF RestartProxy, MayStop, LaunchStop
  <2>2. QED
    BY <2>1
<1>5. ASSUME NEW p \in Profile, StartClick(p)
      PROVE  Threads'
  BY <1>5 DEF StartClick, ProfileStart
<1>6. CASE Probe \/ Launch
  BY <1>6 DEF Probe, Launch, UiIdle
<1>7. CASE StopUnlock
  BY <1>7 DEF StopUnlock, NoStopper
<1>8. CASE CoreConnects
  BY <1>8 DEF CoreConnects, ProfileStart
<1>9. CASE StartCheck \/ StartAwait
  BY <1>9 DEF StartCheck, StartAwait
<1>10. CASE StartRestop
  <2>1. UNCHANGED ui /\ starter' = [starter EXCEPT !.at = "await"]
    BY <1>10 DEF StartRestop
  <2>2. stopper' = stopper \/ stopper' = [at |-> "send", manual |-> TRUE]
    BY <1>10 DEF StartRestop, MayStop, LaunchStop
  <2>3. ui' \in UiAt /\ starter' \in StarterAt
    BY <2>1
  <2>4. [at |-> "send", manual |-> TRUE] \in StopperAt
    OBVIOUS
  <2>5. stopper' \in StopperAt
    BY <2>2, <2>4
  <2>6. QED
    BY <2>3, <2>5
<1>11. CASE StartSend \/ StartId \/ StartRun \/ StartUnlock
  BY <1>11 DEF StartSend, StartId, StartRun, StartUnlock, NoStarter
<1>12. CASE StopSend \/ StopProxy \/ StopId \/ StopNull
  BY <1>12 DEF StopSend, StopProxy, StopId, StopNull
<1>13. ASSUME NEW req \in todo, CoreStarts(req) \/ CoreRefuses(req)
      PROVE  Threads'
  BY <1>13 DEF CoreStarts, CoreRefuses, StartAnswered
<1>14. ASSUME NEW req \in todo, CoreStops(req) \/ GiveUp(req)
      PROVE  Threads'
  BY <1>14 DEF CoreStops, GiveUp
<1>15. CASE StopReturns \/ TooFrequent \/ ScheduleRestart
  BY <1>15 DEF StopReturns, TooFrequent, ScheduleRestart
<1>16. CASE HandleExit
  <2>1. /\ UNCHANGED <<ui, starter>>
        /\ stopper' = stopper \/ \E manual \in BOOLEAN : \E where \in {"proxy", "send"} :
              stopper' = [at |-> where, manual |-> manual]
    BY <1>16 DEF HandleExit, MayStop, LaunchStop
  <2>2. QED
    BY <2>1
<1>17. CASE RestartByTimer \/ RestartForProfile
  BY <1>17 DEF RestartByTimer, RestartForProfile, Restart, ProcessEnds
<1>18. CASE Kill \/ CoreCrashes
  BY <1>18 DEF Kill, CoreCrashes, ProcessEnds
<1>19. CASE UNCHANGED vars
  BY <1>19 DEF vars
<1>20. QED
  BY <1>1, <1>2, <1>3, <1>4, <1>5, <1>6, <1>7, <1>8, <1>9, <1>10, <1>11, <1>12, <1>13,
     <1>14, <1>15, <1>16, <1>17, <1>18, <1>19
     DEF Next, UiStep, StarterStep, StopperStep, CoreStep, CoresStep

\* What the user sees, the mutexes and the bounds.
LEMMA ShownInductive == Inv /\ [Next]_vars => Shown'
<1> SUFFICES ASSUME Inv, [Next]_vars
             PROVE  Shown'
  OBVIOUS
<1> USE ProfileAssumption
        DEF Inv, Threads, NamedInv, Shown, UiAt, StarterAt, Maybe, locks, shown, session,
              watch, life, bounds
<1>1. CASE StopClick
  BY <1>1 DEF StopClick, MayStop, LaunchStop
<1>2. CASE Recover
  BY <1>2 DEF Recover, ProfileStart
<1>3. CASE ExtraExited
  BY <1>3 DEF ExtraExited, MayStop, LaunchStop
<1>4. CASE RestartProxy
  <2>1. clicks' \in 0..MaxClicks
    BY <1>4 DEF RestartProxy
  <2>2. muStopping' \in BOOLEAN /\ UNCHANGED <<running, startedId, systemProxy,
                                               muStarting, crashes, lost>>
    BY <1>4 DEF RestartProxy, MayStop, LaunchStop
  <2>3. QED
    BY <2>1, <2>2
<1>5. ASSUME NEW p \in Profile, StartClick(p)
      PROVE  Shown'
  <2>1. clicks' \in 0..MaxClicks
    BY <1>5 DEF StartClick
  <2>2. muStarting' \in BOOLEAN /\ UNCHANGED <<running, startedId, systemProxy,
                                               muStopping, crashes, lost>>
    BY <1>5 DEF StartClick, ProfileStart
  <2>3. QED
    BY <2>1, <2>2
<1>6. CASE Probe \/ Launch
  BY <1>6 DEF Probe, Launch, UiIdle
<1>7. CASE StopUnlock \/ CoreConnects
  BY <1>7 DEF StopUnlock, CoreConnects, NoStopper, ProfileStart
<1>8. CASE StartCheck \/ StartRestop \/ StartAwait
  BY <1>8 DEF StartCheck, StartRestop, StartAwait, MayStop, LaunchStop
<1>9. CASE StartSend \/ StartId \/ StartRun \/ StartUnlock
  BY <1>9 DEF StartSend, StartId, StartRun, StartUnlock, NoStarter
<1>10. CASE StopSend \/ StopProxy \/ StopId \/ StopNull
  BY <1>10 DEF StopSend, StopProxy, StopId, StopNull
<1>11. ASSUME NEW req \in todo, CoreStarts(req) \/ CoreRefuses(req)
      PROVE  Shown'
  BY <1>11 DEF CoreStarts, CoreRefuses, StartAnswered
<1>12. ASSUME NEW req \in todo, CoreStops(req) \/ GiveUp(req)
      PROVE  Shown'
  BY <1>12 DEF CoreStops, GiveUp
<1>13. CASE HandleExit \/ StopReturns \/ TooFrequent \/ ScheduleRestart
  BY <1>13 DEF HandleExit, StopReturns, TooFrequent, ScheduleRestart, MayStop, LaunchStop
<1>14. CASE RestartByTimer \/ RestartForProfile
  BY <1>14 DEF RestartByTimer, RestartForProfile, Restart, ProcessEnds
<1>15. CASE Kill \/ CoreCrashes
  BY <1>15 DEF Kill, CoreCrashes, ProcessEnds
<1>16. CASE UNCHANGED vars
  BY <1>16 DEF vars
<1>17. QED
  BY <1>1, <1>2, <1>3, <1>4, <1>5, <1>6, <1>7, <1>8, <1>9, <1>10, <1>11, <1>12, <1>13,
     <1>14, <1>15, <1>16
     DEF Next, UiStep, StarterStep, StopperStep, CoreStep, CoresStep

\* DS_cores and its process.
LEMMA WatchedInductive == Inv /\ [Next]_vars => Watched'
<1> SUFFICES ASSUME Inv, [Next]_vars
             PROVE  Watched'
  OBVIOUS
<1> USE DEF Inv, Threads, Shown, NamedInv, Watched, UiAt, Maybe, locks, shown, session,
      watch, life, bounds
<1>1. CASE StopClick \/ Recover \/ RestartProxy \/ ExtraExited
  BY <1>1 DEF StopClick, Recover, RestartProxy, ExtraExited, MayStop, LaunchStop,
         ProfileStart
<1>2. ASSUME NEW p \in Profile, StartClick(p)
      PROVE  Watched'
  BY <1>2 DEF StartClick, ProfileStart
<1>3. CASE Probe \/ Launch
  BY <1>3 DEF Probe, Launch, UiIdle
<1>4. CASE StopUnlock \/ CoreConnects
  BY <1>4 DEF StopUnlock, CoreConnects, NoStopper, ProfileStart
<1>5. CASE StartCheck \/ StartRestop \/ StartAwait
  BY <1>5 DEF StartCheck, StartRestop, StartAwait, MayStop, LaunchStop
<1>6. CASE StartSend \/ StartId \/ StartRun \/ StartUnlock
  BY <1>6 DEF StartSend, StartId, StartRun, StartUnlock, NoStarter
<1>7. CASE StopSend \/ StopProxy \/ StopId \/ StopNull
  BY <1>7 DEF StopSend, StopProxy, StopId, StopNull
<1>8. ASSUME NEW req \in todo, CoreStarts(req) \/ CoreRefuses(req)
      PROVE  Watched'
  BY <1>8 DEF CoreStarts, CoreRefuses, StartAnswered
<1>9. ASSUME NEW req \in todo, CoreStops(req) \/ GiveUp(req)
      PROVE  Watched'
  BY <1>9 DEF CoreStops, GiveUp
<1>10. CASE HandleExit \/ StopReturns \/ TooFrequent \/ ScheduleRestart
  BY <1>10 DEF HandleExit, StopReturns, TooFrequent, ScheduleRestart, MayStop, LaunchStop
<1>11. CASE RestartByTimer \/ RestartForProfile
  BY <1>11 DEF RestartByTimer, RestartForProfile, Restart, ProcessEnds
<1>12. CASE Kill \/ CoreCrashes
  BY <1>12 DEF Kill, CoreCrashes, ProcessEnds
<1>13. CASE UNCHANGED vars
  BY <1>13 DEF vars
<1>14. QED
  BY <1>1, <1>2, <1>3, <1>4, <1>5, <1>6, <1>7, <1>8, <1>9, <1>10, <1>11, <1>12, <1>13
     DEF Next, UiStep, StarterStep, StopperStep, CoreStep, CoresStep

\* The core.
LEMMA ServedInductive == Inv /\ [Next]_vars => Served'
<1> SUFFICES ASSUME Inv, [Next]_vars
             PROVE  Served'
  OBVIOUS
<1> USE DEF Inv, Threads, NamedInv, AskedInv, Served, StarterAt, Maybe, Request,
            locks, shown, session, watch, life, bounds
<1>1. CASE StopClick \/ Recover \/ RestartProxy \/ ExtraExited
  BY <1>1 DEF StopClick, Recover, RestartProxy, ExtraExited, MayStop, LaunchStop,
         ProfileStart
<1>2. ASSUME NEW p \in Profile, StartClick(p)
      PROVE  Served'
  BY <1>2 DEF StartClick, ProfileStart
<1>3. CASE Probe \/ Launch
  BY <1>3 DEF Probe, Launch, UiIdle
<1>4. CASE StopUnlock \/ CoreConnects
  BY <1>4 DEF StopUnlock, CoreConnects, NoStopper, ProfileStart
<1>5. CASE StartCheck \/ StartRestop \/ StartAwait
  BY <1>5 DEF StartCheck, StartRestop, StartAwait, MayStop, LaunchStop
<1>6. CASE StartId \/ StartRun \/ StartUnlock
  BY <1>6 DEF StartId, StartRun, StartUnlock, NoStarter
<1>7. CASE StartSend
  <2>1. starter.profile \in Profile
    BY <1>7 DEF StartSend
  <2>2. [kind |-> "start", profile |-> starter.profile, waited |-> TRUE] \in Request
    BY <2>1
  <2>3. todo' = todo \/ todo' = todo \cup {[kind |-> "start", profile |-> starter.profile,
                                           waited |-> TRUE]}
    BY <1>7 DEF StartSend
  <2>4. QED
    BY <1>7, <2>2, <2>3 DEF StartSend
<1>8. CASE StopProxy \/ StopId \/ StopNull
  BY <1>8 DEF StopProxy, StopId, StopNull
<1>9. CASE StopSend
  <2>1. [kind |-> "stop", profile |-> NoProfile, waited |-> TRUE] \in Request
    OBVIOUS
  <2>2. todo' = todo \/ todo' = todo \cup {[kind |-> "stop", profile |-> NoProfile,
                                           waited |-> TRUE]}
    BY <1>9 DEF StopSend
  <2>3. QED
    BY <1>9, <2>1, <2>2 DEF StopSend
<1>10. ASSUME NEW req \in todo, CoreStarts(req) \/ CoreRefuses(req)
      PROVE  Served'
  BY <1>10 DEF CoreStarts, CoreRefuses, StartAnswered
<1>11. ASSUME NEW req \in todo, CoreStops(req) \/ GiveUp(req)
      PROVE  Served'
  BY <1>11 DEF CoreStops, GiveUp
<1>12. CASE HandleExit \/ StopReturns \/ TooFrequent \/ ScheduleRestart
  BY <1>12 DEF HandleExit, StopReturns, TooFrequent, ScheduleRestart, MayStop, LaunchStop
<1>13. CASE RestartByTimer \/ RestartForProfile
  BY <1>13 DEF RestartByTimer, RestartForProfile, Restart, ProcessEnds
<1>14. CASE Kill \/ CoreCrashes
  BY <1>14 DEF Kill, CoreCrashes, ProcessEnds
<1>15. CASE UNCHANGED vars
  BY <1>15 DEF vars
<1>16. QED
  BY <1>1, <1>2, <1>3, <1>4, <1>5, <1>6, <1>7, <1>8, <1>9, <1>10, <1>11, <1>12, <1>13,
     <1>14, <1>15
     DEF Next, UiStep, StarterStep, StopperStep, CoreStep, CoresStep

\* A start gets its profile from the user, from started_id when that is one, or from the
\* profile the core was restarted for.
LEMMA NamedInductive == Inv /\ [Next]_vars => NamedInv'
<1> SUFFICES ASSUME Inv, [Next]_vars
             PROVE  NamedInv'
  OBVIOUS
<1> USE DEF Inv, Threads, Watched, Served, Request, AskedInv, NamedInv, UiAt, StarterAt,
            Maybe, locks, shown, session, watch, life, bounds
<1>1. CASE StopClick \/ RestartProxy \/ ExtraExited
  BY <1>1 DEF StopClick, RestartProxy, ExtraExited, MayStop, LaunchStop
<1>2. CASE Recover
  <2>1. startedId \in Profile
    BY <1>2 DEF Recover, Shown
  <2>2. QED
    BY <1>2, <2>1 DEF Recover, ProfileStart
<1>3. ASSUME NEW p \in Profile, StartClick(p)
      PROVE  NamedInv'
  BY <1>3 DEF StartClick, ProfileStart
<1>4. CASE Probe \/ Launch
  BY <1>4 DEF Probe, Launch, UiIdle
<1>5. CASE StopUnlock \/ CoreConnects
  BY <1>5 DEF StopUnlock, CoreConnects, NoStopper, ProfileStart
<1>6. CASE StartCheck \/ StartRestop \/ StartAwait
  BY <1>6 DEF StartCheck, StartRestop, StartAwait, MayStop, LaunchStop
<1>7. CASE StartSend \/ StartId \/ StartRun \/ StartUnlock
  BY <1>7 DEF StartSend, StartId, StartRun, StartUnlock, NoStarter
<1>8. CASE StopSend \/ StopProxy \/ StopId \/ StopNull
  BY <1>8 DEF StopSend, StopProxy, StopId, StopNull
<1>9. ASSUME NEW req \in todo, CoreStarts(req) \/ CoreRefuses(req)
      PROVE  NamedInv'
  BY <1>9 DEF CoreStarts, CoreRefuses, StartAnswered
<1>10. ASSUME NEW req \in todo, CoreStops(req) \/ GiveUp(req)
      PROVE  NamedInv'
  BY <1>10 DEF CoreStops, GiveUp
<1>11. CASE HandleExit \/ StopReturns \/ TooFrequent \/ ScheduleRestart
  BY <1>11 DEF HandleExit, StopReturns, TooFrequent, ScheduleRestart, MayStop, LaunchStop
<1>12. CASE RestartByTimer \/ RestartForProfile
  BY <1>12 DEF RestartByTimer, RestartForProfile, Restart, ProcessEnds
<1>13. CASE Kill \/ CoreCrashes
  BY <1>13 DEF Kill, CoreCrashes, ProcessEnds
<1>14. CASE UNCHANGED vars
  BY <1>14 DEF vars
<1>15. QED
  BY <1>1, <1>2, <1>3, <1>4, <1>5, <1>6, <1>7, <1>8, <1>9, <1>10, <1>11, <1>12, <1>13,
     <1>14
     DEF Next, UiStep, StarterStep, StopperStep, CoreStep, CoresStep

\* An answer goes to the one worker that waits for it.
LEMMA AskedInductive == Inv /\ [Next]_vars => AskedInv'
<1> SUFFICES ASSUME Inv, [Next]_vars
             PROVE  AskedInv'
  OBVIOUS
<1> USE DEF Inv, Threads, Served, NamedInv, AskedInv, LocksHeld, UiAt, StarterAt, StopperAt,
            Request, locks, shown, session, watch, life, bounds
<1>1. CASE StopClick \/ Recover \/ RestartProxy \/ ExtraExited
  BY <1>1 DEF StopClick, Recover, RestartProxy, ExtraExited, MayStop, LaunchStop,
         ProfileStart
<1>2. ASSUME NEW p \in Profile, StartClick(p)
      PROVE  AskedInv'
  BY <1>2 DEF StartClick, ProfileStart
<1>3. CASE Probe \/ Launch
  BY <1>3 DEF Probe, Launch, UiIdle
<1>4. CASE StopUnlock \/ CoreConnects
  BY <1>4 DEF StopUnlock, CoreConnects, NoStopper, ProfileStart
<1>5. CASE StartCheck \/ StartRestop \/ StartAwait
  BY <1>5 DEF StartCheck, StartRestop, StartAwait, MayStop, LaunchStop
<1>6. CASE StartId \/ StartRun \/ StartUnlock
  BY <1>6 DEF StartId, StartRun, StartUnlock, NoStarter
<1>7. CASE StartSend
  <2>1. starter.at = "send" /\ starter.profile \in Profile /\ stopper' = stopper
    BY <1>7 DEF StartSend
  <2>2. \A req \in todo : ~(req.waited /\ req.kind = "start")
    BY <2>1
  <2>3. CASE todo' = todo
    BY <2>1, <2>2, <2>3
  <2>4. CASE /\ todo' = todo \cup {[kind |-> "start", profile |-> starter.profile,
                                   waited |-> TRUE]}
             /\ starter' = [starter EXCEPT !.at = "sent"]
    <3> DEFINE new == [kind |-> "start", profile |-> starter.profile, waited |-> TRUE]
    <3>1. starter'.at = "sent" /\ todo' = todo \cup {new}
      BY <2>4
    <3>2. new.kind = "start" /\ new.profile \in Profile /\ new.waited = TRUE
      BY <2>1
    <3> HIDE DEF new
    <3>3. QED
      BY <2>1, <2>2, <3>1, <3>2
  <2>5. QED
    BY <1>7, <2>3, <2>4 DEF StartSend
<1>8. CASE StopProxy \/ StopId \/ StopNull
  BY <1>8 DEF StopProxy, StopId, StopNull
<1>9. CASE StopSend
  <2>1. stopper.at = "send" /\ starter' = starter
    BY <1>9 DEF StopSend
  <2>2. \A req \in todo : ~(req.waited /\ req.kind # "start")
    BY <2>1
  <2>3. CASE todo' = todo
    BY <2>1, <2>2, <2>3
  <2>4. CASE /\ todo' = todo \cup {[kind |-> "stop", profile |-> NoProfile, waited |-> TRUE]}
             /\ stopper' = [stopper EXCEPT !.at = "sent"]
    <3> DEFINE new == [kind |-> "stop", profile |-> NoProfile, waited |-> TRUE]
    <3>1. stopper'.at = "sent" /\ todo' = todo \cup {new}
      BY <2>4
    <3>2. new.kind = "stop" /\ new.waited = TRUE
      OBVIOUS
    <3> HIDE DEF new
    <3>3. QED
      BY <2>1, <2>2, <3>1, <3>2
  <2>5. QED
    BY <1>9, <2>3, <2>4 DEF StopSend
<1>10. ASSUME NEW req \in todo, CoreStarts(req) \/ CoreRefuses(req)
      PROVE  AskedInv'
  BY <1>10 DEF CoreStarts, CoreRefuses, StartAnswered
<1>11. ASSUME NEW req \in todo, CoreStops(req) \/ GiveUp(req)
      PROVE  AskedInv'
  BY <1>11 DEF CoreStops, GiveUp
<1>12. CASE HandleExit \/ StopReturns \/ TooFrequent \/ ScheduleRestart
  BY <1>12 DEF HandleExit, StopReturns, TooFrequent, ScheduleRestart, MayStop, LaunchStop
<1>13. CASE RestartByTimer \/ RestartForProfile
  BY <1>13 DEF RestartByTimer, RestartForProfile, Restart, ProcessEnds
<1>14. CASE Kill \/ CoreCrashes
  BY <1>14 DEF Kill, CoreCrashes, ProcessEnds
<1>15. CASE UNCHANGED vars
  BY <1>15 DEF vars
<1>16. QED
  BY <1>1, <1>2, <1>3, <1>4, <1>5, <1>6, <1>7, <1>8, <1>9, <1>10, <1>11, <1>12, <1>13,
     <1>14, <1>15
     DEF Next, UiStep, StarterStep, StopperStep, CoreStep, CoresStep

\* The two mutexes.
LEMMA LocksInductive == Inv /\ [Next]_vars => LocksHeld'
<1> SUFFICES ASSUME Inv, [Next]_vars
             PROVE  LocksHeld'
  OBVIOUS
<1> USE DEF Inv, Threads, Shown, AskedInv, Served, LocksHeld, UiAt, StarterAt, StopperAt,
            Request, locks, shown, session, watch, life, bounds
<1>1. CASE StopClick \/ Recover \/ RestartProxy \/ ExtraExited
  BY <1>1 DEF StopClick, Recover, RestartProxy, ExtraExited, MayStop, LaunchStop,
         ProfileStart
<1>2. ASSUME NEW p \in Profile, StartClick(p)
      PROVE  LocksHeld'
  BY <1>2 DEF StartClick, ProfileStart
<1>3. CASE Probe
  <2>1. muStarting /\ starter.at = "none" /\ ui.at = "probe" /\ UNCHANGED <<starter, stopper>>
    BY <1>3 DEF Probe
  <2>2. CASE muStopping
    <3>1. muStarting' = FALSE /\ ui'.at = "idle" /\ muStopping' = muStopping
      BY <1>3, <2>2 DEF Probe, UiIdle
    <3>2. QED
      BY <2>1, <3>1
  <2>3. CASE ~muStopping
    <3>1. muStarting' = muStarting /\ ui'.at = "launch" /\ muStopping' = TRUE
      BY <1>3, <2>3 DEF Probe
    <3>2. QED
      BY <2>1, <2>3, <3>1
  <2>4. QED
    BY <2>2, <2>3
<1>4. CASE Launch
  <2>1. /\ ui.at = "launch" /\ ui'.at = "idle" /\ muStopping' = FALSE
        /\ stopper' = stopper /\ stopper.at = "none" /\ starter.at = "none" /\ muStarting
    BY <1>4 DEF Launch, UiIdle
  <2>2. CASE coreRunning
    <3>1. starter'.at = "check" /\ muStarting' = muStarting
      BY <1>4, <2>2 DEF Launch
    <3>2. QED
      BY <2>1, <3>1
  <2>3. CASE ~coreRunning
    <3>1. starter' = starter /\ muStarting' = FALSE
      BY <1>4, <2>3 DEF Launch
    <3>2. QED
      BY <2>1, <3>1
  <2>4. QED
    BY <2>2, <2>3
<1>5. CASE StopUnlock \/ CoreConnects
  BY <1>5 DEF StopUnlock, CoreConnects, NoStopper, ProfileStart
<1>6. CASE StartCheck \/ StartRestop \/ StartAwait
  BY <1>6 DEF StartCheck, StartRestop, StartAwait, MayStop, LaunchStop
<1>7. CASE StartSend \/ StartId \/ StartRun \/ StartUnlock
  BY <1>7 DEF StartSend, StartId, StartRun, StartUnlock, NoStarter
<1>8. CASE StopSend \/ StopProxy \/ StopId \/ StopNull
  BY <1>8 DEF StopSend, StopProxy, StopId, StopNull
<1>9. ASSUME NEW req \in todo, CoreStarts(req) \/ CoreRefuses(req)
      PROVE  LocksHeld'
  BY <1>9 DEF CoreStarts, CoreRefuses, StartAnswered
<1>10. ASSUME NEW req \in todo, CoreStops(req) \/ GiveUp(req)
      PROVE  LocksHeld'
  BY <1>10 DEF CoreStops, GiveUp
<1>11. CASE HandleExit \/ StopReturns \/ TooFrequent \/ ScheduleRestart
  BY <1>11 DEF HandleExit, StopReturns, TooFrequent, ScheduleRestart, MayStop, LaunchStop
<1>12. CASE RestartByTimer \/ RestartForProfile
  BY <1>12 DEF RestartByTimer, RestartForProfile, Restart, ProcessEnds
<1>13. CASE Kill \/ CoreCrashes
  BY <1>13 DEF Kill, CoreCrashes, ProcessEnds
<1>14. CASE UNCHANGED vars
  BY <1>14 DEF vars
<1>15. QED
  BY <1>1, <1>2, <1>3, <1>4, <1>5, <1>6, <1>7, <1>8, <1>9, <1>10, <1>11, <1>12, <1>13,
     <1>14
     DEF Next, UiStep, StarterStep, StopperStep, CoreStep, CoresStep

\* running is cleared by the one stop there is, and set by the one start.
LEMMA TurnInductive == ClientInv /\ [Next]_vars => TurnInv'
<1> SUFFICES ASSUME ClientInv, [Next]_vars
             PROVE  TurnInv'
  OBVIOUS
<1> USE DEF ClientInv, Inv, Threads, Shown, NamedInv, AskedInv, LocksHeld, TurnInv, UiAt,
            StarterAt, StopperAt, Maybe, Served, Request, locks, shown, session, watch, life, bounds
<1>1. CASE StopClick \/ Recover \/ RestartProxy \/ ExtraExited
  BY <1>1 DEF StopClick, Recover, RestartProxy, ExtraExited, MayStop, LaunchStop,
         ProfileStart
<1>2. ASSUME NEW p \in Profile, StartClick(p)
      PROVE  TurnInv'
  BY <1>2 DEF StartClick, ProfileStart
<1>3. CASE Probe
  BY <1>3 DEF Probe, UiIdle
<1>4. CASE Launch
  <2>1. UNCHANGED <<running, stopper>> /\ stopper.at = "none"
    BY <1>4 DEF Launch
  <2>2. CASE coreRunning
    <3>1. starter' = [at |-> "check", profile |-> ui.profile]
      BY <1>4, <2>2 DEF Launch
    <3>2. starter'.at = "check"
      BY <3>1
    <3>3. QED
      BY <2>1, <3>2
  <2>3. CASE ~coreRunning
    BY <1>4, <2>1, <2>3 DEF Launch
  <2>4. QED
    BY <2>2, <2>3
<1>5. CASE StopUnlock \/ CoreConnects
  BY <1>5 DEF StopUnlock, CoreConnects, NoStopper, ProfileStart
<1>6. CASE StartCheck \/ StartRestop \/ StartAwait
  BY <1>6 DEF StartCheck, StartRestop, StartAwait, MayStop, LaunchStop
<1>7. CASE StartSend \/ StartId \/ StartRun \/ StartUnlock
  BY <1>7 DEF StartSend, StartId, StartRun, StartUnlock, NoStarter
<1>8. CASE StopSend \/ StopProxy \/ StopId \/ StopNull
  BY <1>8 DEF StopSend, StopProxy, StopId, StopNull
<1>9. ASSUME NEW req \in todo, CoreStarts(req) \/ CoreRefuses(req)
      PROVE  TurnInv'
  BY <1>9 DEF CoreStarts, CoreRefuses, StartAnswered
<1>10. ASSUME NEW req \in todo, CoreStops(req) \/ GiveUp(req)
      PROVE  TurnInv'
  BY <1>10 DEF CoreStops, GiveUp
<1>11. CASE HandleExit \/ StopReturns \/ TooFrequent \/ ScheduleRestart
  BY <1>11 DEF HandleExit, StopReturns, TooFrequent, ScheduleRestart, MayStop, LaunchStop
<1>12. CASE RestartByTimer \/ RestartForProfile
  BY <1>12 DEF RestartByTimer, RestartForProfile, Restart, ProcessEnds
<1>13. CASE Kill \/ CoreCrashes
  BY <1>13 DEF Kill, CoreCrashes, ProcessEnds
<1>14. CASE UNCHANGED vars
  BY <1>14 DEF vars
<1>15. QED
  BY <1>1, <1>2, <1>3, <1>4, <1>5, <1>6, <1>7, <1>8, <1>9, <1>10, <1>11, <1>12, <1>13,
     <1>14
     DEF Next, UiStep, StarterStep, StopperStep, CoreStep, CoresStep

\* When the process ends, all it had goes with it.
LEMMA ProcessInductive == ClientInv /\ [Next]_vars => ProcessInv'
<1> SUFFICES ASSUME ClientInv, [Next]_vars
             PROVE  ProcessInv'
  OBVIOUS
<1> USE DEF ClientInv, Inv, Watched, ProcessInv, Linked, locks, shown, session, watch, life, bounds
<1>1. CASE StopClick \/ Recover \/ RestartProxy \/ ExtraExited
  BY <1>1 DEF StopClick, Recover, RestartProxy, ExtraExited, MayStop, LaunchStop,
         ProfileStart
<1>2. ASSUME NEW p \in Profile, StartClick(p)
      PROVE  ProcessInv'
  BY <1>2 DEF StartClick, ProfileStart
<1>3. CASE Probe \/ Launch
  BY <1>3 DEF Probe, Launch, UiIdle
<1>4. CASE StopUnlock \/ CoreConnects
  BY <1>4 DEF StopUnlock, CoreConnects, NoStopper, ProfileStart
<1>5. CASE StartCheck \/ StartRestop \/ StartAwait
  BY <1>5 DEF StartCheck, StartRestop, StartAwait, MayStop, LaunchStop
<1>6. CASE StartSend \/ StartId \/ StartRun \/ StartUnlock
  BY <1>6 DEF StartSend, StartId, StartRun, StartUnlock, NoStarter
<1>7. CASE StopSend \/ StopProxy \/ StopId \/ StopNull
  BY <1>7 DEF StopSend, StopProxy, StopId, StopNull
<1>8. ASSUME NEW req \in todo, CoreStarts(req) \/ CoreRefuses(req)
      PROVE  ProcessInv'
  BY <1>8 DEF CoreStarts, CoreRefuses, StartAnswered
<1>9. ASSUME NEW req \in todo, CoreStops(req) \/ GiveUp(req)
      PROVE  ProcessInv'
  BY <1>9 DEF CoreStops, GiveUp
<1>10. CASE HandleExit \/ StopReturns \/ TooFrequent \/ ScheduleRestart
  BY <1>10 DEF HandleExit, StopReturns, TooFrequent, ScheduleRestart, MayStop, LaunchStop
<1>11. CASE RestartByTimer \/ RestartForProfile
  BY <1>11 DEF RestartByTimer, RestartForProfile, Restart, ProcessEnds
<1>12. CASE Kill \/ CoreCrashes
  BY <1>12 DEF Kill, CoreCrashes, ProcessEnds
<1>13. CASE UNCHANGED vars
  BY <1>13 DEF vars
<1>14. QED
  BY <1>1, <1>2, <1>3, <1>4, <1>5, <1>6, <1>7, <1>8, <1>9, <1>10, <1>11, <1>12, <1>13
     DEF Next, UiStep, StarterStep, StopperStep, CoreStep, CoresStep

\* A box comes up while no profile runs, and running is cleared when no box is up.
LEMMA BoxInductive == ClientInv /\ [Next]_vars => BoxInv'
<1> SUFFICES ASSUME ClientInv, [Next]_vars
             PROVE  BoxInv'
  OBVIOUS
<1> USE ProfileAssumption
        DEF ClientInv, Inv, Threads, Shown, Served, NamedInv, AskedInv, LocksHeld, TurnInv,
            ProcessInv, BoxInv, UiAt, StarterAt, StopperAt, Maybe, Request, Linked,
            locks, shown, session, watch, life, bounds
<1>1. CASE StopClick \/ Recover \/ RestartProxy \/ ExtraExited
  BY <1>1 DEF StopClick, Recover, RestartProxy, ExtraExited, MayStop, LaunchStop,
         ProfileStart
<1>2. ASSUME NEW p \in Profile, StartClick(p)
      PROVE  BoxInv'
  BY <1>2 DEF StartClick, ProfileStart
<1>3. CASE Probe \/ Launch
  BY <1>3 DEF Probe, Launch, UiIdle
<1>4. CASE StopUnlock \/ CoreConnects
  BY <1>4 DEF StopUnlock, CoreConnects, NoStopper, ProfileStart
<1>5. CASE StartCheck \/ StartRestop \/ StartAwait
  BY <1>5 DEF StartCheck, StartRestop, StartAwait, MayStop, LaunchStop
<1>6. CASE StartSend \/ StartId \/ StartRun \/ StartUnlock
  BY <1>6 DEF StartSend, StartId, StartRun, StartUnlock, NoStarter
<1>7. CASE StopSend \/ StopProxy \/ StopId \/ StopNull
  BY <1>7 DEF StopSend, StopProxy, StopId, StopNull
<1>8. ASSUME NEW req \in todo, CoreStarts(req) \/ CoreRefuses(req)
      PROVE  BoxInv'
  BY <1>8 DEF CoreStarts, CoreRefuses, StartAnswered
<1>9. ASSUME NEW req \in todo, CoreStops(req) \/ GiveUp(req)
      PROVE  BoxInv'
  BY <1>9 DEF CoreStops, GiveUp
<1>10. CASE HandleExit \/ StopReturns \/ TooFrequent \/ ScheduleRestart
  BY <1>10 DEF HandleExit, StopReturns, TooFrequent, ScheduleRestart, MayStop, LaunchStop
<1>11. CASE RestartByTimer \/ RestartForProfile
  BY <1>11 DEF RestartByTimer, RestartForProfile, Restart, ProcessEnds
<1>12. CASE Kill \/ CoreCrashes
  BY <1>12 DEF Kill, CoreCrashes, ProcessEnds
<1>13. CASE UNCHANGED vars
  BY <1>13 DEF vars
<1>14. QED
  BY <1>1, <1>2, <1>3, <1>4, <1>5, <1>6, <1>7, <1>8, <1>9, <1>10, <1>11, <1>12, <1>13
     DEF Next, UiStep, StarterStep, StopperStep, CoreStep, CoresStep

LEMMA Invariant == Spec => []ClientInv
<1>1. Inv /\ [Next]_vars => Inv'
  BY ThreadsInductive, ShownInductive, WatchedInductive, ServedInductive, NamedInductive,
     AskedInductive, LocksInductive DEF Inv
<1>2. Init => ClientInv
  BY InvInitially DEF Init, ClientInv, TurnInv, ProcessInv, BoxInv, NoStarter, NoStopper
<1>3. ClientInv /\ [Next]_vars => ClientInv'
  BY <1>1, TurnInductive, ProcessInductive, BoxInductive DEF ClientInv
<1>4. QED
  BY <1>2, <1>3, PTL DEF Spec

\* The state of the GUI and of the core keeps its type for any profiles and bounds: what
\* is started, remembered or restarted is a profile wherever one is needed.
THEOREM TypeCorrect == Spec => []TypeOK
<1>1. ClientInv => TypeOK
  BY DEF ClientInv, Inv, Threads, Shown, Watched, Served, TypeOK, UiAt, StarterAt, StopperAt
<1>2. QED
  BY <1>1, Invariant, PTL

\* mu_starting and mu_stopping are locked exactly while somebody is at work, whichever
\* thread locked them and whichever early return was taken.
THEOREM LocksHeldTheorem == Spec => []LocksHeld
<1>1. ClientInv => LocksHeld
  BY DEF ClientInv, Inv
<1>2. QED
  BY <1>1, Invariant, PTL

\* The GUI is the polite client that CoreSession is about: it waits with a Start until a
\* Stop is through, and never has one outstanding while a box is up, unless a call was
\* given up on or the core is about to be killed.
THEOREM PoliteCallsTheorem == Spec => []PoliteCalls
<1>1. ClientInv => PoliteCalls
  BY DEF ClientInv, TurnInv, BoxInv, PoliteCalls
<1>2. QED
  BY <1>1, Invariant, PTL

\* Whatever crashed or raced on the way, a settled GUI that shows no profile has a core
\* that runs none.
THEOREM DisconnectedIsDownTheorem == Spec => []DisconnectedIsDown
<1>1. ClientInv => DisconnectedIsDown
  BY DEF ClientInv, BoxInv, DisconnectedIsDown, Quiet
<1>2. QED
  BY <1>1, Invariant, PTL
=============================================================================
