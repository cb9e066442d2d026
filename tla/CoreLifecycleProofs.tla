------------------------- MODULE CoreLifecycleProofs -------------------------
(* Proofs about CoreLifecycle, for any set of requests and configurations: what *)
(* holds for clients that keep no protocol at all, and then that, for a client  *)
(* that waits for its answers, CoreLifecycle implements CoreSession and leaves  *)
(* nothing behind.                                                              *)
EXTENDS CoreLifecycle, TLAPS

-----------------------------------------------------------------------------
(* Type correctness *)

LEMMA TypeInitially == Init => TypeOK
<1> USE CoreAssumption DEF TypeOK, Maybe, ConfigType, NoConfig, NoLocals
<1> SUFFICES ASSUME Init PROVE TypeOK
  OBVIOUS
<1> USE DEF Init
<1>1. /\ polite \in BOOLEAN
      /\ needUnsetDNS \in BOOLEAN
      /\ autoRedirectMark \in BOOLEAN
  OBVIOUS
<1>2. /\ owner \in Maybe
      /\ boxInstance \in Maybe
      /\ xrayInstance \in Maybe
      /\ xrayFullGates \in Maybe
      /\ extraProcess \in Maybe
      /\ systemDNS \in {"user", "tun"}
      /\ local \in [box : Maybe, sidecar : Maybe, gates : Maybe]
  OBVIOUS
<1>3. NoConfig \in ConfigType
  OBVIOUS
<1>4. cfg \in [Req -> ConfigType]
  BY <1>3
<1>5. /\ kind \in [Req -> {"none", "start", "stop"}]
      /\ pc \in [Req -> {"idle", "wait", "done"} \cup InLock]
      /\ reply \in [Req -> {"none", "ok", "refused", "failed", "panicked"}]
  OBVIOUS
<1>6. /\ box \in [Req -> {"none", "up", "down"}]
      /\ sidecar \in [Req -> {"none", "up", "down"}]
      /\ extra \in [Req -> {"none", "running", "exited"}]
  OBVIOUS
<1>7. gates \in [Req -> SUBSET FullCfg] /\ conf \in [Req -> BOOLEAN]
  OBVIOUS
<1>8. QED
  BY <1>1, <1>2, <1>4, <1>5, <1>6, <1>7

LEMMA AnswerType ==
  ASSUME TypeOK, NEW r \in Req, NEW what \in {"ok", "refused", "failed", "panicked"},
         Answer(r, what)
  PROVE  /\ reply' \in [Req -> {"none", "ok", "refused", "failed", "panicked"}]
         /\ pc' \in [Req -> {"idle", "wait", "done"} \cup InLock]
         /\ owner' \in Maybe
         /\ local' \in [box : Maybe, sidecar : Maybe, gates : Maybe]
<1>1. local' \in [box : Maybe, sidecar : Maybe, gates : Maybe]
  BY DEF Answer, NoLocals, Maybe
<1>2. QED
  BY <1>1 DEF TypeOK, Answer, Maybe

LEMMA StopExtraType ==
  ASSUME TypeOK, StopExtraProcess
  PROVE  /\ extraProcess' \in Maybe
         /\ extra' \in [Req -> {"none", "running", "exited"}]
         /\ conf' \in [Req -> BOOLEAN]
<1>1. CASE extraProcess = None
  BY <1>1 DEF TypeOK, StopExtraProcess, Maybe
<1>2. CASE extraProcess # None
  <2>1. extraProcess \in Req
    BY <1>2 DEF TypeOK, Maybe
  <2>2. extra' \in [Req -> {"none", "running", "exited"}]
    BY <1>2, <2>1 DEF TypeOK, StopExtraProcess
  <2>3. conf' \in [Req -> BOOLEAN]
    BY <1>2, <2>1 DEF TypeOK, StopExtraProcess
  <2>4. QED
    BY <2>2, <2>3 DEF StopExtraProcess, Maybe
<1>3. QED
  BY <1>1, <1>2

LEMMA TypeInductive == TypeOK /\ [Next]_vars => TypeOK'
<1> SUFFICES ASSUME TypeOK, [Next]_vars
             PROVE  TypeOK'
  OBVIOUS
<1> USE CoreAssumption
    DEF TypeOK, Maybe, InLock, StartPC, StopPC, Goto, requests, pointers, world
<1>1. ASSUME NEW r \in Req, NEW k \in {"start", "stop"}, NEW c \in Config, Arrive(r, k, c)
      PROVE  TypeOK'
  <2>1. NoConfig \in ConfigType
    BY DEF NoConfig, ConfigType
  <2>2. cfg' \in [Req -> ConfigType]
    BY <1>1, <2>1 DEF Arrive
  <2>3. QED
    BY <1>1, <2>2 DEF Arrive
<1>2. ASSUME NEW r \in Req, Lock(r)
      PROVE  TypeOK'
  BY <1>2 DEF Lock
<1>3. ASSUME NEW r \in Req, StartRefused(r) \/ StartCheck(r)
      PROVE  TypeOK'
  <2>1. CASE StartRefused(r)
    BY <2>1, AnswerType DEF StartRefused
  <2>2. CASE StartCheck(r)
    BY <2>2 DEF StartCheck
  <2>3. QED
    BY <1>3, <2>1, <2>2
<1>4. ASSUME NEW r \in Req, ExtraNotBuilt(r) \/ ExtraNotStarted(r) \/ ExtraStarted(r)
      PROVE  TypeOK'
  <2>1. CASE ExtraStarted(r)
    <3>1. conf' \in [Req -> BOOLEAN]
      BY <2>1 DEF ExtraStarted
    <3>2. QED
      BY <2>1, <3>1 DEF ExtraStarted
  <2>2. QED
    BY <1>4, <2>1 DEF ExtraNotBuilt, ExtraNotStarted
<1>5. ASSUME NEW r \in Req, SetMark(r)
      PROVE  TypeOK'
  <2>1. cfg[r].redirect \in BOOLEAN
    BY DEF ConfigType
  <2>2. QED
    BY <1>5, <2>1 DEF SetMark, AfterSidecar
<1>6. ASSUME NEW r \in Req, SidecarUp(r) \/ SidecarFailed(r)
      PROVE  TypeOK'
  BY <1>6 DEF SidecarUp, SidecarFailed, AfterSidecar
<1>7. ASSUME NEW r \in Req, FullFirst(r) \/ FullRest(r) \/ FullUnwind(r)
      PROVE  TypeOK'
  <2>1. cfg[r].full \subseteq FullCfg
    BY DEF ConfigType
  <2>2. gates' \in [Req -> SUBSET FullCfg]
    BY <1>7, <2>1 DEF FullFirst, FullRest, FullUnwind
  <2>3. QED
    BY <1>7, <2>2 DEF FullFirst, FullRest, FullUnwind
<1>8. ASSUME NEW r \in Req, FullPublish(r)
      PROVE  TypeOK'
  BY <1>8 DEF FullPublish
<1>9. ASSUME NEW r \in Req, BoxCreated(r) \/ PublishBox(r)
      PROVE  TypeOK'
  BY <1>9 DEF BoxCreated, PublishBox
<1>10. ASSUME NEW r \in Req, BoxNotCreated(r) \/ UnwindRest(r) \/ StopExtra(r)
       PROVE  TypeOK'
  BY <1>10, StopExtraType DEF BoxNotCreated, UnwindRest, StopExtra
<1>11. ASSUME NEW r \in Req, SetDNS(r) \/ UnwindBox(r) \/ UnsetDNS(r)
       PROVE  TypeOK'
  <2>1. needUnsetDNS' \in BOOLEAN /\ systemDNS' \in {"user", "tun"}
    BY <1>11 DEF SetDNS, UnwindBox, UnsetDNS
  <2>2. QED
    BY <1>11, <2>1 DEF SetDNS, UnwindBox, UnsetDNS
<1>12. ASSUME NEW r \in Req, StartFails(r) \/ StartSucceeds(r) \/ StartPanics(r)
       PROVE  TypeOK'
  <2>1. CASE StartFails(r)
    BY <2>1, AnswerType DEF StartFails
  <2>2. CASE StartSucceeds(r)
    BY <2>2, AnswerType DEF StartSucceeds
  <2>3. CASE StartPanics(r)
    BY <2>3, AnswerType DEF StartPanics
  <2>4. QED
    BY <1>12, <2>1, <2>2, <2>3
<1>13. ASSUME NEW r \in Req, ClearXray(r)
       PROVE  TypeOK'
  BY <1>13 DEF ClearXray
<1>14. ASSUME NEW r \in Req, CloseXray(r)
       PROVE  TypeOK'
  <2>1. sidecar' \in [Req -> {"none", "up", "down"}] /\ gates' \in [Req -> SUBSET FullCfg]
    BY <1>14 DEF CloseXray
  <2>2. QED
    BY <1>14, <2>1 DEF CloseXray
<1>15. ASSUME NEW r \in Req, StopNothing(r) \/ StopLook(r) \/ StopFinish(r)
       PROVE  TypeOK'
  <2>1. CASE StopNothing(r)
    BY <2>1, AnswerType DEF StopNothing
  <2>2. CASE StopLook(r)
    BY <2>2 DEF StopLook
  <2>3. CASE StopFinish(r)
    BY <2>3, AnswerType DEF StopFinish
  <2>4. QED
    BY <1>15, <2>1, <2>2, <2>3
<1>16. ASSUME NEW r \in Req, Unpublish(r) \/ CloseBox(r)
       PROVE  TypeOK'
  BY <1>16 DEF Unpublish, CloseBox
<1>17. ASSUME NEW r \in Req, ExtraExits(r)
       PROVE  TypeOK'
  <2>1. extra' \in [Req -> {"none", "running", "exited"}]
    BY <1>17 DEF ExtraExits
  <2>2. conf' \in [Req -> BOOLEAN]
    BY <1>17 DEF ExtraExits
  <2>3. QED
    BY <1>17, <2>1, <2>2 DEF ExtraExits
<1>18. CASE UNCHANGED vars
  BY <1>18 DEF vars
<1>19. QED
  BY <1>1, <1>2, <1>3, <1>4, <1>5, <1>6, <1>7, <1>8, <1>9, <1>10, <1>11, <1>12,
     <1>13, <1>14, <1>15, <1>16, <1>17, <1>18 DEF Next, Step

\* Every variable of Start and Stop keeps its type, in every behaviour.
THEOREM TypeCorrect == Spec => []TypeOK
<1>1. Init => TypeOK
  BY TypeInitially
<1>2. TypeOK /\ [Next]_vars => TypeOK'
  BY TypeInductive
<1>3. QED
  BY <1>1, <1>2, PTL DEF Spec

-----------------------------------------------------------------------------
(* What is published, and when *)

\* lifecycleMu admits one request, and it is the one between Lock and Answer.
LockInv == \A r \in Req : owner = r <=> pc[r] \in InLock

\* Only a request that got that far is in a slot, so that a gate or a sidecar that
\* is being opened is never already published.
SlotInv ==
    \A r \in Req :
        /\ boxInstance = r => pc[r] \in {"dns", "unwind", "succeed", "done"}
        /\ xrayInstance = r =>
              pc[r] \in {"fullFirst", "fullRest", "fullJoin", "create", "publish", "dns",
                         "unwind", "xclear", "succeed", "done"}
        /\ xrayFullGates = r =>
              pc[r] \in {"create", "publish", "dns", "unwind", "xclear", "succeed", "done"}

\* No box is published while one is brought up or torn down, and closeXray closes
\* what no slot names any more.
ClearInv ==
    \A r \in Req :
        /\ pc[r] \in {"extra", "mark", "sidecar", "fullFirst", "fullRest", "fullJoin",
                      "create", "publish", "xclear", "xclose", "fail", "closeBox",
                      "stopExtra", "finish"} => boxInstance = None
        /\ pc[r] \in {"dns", "succeed"} => boxInstance = r
        /\ pc[r] = "unwind" => boxInstance = r
        /\ pc[r] = "xclose" => xrayInstance = None /\ xrayFullGates = None

\* What a Start has put in place by the time it stands at each point.
ProgressInv ==
    \A r \in Req :
        /\ pc[r] \in {"publish", "dns", "succeed"} => box[r] = "up"
        /\ cfg[r].sidecar /\ pc[r] \in {"fullFirst", "fullRest", "fullJoin", "create",
                                        "publish", "dns", "succeed"} => xrayInstance = r
        /\ cfg[r].full # {} /\ pc[r] \in {"create", "publish", "dns", "succeed"} =>
              xrayFullGates = r
        /\ cfg[r].extra /\ pc[r] \in {"mark", "sidecar", "fullFirst", "fullRest",
                                      "fullJoin", "create", "publish", "dns", "succeed"} =>
              extraProcess = r
        /\ pc[r] \in {"sidecar", "fullFirst", "fullRest", "fullJoin", "create", "publish",
                      "dns", "succeed"} => autoRedirectMark = cfg[r].redirect

\* A published box is whole whenever no request is past its first look at it.
WholeInv ==
    /\ Running
    /\ \A r \in Req : pc[r] \notin InLock \ {"check", "look", "undns", "unpublish"}
    => LET c == cfg[boxInstance] IN
        /\ box[boxInstance] = "up"
        /\ c.sidecar => xrayInstance = boxInstance
        /\ c.full # {} => xrayFullGates = boxInstance
        /\ c.extra => extraProcess = boxInstance
        /\ autoRedirectMark = c.redirect

PublishInv ==
    /\ LockInv
    /\ SlotInv
    /\ ClearInv
    /\ ProgressInv
    /\ WholeInv
    /\ SlotsLive

LEMMA PublishInitially == Init => PublishInv
  BY CoreAssumption
     DEF Init, PublishInv, LockInv, SlotInv, ClearInv, ProgressInv, WholeInv, SlotsLive,
         InLock, StartPC, StopPC, Running, NoConfig

LEMMA PublishInductive == TypeOK /\ PublishInv /\ [Next]_vars => PublishInv'
<1> SUFFICES ASSUME TypeOK, PublishInv, [Next]_vars
             PROVE  PublishInv'
  OBVIOUS
<1> USE CoreAssumption
    DEF TypeOK, Maybe, PublishInv, LockInv, SlotInv, ClearInv, ProgressInv, WholeInv,
        SlotsLive, InLock, StartPC, StopPC, Running, Goto, Answer, AfterSidecar,
        StopExtraProcess, requests, pointers, world
<1>1. ASSUME NEW r \in Req, NEW k \in {"start", "stop"}, NEW c \in Config, Arrive(r, k, c)
      PROVE  PublishInv'
  BY <1>1 DEF Arrive
<1>2. ASSUME NEW r \in Req, Lock(r)
      PROVE  PublishInv'
  BY <1>2 DEF Lock
<1>3. ASSUME NEW r \in Req, StartRefused(r)
      PROVE  PublishInv'
  BY <1>3 DEF StartRefused
<1>4. ASSUME NEW r \in Req, StartCheck(r)
      PROVE  PublishInv'
  BY <1>4 DEF StartCheck
<1>5. ASSUME NEW r \in Req, ExtraNotBuilt(r)
      PROVE  PublishInv'
  BY <1>5 DEF ExtraNotBuilt
<1>6. ASSUME NEW r \in Req, ExtraNotStarted(r)
      PROVE  PublishInv'
  BY <1>6 DEF ExtraNotStarted
<1>7. ASSUME NEW r \in Req, ExtraStarted(r)
      PROVE  PublishInv'
  BY <1>7 DEF ExtraStarted
<1>8. ASSUME NEW r \in Req, SetMark(r)
      PROVE  PublishInv'
  BY <1>8 DEF SetMark
<1>9. ASSUME NEW r \in Req, SidecarUp(r)
      PROVE  PublishInv'
  BY <1>9 DEF SidecarUp
<1>10. ASSUME NEW r \in Req, SidecarFailed(r)
      PROVE  PublishInv'
  BY <1>10 DEF SidecarFailed
<1>11. ASSUME NEW r \in Req, FullFirst(r)
      PROVE  PublishInv'
  BY <1>11 DEF FullFirst
<1>12. ASSUME NEW r \in Req, FullRest(r)
      PROVE  PublishInv'
  BY <1>12 DEF FullRest
<1>13. ASSUME NEW r \in Req, FullPublish(r)
      PROVE  PublishInv'
  BY <1>13 DEF FullPublish
<1>14. ASSUME NEW r \in Req, FullUnwind(r)
      PROVE  PublishInv'
  BY <1>14 DEF FullUnwind
<1>15. ASSUME NEW r \in Req, BoxCreated(r)
      PROVE  PublishInv'
  BY <1>15 DEF BoxCreated
<1>16. ASSUME NEW r \in Req, BoxNotCreated(r)
      PROVE  PublishInv'
  BY <1>16 DEF BoxNotCreated
<1>17. ASSUME NEW r \in Req, PublishBox(r)
      PROVE  PublishInv'
  BY <1>17 DEF PublishBox
<1>18. ASSUME NEW r \in Req, SetDNS(r)
      PROVE  PublishInv'
  BY <1>18 DEF SetDNS
<1>19. ASSUME NEW r \in Req, UnwindBox(r)
      PROVE  PublishInv'
  BY <1>19 DEF UnwindBox
<1>20. ASSUME NEW r \in Req, UnwindRest(r)
      PROVE  PublishInv'
  BY <1>20 DEF UnwindRest
<1>21. ASSUME NEW r \in Req, StartFails(r)
      PROVE  PublishInv'
  BY <1>21 DEF StartFails
<1>22. ASSUME NEW r \in Req, StartSucceeds(r)
      PROVE  PublishInv'
  BY <1>22 DEF StartSucceeds
<1>23. ASSUME NEW r \in Req, ClearXray(r)
      PROVE  PublishInv'
  BY <1>23 DEF ClearXray
<1>24. ASSUME NEW r \in Req, CloseXray(r)
      PROVE  PublishInv'
  BY <1>24 DEF CloseXray
<1>25. ASSUME NEW r \in Req, StopNothing(r)
      PROVE  PublishInv'
  BY <1>25 DEF StopNothing
<1>26. ASSUME NEW r \in Req, StopLook(r)
      PROVE  PublishInv'
  BY <1>26 DEF StopLook
<1>27. ASSUME NEW r \in Req, UnsetDNS(r)
      PROVE  PublishInv'
  BY <1>27 DEF UnsetDNS
<1>28. ASSUME NEW r \in Req, Unpublish(r)
      PROVE  PublishInv'
  BY <1>28 DEF Unpublish
<1>29. ASSUME NEW r \in Req, CloseBox(r)
      PROVE  PublishInv'
  BY <1>29 DEF CloseBox
<1>30. ASSUME NEW r \in Req, StopExtra(r)
      PROVE  PublishInv'
  BY <1>30 DEF StopExtra
<1>31. ASSUME NEW r \in Req, StopFinish(r)
      PROVE  PublishInv'
  BY <1>31 DEF StopFinish
<1>32. ASSUME NEW r \in Req, ExtraExits(r)
      PROVE  PublishInv'
  BY <1>32 DEF ExtraExits
<1>33. ASSUME NEW r \in Req, StartPanics(r)
       PROVE  PublishInv'
  BY <1>33 DEF StartPanics
<1>34. ASSUME UNCHANGED vars
       PROVE  PublishInv'
  BY <1>34 DEF vars
<1> HIDE DEF PublishInv, TypeOK
<1>35. ASSUME NEW r \in Req, Step(r)
       PROVE  PublishInv'
  BY <1>35, <1>2, <1>3, <1>4, <1>5, <1>6, <1>7, <1>8, <1>9, <1>10, <1>11, <1>12,
     <1>13, <1>14, <1>15, <1>16, <1>17, <1>18, <1>19, <1>20, <1>21, <1>22, <1>23,
     <1>24, <1>25, <1>26, <1>27, <1>28, <1>29, <1>30, <1>31, <1>33 DEF Step
<1>36. QED
  BY <1>1, <1>32, <1>34, <1>35 DEF Next

LEMMA PublishHolds == Spec => []PublishInv
<1>1. Init => TypeOK /\ PublishInv
  BY TypeInitially, PublishInitially
<1>2. TypeOK /\ PublishInv /\ [Next]_vars => TypeOK' /\ PublishInv'
  BY TypeInductive, PublishInductive
<1>3. QED
  BY <1>1, <1>2, PTL DEF Spec

\* Whoever reads a slot, whenever, finds an Xray instance or a gate that is up, and a
\* box that is up or whose Start is already failing: setXray comes after StartGate or
\* instance.Start, and closeXray and Stop clear a slot before they close what it held.
THEOREM SlotsLiveTheorem == Spec => []SlotsLive
<1>1. PublishInv => SlotsLive
  BY DEF PublishInv
<1>2. QED
  BY <1>1, PublishHolds, PTL

\* Between requests, a published box has the sidecar, gates, extra process and mark
\* its own Start asked for, whatever other clients sent and whatever failed before.
THEOREM UpIsWholeTheorem == Spec => []UpIsWhole
<1>1. Init => TypeOK /\ PublishInv
  BY TypeInitially, PublishInitially
<1>2. TypeOK /\ PublishInv => UpIsWhole
  <2> SUFFICES ASSUME TypeOK, PublishInv, owner = None, Running
               PROVE  UpIsWhole
    BY DEF UpIsWhole
  <2>1. \A r \in Req : pc[r] \notin InLock
    BY CoreAssumption DEF PublishInv, LockInv
  <2> DEFINE c == cfg[boxInstance]
  <2>2. /\ box[boxInstance] = "up"
        /\ c.sidecar => xrayInstance = boxInstance
        /\ c.full # {} => xrayFullGates = boxInstance
        /\ c.extra => extraProcess = boxInstance
        /\ autoRedirectMark = c.redirect
    BY <2>1 DEF PublishInv, WholeInv
  <2>3. /\ c.sidecar => sidecar[boxInstance] = "up"
        /\ c.full # {} => gates[boxInstance] = c.full
    BY <2>2 DEF PublishInv, SlotsLive, Running
  <2>4. QED
    BY <2>2, <2>3 DEF UpIsWhole
<1>3. TypeOK /\ PublishInv /\ [Next]_vars => TypeOK' /\ PublishInv'
  BY TypeInductive, PublishInductive
<1>4. QED
  BY <1>1, <1>2, <1>3, PTL DEF Spec

-----------------------------------------------------------------------------
(* The invariant of a polite client's behaviours *)

Outstanding(r) == pc[r] \notin {"idle", "done"}

\* One request at a time, which is what its kind says and has no answer yet.
AloneInv ==
    \A r \in Req :
        /\ \A s \in Req : Outstanding(r) /\ Outstanding(s) => r = s
        /\ pc[r] = "idle" <=> kind[r] = "none"
        /\ pc[r] = "done" <=> reply[r] # "none"
        /\ pc[r] \in StartPC => kind[r] = "start"
        /\ pc[r] \in StopPC => kind[r] = "stop"

\* A Start never finds a box, a Stop always does and remembers which.
TurnInv ==
    \A r \in Req :
        /\ pc[r] = "wait" => (Running <=> kind[r] = "stop")
        /\ pc[r] = "check" => ~Running
        /\ pc[r] \in {"look", "undns", "unpublish"} => Running
        /\ pc[r] \in {"undns", "unpublish"} => local.box = boxInstance

Panicked(r) == reply[r] = "panicked"

\* Whatever is open is named by a slot, in the hands of the request at work, or left
\* behind by a Start that panicked.
HeldInv ==
    \A r \in Req :
        /\ pc[r] = "unwind" => box[r] # "up"
        /\ box[r] = "up" =>
              \/ boxInstance = r \/ pc[r] = "publish"
              \/ \E s \in Req : pc[s] = "closeBox" /\ local.box = r
        /\ sidecar[r] = "up" =>
              \/ xrayInstance = r \/ Panicked(r)
              \/ \E s \in Req : pc[s] = "xclose" /\ local.sidecar = r
        /\ gates[r] # {} =>
              \/ xrayFullGates = r \/ Panicked(r) \/ pc[r] \in {"fullRest", "fullJoin"}
              \/ \E s \in Req : pc[s] = "xclose" /\ local.gates = r

\* Without a box, nothing else is published either, but for what a Start is bringing
\* up, a Stop is about to clear, or a Start that panicked has left.
EmptyInv ==
    /\ ~Running /\ (\A r \in Req : pc[r] \notin InLock \ {"check"}) =>
          /\ \A s \in Req : s \in {xrayInstance, xrayFullGates} => Panicked(s)
          /\ autoRedirectMark => \E s \in Req : Panicked(s) /\ cfg[s].redirect
    /\ \A r, s \in Req :
          /\ pc[r] \in {"extra", "mark", "sidecar", "xclose", "fail", "finish"}
             /\ s \in {xrayInstance, xrayFullGates} => Panicked(s)
          /\ pc[r] \in {"fullFirst", "fullRest", "fullJoin", "create"}
             /\ s \in {xrayInstance, xrayFullGates} => s = r \/ Panicked(s)
    /\ needUnsetDNS =>
          /\ Running
          /\ \A r \in Req : pc[r] \in {"idle", "wait", "succeed", "done", "look", "undns"}

\* An extra process that runs is that of the Start at work, of the box that is up, or
\* of a Start that failed or panicked.
ExtraInv ==
    \A r \in Req :
        /\ cfg[r].extra => kind[r] = "start"
        /\ pc[r] = "extra" \/ extra[r] # "none" => cfg[r].extra
        /\ pc[r] \in {"idle", "wait", "check", "extra"} => extra[r] = "none"
        /\ extra[r] = "running" =>
              \/ reply[r] = "failed" \/ Panicked(r)
              \/ pc[r] \in StartPC \cup {"xclear", "xclose"}
              \/ boxInstance = r /\ extraProcess = r
              \/ \E s \in Req : pc[s] \in {"closeBox", "stopExtra"} /\ extraProcess = r

PoliteInv == polite => AloneInv /\ TurnInv /\ HeldInv /\ EmptyInv /\ ExtraInv

\* Nothing has arrived, and nothing is open.
LEMMA PoliteInitially == Init => PoliteInv
  BY CoreAssumption
     DEF Init, PoliteInv, AloneInv, TurnInv, HeldInv, EmptyInv, ExtraInv, Outstanding,
         Panicked, InLock, StartPC, StopPC, Running, NoConfig

\* No step changes the kind of client.
LEMMA PoliteStays == [Next]_vars => polite' = polite
  BY DEF Next, Step, vars, requests, Arrive, ExtraExits, Lock, StartRefused, StartCheck,
         ExtraNotBuilt, ExtraNotStarted, ExtraStarted, SetMark, SidecarUp,
         SidecarFailed, FullFirst, FullRest, FullPublish, FullUnwind, BoxCreated,
         BoxNotCreated, PublishBox, SetDNS, UnwindBox, UnwindRest, StartFails,
         StartSucceeds, StartPanics, ClearXray, CloseXray, StopNothing, StopLook, UnsetDNS,
         Unpublish, CloseBox, StopExtra, StopFinish

\* Every step of the request at work keeps what is open in somebody's hands.
LEMMA PoliteInductive == TypeOK /\ PublishInv /\ PoliteInv /\ [Next]_vars => PoliteInv'
<1> SUFFICES ASSUME TypeOK, PublishInv, PoliteInv, [Next]_vars, polite, polite'
             PROVE  AloneInv' /\ TurnInv' /\ HeldInv' /\ EmptyInv' /\ ExtraInv'
  BY PoliteStays DEF PoliteInv
<1> DEFINE Good == AloneInv /\ TurnInv /\ HeldInv /\ EmptyInv /\ ExtraInv
<1> USE CoreAssumption
    DEF TypeOK, Maybe, PublishInv, LockInv, SlotInv, ClearInv, ProgressInv, SlotsLive,
        PoliteInv, AloneInv, TurnInv, HeldInv, EmptyInv, ExtraInv, Outstanding,
        Panicked, InLock, StartPC, StopPC, Running, Goto, Answer, AfterSidecar,
        StopExtraProcess, requests, pointers, world
<1>1. ASSUME NEW r \in Req, NEW k \in {"start", "stop"}, NEW c \in Config, Arrive(r, k, c)
      PROVE  Good'
  BY <1>1 DEF Arrive, Settled, NoConfig
<1>2. ASSUME NEW r \in Req, Lock(r)
      PROVE  Good'
  BY <1>2 DEF Lock
<1>3. ASSUME NEW r \in Req, StartRefused(r)
      PROVE  Good'
  BY <1>3 DEF StartRefused
<1>4. ASSUME NEW r \in Req, StartCheck(r)
      PROVE  Good'
  BY <1>4 DEF StartCheck
<1>5. ASSUME NEW r \in Req, ExtraNotBuilt(r)
      PROVE  Good'
  BY <1>5 DEF ExtraNotBuilt
<1>6. ASSUME NEW r \in Req, ExtraNotStarted(r)
      PROVE  Good'
  BY <1>6 DEF ExtraNotStarted
<1>7. ASSUME NEW r \in Req, ExtraStarted(r)
      PROVE  Good'
  <2>1. AloneInv' /\ TurnInv'
    BY <1>7 DEF ExtraStarted
  <2>2. HeldInv'
    BY <1>7 DEF ExtraStarted
  <2>3. EmptyInv'
    BY <1>7 DEF ExtraStarted
  <2>4. ExtraInv'
    BY <1>7 DEF ExtraStarted
  <2>5. QED
    BY <2>1, <2>2, <2>3, <2>4
<1>8. ASSUME NEW r \in Req, SetMark(r)
      PROVE  Good'
  BY <1>8 DEF SetMark
<1>9. ASSUME NEW r \in Req, SidecarUp(r)
      PROVE  Good'
  <2>1. AloneInv' /\ TurnInv'
    BY <1>9 DEF SidecarUp
  <2>2. HeldInv'
    BY <1>9 DEF SidecarUp
  <2>3. EmptyInv'
    BY <1>9 DEF SidecarUp
  <2>4. ExtraInv'
    BY <1>9 DEF SidecarUp
  <2>5. QED
    BY <2>1, <2>2, <2>3, <2>4
<1>10. ASSUME NEW r \in Req, SidecarFailed(r)
      PROVE  Good'
  BY <1>10 DEF SidecarFailed
<1>11. ASSUME NEW r \in Req, FullFirst(r)
      PROVE  Good'
  BY <1>11 DEF FullFirst
<1>12. ASSUME NEW r \in Req, FullRest(r)
      PROVE  Good'
  BY <1>12 DEF FullRest
<1>13. ASSUME NEW r \in Req, FullPublish(r)
      PROVE  Good'
  BY <1>13 DEF FullPublish
<1>14. ASSUME NEW r \in Req, FullUnwind(r)
      PROVE  Good'
  <2>1. AloneInv' /\ TurnInv'
    BY <1>14 DEF FullUnwind
  <2>2. HeldInv'
    BY <1>14 DEF FullUnwind
  <2>3. EmptyInv'
    BY <1>14 DEF FullUnwind
  <2>4. ExtraInv'
    BY <1>14 DEF FullUnwind
  <2>5. QED
    BY <2>1, <2>2, <2>3, <2>4
<1>15. ASSUME NEW r \in Req, BoxCreated(r)
      PROVE  Good'
  <2>1. AloneInv' /\ TurnInv'
    BY <1>15 DEF BoxCreated
  <2>2. HeldInv'
    BY <1>15 DEF BoxCreated
  <2>3. EmptyInv'
    BY <1>15 DEF BoxCreated
  <2>4. ExtraInv'
    BY <1>15 DEF BoxCreated
  <2>5. QED
    BY <2>1, <2>2, <2>3, <2>4
<1>16. ASSUME NEW r \in Req, BoxNotCreated(r)
      PROVE  Good'
  <2>1. AloneInv' /\ TurnInv'
    BY <1>16 DEF BoxNotCreated
  <2>2. HeldInv'
    BY <1>16 DEF BoxNotCreated
  <2>3. EmptyInv'
    BY <1>16 DEF BoxNotCreated
  <2>4. ExtraInv'
    BY <1>16 DEF BoxNotCreated
  <2>5. QED
    BY <2>1, <2>2, <2>3, <2>4
<1>17. ASSUME NEW r \in Req, PublishBox(r)
      PROVE  Good'
  BY <1>17 DEF PublishBox
<1>18. ASSUME NEW r \in Req, SetDNS(r)
      PROVE  Good'
  BY <1>18 DEF SetDNS
<1>19. ASSUME NEW r \in Req, UnwindBox(r)
      PROVE  Good'
  BY <1>19 DEF UnwindBox
<1>20. ASSUME NEW r \in Req, UnwindRest(r)
      PROVE  Good'
  <2>1. AloneInv' /\ TurnInv'
    BY <1>20 DEF UnwindRest
  <2>2. HeldInv'
    BY <1>20 DEF UnwindRest
  <2>3. EmptyInv'
    BY <1>20 DEF UnwindRest
  <2>4. ExtraInv'
    BY <1>20 DEF UnwindRest
  <2>5. QED
    BY <2>1, <2>2, <2>3, <2>4
<1>21. ASSUME NEW r \in Req, StartFails(r)
      PROVE  Good'
  BY <1>21 DEF StartFails
<1>22. ASSUME NEW r \in Req, StartSucceeds(r)
      PROVE  Good'
  BY <1>22 DEF StartSucceeds
<1>23. ASSUME NEW r \in Req, ClearXray(r)
      PROVE  Good'
  BY <1>23 DEF ClearXray
<1>24. ASSUME NEW r \in Req, CloseXray(r)
      PROVE  Good'
  BY <1>24 DEF CloseXray
<1>25. ASSUME NEW r \in Req, StopNothing(r)
      PROVE  Good'
  BY <1>25 DEF StopNothing
<1>26. ASSUME NEW r \in Req, StopLook(r)
      PROVE  Good'
  BY <1>26 DEF StopLook
<1>27. ASSUME NEW r \in Req, UnsetDNS(r)
      PROVE  Good'
  <2>1. AloneInv' /\ TurnInv'
    BY <1>27 DEF UnsetDNS
  <2>2. HeldInv'
    BY <1>27 DEF UnsetDNS
  <2>3. EmptyInv'
    BY <1>27 DEF UnsetDNS
  <2>4. ExtraInv'
    BY <1>27 DEF UnsetDNS
  <2>5. QED
    BY <2>1, <2>2, <2>3, <2>4
<1>28. ASSUME NEW r \in Req, Unpublish(r)
      PROVE  Good'
  BY <1>28 DEF Unpublish
<1>29. ASSUME NEW r \in Req, CloseBox(r)
      PROVE  Good'
  BY <1>29 DEF CloseBox
<1>30. ASSUME NEW r \in Req, StopExtra(r)
      PROVE  Good'
  BY <1>30 DEF StopExtra
<1>31. ASSUME NEW r \in Req, StopFinish(r)
      PROVE  Good'
  BY <1>31 DEF StopFinish
<1>32. ASSUME NEW r \in Req, ExtraExits(r)
      PROVE  Good'
  BY <1>32 DEF ExtraExits
<1>33. ASSUME NEW r \in Req, StartPanics(r)
       PROVE  Good'
  <2>1. AloneInv' /\ TurnInv'
    BY <1>33 DEF StartPanics
  <2>2. HeldInv'
    BY <1>33 DEF StartPanics
  <2>3. EmptyInv'
    <3>1. \A s \in Req : pc'[s] \in {"idle", "done"}
      BY <1>33 DEF StartPanics
    <3>2. ~Running' /\ ~needUnsetDNS'
      BY <1>33 DEF StartPanics
    <3>3. ASSUME NEW s \in Req, s \in {xrayInstance', xrayFullGates'}
          PROVE  Panicked(s)'
      <4>1. s \in {xrayInstance, xrayFullGates}
        BY <1>33, <3>3 DEF StartPanics
      <4>2. pc[r] = "sidecar" => Panicked(s)
        BY <4>1
      <4>3. pc[r] \in {"fullFirst", "create"} => s = r \/ Panicked(s)
        BY <4>1
      <4>4. s = r \/ Panicked(s)
        BY <1>33, <4>2, <4>3 DEF StartPanics
      <4>5. reply' = [reply EXCEPT ![r] = "panicked"]
        BY <1>33 DEF StartPanics
      <4>6. QED
        BY <4>4, <4>5
    <3>4. Panicked(r)'
      BY <1>33 DEF StartPanics
    <3>5. autoRedirectMark' => cfg'[r].redirect
      <4>1. autoRedirectMark = cfg[r].redirect
        BY <1>33 DEF StartPanics
      <4>2. QED
        BY <1>33, <4>1 DEF StartPanics
    <3> HIDE DEF Panicked
    <3>6. QED
      BY <3>1, <3>2, <3>3, <3>4, <3>5
  <2>4. ExtraInv'
    BY <1>33 DEF StartPanics
  <2>5. QED
    BY <2>1, <2>2, <2>3, <2>4
<1>34. ASSUME UNCHANGED vars
       PROVE  Good'
  BY <1>34 DEF vars
<1> HIDE DEF Good, TypeOK, PublishInv, PoliteInv
<1>35. ASSUME NEW r \in Req, Step(r)
       PROVE  Good'
  BY <1>35, <1>2, <1>3, <1>4, <1>5, <1>6, <1>7, <1>8, <1>9, <1>10, <1>11, <1>12,
     <1>13, <1>14, <1>15, <1>16, <1>17, <1>18, <1>19, <1>20, <1>21, <1>22, <1>23,
     <1>24, <1>25, <1>26, <1>27, <1>28, <1>29, <1>30, <1>31, <1>33 DEF Step
<1>36. Good'
  BY <1>1, <1>32, <1>34, <1>35 DEF Next
<1>37. QED
  BY <1>36 DEF Good

LEMMA PoliteHolds == Spec => [](TypeOK /\ PublishInv /\ PoliteInv)
<1>1. Init => TypeOK /\ PublishInv /\ PoliteInv
  BY TypeInitially, PublishInitially, PoliteInitially
<1>2. TypeOK /\ PublishInv /\ PoliteInv /\ [Next]_vars
      => TypeOK' /\ PublishInv' /\ PoliteInv'
  BY TypeInductive, PublishInductive, PoliteInductive
<1>3. QED
  BY <1>1, <1>2, PTL DEF Spec

-----------------------------------------------------------------------------
(* What is left when nothing runs *)

\* When no request is at work and no box is published, no earlier request of a polite
\* client left a box up or a DNS server to restore; a sidecar, a gate or the mark stays
\* only of a Start that panicked, an extra process only of one that failed or panicked.
THEOREM DownIsCleanTheorem == Spec => []DownIsClean
<1>1. TypeOK /\ PublishInv /\ PoliteInv => DownIsClean
  <2> SUFFICES ASSUME TypeOK, PublishInv, PoliteInv, polite, owner = None, ~Running
               PROVE  DownIsClean
    BY DEF DownIsClean
  <2>1. \A r \in Req : pc[r] \notin InLock
    BY CoreAssumption DEF PublishInv, LockInv
  <2>2. /\ \A r \in Req : r \in {xrayInstance, xrayFullGates} => Panicked(r)
        /\ autoRedirectMark => \E r \in Req : Panicked(r) /\ cfg[r].redirect
        /\ ~needUnsetDNS
    BY <2>1 DEF PoliteInv, EmptyInv
  <2>3. \A r \in Req :
           box[r] # "up" /\ (sidecar[r] = "up" \/ gates[r] # {} => Panicked(r))
    BY <2>1, <2>2, CoreAssumption
       DEF PoliteInv, HeldInv, Running, InLock, StartPC, StopPC
  <2>4. \A r \in Req : extra[r] = "running" => reply[r] = "failed" \/ Panicked(r)
    BY <2>1, CoreAssumption DEF PoliteInv, ExtraInv, Running, InLock, StartPC, StopPC
  <2>5. QED
    BY <2>2, <2>3, <2>4 DEF DownIsClean, Panicked
<1>2. QED
  BY <1>1, PoliteHolds, PTL

-----------------------------------------------------------------------------
(* Start and Stop are atomic to a client that waits *)

\* The requests whose box is up: what CoreSession calls up.
Up == {r \in Req : box[r] = "up"}

\* What a polite client's invariant says of Up wherever CoreSession looks at it.
LEMMA UpAt ==
  ASSUME TypeOK, PublishInv, PoliteInv, polite
  PROVE  /\ Settled => (Up = {} <=> ~Running)
         /\ \A r \in Req :
               /\ pc[r] \in {"sidecar", "fullFirst", "create", "fail", "finish"} => Up = {}
               /\ pc[r] \in {"dns", "succeed"} => Up = {r}
               /\ pc[r] = "closeBox" => Up \subseteq {local.box}
<1> USE CoreAssumption DEF TypeOK, Maybe, Running, Up
<1>1. Settled => (Up = {} <=> ~Running)
  BY DEF Settled, PublishInv, SlotsLive, PoliteInv, HeldInv
<1>2. ASSUME NEW r \in Req, pc[r] \in {"sidecar", "fullFirst", "create", "dns", "succeed",
                                   "fail", "finish"}
      PROVE  \A s \in Req : box[s] = "up" => boxInstance = s
  BY <1>2 DEF PoliteInv, AloneInv, HeldInv, Outstanding
<1>3. ASSUME NEW r \in Req, pc[r] \in {"sidecar", "fullFirst", "create", "fail", "finish"}
      PROVE  Up = {}
  BY <1>2, <1>3 DEF PublishInv, ClearInv
<1>4. ASSUME NEW r \in Req, pc[r] \in {"dns", "succeed"}
      PROVE  Up = {r}
  BY <1>2, <1>4 DEF PublishInv, ClearInv, ProgressInv
<1>5. ASSUME NEW r \in Req, pc[r] = "closeBox"
      PROVE  Up \subseteq {local.box}
  BY <1>5 DEF PublishInv, ClearInv, PoliteInv, AloneInv, HeldInv, Outstanding
<1>6. QED
  BY <1>1, <1>3, <1>4, <1>5

LEMMA SessionInitially == Init => Session!Init
  BY DEF Init, Session!Init

\* Each step of Start and Stop is a step of CoreSession, or changes nothing it shows.
LEMMA SessionStep ==
  TypeOK /\ PublishInv /\ PoliteInv /\ [Next]_vars => [Session!Next]_(Session!vars)
<1> SUFFICES ASSUME TypeOK, PublishInv, PoliteInv, [Next]_vars
             PROVE  [Session!Next]_(Session!vars)
  OBVIOUS
<1>1. polite' = polite
  BY PoliteStays
<1>2. CASE ~polite
  BY <1>1, <1>2 DEF Session!vars
<1>3. CASE polite
  <2> USE <1>3
  <2>1. TypeOK'
    BY TypeInductive
  <2>2. /\ [r \in Req |-> IF polite THEN kind[r] ELSE "none"] = kind
        /\ [r \in Req |-> IF polite THEN reply[r] ELSE "none"] = reply
        /\ {r \in Req : polite /\ box[r] = "up"} = Up
    BY DEF TypeOK, Up
  <2>3. /\ [r \in Req |-> IF polite' THEN kind'[r] ELSE "none"] = kind'
        /\ [r \in Req |-> IF polite' THEN reply'[r] ELSE "none"] = reply'
        /\ {r \in Req : polite' /\ box'[r] = "up"} = Up'
    BY <1>1, <2>1 DEF TypeOK, Up
  <2>4. ASSUME kind' = kind, reply' = reply, box' = box
        PROVE  UNCHANGED Session!vars
    BY <1>1, <2>4 DEF Session!vars
  <2>5. \A r \in Req : Outstanding(r) => kind[r] # "none" /\ reply[r] = "none"
    BY DEF TypeOK, PoliteInv, AloneInv, Outstanding
  <2>6. ASSUME NEW r \in Req, NEW k \in {"start", "stop"}, NEW c \in Config,
               Arrive(r, k, c)
        PROVE  Session!Ask(r, k)
    <3>1. kind[r] = "none" /\ \A s \in Req : kind[s] = "none" \/ reply[s] # "none"
      BY <2>6 DEF Arrive, Settled, PoliteInv, AloneInv
    <3>2. (Up = {}) <=> (k = "start")
      BY <2>6, UpAt DEF Arrive
    <3>3. kind' = [kind EXCEPT ![r] = k] /\ Up' = Up /\ reply' = reply
      BY <2>6 DEF Arrive, Up, world
    <3>4. QED
      BY <2>2, <2>3, <3>1, <3>2, <3>3 DEF Session!Ask, Session!Asked
  <2>7. ASSUME NEW r \in Req, BoxCreated(r)
        PROVE  Session!BringUp(r)
    <3>1. kind[r] = "start" /\ reply[r] = "none" /\ Up = {}
      BY <2>5, <2>7, UpAt DEF BoxCreated, PoliteInv, AloneInv, Outstanding, StartPC
    <3>2. kind' = kind /\ reply' = reply /\ Up' = {r}
      BY <2>7, <3>1 DEF BoxCreated, Up, requests, TypeOK
    <3>3. QED
      BY <2>2, <2>3, <3>1, <3>2 DEF Session!BringUp, Session!Asked
  <2>8. ASSUME NEW r \in Req, UnwindBox(r)
        PROVE  Session!TakeDown(r)
    <3>1. kind[r] = "start" /\ reply[r] = "none" /\ Up = {r}
      BY <2>5, <2>8, UpAt DEF UnwindBox, PoliteInv, AloneInv, Outstanding, StartPC
    <3>2. kind' = kind /\ reply' = reply /\ Up' = {}
      BY <2>8, <3>1 DEF UnwindBox, Up, requests, TypeOK
    <3>3. QED
      BY <2>2, <2>3, <3>1, <3>2 DEF Session!TakeDown, Session!Asked
  <2>9. ASSUME NEW r \in Req, CloseBox(r)
        PROVE  Session!TakeDown(r)
    <3>1. kind[r] = "stop" /\ reply[r] = "none" /\ Up \subseteq {local.box}
      BY <2>5, <2>9, UpAt DEF CloseBox, PoliteInv, AloneInv, Outstanding, StopPC
    <3>2. kind' = kind /\ reply' = reply /\ Up' = {}
      BY <2>9, <3>1 DEF CloseBox, Up, requests, TypeOK
    <3>3. QED
      BY <2>2, <2>3, <3>1, <3>2 DEF Session!TakeDown, Session!Asked
  <2>10. ASSUME NEW r \in Req, StartFails(r)
         PROVE  Session!AnswerStart(r)
    <3>1. kind[r] = "start" /\ reply[r] = "none" /\ Up = {}
      BY <2>5, <2>10, UpAt DEF StartFails, PoliteInv, AloneInv, Outstanding, StartPC
    <3>2. kind' = kind /\ reply' = [reply EXCEPT ![r] = "failed"] /\ Up' = Up
      BY <2>10 DEF StartFails, Answer, Up, requests, world
    <3>3. QED
      BY <2>2, <2>3, <3>1, <3>2 DEF Session!AnswerStart, Session!Asked
  <2>11. ASSUME NEW r \in Req, StartSucceeds(r)
         PROVE  Session!AnswerStart(r)
    <3>1. kind[r] = "start" /\ reply[r] = "none" /\ Up = {r}
      BY <2>5, <2>11, UpAt DEF StartSucceeds, PoliteInv, AloneInv, Outstanding, StartPC
    <3>2. kind' = kind /\ reply' = [reply EXCEPT ![r] = "ok"] /\ Up' = Up
      BY <2>11 DEF StartSucceeds, Answer, Up, requests, world
    <3>3. QED
      BY <2>2, <2>3, <3>1, <3>2 DEF Session!AnswerStart, Session!Asked
  <2>12. ASSUME NEW r \in Req, StopFinish(r)
         PROVE  Session!AnswerStop(r)
    <3>1. kind[r] = "stop" /\ reply[r] = "none" /\ Up = {}
      BY <2>5, <2>12, UpAt DEF StopFinish, PoliteInv, AloneInv, Outstanding, StopPC
    <3>2. kind' = kind /\ reply' = [reply EXCEPT ![r] = "ok"] /\ Up' = Up
      BY <2>12 DEF StopFinish, Answer, Up, requests, world
    <3>3. QED
      BY <2>2, <2>3, <3>1, <3>2 DEF Session!AnswerStop, Session!Asked
  <2>13. ASSUME NEW r \in Req, StartRefused(r) \/ StopNothing(r)
         PROVE  FALSE
    BY <2>13 DEF StartRefused, StopNothing, PoliteInv, TurnInv
  <2>14. ASSUME NEW r \in Req, StartPanics(r)
         PROVE  Session!AnswerStart(r)
    <3>1. kind[r] = "start" /\ reply[r] = "none" /\ Up = {}
      BY <2>5, <2>14, UpAt DEF StartPanics, PoliteInv, AloneInv, Outstanding, StartPC
    <3>2. kind' = kind /\ reply' = [reply EXCEPT ![r] = "panicked"] /\ Up' = Up
      BY <2>14 DEF StartPanics, Answer, Up, requests, world
    <3>3. QED
      BY <2>2, <2>3, <3>1, <3>2 DEF Session!AnswerStart, Session!Asked
  <2>15. ASSUME NEW r \in Req, Step(r)
         PROVE  [Session!Next]_(Session!vars)
    <3>1. CASE BoxCreated(r) \/ UnwindBox(r) \/ CloseBox(r) \/ StartFails(r)
               \/ StartSucceeds(r) \/ StartPanics(r) \/ StopFinish(r)
      BY <3>1, <2>7, <2>8, <2>9, <2>10, <2>11, <2>12, <2>14 DEF Session!Next
    <3>2. CASE \/ Lock(r) \/ StartCheck(r) \/ ExtraNotBuilt(r) \/ ExtraNotStarted(r)
               \/ ExtraStarted(r) \/ SetMark(r) \/ SidecarUp(r) \/ SidecarFailed(r)
               \/ FullFirst(r) \/ FullRest(r) \/ FullPublish(r) \/ FullUnwind(r)
               \/ BoxNotCreated(r) \/ PublishBox(r) \/ SetDNS(r) \/ UnwindRest(r)
               \/ ClearXray(r) \/ CloseXray(r) \/ StopLook(r) \/ UnsetDNS(r)
               \/ Unpublish(r) \/ StopExtra(r)
      <4>1. kind' = kind /\ reply' = reply /\ box' = box
        BY <3>2
           DEF requests, world, Lock, StartCheck, ExtraNotBuilt, ExtraNotStarted,
               ExtraStarted, SetMark, SidecarUp, SidecarFailed, FullFirst, FullRest,
               FullPublish, FullUnwind, BoxNotCreated, PublishBox, SetDNS, UnwindRest,
               ClearXray, CloseXray, StopLook, UnsetDNS, Unpublish, StopExtra
      <4>2. QED
        BY <2>4, <4>1
    <3>3. QED
      BY <2>13, <2>15, <3>1, <3>2 DEF Step
  <2>16. ASSUME NEW r \in Req, ExtraExits(r)
         PROVE  UNCHANGED Session!vars
    BY <2>4, <2>16 DEF ExtraExits, requests
  <2>17. CASE UNCHANGED vars
    BY <2>4, <2>17 DEF vars, requests, world
  <2>18. QED
    BY <2>6, <2>15, <2>16, <2>17 DEF Next, Session!Next
<1>4. QED
  BY <1>2, <1>3

\* CoreLifecycle implements CoreSession: between the moment a polite client asks and
\* the moment it is answered, Start brings one box up or none, Stop takes it down, and
\* the answer says which, whatever fails inside and wherever others look meanwhile.
THEOREM SessionRefined == Spec => SessionSpec
<1>1. Init => Session!Init
  BY SessionInitially
<1>2. TypeOK /\ PublishInv /\ PoliteInv /\ [Next]_vars => [Session!Next]_(Session!vars)
  BY SessionStep
<1>3. QED
  BY <1>1, <1>2, PoliteHolds, PTL DEF Spec, SessionSpec, Session!Spec
=============================================================================
