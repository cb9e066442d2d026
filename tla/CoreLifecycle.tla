---------------------------- MODULE CoreLifecycle ----------------------------
(***************************************************************************)
(* core/server/server.go: Start and Stop of the core.                      *)
(*                                                                         *)
(* The dispatcher gives every request a goroutine of its own; Start and    *)
(* Stop serialize on lifecycleMu, and publish what they bring up under     *)
(* stateMu, where the pollers read it at any moment.  A step of the model  *)
(* is a stretch of Start or Stop between two points at which another       *)
(* goroutine, or the outside world, can see the difference.                *)
(*                                                                         *)
(* What a Start creates (sing-box, the Xray sidecar, the gates of the full *)
(* configs, the extra process and its temporary configuration) carries the *)
(* name of that request, so that a component whose pointer is lost can be  *)
(* told from one that was closed.                                          *)
(***************************************************************************)
EXTENDS Integers, FiniteSets

CONSTANTS
    Req,        \* the Start and Stop requests that may arrive
    None,       \* Go's nil pointer
    FullCfg,    \* the opaque full Xray configs a profile may bring
    Config      \* the configurations a Start may carry

ConfigType ==
    [extra : BOOLEAN,                       \* NeedExtraProcess
     sidecar : BOOLEAN,                     \* NeedXray, eager or lazy
     full : SUBSET FullCfg,                 \* XrayFullConfigs
     redirect : BOOLEAN,                    \* a tun inbound with auto_redirect
     tun : {"none", "valid", "invalid"}]    \* TunIpv4Cidr, on darwin

ASSUME CoreAssumption ==
    /\ None \notin Req
    /\ Config \subseteq ConfigType

VARIABLES
    polite,         \* the client keeps its side of the protocol (see Arrive)
    owner,          \* who holds lifecycleMu
    kind,           \* what each request is
    cfg,            \* the LoadConfigReq of each Start
    pc,             \* where each request is
    reply,          \* what it answered
    boxInstance,    \* the published sing-box
    xrayInstance,   \* the published sidecar: xrayInstance or xrayGate
    xrayFullGates,  \* the published gates of the full configs
    extraProcess,   \* the extra process Start and Stop know of
    needUnsetDNS,
    autoRedirectMark,
    box,            \* the sing-box each Start created
    sidecar,        \* the Xray sidecar each Start created
    gates,          \* the gates of full configs each Start has open
    extra,          \* the extra process each Start launched
    conf,           \* its temporary configuration file is on disk
    systemDNS,      \* whose DNS servers the system uses
    local           \* the locals of the request that holds lifecycleMu

pointers == <<boxInstance, xrayInstance, xrayFullGates, extraProcess,
              needUnsetDNS, autoRedirectMark>>
world    == <<box, sidecar, gates, extra, conf, systemDNS>>
requests == <<polite, kind, cfg>>
vars == <<requests, owner, pc, reply, pointers, world, local>>

StartPC == {"check", "extra", "mark", "sidecar", "fullFirst", "fullRest", "fullJoin",
            "create", "publish", "dns", "unwind", "fail", "succeed"}
StopPC == {"look", "undns", "unpublish", "closeBox", "stopExtra", "finish"}
InLock == StartPC \cup StopPC \cup {"xclear", "xclose"}

Maybe == Req \cup {None}

TypeOK ==
    /\ polite \in BOOLEAN
    /\ owner \in Maybe
    /\ kind \in [Req -> {"none", "start", "stop"}]
    /\ cfg \in [Req -> ConfigType]
    /\ pc \in [Req -> {"idle", "wait", "done"} \cup InLock]
    /\ reply \in [Req -> {"none", "ok", "refused", "failed", "panicked"}]
    /\ boxInstance \in Maybe
    /\ xrayInstance \in Maybe
    /\ xrayFullGates \in Maybe
    /\ extraProcess \in Maybe
    /\ needUnsetDNS \in BOOLEAN
    /\ autoRedirectMark \in BOOLEAN
    /\ box \in [Req -> {"none", "up", "down"}]
    /\ sidecar \in [Req -> {"none", "up", "down"}]
    /\ gates \in [Req -> SUBSET FullCfg]
    /\ extra \in [Req -> {"none", "running", "exited"}]
    /\ conf \in [Req -> BOOLEAN]
    /\ systemDNS \in {"user", "tun"}
    /\ local \in [box : Maybe, sidecar : Maybe, gates : Maybe]

NoLocals == [box |-> None, sidecar |-> None, gates |-> None]

NoConfig == [extra |-> FALSE, sidecar |-> FALSE, full |-> {}, redirect |-> FALSE,
             tun |-> "none"]

Init ==
    /\ polite \in BOOLEAN
    /\ owner = None
    /\ kind = [r \in Req |-> "none"]
    /\ cfg = [r \in Req |-> NoConfig]
    /\ pc = [r \in Req |-> "idle"]
    /\ reply = [r \in Req |-> "none"]
    /\ boxInstance = None
    /\ xrayInstance = None
    /\ xrayFullGates = None
    /\ extraProcess = None
    /\ needUnsetDNS = FALSE
    /\ autoRedirectMark = FALSE
    /\ box = [r \in Req |-> "none"]
    /\ sidecar = [r \in Req |-> "none"]
    /\ gates = [r \in Req |-> {}]
    /\ extra = [r \in Req |-> "none"]
    /\ conf = [r \in Req |-> FALSE]
    /\ systemDNS = "user"
    /\ local = NoLocals

-----------------------------------------------------------------------------
(* Requests *)

\* A polite client has one lifecycle call outstanding, sends Start only when its
\* last Start failed or panicked, or has been stopped since, and Stop only after a
\* Start that succeeded.  An impolite one sends anything at any time: a client that gave up
\* waiting for an answer does not know what the core is doing.
Settled == \A r \in Req : pc[r] \in {"idle", "done"}

Running == boxInstance # None

Arrive(r, k, c) ==
    /\ pc[r] = "idle"
    /\ polite => Settled /\ (Running <=> k = "stop")
    /\ kind' = [kind EXCEPT ![r] = k]
    /\ cfg' = [cfg EXCEPT ![r] = IF k = "start" THEN c ELSE NoConfig]
    /\ pc' = [pc EXCEPT ![r] = "wait"]
    /\ UNCHANGED <<polite, owner, reply, pointers, world, local>>

Lock(r) ==
    /\ pc[r] = "wait"
    /\ owner = None
    /\ owner' = r
    /\ pc' = [pc EXCEPT ![r] = IF kind[r] = "start" THEN "check" ELSE "look"]
    /\ UNCHANGED <<requests, reply, pointers, world, local>>

\* The deferred unlock, with the answer the deferred function composes.
Answer(r, what) ==
    /\ reply' = [reply EXCEPT ![r] = what]
    /\ pc' = [pc EXCEPT ![r] = "done"]
    /\ owner' = None
    /\ local' = NoLocals

Goto(r, where) == pc' = [pc EXCEPT ![r] = where]

-----------------------------------------------------------------------------
(* Start *)

\* "instance already started": the deferred function clears the pointer and the
\* mark here as on every other error.
StartRefused(r) ==
    /\ pc[r] = "check"
    /\ Running
    /\ Answer(r, "refused")
    /\ boxInstance' = None
    /\ autoRedirectMark' = FALSE
    /\ UNCHANGED <<requests, xrayInstance, xrayFullGates, extraProcess,
                   needUnsetDNS, world>>

StartCheck(r) ==
    /\ pc[r] = "check"
    /\ ~Running
    /\ Goto(r, IF cfg[r].extra THEN "extra" ELSE "mark")
    /\ UNCHANGED <<requests, owner, reply, pointers, world, local>>

\* Arguments that do not parse, or a configuration file that cannot be created.
ExtraNotBuilt(r) ==
    /\ pc[r] = "extra"
    /\ Goto(r, "fail")
    /\ UNCHANGED <<requests, owner, reply, pointers, world, local>>

\* Process.Start() fails and removes the file; extraProcess stays assigned.
ExtraNotStarted(r) ==
    /\ pc[r] = "extra"
    /\ extraProcess' = r
    /\ Goto(r, "fail")
    /\ UNCHANGED <<requests, owner, reply, boxInstance, xrayInstance, xrayFullGates,
                   needUnsetDNS, autoRedirectMark, world, local>>

ExtraStarted(r) ==
    /\ pc[r] = "extra"
    /\ extraProcess' = r
    /\ extra' = [extra EXCEPT ![r] = "running"]
    /\ conf' = [conf EXCEPT ![r] = TRUE]
    /\ Goto(r, "mark")
    /\ UNCHANGED <<requests, owner, reply, boxInstance, xrayInstance, xrayFullGates,
                   needUnsetDNS, autoRedirectMark, box, sidecar, gates, systemDNS,
                   local>>

AfterSidecar(r) == IF cfg[r].full # {} THEN "fullFirst" ELSE "create"

SetMark(r) ==
    /\ pc[r] = "mark"
    /\ autoRedirectMark' = cfg[r].redirect
    /\ Goto(r, IF cfg[r].sidecar THEN "sidecar" ELSE AfterSidecar(r))
    /\ UNCHANGED <<requests, owner, reply, boxInstance, xrayInstance, xrayFullGates,
                   extraProcess, needUnsetDNS, world, local>>

\* StartGate, or create, prepare and start: published only once up.
SidecarUp(r) ==
    /\ pc[r] = "sidecar"
    /\ sidecar' = [sidecar EXCEPT ![r] = "up"]
    /\ xrayInstance' = r
    /\ Goto(r, AfterSidecar(r))
    /\ UNCHANGED <<requests, owner, reply, boxInstance, xrayFullGates, extraProcess,
                   needUnsetDNS, autoRedirectMark, box, gates, extra, conf,
                   systemDNS, local>>

\* What was built of the sidecar is closed, and Start returns the error.
SidecarFailed(r) ==
    /\ pc[r] = "sidecar"
    /\ Goto(r, "fail")
    /\ UNCHANGED <<requests, owner, reply, pointers, world, local>>

\* startXrayFullGates: the first gate alone, the rest in parallel, all or none.
FullFirst(r) ==
    /\ pc[r] = "fullFirst"
    /\ \/ /\ \E f \in cfg[r].full : gates' = [gates EXCEPT ![r] = {f}]
          /\ Goto(r, "fullRest")
       \/ /\ UNCHANGED gates
          /\ Goto(r, "xclear")
    /\ UNCHANGED <<requests, owner, reply, pointers, box, sidecar, extra, conf,
                   systemDNS, local>>

FullRest(r) ==
    /\ pc[r] = "fullRest"
    /\ \E opened \in SUBSET cfg[r].full :
          /\ gates[r] \subseteq opened
          /\ gates' = [gates EXCEPT ![r] = opened]
    /\ Goto(r, "fullJoin")
    /\ UNCHANGED <<requests, owner, reply, pointers, box, sidecar, extra, conf,
                   systemDNS, local>>

\* Mutant: publishes the gates that opened, whatever the others did.
FullPublishPartial(r) ==
    /\ pc[r] = "fullJoin"
    /\ xrayFullGates' = r
    /\ Goto(r, "create")
    /\ UNCHANGED <<requests, owner, reply, boxInstance, xrayInstance, extraProcess,
                   needUnsetDNS, autoRedirectMark, world, local>>

FullPublish(r) ==
    /\ pc[r] = "fullJoin"
    /\ gates[r] = cfg[r].full
    /\ xrayFullGates' = r
    /\ Goto(r, "create")
    /\ UNCHANGED <<requests, owner, reply, boxInstance, xrayInstance, extraProcess,
                   needUnsetDNS, autoRedirectMark, world, local>>

FullUnwind(r) ==
    /\ pc[r] = "fullJoin"
    /\ gates[r] # cfg[r].full
    /\ gates' = [gates EXCEPT ![r] = {}]
    /\ Goto(r, "xclear")
    /\ UNCHANGED <<requests, owner, reply, pointers, box, sidecar, extra, conf,
                   systemDNS, local>>

BoxCreated(r) ==
    /\ pc[r] = "create"
    /\ box' = [box EXCEPT ![r] = "up"]
    /\ Goto(r, "publish")
    /\ UNCHANGED <<requests, owner, reply, pointers, sidecar, gates, extra, conf,
                   systemDNS, local>>

\* Process.Stop() on whatever extra process is known, and forget it.
StopExtraProcess ==
    /\ extraProcess' = None
    /\ IF extraProcess = None
       THEN UNCHANGED <<extra, conf>>
       ELSE /\ extra' = [extra EXCEPT ![extraProcess] =
                            IF @ = "running" THEN "exited" ELSE @]
            /\ conf' = [conf EXCEPT ![extraProcess] = FALSE]

\* Mutant: sing-box failed, and only the extra process is cleaned up.
BoxNotCreatedKeepsXray(r) ==
    /\ pc[r] = "create"
    /\ StopExtraProcess
    /\ Goto(r, "fail")
    /\ UNCHANGED <<requests, owner, reply, boxInstance, xrayInstance, xrayFullGates,
                   needUnsetDNS, autoRedirectMark, box, sidecar, gates, systemDNS,
                   local>>

BoxNotCreated(r) ==
    /\ pc[r] = "create"
    /\ StopExtraProcess
    /\ Goto(r, "xclear")
    /\ UNCHANGED <<requests, owner, reply, boxInstance, xrayInstance, xrayFullGates,
                   needUnsetDNS, autoRedirectMark, box, sidecar, gates, systemDNS,
                   local>>

PublishBox(r) ==
    /\ pc[r] = "publish"
    /\ boxInstance' = r
    /\ Goto(r, IF cfg[r].tun = "none" THEN "succeed" ELSE "dns")
    /\ UNCHANGED <<requests, owner, reply, xrayInstance, xrayFullGates, extraProcess,
                   needUnsetDNS, autoRedirectMark, world, local>>

\* needUnsetDNS is set although SetSystemDNS may have failed.
SetDNS(r) ==
    /\ pc[r] = "dns"
    /\ cfg[r].tun = "valid"
    /\ systemDNS' \in {systemDNS, "tun"}
    /\ needUnsetDNS' = TRUE
    /\ Goto(r, "succeed")
    /\ UNCHANGED <<requests, owner, reply, boxInstance, xrayInstance, xrayFullGates,
                   extraProcess, autoRedirectMark, box, sidecar, gates, extra, conf,
                   local>>

\* stopAllCores: the box is closed while it is still published.
UnwindBox(r) ==
    /\ pc[r] = "dns"
    /\ cfg[r].tun = "invalid"
    /\ box' = [box EXCEPT ![r] = "down"]
    /\ Goto(r, "unwind")
    /\ UNCHANGED <<requests, owner, reply, pointers, sidecar, gates, extra, conf,
                   systemDNS, local>>

UnwindRest(r) ==
    /\ pc[r] = "unwind"
    /\ boxInstance' = None
    /\ StopExtraProcess
    /\ Goto(r, "xclear")
    /\ UNCHANGED <<requests, owner, reply, xrayInstance, xrayFullGates, needUnsetDNS,
                   autoRedirectMark, box, sidecar, gates, systemDNS, local>>

\* The deferred function after an error.
StartFails(r) ==
    /\ pc[r] = "fail"
    /\ Answer(r, "failed")
    /\ boxInstance' = None
    /\ autoRedirectMark' = FALSE
    /\ UNCHANGED <<requests, xrayInstance, xrayFullGates, extraProcess, needUnsetDNS,
                   world>>

StartSucceeds(r) ==
    /\ pc[r] = "succeed"
    /\ Answer(r, "ok")
    /\ UNCHANGED <<requests, pointers, world>>

\* What parses the user's configurations (Xray, a gate, sing-box) panics. err is nil
\* then, so that the deferred function cleans nothing; it unlocks, and runDispatch
\* recovers and answers. What was published stays so.
StartPanics(r) ==
    /\ pc[r] \in {"sidecar", "fullFirst", "create"}
    /\ Answer(r, "panicked")
    /\ UNCHANGED <<requests, pointers, world>>

-----------------------------------------------------------------------------
(* closeXray: the slots are cleared under stateMu before anything is closed *)

\* Mutant: remembers the gates themselves where their slot is meant.
ClearXrayTakesGates(r) ==
    /\ pc[r] = "xclear"
    /\ local' = [local EXCEPT !.sidecar = xrayInstance, !.gates = gates[r]]
    /\ xrayInstance' = None
    /\ xrayFullGates' = None
    /\ Goto(r, "xclose")
    /\ UNCHANGED <<requests, owner, reply, boxInstance, extraProcess, needUnsetDNS,
                   autoRedirectMark, world>>

\* Mutant: clears the sidecar's slot and forgets the gates'.
ClearXrayForgetsGates(r) ==
    /\ pc[r] = "xclear"
    /\ local' = [local EXCEPT !.sidecar = xrayInstance, !.gates = xrayFullGates]
    /\ xrayInstance' = None
    /\ Goto(r, "xclose")
    /\ UNCHANGED <<requests, owner, reply, boxInstance, xrayFullGates, extraProcess,
                   needUnsetDNS, autoRedirectMark, world>>

ClearXray(r) ==
    /\ pc[r] = "xclear"
    /\ local' = [local EXCEPT !.sidecar = xrayInstance, !.gates = xrayFullGates]
    /\ xrayInstance' = None
    /\ xrayFullGates' = None
    /\ Goto(r, "xclose")
    /\ UNCHANGED <<requests, owner, reply, boxInstance, extraProcess, needUnsetDNS,
                   autoRedirectMark, world>>

CloseXray(r) ==
    /\ pc[r] = "xclose"
    /\ sidecar' = [s \in Req |-> IF s = local.sidecar THEN "down" ELSE sidecar[s]]
    /\ gates' = [s \in Req |-> IF s = local.gates THEN {} ELSE gates[s]]
    /\ Goto(r, IF kind[r] = "start" THEN "fail" ELSE "finish")
    /\ UNCHANGED <<requests, owner, reply, pointers, box, extra, conf, systemDNS, local>>

-----------------------------------------------------------------------------
(* Stop *)

StopNothing(r) ==
    /\ pc[r] = "look"
    /\ ~Running
    /\ Answer(r, "ok")
    /\ UNCHANGED <<requests, pointers, world>>

StopLook(r) ==
    /\ pc[r] = "look"
    /\ Running
    /\ local' = [local EXCEPT !.box = boxInstance]
    /\ Goto(r, IF needUnsetDNS THEN "undns" ELSE "unpublish")
    /\ UNCHANGED <<requests, owner, reply, pointers, world>>

\* A failure to restore the DNS is only logged.
UnsetDNS(r) ==
    /\ pc[r] = "undns"
    /\ needUnsetDNS' = FALSE
    /\ systemDNS' \in {systemDNS, "user"}
    /\ Goto(r, "unpublish")
    /\ UNCHANGED <<requests, owner, reply, boxInstance, xrayInstance, xrayFullGates,
                   extraProcess, autoRedirectMark, box, sidecar, gates, extra, conf,
                   local>>

Unpublish(r) ==
    /\ pc[r] = "unpublish"
    /\ boxInstance' = None
    /\ Goto(r, "closeBox")
    /\ UNCHANGED <<requests, owner, reply, xrayInstance, xrayFullGates, extraProcess,
                   needUnsetDNS, autoRedirectMark, world, local>>

\* Mutant: reads the box after it was unpublished, and closes nothing.
CloseBoxReread(r) ==
    /\ pc[r] = "closeBox"
    /\ box' = [b \in Req |-> IF b = boxInstance THEN "down" ELSE box[b]]
    /\ Goto(r, "stopExtra")
    /\ UNCHANGED <<requests, owner, reply, pointers, sidecar, gates, extra, conf,
                   systemDNS, local>>

CloseBox(r) ==
    /\ pc[r] = "closeBox"
    /\ box' = [b \in Req |-> IF b = local.box THEN "down" ELSE box[b]]
    /\ Goto(r, "stopExtra")
    /\ UNCHANGED <<requests, owner, reply, pointers, sidecar, gates, extra, conf,
                   systemDNS, local>>

StopExtra(r) ==
    /\ pc[r] = "stopExtra"
    /\ StopExtraProcess
    /\ Goto(r, "xclear")
    /\ UNCHANGED <<requests, owner, reply, boxInstance, xrayInstance, xrayFullGates,
                   needUnsetDNS, autoRedirectMark, box, sidecar, gates, systemDNS,
                   local>>

StopFinish(r) ==
    /\ pc[r] = "finish"
    /\ autoRedirectMark' = FALSE
    /\ Answer(r, "ok")
    /\ UNCHANGED <<requests, boxInstance, xrayInstance, xrayFullGates, extraProcess,
                   needUnsetDNS, world>>

-----------------------------------------------------------------------------

\* The extra process ends by itself: its waiter removes the file.
ExtraExits(r) ==
    /\ extra[r] = "running"
    /\ extra' = [extra EXCEPT ![r] = "exited"]
    /\ conf' = [conf EXCEPT ![r] = FALSE]
    /\ UNCHANGED <<requests, owner, pc, reply, pointers, box, sidecar, gates,
                   systemDNS, local>>

Step(r) ==
    \/ Lock(r)
    \/ StartRefused(r) \/ StartCheck(r)
    \/ ExtraNotBuilt(r) \/ ExtraNotStarted(r) \/ ExtraStarted(r)
    \/ SetMark(r)
    \/ SidecarUp(r) \/ SidecarFailed(r)
    \/ FullFirst(r) \/ FullRest(r) \/ FullPublish(r) \/ FullUnwind(r)
    \/ BoxCreated(r) \/ BoxNotCreated(r) \/ PublishBox(r)
    \/ SetDNS(r) \/ UnwindBox(r) \/ UnwindRest(r)
    \/ StartFails(r) \/ StartSucceeds(r) \/ StartPanics(r)
    \/ ClearXray(r) \/ CloseXray(r)
    \/ StopNothing(r) \/ StopLook(r) \/ UnsetDNS(r) \/ Unpublish(r)
    \/ CloseBox(r) \/ StopExtra(r) \/ StopFinish(r)

Next ==
    \E r \in Req :
        \/ \E k \in {"start", "stop"}, c \in Config : Arrive(r, k, c)
        \/ Step(r)
        \/ ExtraExits(r)

Spec == Init /\ [][Next]_vars

-----------------------------------------------------------------------------
(* Properties *)

\* The pollers and the network callback dereference whatever is published, at any
\* moment: a slot never names an Xray instance or gate that is not up, and the box
\* is closed while published only on the way out of a Start with a bad tun address.
SlotsLive ==
    /\ xrayInstance # None => sidecar[xrayInstance] = "up"
    /\ xrayFullGates # None => gates[xrayFullGates] = cfg[xrayFullGates].full
    /\ boxInstance # None =>
          box[boxInstance] = "up" \/ pc[boxInstance] = "unwind"

\* A Start that brought its box up published everything the profile asked for,
\* whatever earlier requests left behind: its own sidecar, every gate, the mark of
\* its tun, and its own extra process.
UpIsWhole ==
    owner = None /\ Running =>
        LET c == cfg[boxInstance] IN
        /\ box[boxInstance] = "up"
        /\ c.sidecar => xrayInstance = boxInstance /\ sidecar[boxInstance] = "up"
        /\ c.full # {} => xrayFullGates = boxInstance /\ gates[boxInstance] = c.full
        /\ c.extra => extraProcess = boxInstance
        /\ autoRedirectMark = c.redirect

\* With a client that waits for its answers, a core that runs nothing has no box of any
\* earlier request up, and no DNS to restore; a sidecar, a gate or the mark only of a
\* Start that panicked, and an extra process only of one that failed or panicked. The
\* code has both exceptions: it stops the extra process only when sing-box or the tun
\* fails, and after a panic nothing.
DownIsClean ==
    polite /\ owner = None /\ ~Running =>
        /\ \A r \in Req :
              /\ box[r] # "up"
              /\ sidecar[r] = "up" \/ gates[r] # {} => reply[r] = "panicked"
              /\ r \in {xrayInstance, xrayFullGates} => reply[r] = "panicked"
              /\ extra[r] = "running" => reply[r] \in {"failed", "panicked"}
        /\ autoRedirectMark =>
              \E r \in Req : reply[r] = "panicked" /\ cfg[r].redirect
        /\ ~needUnsetDNS

\* Start and Stop, seen from such a client, are the atomic operations of CoreSession;
\* an impolite client's behaviours are mapped to its initial state.
Session == INSTANCE CoreSession WITH
    kind  <- [r \in Req |-> IF polite THEN kind[r] ELSE "none"],
    up    <- {r \in Req : polite /\ box[r] = "up"},
    reply <- [r \in Req |-> IF polite THEN reply[r] ELSE "none"]

SessionSpec == Session!Spec

\* server.go:286-288: "keep test egress off an active TUN, both the route it would take
\* and the auto_redirect that would pull it back in": between requests the mark is set
\* while the tun of any box is up.  The code breaks it: a refused Start clears the mark.
TestsStayOffTheTun ==
    owner = None =>
        \A r \in Req : box[r] = "up" /\ cfg[r].redirect => autoRedirectMark
=============================================================================
