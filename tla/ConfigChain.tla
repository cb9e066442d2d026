----------------------------- MODULE ConfigChain -----------------------------
(***************************************************************************)
(* The outbounds of a configuration (generate.cpp, AutoSelectorPlan.cpp).   *)
(* A chain of hops may change from sing-box to Xray and back. It is laid    *)
(* out as outbounds of the two cores, linked by tags and, where it changes  *)
(* core, by socks bridges. The started profile, the members of a selector,  *)
(* the outbounds and endpoints of a routing profile, and the candidates of  *)
(* a test share the two configurations and their tags.                      *)
(*                                                                         *)
(* Hop 1 is where traffic enters, and what it dials goes through hop 2.     *)
(***************************************************************************)
EXTENDS Lists

CONSTANTS
    Sing, Xray,       \* profiles by the core that carries them
    Extra, FullXray,  \* profiles that leave sing-box to a program of their own
    Warp,             \* the WARP profile, a hop of sing-box
    Wanted,           \* what may be asked for
    NoHop

Terminal == Extra \cup FullXray
Hop      == Sing \cup Xray \cup Terminal \cup {Warp}
HopList  == Seq(Hop) \ {<<>>}

\* A chain is listed as in its editor, from its last hop. A routing profile uses
\* `routes` as outbounds and `auxes` as endpoints.
Request ==
    [what : {"profile", "selector", "test"}, chains : Seq(HopList), warp : BOOLEAN,
     landing : Hop \cup {NoHop}, front : Hop \cup {NoHop},
     routes : Seq(Seq(Hop)), auxes : Seq(Seq(Hop))]

\* One core carries a profile; one profile or chain is started, or a selector of profiles.
ASSUME ChainAssumption ==
    /\ Xray \cap (Sing \cup Terminal \cup {Warp}) = {} /\ Sing \cap Terminal = {}
    /\ Extra \cap FullXray = {} /\ Warp \notin Terminal
    /\ {"bridge", "pool"} \cap Hop = {} /\ NoHop \notin Hop
    /\ Wanted \subseteq Request
    /\ \A r \in Wanted :
          /\ r.what = "profile" => Len(r.chains) = 1
          /\ r.what = "selector" => \A i \in DOMAIN r.chains : Len(r.chains[i]) = 1

VARIABLES
    req,         \* what is asked for
    phase,       \* what is built next
    built,       \* how many of it are built
    outboundMap, \* the tags by which rules know the routes and auxes
    planned,     \* the hop lists of the profile, of the members or of the candidates
    context      \* BuildContext

configVars == <<req, phase, built, outboundMap, planned, context>>

\* hopTag, and the tags of outbounds that rules name.
Tag(prefix, index) == Append(prefix, index)
Proxy      == <<"proxy">>
WarpBypass == <<"warp-bypass">>
NoTag      == <<>>

\* A bridge of `ports` leads to `out`; an Xray instance of its own is in `fulls`.
EmptyContext ==
    [sing |-> <<>>, xray |-> <<>>, singToXray |-> <<>>, xrayToSing |-> <<>>,
     singIngress |-> <<>>, xrayIngress |-> <<>>, singIn |-> {}, xrayIn |-> {},
     slot |-> {}, fulls |-> {}, pool |-> <<>>, watch |-> <<>>, ports |-> 0, error |-> "none"]

ConfigInit ==
    /\ req \in Wanted
    /\ phase = "plan"
    /\ built = 0
    /\ outboundMap = <<>>
    /\ planned = <<>>
    /\ context = EmptyContext

ConfigTypeOK ==
    /\ req \in Request
    /\ phase \in {"plan", "main", "members", "group", "candidates", "routes", "auxes", "bridges",
                  "xray", "done"}
    /\ built \in 0..(Len(req.chains) + Len(req.routes) + Len(req.auxes))
    /\ \A i \in DOMAIN planned : planned[i] \in Seq(Hop)
    /\ DOMAIN context = DOMAIN EmptyContext
    /\ context.error \in {"none", "invalid", "refused", "mismatch"}

-----------------------------------------------------------------------------
(* entIDListtoEntList and chainScanError *)

InXray(hops, i) == i > 0 /\ hops[i] \in Xray

Crossings(hops) == {i \in DOMAIN hops : InXray(hops, i) # InXray(hops, i - 1)}
ToXray(hops)    == \E i \in Crossings(hops) : InXray(hops, i)
ToSing(hops)    == \E i \in Crossings(hops) : ~InXray(hops, i)

Refused(hops) ==
    \/ \E i \in DOMAIN hops : hops[i] \in Terminal /\ i # Len(hops)
    \/ hops # <<>> /\ Last(hops) \in FullXray /\ ToXray(hops)
    \/ Cardinality(Crossings(hops)) > 2

-----------------------------------------------------------------------------
(* buildOutboundChain *)

\* What is asked of it, but for what only the first hops or some members need.
Asked(hops, prefix, start, link) ==
    [hops |-> hops, prefix |-> prefix, start |-> start, link |-> link,
     proxy |-> FALSE, warp |-> FALSE, sole |-> FALSE]

\* buildSingboxChain and buildXrayChain: outbounds for `ends`, each of which
\* dials through the next.
Linked(ends, r) ==
    [i \in DOMAIN ends |->
        [tag    |-> IF r.proxy /\ i = 1 THEN Proxy
                    ELSE IF r.warp /\ i = 2 THEN WarpBypass
                    ELSE Tag(r.prefix, r.start + i - 1),
         end    |-> ends[i],
         detour |-> IF r.warp /\ i = 1 THEN WarpBypass
                    ELSE IF r.link /\ i < Len(ends) THEN Tag(r.prefix, r.start + i)
                    ELSE NoTag]]

\* The hops as ends of outbounds: a full configuration is reached through a port.
Ends(hops, port) ==
    [i \in DOMAIN hops |->
        [hop |-> hops[i], port |-> IF hops[i] \in FullXray THEN port ELSE 0]]

Bridges(ports) == [i \in DOMAIN ports |-> [hop |-> "bridge", port |-> ports[i]]]

\* The first hop of Xray, or behind all; the hops before it, those of Xray, and
\* those of sing-box after it.
Cut(hops) ==
    CHOOSE n \in 1..(Len(hops) + 1) :
        /\ n \in DOMAIN hops => hops[n] \in Xray
        /\ \A i \in 1..(n - 1) : hops[i] \notin Xray

LeadHops(hops) == SubSeq(hops, 1, Cut(hops) - 1)
XrayHops(hops) == Filter(hops, Xray)
TailHops(hops) == Filter(SubSeq(hops, Cut(hops), Len(hops)), Hop \ Xray)

\* The ports of the bridges, one each way.
Into(hops, ports) == IF ToXray(hops) THEN <<ports + 1>> ELSE <<>>
Back(hops, ports) == IF ToSing(hops) THEN <<ports + 2>> ELSE <<>>

\* Mutant: the outbounds of the way back are numbered after the hops before it.
TailStartOverBridge(start, lead, bridge) == start + Len(lead)

\* tailingStartSuffix
TailStart(start, lead, bridge) == start + Len(lead) + Len(bridge)

EntryTag(r) == IF r.proxy THEN Proxy ELSE Tag(r.prefix, r.start)

\* The outbounds of `r`: hops of sing-box and a bridge, hops of Xray and a bridge back,
\* and again hops of sing-box.
LeadOuts(r, ports) ==
    Linked(Ends(LeadHops(r.hops), ports + 1) \o Bridges(Into(r.hops, ports)), r)
XrayOuts(r, ports) ==
    Linked(Ends(XrayHops(r.hops), 0) \o Bridges(Back(r.hops, ports)),
           [r EXCEPT !.warp = FALSE, !.link = @ \/ ToSing(r.hops)])
TailFrom(r) == TailStart(r.start, LeadHops(r.hops), Into(r.hops, 0))
TailOuts(r) == Linked(Ends(TailHops(r.hops), 0), Asked(r.hops, r.prefix, TailFrom(r), r.link))

Ingress(outs) == IF outs = <<>> THEN <<>> ELSE <<outs[1].tag>>

\* The outbound that is watched for the traffic of all its hops.
Watched(r) ==
    [tag  |-> IF TailHops(r.hops) = <<>> THEN EntryTag(r) ELSE Tag(r.prefix, TailFrom(r)),
     hops |-> r.hops]

Chain(c, r) ==
    IF Refused(r.hops) THEN [c EXCEPT !.error = "refused"]
    ELSE [c EXCEPT
            !.sing = @ \o LeadOuts(r, c.ports) \o TailOuts(r),
            !.xray = @ \o XrayOuts(r, c.ports),
            !.singToXray = @ \o Into(r.hops, c.ports),
            !.xrayToSing = @ \o Back(r.hops, c.ports),
            !.xrayIngress = @ \o Ingress(XrayOuts(r, c.ports)),
            !.singIngress = @ \o Ingress(TailOuts(r)),
            !.slot = IF Range(r.hops) \cap FullXray = {} THEN @
                     ELSE {[port |-> c.ports + 1, own |-> ~r.sole]},
            !.watch = Append(@, Watched(r)),
            !.ports = @ + 2]

-----------------------------------------------------------------------------
(* calculatePrerequisites, PlanAutoSelector *)

Maybe(hop) == IF hop = NoHop THEN <<>> ELSE <<hop>>
WithProxies(hops) == Maybe(req.landing) \o hops \o Maybe(req.front)

\* The hops of the lists before the i-th.
HopsBefore(lists, i) == Total(lists, i - 1)

HopsOf(lists) == UNION {Range(lists[i]) : i \in DOMAIN lists}

\* Those that BuildTestConfig leaves out: classifyTestCandidate.
Skipped(stored) ==
    IF Len(stored) = 1 THEN stored[1] \in Extra ELSE Range(stored) \cap Terminal # {}

\* A full configuration is tested without the proxies of its group.
Tested(stored) ==
    IF Len(stored) = 1 /\ stored[1] \in FullXray THEN stored ELSE WithProxies(Reverse(stored))

\* A member is used if it fits between the proxies of its group: xrayFullConfigFitsChain,
\* or coreTransitions.
Fits(m) ==
    /\ m \notin Extra
    /\ m \in FullXray => req.front = NoHop /\ req.landing \notin Xray \cup Terminal
    /\ m \notin FullXray =>
         LET all == WithProxies(<<m>>)
         IN  Cardinality({i \in DOMAIN all : InXray(all, i) # InXray(all, i - 1)}) <= 2


\* The hop lists to build, in the order of their traffic. With WARP in front of a
\* profile it is a hop like the others; in front of a selector it is built by itself.
Plans ==
    CASE req.what = "profile" ->
           <<(IF req.warp THEN <<Warp>> ELSE <<>>) \o WithProxies(Reverse(req.chains[1]))>>
      [] req.what = "selector" ->
           LET fit == Filter(req.chains, {member \in Range(req.chains) : Fits(member[1])})
           IN  [i \in DOMAIN fit |-> WithProxies(fit[i])]
      [] req.what = "test" -> [i \in DOMAIN req.chains |-> Tested(req.chains[i])]

\* The profiles the box holds already, which an endpoint may not be among.
UsedProfiles ==
    HopsOf(req.routes) \cup Range(Maybe(req.landing)) \cup Range(Maybe(req.front))
        \cup (IF req.what = "profile" THEN Range(req.chains[1]) ELSE {})

Plan ==
    /\ phase = "plan"
    /\ planned' = Plans
    /\ outboundMap' =
         [i \in DOMAIN req.routes |-> Tag(<<"route">>, HopsBefore(req.routes, i))]
           \o [i \in DOMAIN req.auxes |-> Tag(<<"aux">>, HopsBefore(req.auxes, i))]
    /\ LET bad == \/ <<>> \in Range(req.routes) \cup Range(req.auxes)
                  \/ HopsOf(req.routes) \cap Terminal # {}
                  \/ HopsOf(req.auxes) \cap (Terminal \cup Xray \cup UsedProfiles) # {}
                  \/ \E i, j \in DOMAIN req.auxes :
                         i # j /\ Range(req.auxes[i]) \cap Range(req.auxes[j]) # {}
                  \/ planned' = <<>>
       IN  /\ context' = IF bad THEN [context EXCEPT !.error = "invalid"] ELSE context
           /\ phase' = IF bad THEN "done"
                       ELSE CASE req.what = "profile"  -> "main"
                              [] req.what = "selector" -> "members"
                              [] req.what = "test"     -> "candidates"
    /\ UNCHANGED <<req, built>>

-----------------------------------------------------------------------------
(* buildOutboundsSection, buildAutoSelectorGroup, BuildTestConfig *)

\* One of `n` has been built into `c`; after the last, `following` is.
Built(c, n, following) ==
    /\ context' = c
    /\ built' = IF built + 1 < n THEN built + 1 ELSE 0
    /\ phase' = IF c.error # "none" THEN "done" ELSE IF built + 1 < n THEN phase ELSE following
    /\ UNCHANGED <<req, outboundMap, planned>>

\* What follows once `done` is finished: there may be no routes, and no auxes.
After(done) ==
    IF done = "group" /\ req.routes # <<>> THEN "routes"
    ELSE IF done \in {"group", "routes"} /\ req.auxes # <<>> THEN "auxes"
    ELSE "bridges"

\* What is asked of buildOutboundChain for each chain of a started configuration.
MainChain ==
    [Asked(planned[1], <<"config">>, 0, TRUE) EXCEPT !.proxy = TRUE, !.warp = req.warp]
MemberChain(i) ==
    [Asked(planned[i], <<"pool", i - 1>>, 0, TRUE) EXCEPT !.sole = Last(planned[i]) \in FullXray]
RouteChain(i) ==
    Asked(req.routes[i], <<"route">>, HopsBefore(req.routes, i), Len(req.routes[i]) > 1)
AuxChain(i) == Asked(req.auxes[i], <<"aux">>, HopsBefore(req.auxes, i), Len(req.auxes[i]) > 1)

Main ==
    /\ phase = "main"
    /\ Built(Chain(context, MainChain), 1, After("group"))

\* The full configuration of a chain becomes an Xray instance of its own.
Drained(c) == [c EXCEPT !.fulls = @ \cup c.slot, !.slot = {}]

Member ==
    /\ phase = "members"
    /\ LET r == MemberChain(built + 1)
           c == Drained(Chain(context, r))
       IN  Built([c EXCEPT !.pool = Append(@, EntryTag(r))], Len(planned), "group")

\* The group of the members, and WARP in front of it.
Group ==
    /\ phase = "group"
    /\ LET group == [tag |-> IF req.warp THEN WarpBypass ELSE Proxy,
                     end |-> [hop |-> "pool", port |-> 0], detour |-> NoTag]
           warp  == [tag |-> Proxy, end |-> [hop |-> Warp, port |-> 0], detour |-> WarpBypass]
           all   == [tag |-> Proxy, hops |-> FlattenSeq(planned)]
       IN  Built([context EXCEPT !.sing = @ \o <<group>> \o (IF req.warp THEN <<warp>> ELSE <<>>),
                             !.watch = IF req.warp THEN <<all>> ELSE @], 1, After("group"))

Route ==
    /\ phase = "routes"
    /\ Built(Chain(context, RouteChain(built + 1)), Len(req.routes), After("routes"))

Aux ==
    /\ phase = "auxes"
    /\ Built(Chain(context, AuxChain(built + 1)), Len(req.auxes), "bridges")

\* A candidate that cannot share the box of the test is skipped.
Candidate ==
    /\ phase = "candidates"
    /\ LET stored == req.chains[built + 1]
           hops   == planned[built + 1]
           alone  == Len(stored) = 1 /\ stored[1] \in FullXray
           r      == Asked(hops, <<(IF alone THEN "xrayfull" ELSE "proxy"), built + 1>>, 0, TRUE)
           c      == IF alone THEN Drained(Chain(context, [r EXCEPT !.sole = TRUE])) ELSE Chain(context, r)
       IN  IF Skipped(stored)
             THEN Built([context EXCEPT !.pool = Append(@, NoTag)], Len(planned), "bridges")
             ELSE Built([c EXCEPT !.pool = Append(@, EntryTag(r))], Len(planned), "bridges")

\* The inbounds of the ways back into sing-box, and, but in a test, the rules that
\* lead from them to the hops that follow.
WaysBack ==
    /\ phase = "bridges"
    /\ IF Len(context.xrayToSing) # Len(context.singIngress) /\ req.what # "test"
         THEN Built([context EXCEPT !.error = "mismatch"], 1, "done")
         ELSE Built([context EXCEPT !.singIn =
                       {[port |-> context.xrayToSing[i],
                         out  |-> IF req.what = "test" THEN NoTag ELSE context.singIngress[i]]
                          : i \in DOMAIN context.xrayToSing}], 1, "xray")

\* buildXrayConfig. It takes the slot, whatever is in it, once a hop is Xray's.
XrayConfig ==
    /\ phase = "xray"
    /\ Built(IF context.xray = <<>> THEN context
             ELSE IF Len(context.xrayIngress) # Len(context.singToXray)
               THEN [context EXCEPT !.error = "mismatch"]
             ELSE [context EXCEPT !.slot = {},
                              !.xrayIn = {[port |-> context.singToXray[i], out |-> context.xrayIngress[i]]
                                            : i \in DOMAIN context.singToXray}], 1, "done")

ConfigNext == Plan \/ Main \/ Member \/ Group \/ Route \/ Aux \/ Candidate \/ WaysBack \/ XrayConfig

ConfigSpec == ConfigInit /\ [][ConfigNext]_configVars

-----------------------------------------------------------------------------
(* Properties *)

\* The outbounds of a tag, the inbounds of a port, and whether somebody serves an end.
Named(core, tag)    == {i \in DOMAIN context[core] : context[core][i].tag = tag}
Inbounds(core, port) == {b \in (IF core = "sing" THEN context.singIn ELSE context.xrayIn) :
                           b.port = port}
Served(end) ==
    end.hop \in FullXray => \E f \in context.slot \cup context.fulls : f.port = end.port

Other(core) == IF core = "sing" THEN "xray" ELSE "sing"
Lost == [core |-> "none", tag |-> NoTag, hops |-> <<"lost">>]

\* A connection that enters `core` at `tag`, after `hops`: behind a bridge it goes on
\* in the other core, where the rule of its inbound sends it, or by the first outbound
\* if there is none; else it goes on where its outbound dials through.
Further(w) ==
    LET out   == context[w.core][CHOOSE i \in Named(w.core, w.tag) : TRUE]
        doors == Inbounds(Other(w.core), out.end.port)
        door  == CHOOSE b \in doors : TRUE
    IN  CASE w.tag = NoTag -> w
          [] w.tag # NoTag /\ Cardinality(Named(w.core, w.tag)) # 1 -> Lost
          [] w.tag # NoTag /\ Cardinality(Named(w.core, w.tag)) = 1 ->
               IF out.end.hop = "bridge"
                 THEN IF Cardinality(doors) # 1 \/ out.detour # NoTag THEN Lost
                      ELSE [w EXCEPT !.core = Other(@),
                                     !.tag = IF door.out # NoTag THEN door.out
                                             ELSE context[Other(w.core)][1].tag]
               ELSE IF Served(out.end)
                 THEN [w EXCEPT !.tag = out.detour, !.hops = Append(@, out.end.hop)]
               ELSE Lost

\* Where it is after n outbounds of either core.
Walk(tag, n) ==
    LET walk[i \in 0..n] ==
          IF i = 0 THEN [core |-> "sing", tag |-> tag, hops |-> <<>>] ELSE Further(walk[i - 1])
    IN  walk[n]

\* What enters at a tag passes the hops, and no others, and at most two bridges.
Carries(tag, hops) ==
    LET end == Walk(tag, Len(hops) + 2) IN end.tag = NoTag /\ end.hops = hops

Entered(what) == phase = "done" /\ req.what \in what /\ context.error = "none"

\* The one case left out: a full Xray configuration is started and the routing profile
\* uses Xray, whose configuration then takes the slot (generate.cpp:2350).
SlotTaken ==
    /\ req.what = "profile" /\ Last(planned[1]) \in FullXray
    /\ HopsOf(req.routes) \cap Xray # {}

\* The profile, or every member, is entered by the tag it is known by.
EntriesCarried ==
    IF req.what = "profile"
      THEN /\ Carries(Proxy, planned[1])
           /\ req.warp => Carries(WarpBypass, Tail(planned[1]))
      ELSE /\ Carries(Proxy, (IF req.warp THEN <<Warp>> ELSE <<>>) \o <<"pool">>)
           /\ \A i \in DOMAIN planned : Carries(context.pool[i], planned[i])

\* The tags that rules were given before anything was built are what was built.
RulesCarried ==
    \A i \in DOMAIN outboundMap : Carries(outboundMap[i], (req.routes \o req.auxes)[i])

\* The outbound whose traffic is credited to a chain is passed by all of it: what enters
\* there goes through the last hops, or into the pool.
WatchedIsPassed ==
    \A i \in DOMAIN context.watch :
        LET watched == context.watch[i]
        IN  \/ \E n \in DOMAIN watched.hops :
                  Carries(watched.tag, SubSeq(watched.hops, n, Len(watched.hops)))
            \/ Carries(watched.tag, <<Warp, "pool">>)

\* A member that was planned does not fail the build, unless its group's proxies
\* would fail any member; a route may.
PlannedIsBuilt ==
    context.error = "refused" /\ req.what = "selector" =>
        \/ req.front \in FullXray
        \/ req.landing \in Terminal
        \/ \E i \in DOMAIN req.routes : Refused(req.routes[i])

\* Every chain of a started configuration carries its traffic through exactly the hops
\* it lists, in their order, over both cores and every bridge; no member fails the
\* others; and no two instances of Xray take the inbounds of a user's configuration.
\* (buildOutboundChain, bridgesFor and coreTransitions count the changes of core
\* independently; calculatePrerequisites and buildOutboundsSection count the tags.)
ChainsAreCarried ==
    /\ phase = "done" => context.error # "mismatch" /\ PlannedIsBuilt
    /\ Entered({"profile", "selector"}) /\ ~SlotTaken =>
         EntriesCarried /\ RulesCarried /\ WatchedIsPassed
    /\ Cardinality({f \in context.fulls : f.own}) <= 1

\* The same of the candidates of a test.
TestsAreCarried ==
    Entered({"test"}) =>
        \A i \in DOMAIN planned :
            context.pool[i] # NoTag => Carries(context.pool[i], planned[i])
=============================================================================
