----------------------------- MODULE MCServices -----------------------------
(***************************************************************************)
(* What works around a profile that runs: the channel to the core, sweeps   *)
(* of tests, the monitor of an auto selector, statistics, subscriptions,    *)
(* the DNS of the system, endpoints, the updater, and the outbounds of a    *)
(* configuration. They share no state that is modelled, so that they need   *)
(* no interleaving: a behaviour chooses a part and runs it alone.           *)
(***************************************************************************)
EXTENDS RpcChannel, TestRunner, AutoSelector, ConnectionStats, GroupUpdate, SystemDns, VpnStatus,
        Updater, ConfigChain

CONSTANTS c1, c2, s1, s2, i1, i2, i3, f1, f2

VARIABLE part   \* the part that runs

allVars ==
    <<part, vars, testsVars, monitorVars, statsVars, groupVars, dnsVars, vpnVars, updaterVars,
      configVars>>

\* Two servers with the same identity, and one with another.
Outbounds == {<<"a", 1>>, <<"a", 2>>, <<"b", 1>>}
SelectorOutbound == <<"selector", 0>>

Changes == [e \in {c1, c2} |-> IF e = c1 THEN 2 ELSE 1]
TwoFiles == <<f1, f2>>

\* What may be started: a chain or a selector of up to two profiles, in a group with
\* proxies and a routing profile that uses chains; and what may be tested beside x1.
Profiles == {"s1", "s2", "x1", "x2", "extra", "full"}
Chains == {<<p>> : p \in Profiles} \cup {<<p, q>> : p, q \in Profiles}
Pools  == {<<<<p>>>> : p \in Profiles} \cup {<<<<p>>, <<q>>>> : p, q \in Profiles}

Started ==
    [what : {"profile"}, chains : {<<chain>> : chain \in Chains}, warp : BOOLEAN,
     landing : {"none", "s1", "x1"}, front : {"none", "s2", "x2", "full"},
     routes : {<<>>, <<<<"s1", "x1", "s2">>, <<"x2">>>>, <<<<"x1", "x2", "s1">>, <<"s2", "s1">>>>},
     auxes : {<<>>, <<<<"vpn1", "s3">>, <<"vpn2">>>>}]
Selected ==
    [what : {"selector"}, chains : Pools, warp : BOOLEAN,
     landing : {"none", "s1", "x1"}, front : {"none", "s2", "x2", "full"},
     routes : {<<>>, <<<<"x1", "s2">>, <<"x2">>>>}, auxes : {<<>>}]
Tried ==
    [what : {"test"}, chains : {<<<<"x1">>, chain>> : chain \in Chains}, warp : {FALSE},
     landing : {"none", "s1", "x1"}, front : {"none", "s2"}, routes : {<<>>}, auxes : {<<>>}]

Requests == Started \cup Selected \cup Tried

\* A part that builds no configuration.
NotAsked == CHOOSE r \in Tried : TRUE

ServicesInit ==
    /\ part \in {"rpc", "tests", "monitor", "stats", "group", "dns", "vpn", "update", "config"}
    /\ part # "config" => req = NotAsked
    /\ ConfigInit
    /\ Init /\ TestsInit /\ MonitorInit /\ StatsInit /\ GroupInit /\ DnsInit
    /\ VpnInit /\ UpdaterInit

ServicesNext ==
    /\ UNCHANGED part
    /\ IF part = "rpc"     THEN Next        ELSE UNCHANGED vars
    /\ IF part = "tests"   THEN TestsNext   ELSE UNCHANGED testsVars
    /\ IF part = "monitor" THEN MonitorNext ELSE UNCHANGED monitorVars
    /\ IF part = "stats"   THEN StatsNext   ELSE UNCHANGED statsVars
    /\ IF part = "group"   THEN GroupNext   ELSE UNCHANGED groupVars
    /\ IF part = "dns"     THEN DnsNext     ELSE UNCHANGED dnsVars
    /\ IF part = "vpn"     THEN VpnNext     ELSE UNCHANGED vpnVars
    /\ IF part = "update"  THEN UpdaterNext ELSE UNCHANGED updaterVars
    /\ IF part = "config"  THEN ConfigNext ELSE UNCHANGED configVars

\* The fairness of the part that runs, as its module states it.
ServicesFairness ==
    /\ \A k \in {s1, s2} : WF_testsVars(part = "tests" /\ SweepSteps(k))
    /\ \A p \in Probe : WF_testsVars(part = "tests" /\ CoreSteps(p))
    /\ WF_monitorVars(part = "monitor" /\ Ask)
    /\ WF_monitorVars(part = "monitor" /\ (Drop \/ Judge))
    /\ SF_monitorVars(part = "monitor" /\ Tick)
    /\ \A e \in {c1, c2} : /\ WF_vpnVars(part = "vpn" /\ Notify(e))
                           /\ WF_vpnVars(part = "vpn" /\ WaiterSteps(e))
    /\ WF_vpnVars(part = "vpn" /\ Answer)

ServicesSpec == ServicesInit /\ [][ServicesNext]_allVars /\ ServicesFairness

\* The part that builds configurations, alone.
GeneratorSpec == part = "config" /\ ServicesInit /\ [][ServicesNext]_allVars

\* Calls and sweeps are interchangeable: the first one is the first to begin.
InOrder ==
    /\ pc[c2] # "idle" => pc[c1] # "idle"
    /\ worker[s2] # "new" => worker[s1] # "new"

-----------------------------------------------------------------------------
\* The type invariant of the part that runs; nothing moves in the others.
ServicesTypeOK ==
    CASE part = "rpc"     -> TypeOK
      [] part = "tests"   -> TestsTypeOK
      [] part = "monitor" -> MonitorTypeOK
      [] part = "stats"   -> StatsTypeOK
      [] part = "group"   -> GroupTypeOK
      [] part = "dns"     -> DnsTypeOK
      [] part = "vpn"     -> VpnTypeOK
      [] part = "update"  -> UpdaterTypeOK
      [] part = "config"  -> ConfigTypeOK
=============================================================================
