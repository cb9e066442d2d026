----------------------------- MODULE SystemDns -----------------------------
(***************************************************************************)
(* DnsManager of the core on Windows (dns_manager_windows.go): while a tun  *)
(* is up, the default interface is given a local DNS server in front of its *)
(* own ones, with a mark behind them that says whether these were set by    *)
(* the user or by DHCP. All it remembers in memory is lost with the core;   *)
(* the marks stay.                                                          *)
(*                                                                         *)
(* SetSystemDNS runs in a goroutine of the dispatcher, HandleSystemDNS in   *)
(* the monitor of the network. Each reads the servers, computes, and writes *)
(* them. IPv6 servers show up in what they read and are never written.      *)
(***************************************************************************)
EXTENDS Lists

CONSTANTS
    Iface,      \* interfaces
    Automatic,  \* those with servers from DHCP
    SixFirst,   \* those whose IPv6 servers Windows lists before the others
    NoIface,    \* lastIfc when there is none
    MaxEvent    \* calls, changes of the network and crashes, a bound on the environment

ASSUME IfaceAssumption == Iface # {} /\ NoIface \notin Iface /\ MaxEvent \in Nat

Thread == {"rpc", "monitor"}
Server == {"local", "dhcpMark", "setMark", "own4", "own6"}
Marks  == {"dhcpMark", "setMark"}

VARIABLES
    nameServers,  \* NameServer of each interface in the registry; empty is automatic
    route,        \* the default interface
    dnsIsSet,     \* dnsIsSet
    lastIfc,      \* lastIfc
    job,          \* what each thread is doing, and to which interface
    dnsEvents     \* events so far

dnsVars == <<nameServers, route, dnsIsSet, lastIfc, job, dnsEvents>>

NoJob == [at |-> "idle", do |-> "restore", ifc |-> NoIface, list |-> <<>>, auto |-> FALSE,
          after |-> FALSE]

DnsTypeOK ==
    /\ nameServers \in [Iface -> Seq(Server \ {"own6"})]
    /\ route \in Iface
    /\ dnsIsSet \in BOOLEAN
    /\ lastIfc \in Iface \cup {NoIface}
    /\ job \in [Thread -> [at : {"idle", "read", "check", "write"}, do : {"set", "restore"},
                           ifc : Iface \cup {NoIface}, list : Seq(Server), auto : BOOLEAN,
                           after : BOOLEAN]]
    /\ dnsEvents \in 0..MaxEvent

\* What the user, or the network, has chosen.
Own(i) == IF i \in Automatic THEN <<>> ELSE <<"own4">>

DnsInit ==
    /\ nameServers = [i \in Iface |-> Own(i)]
    /\ route = CHOOSE i \in Iface : TRUE
    /\ dnsIsSet = FALSE
    /\ lastIfc = NoIface
    /\ job = [t \in Thread |-> NoJob]
    /\ dnsEvents = 0

-----------------------------------------------------------------------------
\* luid.DNS(): the servers in use, of both families.
Listed(i) ==
    LET four == IF nameServers[i] = <<>> THEN <<"own4">> ELSE nameServers[i]
    IN  IF i \in SixFirst THEN <<"own6">> \o four ELSE Append(four, "own6")

\* luid.SetDNS(AF_INET, ...): the servers of that family.
FourOf(list) == Filter(list, Server \ {"own6"})
SetDNS(i, list) == nameServers' = [nameServers EXCEPT ![i] = FourOf(list)]

MarkIn(list)   == ToSet(list) \cap Marks # {}
Unmarked(list) == Filter(list, Server \ Marks)

\* The servers of the interface itself, whether it is overridden or not.
OwnIn(list) ==
    LET rest == Unmarked(list)
    IN  IF MarkIn(list) /\ rest # <<>> /\ rest[1] = "local" THEN Tail(rest) ELSE rest

\* Mutant: isIfcDNSDhcp asks only the registry.
IsIfcDNSDhcpByKey(i) == nameServers[i] = <<>>

\* isIfcDNSDhcp, which reads the servers and the registry again. (That it fails is
\* left out: it takes the interface for one the user has set.)
IsIfcDNSDhcp(i) == "dhcpMark" \in ToSet(Listed(i)) \/ nameServers[i] = <<>>

Overridden(list, auto) ==
    <<"local">> \o OwnIn(list) \o <<IF auto THEN "dhcpMark" ELSE "setMark">>

Restored(list) == IF "dhcpMark" \in ToSet(list) THEN <<>> ELSE OwnIn(list)

-----------------------------------------------------------------------------
DnsEvent == dnsEvents < MaxEvent /\ dnsEvents' = dnsEvents + 1

Starts(t, do, i, after) ==
    /\ job[t] = NoJob
    /\ job' = [job EXCEPT ![t] = [NoJob EXCEPT !.at = "read", !.do = do, !.ifc = i,
                                               !.after = after]]

\* SetSystemDNS(nil, clear), the two assignments before it reads.
SetSystemDNS(clear) ==
    /\ DnsEvent
    /\ Starts("rpc", IF clear THEN "restore" ELSE "set", route, FALSE)
    /\ dnsIsSet' = ~clear
    /\ lastIfc' = IF clear THEN lastIfc ELSE route
    /\ UNCHANGED <<nameServers, route>>

\* The default interface changes, or something else of it does: HandleSystemDNS.
HandleSystemDNS(i) ==
    /\ DnsEvent
    /\ route' = i
    /\ Starts("monitor", IF dnsIsSet THEN "set" ELSE "restore", i, TRUE)
    /\ UNCHANGED <<nameServers, dnsIsSet, lastIfc>>

Read(t) ==
    /\ job[t].at = "read"
    /\ job' = [job EXCEPT ![t].list = Listed(job[t].ifc),
                          ![t].at = IF job[t].do = "set" THEN "check" ELSE "write"]
    /\ UNCHANGED <<nameServers, route, dnsIsSet, lastIfc, dnsEvents>>

Check(t) ==
    /\ job[t].at = "check"
    /\ job' = [job EXCEPT ![t].auto = IsIfcDNSDhcp(job[t].ifc) \/ "dhcpMark" \in ToSet(job[t].list),
                          ![t].at = "write"]
    /\ UNCHANGED <<nameServers, route, dnsIsSet, lastIfc, dnsEvents>>

\* A restore that finds no mark writes nothing. HandleSystemDNS then restores the
\* interface SetSystemDNS was last called for, if that is another one.
Write(t) ==
    /\ job[t].at = "write"
    /\ LET j == job[t]
           leaves == j.after /\ lastIfc \notin {NoIface, j.ifc}
       IN  /\ IF j.do = "set" THEN SetDNS(j.ifc, Overridden(j.list, j.auto))
              ELSE IF MarkIn(j.list) THEN SetDNS(j.ifc, Restored(j.list))
              ELSE UNCHANGED nameServers
           /\ job' = [job EXCEPT ![t] =
                        IF leaves THEN [NoJob EXCEPT !.at = "read", !.ifc = lastIfc] ELSE NoJob]
    /\ UNCHANGED <<route, dnsIsSet, lastIfc, dnsEvents>>

\* The core dies, and another one starts: only the registry is left.
CoreLost ==
    /\ DnsEvent
    /\ job' = [t \in Thread |-> NoJob]
    /\ dnsIsSet' = FALSE
    /\ lastIfc' = NoIface
    /\ UNCHANGED <<nameServers, route>>

-----------------------------------------------------------------------------
DnsNext ==
    \/ \E clear \in BOOLEAN : SetSystemDNS(clear)
    \/ \E i \in Iface : HandleSystemDNS(i)
    \/ \E t \in Thread : Read(t) \/ Check(t) \/ Write(t)
    \/ CoreLost

DnsSpec == DnsInit /\ [][DnsNext]_dnsVars

-----------------------------------------------------------------------------
(* However the two threads interleave and wherever the core dies, an interface
   is as its user left it, or restoring it makes it so: no override is taken for
   a server of the user, and DHCP is not traded for the servers it gave. (For an
   interface with servers of its own this needs the IPv6 ones to be listed last:
   otherwise "local" is not first, and is kept.)                              *)
OverrideIsReversible ==
    \A i \in Iface : i \in Automatic \/ i \notin SixFirst =>
        \/ nameServers[i] = Own(i)
        \/ MarkIn(Listed(i)) /\ FourOf(Restored(Listed(i))) = Own(i)
=============================================================================
