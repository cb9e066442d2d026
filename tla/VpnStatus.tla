----------------------------- MODULE VpnStatus -----------------------------
(***************************************************************************)
(* QueryVPNStatus of the core (server_vpnstatus.go): one goroutine for each *)
(* endpoint waits until it has settled, its timer fires or the request is   *)
(* cancelled, and the answer waits for all of them.                         *)
(*                                                                         *)
(* An endpoint (of the VPN library) has a state and a channel, closed and   *)
(* replaced after each change of the state.                                 *)
(***************************************************************************)
EXTENDS Naturals, FiniteSets

CONSTANTS
    Endpoint,
    MaxChange   \* changes of state of each endpoint, a bound on the environment

\* Mutant: waits for a challenge to pass.
SettledByItself == {"connected"}

\* An endpoint in "error" is treated as one that is "connected".
Settled == {"connected", "challenge"}
State   == {"connecting", "connected", "challenge"}

VARIABLES
    state,      \* of each endpoint
    changes,    \* how often it has changed
    channel,    \* its current channel: how many were closed before it
    query,      \* QueryVPNStatus: not called, at work, cancelled, or answered
    waiter,     \* where the goroutine of each endpoint stands
    updated,    \* the channel it has subscribed to
    status,     \* its last snapshot
    late        \* its deadline has passed

endpointVars == <<state, changes, channel>>
queryVars    == <<query, waiter, updated, status, late>>
vpnVars == <<endpointVars, queryVars>>

VpnTypeOK ==
    /\ state \in [Endpoint -> State]
    /\ changes \in [Endpoint -> Nat]
    /\ channel \in [Endpoint -> Nat]
    /\ query \in {"none", "open", "cancelled", "answered"}
    /\ waiter \in [Endpoint -> {"none", "first", "second", "wait", "done"}]
    /\ updated \in [Endpoint -> Nat]
    /\ status \in [Endpoint -> State \cup {"none"}]
    /\ late \in [Endpoint -> BOOLEAN]

VpnInit ==
    /\ state = [e \in Endpoint |-> "connecting"]
    /\ changes = [e \in Endpoint |-> 0]
    /\ channel = [e \in Endpoint |-> 0]
    /\ query = "none"
    /\ waiter = [e \in Endpoint |-> "none"]
    /\ updated = [e \in Endpoint |-> 0]
    /\ status = [e \in Endpoint |-> "none"]
    /\ late = [e \in Endpoint |-> FALSE]

-----------------------------------------------------------------------------
(* The library *)

Change(e) ==
    /\ changes[e] < MaxChange[e]
    /\ channel[e] = changes[e]
    /\ changes' = [changes EXCEPT ![e] = @ + 1]
    /\ \E s \in State \ {state[e]} : state' = [state EXCEPT ![e] = s]
    /\ UNCHANGED <<channel, queryVars>>

Notify(e) ==
    /\ channel[e] < changes[e]
    /\ channel' = [channel EXCEPT ![e] = @ + 1]
    /\ UNCHANGED <<state, changes, queryVars>>

-----------------------------------------------------------------------------
(* awaitVPNStatus *)

\* Mutant: subscribes when it knows what it waits for.
SnapshotFirst == [snapshot |-> "first", subscribe |-> "second"]

\* The statements of one round, before the select.
Round == [subscribe |-> "first", snapshot |-> "second"]

Then(place) == IF place = "first" THEN "second" ELSE "wait"

Waits(e, here, there) ==
    /\ waiter[e] = here
    /\ waiter' = [waiter EXCEPT ![e] = there]
    /\ UNCHANGED <<endpointVars, query, late>>

Subscribe(e) ==
    /\ Waits(e, Round.subscribe, Then(Round.subscribe))
    /\ updated' = [updated EXCEPT ![e] = channel[e]]
    /\ UNCHANGED status

Snapshot(e) ==
    /\ Waits(e, Round.snapshot, IF state[e] \in Settled THEN "done" ELSE Then(Round.snapshot))
    /\ status' = [status EXCEPT ![e] = state[e]]
    /\ UNCHANGED updated

WaiterWoken(e) ==
    /\ updated[e] < channel[e]
    /\ Waits(e, "wait", "first")
    /\ UNCHANGED <<updated, status>>

Expires(e) ==
    /\ late[e] \/ query = "cancelled"
    /\ Waits(e, "wait", "done")
    /\ UNCHANGED <<updated, status>>

Deadline(e) ==
    /\ waiter[e] \in {"first", "second", "wait"}
    /\ late' = [late EXCEPT ![e] = TRUE]
    /\ UNCHANGED <<endpointVars, query, waiter, updated, status>>

-----------------------------------------------------------------------------
(* QueryVPNStatus, collectVPNStatus *)

\* Without a timeout the current state is the answer (and no goroutine waits).
Query ==
    /\ query = "none"
    /\ \/ /\ query' = "open"
          /\ waiter' = [e \in Endpoint |-> "first"]
          /\ UNCHANGED status
       \/ /\ query' = "answered"
          /\ status' = state
          /\ UNCHANGED waiter
    /\ UNCHANGED <<endpointVars, updated, late>>

Cancel ==
    /\ query = "open"
    /\ query' = "cancelled"
    /\ UNCHANGED <<endpointVars, waiter, updated, status, late>>

Answer ==
    /\ query \in {"open", "cancelled"}
    /\ \A e \in Endpoint : waiter[e] = "done"
    /\ query' = "answered"
    /\ waiter' = [e \in Endpoint |-> "none"]
    /\ UNCHANGED <<endpointVars, updated, status, late>>

-----------------------------------------------------------------------------
WaiterSteps(e) == Subscribe(e) \/ Snapshot(e) \/ WaiterWoken(e) \/ Expires(e)

VpnNext ==
    \/ \E e \in Endpoint : Change(e) \/ Notify(e) \/ WaiterSteps(e) \/ Deadline(e)
    \/ Query \/ Cancel \/ Answer

VpnSpec == VpnInit /\ [][VpnNext]_vpnVars

\* Goroutines run, and the library tells of every change. Nothing is assumed of
\* the timer: what is shown needs no timeout to come true.
VpnFairness ==
    /\ \A e \in Endpoint : WF_vpnVars(Notify(e)) /\ WF_vpnVars(WaiterSteps(e))
    /\ WF_vpnVars(Answer)
VpnFairSpec == VpnSpec /\ VpnFairness

-----------------------------------------------------------------------------
(* "Subscribed before the snapshot, so a change in between still wakes us": a
   waiter that has seen a state the endpoint has left is about to be woken.   *)
NoLostWakeup ==
    \A e \in Endpoint :
        waiter[e] = "wait" /\ state[e] # status[e] =>
            updated[e] < channel[e] \/ channel[e] < changes[e]

(* "A challenge parks the endpoint on a human": a query is answered, or cancelled,
   without any timer, unless an endpoint goes on connecting.                  *)
SettledIsAnswered ==
    query = "open" ~> query # "open" \/ \E e \in Endpoint : state[e] = "connecting"
=============================================================================
