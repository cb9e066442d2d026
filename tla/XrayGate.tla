------------------------------ MODULE XrayGate ------------------------------
(***************************************************************************)
(* core/server/internal/xray/gate.go: the gate that keeps an Xray instance *)
(* cold until a connection needs it, and shuts it down once it is idle.    *)
(*                                                                         *)
(* Every accepted connection runs in a goroutine of its own (handle); one  *)
(* more goroutine sweeps for an idle instance; Stop closes the gate from a *)
(* third.  They share the instance (under mu), the table of connections    *)
(* (under connsMu) and two atomics, active and lastUse.  A step of the     *)
(* model is one critical section, one atomic operation or one call on a    *)
(* socket.  Time enters only as "lastUse lies within the idle window".     *)
(***************************************************************************)
EXTENDS Integers, FiniteSets

CONSTANTS
    Conn,       \* the connections that clients may open
    Instance,   \* the identities of the Xray instances ensure() may create
    NoInst      \* Go's nil instance pointer

ASSUME GateAssumption ==
    /\ IsFiniteSet(Conn)
    /\ NoInst \notin Instance

Side == {"client", "upstream"}
Sock == Conn \X Side
Direction == {"toUpstream", "toClient"}

VARIABLES
    idle,       \* Gate.idle > 0: the gate was given an idle window
    instance,   \* Gate.instance
    closed,     \* Gate.closed
    conns,      \* Gate.conns: the tracked sockets
    connsNil,   \* Gate.conns = nil
    active,     \* Gate.active
    fresh,      \* time.Since(lastUse) < idle
    inst,       \* what became of each instance
    sock,       \* what became of each socket
    target,     \* the instance a handler's upstream socket reached
    ended,      \* the relay goroutines of a handler that have returned
    pc,         \* where each handler is
    sweeper,    \* where sweep() is
    swept,      \* the local variable "instance" of sweep()
    late,       \* history: handlers that began after sweep() last read active
    closer,     \* where Close() is
    taken,      \* the local variable "instance" of Close()
    snapshot    \* the local variable "conns" of Close()

gateVars    == <<idle, instance, closed, conns, connsNil, active, fresh>>
handlerVars == <<pc, target, ended>>
sweepVars   == <<sweeper, swept>>
closeVars   == <<closer, taken, snapshot>>
vars == <<gateVars, inst, sock, handlerVars, sweepVars, late, closeVars>>

Client(c)   == <<c, "client">>
Upstream(c) == <<c, "upstream">>

HandlerPC == {"new", "accepted", "tracked", "counted", "ensure", "dial",
              "dialed", "relay", "shutUpstream", "uncount", "touch",
              "forget", "shutClient", "done"}

\* Between active.Add(1) and active.Add(-1).
Counting == {"counted", "ensure", "dial", "dialed", "relay", "shutUpstream",
             "uncount"}

TypeOK ==
    /\ idle \in BOOLEAN
    /\ instance \in Instance \cup {NoInst}
    /\ closed \in BOOLEAN
    /\ conns \subseteq Sock
    /\ connsNil \in BOOLEAN
    /\ active \in Nat
    /\ fresh \in BOOLEAN
    /\ inst \in [Instance -> {"unused", "live", "closed"}]
    /\ sock \in [Sock -> {"none", "open", "closed"}]
    /\ target \in [Conn -> Instance \cup {NoInst}]
    /\ ended \in [Conn -> SUBSET Direction]
    /\ pc \in [Conn -> HandlerPC]
    /\ sweeper \in {"wait", "age", "take", "close", "stopped"}
    /\ swept \in Instance \cup {NoInst}
    /\ late \subseteq Conn
    /\ closer \in {"idle", "signal", "drop", "conns", "instance", "done"}
    /\ taken \in Instance \cup {NoInst}
    /\ snapshot \subseteq Sock

Init ==
    /\ idle \in BOOLEAN
    /\ instance = NoInst
    /\ closed = FALSE
    /\ conns = {}
    /\ connsNil = FALSE
    /\ active = 0
    /\ fresh = TRUE
    /\ inst = [i \in Instance |-> "unused"]
    /\ sock = [s \in Sock |-> "none"]
    /\ target = [c \in Conn |-> NoInst]
    /\ ended = [c \in Conn |-> {}]
    /\ pc = [c \in Conn |-> "new"]
    /\ sweeper = "wait"
    /\ swept = NoInst
    /\ late = {}
    /\ closer = "idle"
    /\ taken = NoInst
    /\ snapshot = {}

-----------------------------------------------------------------------------
(* handle(): one goroutine per accepted connection *)

\* The listeners accept until Close() has closed them.
Accepting == closer \in {"idle", "signal"}

Accept(c) ==
    /\ Accepting
    /\ pc[c] = "new"
    /\ pc' = [pc EXCEPT ![c] = "accepted"]
    /\ sock' = [sock EXCEPT ![Client(c)] = "open"]
    /\ UNCHANGED <<gateVars, inst, target, ended, sweepVars, late, closeVars>>

\* Mutant: a track() that does not look for the nil table.
TrackAlways(c, s, ok, refused) ==
    /\ conns' = conns \cup {s}
    /\ pc' = [pc EXCEPT ![c] = ok]

\* track() refuses once the table is nil, and the caller goes on to close.
TrackOr(c, s, ok, refused) ==
    /\ conns' = IF connsNil THEN conns ELSE conns \cup {s}
    /\ pc' = [pc EXCEPT ![c] = IF connsNil THEN refused ELSE ok]

TrackClient(c) ==
    /\ pc[c] = "accepted"
    /\ TrackOr(c, Client(c), "tracked", "shutClient")
    /\ UNCHANGED <<idle, instance, closed, connsNil, active, fresh, inst, sock, target,
                   ended, sweepVars, late, closeVars>>

Count(c) ==
    /\ pc[c] = "tracked"
    /\ active' = active + 1
    /\ late' = late \cup {c}
    /\ pc' = [pc EXCEPT ![c] = "counted"]
    /\ UNCHANGED <<idle, instance, closed, conns, connsNil, fresh, inst, sock, target,
                   ended, sweepVars, closeVars>>

Touch(c) ==
    /\ \/ pc[c] = "counted" /\ pc' = [pc EXCEPT ![c] = "ensure"]
       \/ pc[c] = "touch"   /\ pc' = [pc EXCEPT ![c] = "forget"]
    /\ fresh' = TRUE
    /\ UNCHANGED <<idle, instance, closed, conns, connsNil, active, inst, sock, target,
                   ended, sweepVars, late, closeVars>>

\* Mutant: the error return of ensure() skips the deferred active.Add(-1).
EnsureRefusedUncounted(c) ==
    /\ pc[c] = "ensure"
    /\ closed \/ instance = NoInst
    /\ pc' = [pc EXCEPT ![c] = "forget"]
    /\ UNCHANGED <<gateVars, inst, sock, target, ended, sweepVars, late, closeVars>>

\* ensure() runs under mu from its first test to the publication of a started
\* instance; a failed create, prepare or start closes what it built.
EnsureRefused(c) ==
    /\ pc[c] = "ensure"
    /\ closed \/ instance = NoInst
    /\ pc' = [pc EXCEPT ![c] = "uncount"]
    /\ UNCHANGED <<gateVars, inst, sock, target, ended, sweepVars, late, closeVars>>

EnsureExisting(c) ==
    /\ pc[c] = "ensure"
    /\ ~closed
    /\ instance # NoInst
    /\ pc' = [pc EXCEPT ![c] = "dial"]
    /\ UNCHANGED <<gateVars, inst, sock, target, ended, sweepVars, late, closeVars>>

\* Mutant: ensure() does not look at closed before it starts an instance.
EnsureCreatedAlways(c) ==
    /\ pc[c] = "ensure"
    /\ instance = NoInst
    /\ \E i \in Instance :
          /\ inst[i] = "unused"
          /\ inst' = [inst EXCEPT ![i] = "live"]
          /\ instance' = i
    /\ pc' = [pc EXCEPT ![c] = "dial"]
    /\ UNCHANGED <<idle, closed, conns, connsNil, active, fresh, sock, target, ended,
                   sweepVars, late, closeVars>>

EnsureCreated(c) ==
    /\ pc[c] = "ensure"
    /\ ~closed
    /\ instance = NoInst
    /\ \E i \in Instance :
          /\ inst[i] = "unused"
          /\ inst' = [inst EXCEPT ![i] = "live"]
          /\ instance' = i
    /\ pc' = [pc EXCEPT ![c] = "dial"]
    /\ UNCHANGED <<idle, closed, conns, connsNil, active, fresh, sock, target, ended,
                   sweepVars, late, closeVars>>

\* net.Dial reaches any instance still listening on the moved port: the one a
\* sweep has unpublished but not closed yet as well as the published one.
DialOk(c) ==
    /\ pc[c] = "dial"
    /\ \E i \in Instance :
          /\ inst[i] = "live"
          /\ target' = [target EXCEPT ![c] = i]
    /\ sock' = [sock EXCEPT ![Upstream(c)] = "open"]
    /\ pc' = [pc EXCEPT ![c] = "dialed"]
    /\ UNCHANGED <<gateVars, inst, ended, sweepVars, late, closeVars>>

\* Mutant: the dial error path decrements active, and the deferred call does again.
DialFailedTwice(c) ==
    /\ pc[c] = "dial"
    /\ active' = active - 1
    /\ pc' = [pc EXCEPT ![c] = "uncount"]
    /\ UNCHANGED <<idle, instance, closed, conns, connsNil, fresh, inst, sock, target,
                   ended, sweepVars, late, closeVars>>

DialFailed(c) ==
    /\ pc[c] = "dial"
    /\ pc' = [pc EXCEPT ![c] = "uncount"]
    /\ UNCHANGED <<gateVars, inst, sock, target, ended, sweepVars, late, closeVars>>

TrackUpstream(c) ==
    /\ pc[c] = "dialed"
    /\ TrackOr(c, Upstream(c), "relay", "shutUpstream")
    /\ UNCHANGED <<idle, instance, closed, connsNil, active, fresh, inst, sock, target,
                   ended, sweepVars, late, closeVars>>

\* relay(): io.Copy returns when its source ends.  The source ends for certain
\* once its socket is closed, or once the instance behind the upstream socket is;
\* otherwise the peer decides.
SourceGone(c, d) ==
    IF d = "toUpstream"
    THEN sock[Client(c)] = "closed"
    ELSE \/ sock[Upstream(c)] = "closed"
         \/ target[c] \in Instance /\ inst[target[c]] = "closed"

RelayEnd(c, d) ==
    /\ pc[c] = "relay"
    /\ d \notin ended[c]
    /\ ended' = [ended EXCEPT ![c] = @ \cup {d}]
    /\ UNCHANGED <<gateVars, inst, sock, target, pc, sweepVars, late, closeVars>>

ForgetUpstream(c) ==
    /\ pc[c] = "relay"
    /\ ended[c] = Direction
    /\ conns' = conns \ {Upstream(c)}
    /\ pc' = [pc EXCEPT ![c] = "shutUpstream"]
    /\ UNCHANGED <<idle, instance, closed, connsNil, active, fresh, inst, sock, target,
                   ended, sweepVars, late, closeVars>>

ShutUpstream(c) ==
    /\ pc[c] = "shutUpstream"
    /\ sock' = [sock EXCEPT ![Upstream(c)] = "closed"]
    /\ pc' = [pc EXCEPT ![c] = "uncount"]
    /\ UNCHANGED <<gateVars, inst, target, ended, sweepVars, late, closeVars>>

\* Mutant: the deferred call only touches.
UncountMissing(c) ==
    /\ pc[c] = "uncount"
    /\ pc' = [pc EXCEPT ![c] = "touch"]
    /\ UNCHANGED <<gateVars, inst, sock, target, ended, sweepVars, late, closeVars>>

Uncount(c) ==
    /\ pc[c] = "uncount"
    /\ active' = active - 1
    /\ pc' = [pc EXCEPT ![c] = "touch"]
    /\ UNCHANGED <<idle, instance, closed, conns, connsNil, fresh, inst, sock, target,
                   ended, sweepVars, late, closeVars>>

ForgetClient(c) ==
    /\ pc[c] = "forget"
    /\ conns' = conns \ {Client(c)}
    /\ pc' = [pc EXCEPT ![c] = "shutClient"]
    /\ UNCHANGED <<idle, instance, closed, connsNil, active, fresh, inst, sock, target,
                   ended, sweepVars, late, closeVars>>

ShutClient(c) ==
    /\ pc[c] = "shutClient"
    /\ sock' = [sock EXCEPT ![Client(c)] = "closed"]
    /\ pc' = [pc EXCEPT ![c] = "done"]
    /\ UNCHANGED <<gateVars, inst, target, ended, sweepVars, late, closeVars>>

\* The steps of a handler that do not wait for a peer.
HandlerStep(c) ==
    \/ TrackClient(c) \/ Count(c) \/ Touch(c)
    \/ EnsureRefused(c) \/ EnsureExisting(c) \/ EnsureCreated(c)
    \/ DialOk(c) \/ DialFailed(c) \/ TrackUpstream(c)
    \/ \E d \in Direction : SourceGone(c, d) /\ RelayEnd(c, d)
    \/ ForgetUpstream(c) \/ ShutUpstream(c) \/ Uncount(c)
    \/ ForgetClient(c) \/ ShutClient(c)

-----------------------------------------------------------------------------
(* sweep() *)

\* Mutant: the tick does not look at active.
SweepActiveBlind ==
    /\ sweeper = "wait"
    /\ idle
    /\ sweeper' = "age"
    /\ late' = {}
    /\ UNCHANGED <<gateVars, inst, sock, handlerVars, swept, closeVars>>

\* A tick: the atomic load of active.  The loop goes back to waiting when there
\* is no idle window or a connection is counted.
SweepActive ==
    /\ sweeper = "wait"
    /\ idle
    /\ active <= 0
    /\ sweeper' = "age"
    /\ late' = {}
    /\ UNCHANGED <<gateVars, inst, sock, handlerVars, swept, closeVars>>

SweepAge ==
    /\ sweeper = "age"
    /\ sweeper' = IF fresh THEN "wait" ELSE "take"
    /\ UNCHANGED <<gateVars, inst, sock, handlerVars, swept, late, closeVars>>

SweepTake ==
    /\ sweeper = "take"
    /\ swept' = instance
    /\ instance' = NoInst
    /\ sweeper' = IF instance = NoInst THEN "wait" ELSE "close"
    /\ UNCHANGED <<idle, closed, conns, connsNil, active, fresh, inst, sock,
                   handlerVars, late, closeVars>>

SweepClose ==
    /\ sweeper = "close"
    /\ inst' = [inst EXCEPT ![swept] = "closed"]
    /\ swept' = NoInst
    /\ sweeper' = "wait"
    /\ UNCHANGED <<gateVars, sock, handlerVars, late, closeVars>>

SweepStop ==
    /\ sweeper = "wait"
    /\ closer \in {"drop", "conns", "instance", "done"}
    /\ sweeper' = "stopped"
    /\ UNCHANGED <<gateVars, inst, sock, handlerVars, swept, late, closeVars>>

SweepStep == SweepActive \/ SweepAge \/ SweepTake \/ SweepClose \/ SweepStop

\* The idle window runs out after the last touch.
WindowPasses ==
    /\ fresh
    /\ fresh' = FALSE
    /\ UNCHANGED <<idle, instance, closed, conns, connsNil, active, inst, sock,
                   handlerVars, sweepVars, late, closeVars>>

-----------------------------------------------------------------------------
(* Close() *)

CloseBegin ==
    /\ closer = "idle"
    /\ ~closed
    /\ closed' = TRUE
    /\ taken' = instance
    /\ instance' = NoInst
    /\ closer' = "signal"
    /\ UNCHANGED <<idle, conns, connsNil, active, fresh, inst, sock, handlerVars,
                   sweepVars, late, snapshot>>

\* close(g.stopped) and the listeners.
CloseSignal ==
    /\ closer = "signal"
    /\ closer' = "drop"
    /\ UNCHANGED <<gateVars, inst, sock, handlerVars, sweepVars, late, taken, snapshot>>

\* Mutant: Close() drops the table without keeping it to close the connections.
CloseDropTableOnly ==
    /\ closer = "drop"
    /\ snapshot' = {}
    /\ conns' = {}
    /\ connsNil' = TRUE
    /\ closer' = "conns"
    /\ UNCHANGED <<idle, instance, closed, active, fresh, inst, sock, handlerVars,
                   sweepVars, late, taken>>

CloseDropTable ==
    /\ closer = "drop"
    /\ snapshot' = conns
    /\ conns' = {}
    /\ connsNil' = TRUE
    /\ closer' = "conns"
    /\ UNCHANGED <<idle, instance, closed, active, fresh, inst, sock, handlerVars,
                   sweepVars, late, taken>>

CloseConn ==
    /\ closer = "conns"
    /\ \E s \in snapshot :
          /\ sock' = [sock EXCEPT ![s] = "closed"]
          /\ snapshot' = snapshot \ {s}
    /\ UNCHANGED <<gateVars, inst, handlerVars, sweepVars, late, closer, taken>>

CloseConnsEnd ==
    /\ closer = "conns"
    /\ snapshot = {}
    /\ closer' = "instance"
    /\ UNCHANGED <<gateVars, inst, sock, handlerVars, sweepVars, late, taken, snapshot>>

CloseInstance ==
    /\ closer = "instance"
    /\ inst' = IF taken = NoInst THEN inst ELSE [inst EXCEPT ![taken] = "closed"]
    /\ taken' = NoInst
    /\ closer' = "done"
    /\ UNCHANGED <<gateVars, sock, handlerVars, sweepVars, late, snapshot>>

\* What Close() does once it has begun.
CloseStep == CloseSignal \/ CloseDropTable \/ CloseConn \/ CloseConnsEnd \/ CloseInstance

-----------------------------------------------------------------------------

Next ==
    \/ \E c \in Conn :
          \/ Accept(c)
          \/ TrackClient(c)
          \/ Count(c)
          \/ Touch(c)
          \/ EnsureRefused(c)
          \/ EnsureExisting(c)
          \/ EnsureCreated(c)
          \/ DialOk(c)
          \/ DialFailed(c)
          \/ TrackUpstream(c)
          \/ \E d \in Direction : RelayEnd(c, d)
          \/ ForgetUpstream(c)
          \/ ShutUpstream(c)
          \/ Uncount(c)
          \/ ForgetClient(c)
          \/ ShutClient(c)
    \/ SweepActive
    \/ SweepAge
    \/ SweepTake
    \/ SweepClose
    \/ SweepStop
    \/ WindowPasses
    \/ CloseBegin
    \/ CloseSignal
    \/ CloseDropTable
    \/ CloseConn
    \/ CloseConnsEnd
    \/ CloseInstance

Spec == Init /\ [][Next]_vars

\* Go schedules every runnable goroutine, the ticker keeps ticking and the clock
\* advances; a select that finds "stopped" ready again and again takes it some
\* time (SF), for it chooses at random and the ticker is rarely ready.  Nobody
\* promises that a client connects, that a peer ends a stream or that the gate
\* is closed.
Fairness ==
    /\ \A c \in Conn : WF_vars(HandlerStep(c))
    /\ WF_vars(SweepStep)
    /\ SF_vars(SweepStop)
    /\ WF_vars(WindowPasses)
    /\ WF_vars(CloseStep)

FairSpec == Spec /\ Fairness
-----------------------------------------------------------------------------
(* Properties *)

Held == {instance, swept, taken} \ {NoInst}
Live == {i \in Instance : inst[i] = "live"}

(* Every live Xray instance is held by exactly one owner: the gate, a sweep  *)
(* about to close it, or Close() about to close it.  So none leaks past      *)
(* Close() although handlers race to start one, none is closed twice, and    *)
(* ensure() never hands out a closed one.                                    *)
OneOwner ==
    /\ Live = Held
    /\ instance # NoInst => instance \notin {swept, taken}
    /\ swept # NoInst => swept # taken
    /\ closed => instance = NoInst

(* Once Close() has returned, no connection is being set up or relayed       *)
(* behind its back: a socket is still open only in a handler that has yet to *)
(* ask track() for it, and be refused, or that is about to close it itself.  *)
NothingRelayedAfterClose ==
    closer = "done" =>
        \A c \in Conn :
            /\ sock[Client(c)] = "open" => pc[c] \in {"accepted", "shutClient"}
            /\ sock[Upstream(c)] = "open" => pc[c] \in {"dialed", "shutUpstream"}

(* active counts exactly the handlers between their two atomic operations,   *)
(* on every error path: a leaked count would keep the instance up for good,  *)
(* a lost one would let a sweep stop it under a connection.                  *)
Counted == {c \in Conn : pc[c] \in Counting}

ActiveIsExact == active = Cardinality(Counted)

(* The instance behind an established connection.                            *)
Relaying(c) == pc[c] = "relay" /\ inst[target[c]] = "live"

(* What the comment on Gate promises: short of Close(), the instance is      *)
(* never shut down under a live connection.                                  *)
LiveConnectionKeepsInstance ==
    [][\A c \in Conn :
          Relaying(c) /\ ~closed => inst'[target[c]] = "live"]_vars

(* What the code does guarantee: short of Close(), a sweep cuts only         *)
(* connections that were counted after it read active, and none at all when  *)
(* the gate was told to keep its instance resident.                          *)
CutsOnlyLate ==
    \A c \in Conn :
        Relaying(c) /\ inst'[target[c]] = "closed" /\ ~closed => idle /\ c \in late

CutOnlyInsideSweepWindow == [][CutsOnlyLate]_vars

(* After Close() every handler returns, however its connection was doing,    *)
(* the sweeper stops, and no instance stays up.                              *)
CloseDrains ==
    closer = "done" ~>
        /\ \A c \in Conn : pc[c] \in {"new", "done"}
        /\ sweeper = "stopped"
        /\ Live = {}

(* An instance nobody uses is shut down unless a connection comes first.     *)
Unused == \A c \in Conn : pc[c] \in {"new", "done"}
IdleInstanceStops ==
    idle /\ Unused ~> Live = {} \/ ~Unused
=============================================================================
