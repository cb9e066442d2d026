-------------------------- MODULE ConnectionStats --------------------------
(***************************************************************************)
(* The bytes of connections credited to applications: ConnectionLister of   *)
(* the GUI (connectionLister.cpp), which diffs the counters it polls, and   *)
(* QueryConnections of the core (server.go), which reads the connections    *)
(* that are up and then the ring of those recently closed.                  *)
(***************************************************************************)
EXTENDS Naturals, Sequences, SequencesExt

CONSTANTS
    Connection,
    MaxBytes,   \* bytes of a connection, a bound on the traffic
    RingSize,   \* connections the core remembers once closed
    MaxFail     \* polls that get no answer, a bound on the environment

ASSUME StatsAssumption == MaxBytes \in Nat \ {0} /\ RingSize \in Nat \ {0} /\ MaxFail \in Nat

VARIABLES
    up,          \* connections that are up, in the core
    bytes,       \* the counter of each connection
    ring,        \* ClosedConnections(): the last ones to close, oldest first
    poll,        \* where update() stands
    listed,      \* resp.active: what the poll has been told is up
    lastBytes,   \* lastBytes_, for every connection with an entry: its counter
    accounted,   \* accountedClosed_
    credited,    \* given to AddAppDelta so far
    fails,       \* polls that got no answer
    torn,        \* history: connections that closed inside a poll, or all after a failure
    evicted      \* history: connections the ring forgot before a poll had counted them there

coreVars == <<up, bytes, ring>>
listVars == <<lastBytes, accounted, credited>>
statsVars == <<coreVars, poll, listed, listVars, fails, torn, evicted>>

Counters == UNION {[S -> 0..MaxBytes] : S \in SUBSET Connection}
Nothing  == [c \in {} |-> 0]

StatsTypeOK ==
    /\ up \subseteq Connection
    /\ bytes \in [Connection -> 0..MaxBytes]
    /\ ring \in Seq(Connection) /\ Len(ring) <= RingSize
    /\ poll \in {"idle", "reading"}
    /\ listed \in Counters
    /\ lastBytes \in Counters
    /\ accounted \subseteq Connection
    /\ credited \in [Connection -> Nat]
    /\ fails \in 0..MaxFail
    /\ torn \subseteq Connection
    /\ evicted \subseteq Connection

StatsInit ==
    /\ up = {} /\ ring = <<>>
    /\ bytes = [c \in Connection |-> 0]
    /\ poll = "idle" /\ listed = Nothing
    /\ lastBytes = Nothing /\ accounted = {}
    /\ credited = [c \in Connection |-> 0]
    /\ fails = 0 /\ torn = {} /\ evicted = {}

-----------------------------------------------------------------------------
(* The connections of the core *)

Open(c) ==
    /\ bytes[c] = 0
    /\ up' = up \cup {c}
    /\ bytes' = [bytes EXCEPT ![c] = 1]
    /\ UNCHANGED <<ring, poll, listed, listVars, fails, torn, evicted>>

Transfer(c) ==
    /\ c \in up
    /\ bytes[c] < MaxBytes
    /\ bytes' = [bytes EXCEPT ![c] = @ + 1]
    /\ UNCHANGED <<up, ring, poll, listed, listVars, fails, torn, evicted>>

\* It leaves the connections that are up and enters the ring, which forgets its
\* oldest one when it is full.
Close(c) ==
    /\ c \in up
    /\ up' = up \ {c}
    /\ ring' = Append(IF Len(ring) = RingSize THEN Tail(ring) ELSE ring, c)
    /\ torn' = IF poll = "idle" THEN torn ELSE torn \cup {c}
    /\ evicted' = evicted \cup (IF Len(ring) = RingSize THEN {Head(ring)} \ accounted ELSE {})
    /\ UNCHANGED <<bytes, poll, listed, listVars, fails>>

-----------------------------------------------------------------------------
(* A poll *)

\* QueryConnections: tm.Connections() ...
PollUp ==
    /\ poll = "idle"
    /\ poll' = "reading"
    /\ listed' = [c \in up |-> bytes[c]]
    /\ UNCHANGED <<coreVars, listVars, fails, torn, evicted>>

Base(c)     == IF c \in DOMAIN lastBytes THEN lastBytes[c] ELSE 0
Above(a, b) == IF a > b THEN a - b ELSE 0

\* Mutant: one that was seen while it was up is taken to be accounted for.
FreshUnseen(closed) == closed \ (accounted \cup DOMAIN lastBytes)

\* Closed connections whose last bytes are still to be credited.
Fresh(closed) == closed \ accounted

\* Mutant: only those credited by this poll.
AccountedNow(closed) == Fresh(closed)

\* What the next poll is not to credit again.
Accounted(closed) == closed

\* ... then tm.ClosedConnections(), and the answer is credited: every counter
\* against the one of the poll before.
PollClosed ==
    /\ poll = "reading"
    /\ LET closed == ToSet(ring)
           Gain(c) == (IF c \in DOMAIN listed THEN Above(listed[c], Base(c)) ELSE 0)
                    + (IF c \in Fresh(closed) THEN Above(bytes[c], Base(c)) ELSE 0)
       IN  /\ credited' = [c \in Connection |-> credited[c] + Gain(c)]
           /\ accounted' = Accounted(closed)
    /\ lastBytes' = listed
    /\ poll' = "idle"
    /\ listed' = Nothing
    /\ UNCHANGED <<coreVars, fails, torn, evicted>>

\* The call is not answered: an empty answer is processed like any other.
PollFails ==
    /\ poll = "reading"
    /\ fails < MaxFail
    /\ fails' = fails + 1
    /\ poll' = "idle"
    /\ listed' = Nothing
    /\ lastBytes' = Nothing
    /\ accounted' = {}
    /\ torn' = Connection
    /\ UNCHANGED <<coreVars, credited, evicted>>

-----------------------------------------------------------------------------
StatsNext ==
    \/ \E c \in Connection : Open(c) \/ Transfer(c) \/ Close(c)
    \/ PollUp \/ PollClosed \/ PollFails

StatsSpec == StatsInit /\ [][StatsNext]_statsVars

-----------------------------------------------------------------------------
(* A connection that closed between two polls is counted to its last byte by the
   next poll that is answered, however often polls fail before it, as long as the
   ring has not forgotten it by then; and of one that is up nothing is missed.
   (server.go:763 speaks of "the recently-closed ring, so accounting does not
   lose one that closed between polls" without that condition: what more closes
   between two answers than the ring holds is lost.)                           *)
NothingMissed ==
    /\ \A c \in Connection \ up :
          credited[c] >= bytes[c] \/ c \in ToSet(ring) \ accounted \/ c \in evicted
    /\ \A c \in DOMAIN lastBytes : credited[c] >= lastBytes[c]

(* No byte is credited twice, of connections that did not close inside a poll
   and as long as every poll was answered: neither a connection that is polled
   again and again, nor one that stays in the ring.                           *)
CreditedOnceIfWhole == \A c \in Connection \ torn : credited[c] <= bytes[c]

(* server.go: "Non-draining; the client dedups by id": each byte once, whether
   a connection is in one part of the answer, in the other, or in both.       *)
CreditedOnce == \A c \in Connection : credited[c] <= bytes[c]
=============================================================================
