----------------------------- MODULE RpcChannel -----------------------------
(***************************************************************************)
(* src/api/RPC.cpp, LocalSocketChannel: the GUI's end of its calls into    *)
(* the core, across restarts of the core, with the writer of responses of  *)
(* core/server/dispatch.go at the other end.                               *)
(*                                                                         *)
(* Three kinds of threads meet here.  Worker threads run Call; the UI      *)
(* thread runs Reconnect when a new core has connected; the io thread owns *)
(* the socket and runs, one at a time, the lambdas posted to it (FIFO) and *)
(* the socket's own signals.  A link is one connection, hence one core     *)
(* process; links are numbered in the order they are made.                 *)
(***************************************************************************)
EXTENDS Integers, FiniteSets, Sequences

CONSTANTS
    Call,       \* the calls, each with its own request id
    NoCall,     \* no call
    MaxLink     \* bound: how many cores are ever started

ASSUME RpcAssumption == NoCall \notin Call /\ MaxLink \in Nat

Link == 1..MaxLink

VARIABLES
    connected,  \* 0 is false, l is the true that the Reconnect of link l stored
    pending,    \* the map of pending calls, by its keys
    events,     \* the lambdas posted to io_anchor
    sock,       \* the socket the io thread owns, 0 before the first
    buf,        \* read_buf, a sequence of response parts
    io,         \* what the io thread is in the middle of
    ui,         \* where the UI thread is in Reconnect
    pc,         \* where each Call is
    done,       \* PendingCall.done
    data,       \* PendingCall.data: whose response the call was handed
    result,     \* what each Call returned
    saw,        \* history: the value of connected_ each Call went ahead on
    sentOn,     \* history: the link its frame was written to
    core,       \* the process at the other end of each link
    hung,       \* the io thread has handled disconnected of this link
    received,   \* the requests each core has read and not answered
    writing,    \* the response a core is in the middle of writing
    wire        \* the parts of responses each link still carries

gui   == <<connected, pending, events, sock, buf, io, ui>>
calls == <<pc, done, data, result, saw, sentOn>>
cores == <<core, hung, received, writing, wire>>
vars  == <<gui, calls, cores>>

\* A response is a header and its data, written by two calls of conn.Write.  (One with
\* no data is a header alone: nothing can tear it, and it is left out.)
Part == Call \X {"head", "tail"}

Event == [type : {"write"}, call : Call] \cup [type : {"swap"}, link : Link]

TypeOK ==
    /\ connected \in 0..MaxLink
    /\ pending \subseteq Call
    /\ events \in Seq(Event)
    /\ sock \in 0..MaxLink
    /\ buf \in Seq(Part)
    /\ io \in [at : {"loop", "deliver", "wake"}, call : Call \cup {NoCall}, of : Call \cup {NoCall}]
    /\ ui \in [at : {"idle", "wake", "post", "store"}, link : 0..MaxLink]
    /\ pc \in [Call -> {"idle", "register", "post", "wait", "reclaim", "second", "returned"}]
    /\ done \in [Call -> BOOLEAN]
    /\ data \in [Call -> Call \cup {NoCall}]
    /\ result \in [Call -> {"none", "notConnected", "failed", "answered"}]
    /\ saw \in [Call -> 0..MaxLink]
    /\ sentOn \in [Call -> 0..MaxLink]
    /\ core \in [Link -> {"none", "up", "dead"}]
    /\ hung \in [Link -> BOOLEAN]
    /\ received \in [Link -> SUBSET Call]
    /\ writing \in [Link -> Call \cup {NoCall}]
    /\ wire \in [Link -> Seq(Part)]

Loop == [at |-> "loop", call |-> NoCall, of |-> NoCall]

Init ==
    /\ connected = 0
    /\ pending = {}
    /\ events = <<>>
    /\ sock = 0
    /\ buf = <<>>
    /\ io = Loop
    /\ ui = [at |-> "idle", link |-> 0]
    /\ pc = [c \in Call |-> "idle"]
    /\ done = [c \in Call |-> FALSE]
    /\ data = [c \in Call |-> NoCall]
    /\ result = [c \in Call |-> "none"]
    /\ saw = [c \in Call |-> 0]
    /\ sentOn = [c \in Call |-> 0]
    /\ core = [l \in Link |-> "none"]
    /\ hung = [l \in Link |-> FALSE]
    /\ received = [l \in Link |-> {}]
    /\ writing = [l \in Link |-> NoCall]
    /\ wire = [l \in Link |-> <<>>]

Post(event) == events' = Append(events, event)

\* The locked half of wakeAllWithError: every pending call is done, with an error.
WakeAll ==
    /\ done' = [c \in Call |-> done[c] \/ c \in pending]
    /\ pending' = {}

-----------------------------------------------------------------------------
(* Call, on a worker thread *)

Goto(c, where) == pc' = [pc EXCEPT ![c] = where]

Return(c, what) ==
    /\ Goto(c, "returned")
    /\ result' = [result EXCEPT ![c] = what]

CallRefused(c) ==
    /\ pc[c] = "idle"
    /\ connected = 0
    /\ Return(c, "notConnected")
    /\ UNCHANGED <<gui, done, data, saw, sentOn, cores>>

CallGoesAhead(c) ==
    /\ pc[c] = "idle"
    /\ connected # 0
    /\ saw' = [saw EXCEPT ![c] = connected]
    /\ Goto(c, "register")
    /\ UNCHANGED <<gui, done, data, result, sentOn, cores>>

Register(c) ==
    /\ pc[c] = "register"
    /\ pending' = pending \cup {c}
    /\ Goto(c, "post")
    /\ UNCHANGED <<connected, events, sock, buf, io, ui, done, data, result, saw, sentOn,
                   cores>>

PostWrite(c) ==
    /\ pc[c] = "post"
    /\ Post([type |-> "write", call |-> c])
    /\ Goto(c, "wait")
    /\ UNCHANGED <<connected, pending, sock, buf, io, ui, done, data, result, saw, sentOn,
                   cores>>

\* wait_for returns true, the first time or the second.  A response with an error
\* status fails the call like a wake-up does.
Woken(c) ==
    /\ pc[c] \in {"wait", "second"}
    /\ done[c]
    /\ \/ Return(c, "failed")
       \/ data[c] # NoCall /\ Return(c, "answered")
    /\ UNCHANGED <<gui, done, data, saw, sentOn, cores>>

Timeout(c) ==
    /\ pc[c] = "wait"
    /\ ~done[c]
    /\ Goto(c, "reclaim")
    /\ UNCHANGED <<gui, done, data, result, saw, sentOn, cores>>

\* Mutant: gives up and leaves its entry in the map.
ReclaimedLeavesEntry(c) ==
    /\ pc[c] = "reclaim"
    /\ c \in pending
    /\ Return(c, "failed")
    /\ UNCHANGED <<gui, done, data, saw, sentOn, cores>>

\* The slot is still there: the call gives up on it.
Reclaimed(c) ==
    /\ pc[c] = "reclaim"
    /\ c \in pending
    /\ pending' = pending \ {c}
    /\ Return(c, "failed")
    /\ UNCHANGED <<connected, events, sock, buf, io, ui, done, data, saw, sentOn, cores>>

\* claimedByReader
Claimed(c) ==
    /\ pc[c] = "reclaim"
    /\ c \notin pending
    /\ Goto(c, "second")
    /\ UNCHANGED <<gui, done, data, result, saw, sentOn, cores>>

\* Mutant: a result of its own for a call that waited twice.
SecondTimeoutReported(c) ==
    /\ pc[c] = "second"
    /\ ~done[c]
    /\ Return(c, "timeout")
    /\ UNCHANGED <<gui, done, data, saw, sentOn, cores>>

SecondTimeout(c) ==
    /\ pc[c] = "second"
    /\ ~done[c]
    /\ Return(c, "failed")
    /\ UNCHANGED <<gui, done, data, saw, sentOn, cores>>

-----------------------------------------------------------------------------
(* Reconnect, on the UI thread *)

\* A new core has connected; the previous one is dead.  wakeAllWithError begins.
NewCore(l) ==
    /\ ui.at = "idle"
    /\ core[l] = "none"
    /\ \A k \in Link : k < l => core[k] = "dead"
    /\ core' = [core EXCEPT ![l] = "up"]
    /\ connected' = 0
    /\ ui' = [at |-> "wake", link |-> l]
    /\ UNCHANGED <<pending, events, sock, buf, io, calls, hung, received, writing, wire>>

\* Mutant: opens the channel again before the swap is posted.
ReconnectWakeStores ==
    /\ ui.at = "wake"
    /\ WakeAll
    /\ connected' = ui.link
    /\ ui' = [ui EXCEPT !.at = "post"]
    /\ UNCHANGED <<events, sock, buf, io, pc, data, result, saw, sentOn, cores>>

ReconnectWake ==
    /\ ui.at = "wake"
    /\ WakeAll
    /\ ui' = [ui EXCEPT !.at = "post"]
    /\ UNCHANGED <<connected, events, sock, buf, io, pc, data, result, saw, sentOn, cores>>

ReconnectPost ==
    /\ ui.at = "post"
    /\ Post([type |-> "swap", link |-> ui.link])
    /\ ui' = [ui EXCEPT !.at = "store"]
    /\ UNCHANGED <<connected, pending, sock, buf, io, calls, cores>>

ReconnectStore ==
    /\ ui.at = "store"
    /\ connected' = ui.link
    /\ ui' = [at |-> "idle", link |-> 0]
    /\ UNCHANGED <<pending, events, sock, buf, io, calls, cores>>

-----------------------------------------------------------------------------
(* The io thread *)

\* A write to a socket whose peer is gone is lost.
IoWrite ==
    /\ io = Loop
    /\ events # <<>>
    /\ Head(events).type = "write"
    /\ events' = Tail(events)
    /\ LET c == Head(events).call IN
        /\ sentOn' = [sentOn EXCEPT ![c] = sock]
        /\ received' = [l \in Link |->
              IF l = sock /\ core[l] = "up" THEN received[l] \cup {c} ELSE received[l]]
    /\ UNCHANGED <<connected, pending, sock, buf, io, ui, pc, done, data, result, saw,
                   core, hung, writing, wire>>

\* Mutant: keeps what the old socket had read.
IoSwapKeepsBuffer ==
    /\ io = Loop
    /\ events # <<>>
    /\ Head(events).type = "swap"
    /\ events' = Tail(events)
    /\ sock' = Head(events).link
    /\ UNCHANGED <<connected, pending, buf, io, ui, calls, cores>>

IoSwap ==
    /\ io = Loop
    /\ events # <<>>
    /\ Head(events).type = "swap"
    /\ events' = Tail(events)
    /\ sock' = Head(events).link
    /\ buf' = <<>>
    /\ UNCHANGED <<connected, pending, io, ui, calls, cores>>

\* onReadyRead and processBuffer, one part at a time: when a frame is complete, its
\* call is taken from pending, and the response of a call that gave up is dropped.
IoRead ==
    /\ io = Loop
    /\ sock # 0
    /\ ~hung[sock]
    /\ wire[sock] # <<>>
    /\ wire' = [wire EXCEPT ![sock] = Tail(@)]
    /\ LET part == Head(wire[sock]) IN
       IF buf = <<>>
       THEN /\ buf' = <<part>>
            /\ UNCHANGED <<pending, io>>
       ELSE LET c == Head(buf)[1] IN
            /\ buf' = <<>>
            /\ pending' = pending \ {c}
            /\ io' = IF c \in pending
                     THEN [at |-> "deliver", call |-> c, of |-> part[1]]
                     ELSE io
    /\ UNCHANGED <<connected, events, sock, ui, calls, core, hung, received, writing>>

IoDeliver ==
    /\ io.at = "deliver"
    /\ data' = [data EXCEPT ![io.call] = io.of]
    /\ done' = [done EXCEPT ![io.call] = TRUE]
    /\ io' = Loop
    /\ UNCHANGED <<connected, pending, events, sock, buf, ui, pc, result, saw, sentOn, cores>>

\* The disconnected signal of the socket in use.
IoDisconnected ==
    /\ io = Loop
    /\ sock # 0
    /\ core[sock] = "dead"
    /\ ~hung[sock]
    /\ hung' = [hung EXCEPT ![sock] = TRUE]
    /\ connected' = 0
    /\ io' = [io EXCEPT !.at = "wake"]
    /\ UNCHANGED <<pending, events, sock, buf, ui, calls, core, received, writing, wire>>

IoWake ==
    /\ io.at = "wake"
    /\ WakeAll
    /\ io' = Loop
    /\ UNCHANGED <<connected, events, sock, buf, ui, pc, data, result, saw, sentOn, cores>>

-----------------------------------------------------------------------------
(* The core: writeResponse, under writeMu *)

\* Mutant: does not wait for writeMu.
WriteHeadUnlocked(l, c) ==
    /\ core[l] = "up"
    /\ c \in received[l]
    /\ writing' = [writing EXCEPT ![l] = c]
    /\ received' = [received EXCEPT ![l] = @ \ {c}]
    /\ wire' = [wire EXCEPT ![l] = Append(@, <<c, "head">>)]
    /\ UNCHANGED <<gui, calls, core, hung>>

WriteHead(l, c) ==
    /\ core[l] = "up"
    /\ c \in received[l]
    /\ writing[l] = NoCall
    /\ writing' = [writing EXCEPT ![l] = c]
    /\ received' = [received EXCEPT ![l] = @ \ {c}]
    /\ wire' = [wire EXCEPT ![l] = Append(@, <<c, "head">>)]
    /\ UNCHANGED <<gui, calls, core, hung>>

WriteTail(l) ==
    /\ core[l] = "up"
    /\ writing[l] # NoCall
    /\ wire' = [wire EXCEPT ![l] = Append(@, <<writing[l], "tail">>)]
    /\ writing' = [writing EXCEPT ![l] = NoCall]
    /\ UNCHANGED <<gui, calls, core, hung, received>>

CoreDies(l) ==
    /\ core[l] = "up"
    /\ core' = [core EXCEPT ![l] = "dead"]
    /\ UNCHANGED <<gui, calls, hung, received, writing, wire>>

-----------------------------------------------------------------------------

CallStep(c) ==
    \/ CallRefused(c) \/ CallGoesAhead(c) \/ Register(c) \/ PostWrite(c)
    \/ Woken(c) \/ Timeout(c) \/ Reclaimed(c) \/ Claimed(c) \/ SecondTimeout(c)

ReconnectStep == ReconnectWake \/ ReconnectPost \/ ReconnectStore

IoStep == IoWrite \/ IoSwap \/ IoRead \/ IoDeliver \/ IoDisconnected \/ IoWake

CoreStep(l) == (\E c \in Call : WriteHead(l, c)) \/ WriteTail(l)

Next ==
    \/ \E c \in Call : CallStep(c)
    \/ \E l \in Link : NewCore(l) \/ CoreStep(l) \/ CoreDies(l)
    \/ ReconnectStep
    \/ IoStep

Spec == Init /\ [][Next]_vars

-----------------------------------------------------------------------------
(* Properties *)

\* A call is handed the whole response to its own request: the reader finds the call by
\* the id in the header, and writeMu keeps a second header out of the data.
AnswerIsOwn == \A c \in Call : data[c] # NoCall => data[c] = c

\* What starts in read_buf is a header: the reader stays in step with the frames for as
\* long as the channel lives, although a core may die in the middle of one.  A reader
\* out of step takes data for ids and lengths, in this response and in every later one.
FramesInStep == buf # <<>> => buf[1][2] = "head"

\* A pending entry belongs to a call that may still wait and that nobody resolved,
\* so that none outlives its call; and a call that timed out on an entry somebody else
\* has taken waits for nothing but the last step of the reader.
PendingIsWaiting ==
    \A c \in Call :
        /\ c \in pending => pc[c] \in {"post", "wait", "reclaim"} /\ ~done[c]
        /\ pc[c] = "second" /\ ~done[c] => io.at = "deliver" /\ io.call = c

\* "a write that arrives after Reconnect always targets the new socket" (RPC.cpp:173):
\* a Call let through by the connected_ of one link is not written to an older one.
WritesFollowTheSwap ==
    \A c \in Call : sentOn[c] # 0 => sentOn[c] >= saw[c]

\* "the old socket is torn down and the new one adopted" (RPC.cpp:38): once nothing is
\* left to run, the channel is connected when the core at the other end is up.  The
\* code breaks it: the old socket's disconnected may come after Reconnect has stored
\* true and before the swap has dropped that signal.
AdoptedIsConnected ==
    io = Loop /\ ui.at = "idle" /\ events = <<>> /\ sock # 0 =>
        (core[sock] = "up" => connected # 0)
=============================================================================
