-------------------------- MODULE RpcChannelProofs --------------------------
(* Proofs about RpcChannel, for any number of calls and any number of cores    *)
(* that die and are replaced.                                                  *)
EXTENDS RpcChannel, TLAPS

-----------------------------------------------------------------------------
(* Type correctness, one thread at a time *)

IoAt == [at : {"loop", "deliver", "wake"}, call : Call \cup {NoCall}, of : Call \cup {NoCall}]
UiAt == [at : {"idle", "wake", "post", "store"}, link : 0..MaxLink]
CallPC == {"idle", "register", "post", "wait", "reclaim", "second", "returned"}

ChannelType ==
    /\ connected \in 0..MaxLink
    /\ pending \subseteq Call
    /\ events \in Seq(Event)
    /\ sock \in 0..MaxLink
    /\ buf \in Seq(Part)

ThreadType == io \in IoAt /\ ui \in UiAt

CallType ==
    /\ pc \in [Call -> CallPC]
    /\ done \in [Call -> BOOLEAN]
    /\ data \in [Call -> Call \cup {NoCall}]
    /\ result \in [Call -> {"none", "notConnected", "failed", "answered"}]
    /\ saw \in [Call -> 0..MaxLink]
    /\ sentOn \in [Call -> 0..MaxLink]

CoreType ==
    /\ core \in [Link -> {"none", "up", "dead"}]
    /\ hung \in [Link -> BOOLEAN]
    /\ received \in [Link -> SUBSET Call]
    /\ writing \in [Link -> Call \cup {NoCall}]
    /\ wire \in [Link -> Seq(Part)]

\* Reconnect is about a link while it is under way.
UiInv == ui.at # "idle" => ui.link \in Link

TypeInv == ChannelType /\ ThreadType /\ CallType /\ CoreType /\ UiInv

LEMMA TypeInvIsType == TypeInv => TypeOK
BY DEF TypeInv, ChannelType, ThreadType, CallType, CoreType, TypeOK, IoAt, UiAt, CallPC

LEMMA TypeInitially == Init => TypeInv
<1> USE RpcAssumption DEF Init, Loop, Link
<1>1. Init => ChannelType
  BY DEF ChannelType
<1>2. Init => ThreadType
  BY DEF ThreadType, IoAt, UiAt
<1>3. Init => CallType
  BY DEF CallType, CallPC
<1>4. Init => CoreType
  BY DEF CoreType
<1>5. QED
  BY <1>1, <1>2, <1>3, <1>4 DEF TypeInv, UiInv

LEMMA CallKeepsTypes ==
  ASSUME TypeInv, NEW c \in Call, CallStep(c)
  PROVE  TypeInv'
<1>1. UNCHANGED <<connected, sock, buf, io, ui, core, hung, received, writing, wire>>
  BY DEF CallStep, CallRefused, CallGoesAhead, Register, PostWrite, Woken, Timeout,
         Reclaimed, Claimed, SecondTimeout, gui, cores
<1>2. pending' \subseteq Call
  BY DEF TypeInv, ChannelType, CallStep, CallRefused, CallGoesAhead, Register, PostWrite,
         Woken, Timeout, Reclaimed, Claimed, SecondTimeout, gui
<1>3. events' \in Seq(Event)
  <2>1. [type |-> "write", call |-> c] \in Event
    BY DEF Event
  <2>2. CASE PostWrite(c)
    BY <2>1, <2>2 DEF PostWrite, Post, TypeInv, ChannelType
  <2>3. CASE ~PostWrite(c)
    BY <2>3 DEF TypeInv, ChannelType, CallStep, CallRefused, CallGoesAhead, Register,
                Woken, Timeout, Reclaimed, Claimed, SecondTimeout, gui
  <2>4. QED
    BY <2>2, <2>3
<1>4. \E where \in CallPC : pc' = [pc EXCEPT ![c] = where]
  BY DEF CallStep, CallRefused, CallGoesAhead, Register, PostWrite, Woken, Timeout,
         Reclaimed, Claimed, SecondTimeout, Goto, Return, CallPC
<1>5. \/ result' = result
      \/ \E what \in {"notConnected", "failed", "answered"} :
             result' = [result EXCEPT ![c] = what]
  BY DEF CallStep, CallRefused, CallGoesAhead, Register, PostWrite, Woken, Timeout,
         Reclaimed, Claimed, SecondTimeout, Return
<1>6. /\ UNCHANGED <<done, data, sentOn>>
      /\ saw' = saw \/ saw' = [saw EXCEPT ![c] = connected]
  BY DEF CallStep, CallRefused, CallGoesAhead, Register, PostWrite, Woken, Timeout,
         Reclaimed, Claimed, SecondTimeout
<1>7. CallType'
  <2>1. pc' \in [Call -> CallPC]
    BY <1>4 DEF TypeInv, CallType
  <2>2. result' \in [Call -> {"none", "notConnected", "failed", "answered"}]
    BY <1>5 DEF TypeInv, CallType
  <2>3. saw' \in [Call -> 0..MaxLink]
    BY <1>6 DEF TypeInv, CallType, ChannelType
  <2>4. QED
    BY <1>6, <2>1, <2>2, <2>3 DEF TypeInv, CallType
<1>8. QED
  BY <1>1, <1>2, <1>3, <1>7 DEF TypeInv, ChannelType, ThreadType, CoreType, UiInv

LEMMA ReconnectKeepsTypes ==
  ASSUME TypeInv, ReconnectStep \/ (\E l \in Link : NewCore(l))
  PROVE  TypeInv'
<1> USE DEF TypeInv, UiInv
<1>1. ASSUME NEW l \in Link, NewCore(l)
      PROVE  TypeInv'
  <2>1. ui' \in UiAt /\ connected' \in 0..MaxLink /\ ui'.link \in Link
    BY <1>1, RpcAssumption DEF NewCore, Link, UiAt
  <2>2. CoreType'
    BY <1>1 DEF NewCore, CoreType
  <2>3. QED
    BY <1>1, <2>1, <2>2 DEF NewCore, ChannelType, ThreadType, CallType, calls
<1>2. CASE ReconnectWake
  <2>1. ui' \in UiAt /\ ui'.link \in Link
    BY <1>2 DEF ReconnectWake, ThreadType, UiAt
  <2>2. CallType' /\ ChannelType'
    BY <1>2 DEF ReconnectWake, WakeAll, CallType, ChannelType
  <2>3. QED
    BY <1>2, <2>1, <2>2 DEF ReconnectWake, ThreadType, CoreType, cores
<1>3. CASE ReconnectPost
  <2>1. ui' \in UiAt /\ ui'.link \in Link
    BY <1>3 DEF ReconnectPost, ThreadType, UiAt
  <2>2. [type |-> "swap", link |-> ui.link] \in Event
    BY <1>3 DEF Event, ReconnectPost
  <2>3. ChannelType'
    BY <1>3, <2>2 DEF ReconnectPost, Post, ChannelType
  <2>4. QED
    BY <1>3, <2>1, <2>3 DEF ReconnectPost, ThreadType, CallType, CoreType, calls, cores
<1>4. CASE ReconnectStore
  <2>1. ui' \in UiAt /\ ui'.at = "idle"
    BY <1>4, RpcAssumption DEF ReconnectStore, UiAt
  <2>2. ChannelType'
    BY <1>4, RpcAssumption DEF ReconnectStore, ChannelType, Link
  <2>3. QED
    BY <1>4, <2>1, <2>2 DEF ReconnectStore, ThreadType, CallType, CoreType, calls, cores
<1>5. QED
  BY <1>1, <1>2, <1>3, <1>4 DEF ReconnectStep

LEMMA IoKeepsTypes ==
  ASSUME TypeInv, IoStep
  PROVE  TypeInv'
<1> USE DEF TypeInv, UiInv
<1>1. CASE IoWrite
  <2>1. Head(events) \in Event /\ events' \in Seq(Event)
    BY <1>1 DEF IoWrite, ChannelType
  <2>2. Head(events).call \in Call
    BY <1>1, <2>1 DEF IoWrite, Event
  <2>3. CallType'
    BY <1>1, <2>2 DEF IoWrite, CallType, ChannelType
  <2>4. CoreType'
    BY <1>1, <2>2 DEF IoWrite, CoreType
  <2>5. QED
    BY <1>1, <2>1, <2>3, <2>4 DEF IoWrite, ChannelType, ThreadType
<1>2. CASE IoSwap
  <2>1. Head(events) \in Event /\ events' \in Seq(Event)
    BY <1>2 DEF IoSwap, ChannelType
  <2>2. Head(events).link \in 1..MaxLink
    BY <1>2, <2>1 DEF IoSwap, Event, Link
  <2>3. sock' \in 0..MaxLink
    BY <1>2, <2>2, RpcAssumption DEF IoSwap
  <2>4. QED
    BY <1>2, <2>1, <2>3 DEF IoSwap, ChannelType, ThreadType, CallType, CoreType, calls, cores
<1>3. CASE IoRead
  <2>1. sock \in Link
    BY <1>3 DEF IoRead, ChannelType, Link
  <2>2. wire[sock] \in Seq(Part) /\ wire[sock] # <<>>
    BY <1>3, <2>1 DEF IoRead, CoreType
  <2>3. Head(wire[sock]) \in Part /\ Tail(wire[sock]) \in Seq(Part)
    BY <2>2
  <2>4. CoreType'
    BY <1>3, <2>1, <2>3 DEF IoRead, CoreType
  <2>5. CASE buf = <<>>
    <3>1. /\ buf' = <<Head(wire[sock])>>
          /\ UNCHANGED <<pending, io, connected, events, sock, ui, calls>>
      BY <1>3, <2>5 DEF IoRead
    <3>2. QED
      BY <2>3, <2>4, <3>1 DEF ChannelType, ThreadType, CallType, calls
  <2>6. CASE buf # <<>>
    <3>1. Head(buf) \in Part
      BY <2>6 DEF ChannelType
    <3>2. Head(buf)[1] \in Call /\ Head(wire[sock])[1] \in Call
      BY <2>3, <3>1 DEF Part
    <3>3. /\ buf' = <<>> /\ pending' \subseteq Call
          /\ UNCHANGED <<connected, events, sock, ui, calls>>
      BY <1>3, <2>6 DEF IoRead, ChannelType
    <3>4. io' = io \/ io' = [at |-> "deliver", call |-> Head(buf)[1], of |-> Head(wire[sock])[1]]
      BY <1>3, <2>6 DEF IoRead
    <3>5. io' \in IoAt
      BY <3>2, <3>4 DEF ThreadType, IoAt
    <3>6. QED
      BY <2>4, <3>3, <3>5 DEF ChannelType, ThreadType, CallType, calls
  <2>7. QED
    BY <2>5, <2>6
<1>4. CASE IoDeliver
  <2>1. io' \in IoAt
    BY <1>4 DEF IoDeliver, Loop, IoAt
  <2>2. io.of \in Call \cup {NoCall}
    BY DEF ThreadType, IoAt
  <2>3. data' \in [Call -> Call \cup {NoCall}]
    BY <1>4, <2>2 DEF IoDeliver, CallType
  <2>4. done' \in [Call -> BOOLEAN]
    BY <1>4 DEF IoDeliver, CallType
  <2>5. QED
    BY <1>4, <2>1, <2>3, <2>4 DEF IoDeliver, ChannelType, ThreadType, CallType, CoreType, cores
<1>5. CASE IoDisconnected
  <2>1. io' \in IoAt
    BY <1>5 DEF IoDisconnected, ThreadType, IoAt
  <2>2. ChannelType'
    BY <1>5, RpcAssumption DEF IoDisconnected, ChannelType
  <2>3. hung' \in [Link -> BOOLEAN]
    BY <1>5 DEF IoDisconnected, CoreType
  <2>4. QED
    BY <1>5, <2>1, <2>2, <2>3 DEF IoDisconnected, ThreadType, CallType, CoreType, calls
<1>6. CASE IoWake
  <2>1. io' \in IoAt
    BY <1>6 DEF IoWake, Loop, IoAt
  <2>2. CallType' /\ ChannelType'
    BY <1>6 DEF IoWake, WakeAll, CallType, ChannelType
  <2>3. QED
    BY <1>6, <2>1, <2>2 DEF IoWake, ThreadType, CoreType, cores
<1>7. QED
  BY <1>1, <1>2, <1>3, <1>4, <1>5, <1>6 DEF IoStep

LEMMA CoreKeepsTypes ==
  ASSUME TypeInv, NEW l \in Link, CoreStep(l) \/ CoreDies(l)
  PROVE  TypeInv'
<1>1. UNCHANGED <<gui, calls>>
  BY DEF CoreStep, WriteHead, WriteTail, CoreDies
<1>2. CoreType'
  <2>1. ASSUME NEW c \in Call, WriteHead(l, c)
        PROVE  CoreType'
    <3>1. <<c, "head">> \in Part
      BY DEF Part
    <3>2. wire' \in [Link -> Seq(Part)]
      BY <2>1, <3>1 DEF WriteHead, TypeInv, CoreType
    <3>3. QED
      BY <2>1, <3>2 DEF WriteHead, TypeInv, CoreType
  <2>2. CASE WriteTail(l)
    <3>1. <<writing[l], "tail">> \in Part
      BY <2>2 DEF Part, WriteTail, TypeInv, CoreType
    <3>2. wire' \in [Link -> Seq(Part)]
      BY <2>2, <3>1 DEF WriteTail, TypeInv, CoreType
    <3>3. QED
      BY <2>2, <3>2 DEF WriteTail, TypeInv, CoreType
  <2>3. CASE CoreDies(l)
    BY <2>3 DEF CoreDies, TypeInv, CoreType
  <2>4. QED
    BY <2>1, <2>2, <2>3 DEF CoreStep
<1>3. QED
  BY <1>1, <1>2 DEF TypeInv, ChannelType, ThreadType, CallType, UiInv, gui, calls

LEMMA TypeInductive == TypeInv /\ [Next]_vars => TypeInv'
<1> SUFFICES ASSUME TypeInv, [Next]_vars
             PROVE  TypeInv'
  OBVIOUS
<1>1. CASE UNCHANGED vars
  BY <1>1 DEF TypeInv, ChannelType, ThreadType, CallType, CoreType, UiInv, vars, gui, calls,
              cores
<1>2. QED
  BY <1>1, CallKeepsTypes, ReconnectKeepsTypes, IoKeepsTypes, CoreKeepsTypes DEF Next

\* Every variable of the channel keeps its type, however many cores come and go.
THEOREM TypeCorrect == Spec => []TypeOK
<1>1. QED
  BY TypeInitially, TypeInductive, TypeInvIsType, PTL DEF Spec

-----------------------------------------------------------------------------
(* Who is to wake a call *)

Delivering(c) == io.at = "deliver" /\ io.call = c

(* A call that waits has its entry in the map, or was resolved, or the reader has *)
(* its response in hand; and nobody resolves a call that has not registered.       *)
PendingInv ==
    /\ \A c \in Call : c \in pending => pc[c] \in {"post", "wait", "reclaim"} /\ ~done[c]
    /\ \A c \in Call :
          pc[c] \in {"post", "wait", "reclaim", "second"} /\ c \notin pending /\ ~done[c] =>
              Delivering(c)
    /\ \A c \in Call : pc[c] \in {"idle", "register"} => ~done[c] /\ ~Delivering(c)
    /\ io.at = "deliver" => io.call \in Call /\ io.call \notin pending

LEMMA CallKeepsPending ==
  ASSUME TypeInv, PendingInv, NEW c \in Call, CallStep(c)
  PROVE  PendingInv'
<1> USE DEF TypeInv, CallType, PendingInv, Delivering, Goto, Return, gui
<1>1. CASE CallRefused(c) \/ CallGoesAhead(c)
  BY <1>1 DEF CallRefused, CallGoesAhead
<1>2. CASE Register(c)
  BY <1>2 DEF Register
<1>3. CASE PostWrite(c)
  BY <1>3 DEF PostWrite
<1>4. CASE Woken(c)
  BY <1>4 DEF Woken
<1>5. CASE Timeout(c) \/ Claimed(c)
  BY <1>5 DEF Timeout, Claimed
<1>6. CASE Reclaimed(c) \/ SecondTimeout(c)
  BY <1>6 DEF Reclaimed, SecondTimeout
<1>7. QED
  BY <1>1, <1>2, <1>3, <1>4, <1>5, <1>6 DEF CallStep

LEMMA WakeAllKeepsPending ==
  ASSUME TypeInv, PendingInv, WakeAll, pc' = pc,
         io' = io \/ (io.at # "deliver" /\ io'.at # "deliver")
  PROVE  PendingInv'
BY DEF TypeInv, CallType, PendingInv, Delivering, WakeAll

LEMMA PendingInductive == TypeInv /\ PendingInv /\ [Next]_vars => PendingInv'
<1> SUFFICES ASSUME TypeInv, PendingInv, [Next]_vars
             PROVE  PendingInv'
  OBVIOUS
<1>1. ASSUME NEW c \in Call, CallStep(c)
      PROVE  PendingInv'
  BY <1>1, CallKeepsPending
<1>2. ASSUME NEW l \in Link, NewCore(l) \/ CoreStep(l) \/ CoreDies(l)
      PROVE  PendingInv'
  <2>1. UNCHANGED <<pending, pc, done, io>>
    BY <1>2 DEF NewCore, CoreStep, CoreDies, WriteHead, WriteTail, gui, calls
  <2>2. QED
    BY <2>1 DEF PendingInv, Delivering
<1>3. CASE ReconnectWake
  BY <1>3, WakeAllKeepsPending DEF ReconnectWake
<1>4. CASE ReconnectPost \/ ReconnectStore \/ IoWrite \/ IoSwap
  <2>1. UNCHANGED <<pending, pc, done, io>>
    BY <1>4 DEF ReconnectPost, ReconnectStore, IoWrite, IoSwap, calls
  <2>2. QED
    BY <2>1 DEF PendingInv, Delivering
<1>5. CASE IoRead
  <2>1. UNCHANGED <<pc, done>> /\ io.at = "loop"
    BY <1>5 DEF IoRead, calls, Loop
  <2>2. CASE UNCHANGED <<pending, io>>
    BY <2>1, <2>2 DEF PendingInv, Delivering
  <2>3. CASE ~UNCHANGED <<pending, io>>
    <3>1. PICK part \in Part : TRUE /\ buf # <<>> /\ part = Head(buf)
      BY <1>5, <2>3 DEF IoRead, TypeInv, ChannelType
    <3>2. part[1] \in Call
      BY DEF Part
    <3>3. pending' = pending \ {part[1]}
      BY <1>5, <3>1 DEF IoRead
    <3>4. CASE part[1] \in pending
      <4>1. io'.at = "deliver" /\ io'.call = part[1]
        BY <1>5, <3>1, <3>4 DEF IoRead
      <4>2. QED
        BY <2>1, <3>2, <3>3, <3>4, <4>1 DEF PendingInv, Delivering
    <3>5. CASE part[1] \notin pending
      <4>1. io' = io /\ pending' = pending
        BY <1>5, <3>1, <3>3, <3>5 DEF IoRead
      <4>2. QED
        BY <2>3, <4>1
    <3>6. QED
      BY <3>4, <3>5
  <2>4. QED
    BY <2>2, <2>3
<1>6. CASE IoDeliver
  <2>1. io'.at = "loop" /\ UNCHANGED <<pending, pc>> /\ done' = [done EXCEPT ![io.call] = TRUE]
    BY <1>6 DEF IoDeliver, Loop
  <2>2. io.at = "deliver"
    BY <1>6 DEF IoDeliver
  <2>3. QED
    BY <2>1, <2>2 DEF PendingInv, Delivering, TypeInv, CallType
<1>7. CASE IoDisconnected
  <2>1. io.at = "loop" /\ io'.at = "wake" /\ UNCHANGED <<pending, pc, done>>
    BY <1>7 DEF IoDisconnected, Loop, calls
  <2>2. QED
    BY <2>1 DEF PendingInv, Delivering
<1>8. CASE IoWake
  <2>1. io.at = "wake" /\ io'.at = "loop"
    BY <1>8 DEF IoWake, Loop
  <2>2. QED
    BY <1>8, <2>1, WakeAllKeepsPending DEF IoWake
<1>9. CASE UNCHANGED vars
  BY <1>9 DEF PendingInv, Delivering, vars, gui, calls
<1>10. QED
  BY <1>1, <1>2, <1>3, <1>4, <1>5, <1>6, <1>7, <1>8, <1>9 DEF Next, ReconnectStep, IoStep

\* No entry outlives its call or waits for a call that was resolved, and a call that
\* found its entry gone has only the last step of the reader to wait for.
THEOREM PendingIsWaitingTheorem == Spec => []PendingIsWaiting
<1>1. Init => PendingInv
  BY DEF Init, PendingInv, Delivering, Loop
<1>2. PendingInv => PendingIsWaiting
  BY DEF PendingInv, PendingIsWaiting, Delivering
<1>3. QED
  BY <1>1, <1>2, TypeInitially, TypeInductive, PendingInductive, PTL DEF Spec

-----------------------------------------------------------------------------
(* Sequences *)

LEMMA AppendFacts ==
  ASSUME NEW S, NEW s \in Seq(S), NEW e \in S
  PROVE  /\ Append(s, e) \in Seq(S) /\ Append(s, e) # <<>>
         /\ Len(s) \in Nat
         /\ Len(Append(s, e)) = Len(s) + 1
         /\ \A i \in 1..Len(s) : Append(s, e)[i] = s[i]
         /\ Append(s, e)[Len(s) + 1] = e
OBVIOUS

LEMMA TailFacts ==
  ASSUME NEW S, NEW s \in Seq(S), s # <<>>
  PROVE  /\ Tail(s) \in Seq(S)
         /\ Len(s) \in Nat /\ Len(s) >= 1
         /\ Len(Tail(s)) = Len(s) - 1
         /\ \A i \in 1..(Len(s) - 1) : Tail(s)[i] = s[i + 1]
         /\ Head(s) = s[1] /\ s[1] \in S
OBVIOUS

-----------------------------------------------------------------------------
(* Links come one after the other *)

SwapAt(i, l) == events[i].type = "swap" /\ events[i].link = l

(* The socket in use, the swaps that are posted, and the Reconnect under way are   *)
(* about ever newer links: no link is adopted twice.                               *)
LinkInv ==
    /\ \A k, l \in Link : k < l /\ core[l] # "none" => core[k] = "dead"
    /\ sock # 0 => core[sock] # "none"
    /\ \A i \in 1..Len(events) : \A l \in Link :
          SwapAt(i, l) => l > sock /\ core[l] # "none"
    /\ \A i, j \in 1..Len(events) : \A k, l \in Link :
          i < j /\ SwapAt(i, k) /\ SwapAt(j, l) => k < l
    /\ ui.at \in {"wake", "post"} =>
          /\ core[ui.link] # "none"
          /\ sock < ui.link
          /\ \A i \in 1..Len(events) : \A l \in Link : SwapAt(i, l) => l < ui.link

LEMMA LinkTypes ==
  ASSUME TypeInv
  PROVE  /\ MaxLink \in Nat /\ Link = 1..MaxLink
         /\ sock \in 0..MaxLink /\ (sock # 0 => sock \in Link)
         /\ events \in Seq(Event) /\ Len(events) \in Nat
         /\ \A i \in 1..Len(events) :
               /\ events[i].type \in {"write", "swap"}
               /\ events[i].type = "swap" => events[i].link \in Link
               /\ events[i].type = "write" => events[i].call \in Call
<1>1. \A i \in 1..Len(events) : events[i] \in Event
  BY DEF TypeInv, ChannelType
<1>2. QED
  BY <1>1, RpcAssumption DEF TypeInv, ChannelType, Link, Event

\* What a step that posts nothing and moves no link leaves as it was.
LEMMA LinkUnchanged ==
  ASSUME LinkInv, UNCHANGED <<core, sock, events>>,
         ui' = ui \/ ui'.at \notin {"wake", "post"}
                  \/ (ui.at = "wake" /\ ui'.link = ui.link)
  PROVE  LinkInv'
BY DEF LinkInv, SwapAt

LEMMA LinkInductive == TypeInv /\ LinkInv /\ [Next]_vars => LinkInv'
<1> SUFFICES ASSUME TypeInv, LinkInv, [Next]_vars
             PROVE  LinkInv'
  OBVIOUS
<1> USE LinkTypes
<1>1. ASSUME NEW c \in Call, CallStep(c)
      PROVE  LinkInv'
  <2>1. CASE PostWrite(c)
    <3>1. [type |-> "write", call |-> c] \in Event
      BY DEF Event
    <3>2. events' = Append(events, [type |-> "write", call |-> c])
      BY <2>1 DEF PostWrite, Post
    <3>3. /\ Len(events') = Len(events) + 1
          /\ \A i \in 1..Len(events) : events'[i] = events[i]
          /\ events'[Len(events) + 1].type = "write"
      BY <3>1, <3>2, AppendFacts
    <3>4. UNCHANGED <<core, sock, ui>>
      BY <2>1 DEF PostWrite, cores
    <3>5. \A i \in 1..Len(events') : \A l \in Link :
              SwapAt(i, l)' => i \in 1..Len(events) /\ SwapAt(i, l)
      BY <3>3 DEF SwapAt
    <3>6. QED
      BY <3>4, <3>5 DEF LinkInv
  <2>2. CASE ~PostWrite(c)
    <3>1. UNCHANGED <<core, sock, events, ui>>
      BY <1>1, <2>2 DEF CallStep, CallRefused, CallGoesAhead, Register, Woken, Timeout,
                        Reclaimed, Claimed, SecondTimeout, gui, cores
    <3>2. QED
      BY <3>1, LinkUnchanged
  <2>3. QED
    BY <2>1, <2>2
<1>2. ASSUME NEW l \in Link, NewCore(l)
      PROVE  LinkInv'
  <2>1. /\ core' = [core EXCEPT ![l] = "up"] /\ core[l] = "none"
        /\ \A k \in Link : k < l => core[k] = "dead"
        /\ ui' = [at |-> "wake", link |-> l]
        /\ UNCHANGED <<sock, events>>
    BY <1>2 DEF NewCore
  <2>2. \A k \in Link : core[k] # "none" => k < l
    BY <2>1 DEF LinkInv
  <2>3. core' \in [Link -> {"none", "up", "dead"}] /\ core \in [Link -> {"none", "up", "dead"}]
    BY <2>1 DEF TypeInv, CoreType
  <2>4. \A k \in Link : core'[k] = IF k = l THEN "up" ELSE core[k]
    BY <2>1, <2>3
  <2>5. \A i \in 1..Len(events) : \A k \in Link : SwapAt(i, k)' <=> SwapAt(i, k)
    BY <2>1 DEF SwapAt
  <2>6. QED
    BY <2>1, <2>2, <2>4, <2>5 DEF LinkInv
<1>3. ASSUME NEW l \in Link, CoreStep(l)
      PROVE  LinkInv'
  BY <1>3, LinkUnchanged DEF CoreStep, WriteHead, WriteTail, gui
<1>4. ASSUME NEW l \in Link, CoreDies(l)
      PROVE  LinkInv'
  <2>1. /\ core' = [core EXCEPT ![l] = "dead"] /\ core[l] = "up"
        /\ UNCHANGED <<sock, events, ui>>
    BY <1>4 DEF CoreDies, gui
  <2>2. \A k \in Link : core'[k] = IF k = l THEN "dead" ELSE core[k]
    BY <2>1 DEF TypeInv, CoreType
  <2>3. \A i \in 1..Len(events) : \A k \in Link : SwapAt(i, k)' <=> SwapAt(i, k)
    BY <2>1 DEF SwapAt
  <2>4. ui.at \in {"wake", "post"} => ui.link \in Link
    BY DEF TypeInv, UiInv
  <2>5. QED
    BY <2>1, <2>2, <2>3, <2>4 DEF LinkInv
<1>5. CASE ReconnectWake
  BY <1>5, LinkUnchanged DEF ReconnectWake, cores, TypeInv, ThreadType, UiAt
<1>6. CASE ReconnectPost
  <2>1. ui.link \in Link /\ ui.at = "post" /\ ui'.at = "store"
    BY <1>6 DEF ReconnectPost, TypeInv, UiInv, ThreadType, UiAt
  <2>2. [type |-> "swap", link |-> ui.link] \in Event
    BY <2>1 DEF Event
  <2>3. events' = Append(events, [type |-> "swap", link |-> ui.link]) /\ UNCHANGED <<core, sock>>
    BY <1>6 DEF ReconnectPost, Post, cores
  <2>4. PICK n \in Nat : n = Len(events)
    OBVIOUS
  <2>5. /\ Len(events') = n + 1
        /\ \A i \in 1..n : events'[i] = events[i]
        /\ events'[n + 1] = [type |-> "swap", link |-> ui.link]
    BY <2>2, <2>3, <2>4, AppendFacts
  <2>6. \A i \in 1..n : \A l \in Link : SwapAt(i, l)' <=> SwapAt(i, l)
    BY <2>5 DEF SwapAt
  <2>7. \A l \in Link : SwapAt(n + 1, l)' => l = ui.link
    BY <2>5 DEF SwapAt
  <2>8. /\ \A i \in 1..(n + 1) : \A l \in Link :
              SwapAt(i, l)' => l > sock /\ core[l] # "none"
        /\ \A i, j \in 1..(n + 1) : \A k, l \in Link :
              i < j /\ SwapAt(i, k)' /\ SwapAt(j, l)' => k < l
    <3>1. \A i \in 1..(n + 1) : i \in 1..n \/ i = n + 1
      BY <2>4
    <3>2. QED
      BY <2>1, <2>4, <2>6, <2>7, <3>1, SMTT(30) DEF LinkInv
  <2>9. QED
    BY <2>1, <2>3, <2>5, <2>8 DEF LinkInv
<1>7. CASE ReconnectStore
  BY <1>7, LinkUnchanged DEF ReconnectStore, cores
<1>8. CASE IoWrite \/ IoSwap
  <2>1. events # <<>> /\ events' = Tail(events) /\ UNCHANGED <<core, ui>>
    BY <1>8 DEF IoWrite, IoSwap, cores
  <2>2. /\ Len(events') = Len(events) - 1
        /\ \A i \in 1..Len(events') : events'[i] = events[i + 1]
        /\ Head(events) = events[1] /\ Len(events) >= 1
    BY <2>1, TailFacts
  <2>3. \A i \in 1..Len(events') : \A l \in Link : SwapAt(i, l)' <=> SwapAt(i + 1, l)
    BY <2>2 DEF SwapAt
  <2>4. sock' = sock \/ (sock' \in Link /\ SwapAt(1, sock'))
    BY <1>8, <2>2 DEF IoWrite, IoSwap, SwapAt
  <2>5. CASE sock' = sock
    BY <2>1, <2>2, <2>3, <2>5, SMTT(30) DEF LinkInv
  <2>6. CASE sock' \in Link /\ SwapAt(1, sock')
    BY <2>1, <2>2, <2>3, <2>6, SMTT(30) DEF LinkInv
  <2>7. QED
    BY <2>4, <2>5, <2>6
<1>9. CASE IoRead \/ IoDeliver \/ IoDisconnected \/ IoWake
  BY <1>9, LinkUnchanged DEF IoRead, IoDeliver, IoDisconnected, IoWake, calls, cores
<1>10. CASE UNCHANGED vars
  BY <1>10, LinkUnchanged DEF vars, gui, cores
<1>11. QED
  BY <1>1, <1>2, <1>3, <1>4, <1>5, <1>6, <1>7, <1>8, <1>9, <1>10 DEF Next, ReconnectStep, IoStep

-----------------------------------------------------------------------------
(* The reader stays in step with the writer *)

Follows(p, q) == IF p[2] = "head" THEN q = <<p[1], "tail">> ELSE q[2] = "head"
Chained(s)    == \A i \in 1..(Len(s) - 1) : Follows(s[i], s[i + 1])

\* The reader is in the middle of a response of link l.
Mid(l) == l = sock /\ buf # <<>>

(* What link l carries continues what has been read of it, and ends where its      *)
(* core is in writing.                                                             *)
Framed(l) ==
    /\ Chained(wire[l])
    /\ wire[l] # <<>> =>
          IF Mid(l) THEN wire[l][1] = <<buf[1][1], "tail">> ELSE wire[l][1][2] = "head"
    /\ writing[l] # NoCall =>
          IF wire[l] # <<>> THEN wire[l][Len(wire[l])] = <<writing[l], "head">>
          ELSE Mid(l) /\ buf[1][1] = writing[l]
    /\ writing[l] = NoCall =>
          IF wire[l] # <<>> THEN wire[l][Len(wire[l])][2] = "tail" ELSE ~Mid(l)

\* A link older than the socket in use is never read again.
FrameInv ==
    /\ buf # <<>> => Len(buf) = 1 /\ buf[1][2] = "head"
    /\ \A l \in Link : l >= sock => Framed(l)
    /\ io.at = "deliver" => io.of = io.call
    /\ AnswerIsOwn

LEMMA FrameUnchanged ==
  ASSUME FrameInv, UNCHANGED <<sock, buf, writing, wire, data>>,
         io' = io \/ io'.at # "deliver"
  PROVE  FrameInv'
BY DEF FrameInv, Framed, Mid, AnswerIsOwn

\* Only the wire of one link and what its core is in writing change.
LEMMA FramesOfOthers ==
  ASSUME TypeInv, FrameInv, UNCHANGED <<sock, buf, io, data>>, NEW l \in Link,
         \A k \in Link : k # l => wire'[k] = wire[k] /\ writing'[k] = writing[k],
         l >= sock => Framed(l)'
  PROVE  FrameInv'
<1>1. ASSUME NEW k \in Link, k >= sock, k # l
      PROVE  Framed(k)'
  <2>1. Framed(k) /\ wire'[k] = wire[k] /\ writing'[k] = writing[k]
    BY <1>1 DEF FrameInv
  <2>2. QED
    BY <2>1 DEF Framed, Mid
<1>2. QED
  BY <1>1 DEF FrameInv, AnswerIsOwn

LEMMA WriteKeepsFrames ==
  ASSUME TypeInv, FrameInv, NEW l \in Link, CoreStep(l)
  PROVE  FrameInv'
<1>a. /\ wire \in [Link -> Seq(Part)] /\ writing \in [Link -> Call \cup {NoCall}]
      /\ l >= sock => Framed(l)
  BY DEF TypeInv, CoreType, FrameInv
<1>w. PICK w \in Seq(Part) : w = wire[l]
  BY <1>a
<1>n. PICK n \in Nat : n = Len(w)
  OBVIOUS
<1>0. n = 0 <=> w = <<>>
  BY <1>n
<1>1. ASSUME NEW c \in Call, WriteHead(l, c)
      PROVE  FrameInv'
  <2>1. <<c, "head">> \in Part
    BY DEF Part
  <2>2. /\ wire' = [wire EXCEPT ![l] = Append(w, <<c, "head">>)]
        /\ writing' = [writing EXCEPT ![l] = c]
        /\ writing[l] = NoCall /\ UNCHANGED <<sock, buf, io, data>>
    BY <1>1, <1>w DEF WriteHead, gui, calls
  <2>3. wire'[l] = Append(w, <<c, "head">>) /\ writing'[l] = c /\ c # NoCall
    BY <1>a, <1>w, <1>0, <2>2, RpcAssumption
  <2>5. /\ wire'[l] # <<>> /\ Len(wire'[l]) = n + 1
        /\ \A i \in 1..n : wire'[l][i] = w[i]
        /\ wire'[l][n + 1] = <<c, "head">>
    <3>1. /\ Append(w, <<c, "head">>) # <<>> /\ Len(Append(w, <<c, "head">>)) = n + 1
          /\ \A i \in 1..n : Append(w, <<c, "head">>)[i] = w[i]
          /\ Append(w, <<c, "head">>)[n + 1] = <<c, "head">>
      BY <1>n, <2>1, AppendFacts
    <3>2. QED
      BY <2>3, <1>n, <3>1
  <2>6. ASSUME l >= sock
        PROVE  Framed(l)'
    <3>1. Framed(l)
      BY <1>a, <1>w, <1>0, <2>6
    <3>2. CASE n = 0
      <4>0. w = <<>>
        BY <1>a, <1>w, <1>0, <1>n, <3>2
      <4>1. ~Mid(l) /\ ~Mid(l)'
        BY <2>2, <1>w, <3>1, <4>0 DEF Framed, Mid
      <4>2. wire'[l][1] = <<c, "head">>
        BY <2>5, <3>2
      <4>3. QED
        BY <2>3, <2>5, <3>2, <4>1, <4>2 DEF Framed, Chained
    <3>3. CASE n > 0
      <4>1. w # <<>> /\ (Mid(l)' <=> Mid(l)) /\ wire'[l][1] = w[1]
        BY <1>a, <1>w, <1>0, <2>2, <1>n, <2>5, <3>3 DEF Mid
      <4>2. w[n][2] = "tail"
        BY <1>w, <2>2, <1>n, <3>1, <4>1 DEF Framed
      <4>3. Follows(w[n], <<c, "head">>)
        BY <4>2 DEF Follows
      <4>4. \A i \in 1..n : Follows(wire'[l][i], wire'[l][i + 1])
        <5>1. ASSUME NEW i \in 1..n, i # n
              PROVE  Follows(wire'[l][i], wire'[l][i + 1])
          BY <1>w, <1>n, <2>5, <3>1, <5>1 DEF Framed, Chained
        <5>2. QED
          BY <2>5, <3>3, <4>3, <5>1
      <4>5. Chained(wire'[l])
        BY <2>5, <4>4 DEF Chained
      <4>6. QED
        BY <1>w, <2>2, <2>3, <2>5, <3>1, <4>1, <4>5 DEF Framed
    <3>4. QED
      BY <3>2, <3>3
  <2>7. QED
    BY <1>a, <1>w, <1>0, <2>2, <2>6, FramesOfOthers
<1>2. CASE WriteTail(l)
  <2>1. writing[l] \in Call /\ writing[l] # NoCall
    BY <1>a, <1>w, <1>0, <1>2 DEF WriteTail
  <2>2. <<writing[l], "tail">> \in Part
    BY <2>1 DEF Part
  <2>3. /\ wire' = [wire EXCEPT ![l] = Append(w, <<writing[l], "tail">>)]
        /\ writing' = [writing EXCEPT ![l] = NoCall] /\ UNCHANGED <<sock, buf, io, data>>
    BY <1>2, <1>w DEF WriteTail, gui, calls
  <2>4. wire'[l] = Append(w, <<writing[l], "tail">>) /\ writing'[l] = NoCall
    BY <1>a, <1>w, <1>0, <2>3
  <2>6. /\ wire'[l] # <<>> /\ Len(wire'[l]) = n + 1
        /\ \A i \in 1..n : wire'[l][i] = w[i]
        /\ wire'[l][n + 1] = <<writing[l], "tail">>
    <3>1. /\ Append(w, <<writing[l], "tail">>) # <<>>
          /\ Len(Append(w, <<writing[l], "tail">>)) = n + 1
          /\ \A i \in 1..n : Append(w, <<writing[l], "tail">>)[i] = w[i]
          /\ Append(w, <<writing[l], "tail">>)[n + 1] = <<writing[l], "tail">>
      BY <1>n, <2>2, AppendFacts
    <3>2. QED
      BY <2>4, <1>n, <3>1
  <2>7. ASSUME l >= sock
        PROVE  Framed(l)'
    <3>1. Framed(l) /\ (Mid(l)' <=> Mid(l)) /\ buf' = buf
      BY <1>a, <1>w, <1>0, <2>3, <2>7 DEF Mid
    <3>2. CASE n = 0
      <4>0. w = <<>>
        BY <1>a, <1>w, <1>0, <1>n, <3>2
      <4>1. Mid(l) /\ buf[1][1] = writing[l]
        BY <2>1, <1>w, <3>1, <4>0 DEF Framed
      <4>2. wire'[l][1] = <<buf[1][1], "tail">>
        BY <2>6, <3>2, <4>1
      <4>3. QED
        BY <2>4, <2>6, <3>1, <3>2, <4>1, <4>2 DEF Framed, Chained
    <3>3. CASE n > 0
      <4>1. w # <<>> /\ wire'[l][1] = w[1]
        BY <1>a, <1>w, <1>0, <1>n, <2>6, <3>3
      <4>2. w[n] = <<writing[l], "head">>
        BY <1>w, <2>1, <1>n, <3>1, <4>1 DEF Framed
      <4>3. Follows(w[n], <<writing[l], "tail">>)
        BY <4>2 DEF Follows
      <4>4. \A i \in 1..n : Follows(wire'[l][i], wire'[l][i + 1])
        <5>1. ASSUME NEW i \in 1..n, i # n
              PROVE  Follows(wire'[l][i], wire'[l][i + 1])
          BY <1>w, <1>n, <2>6, <3>1, <5>1 DEF Framed, Chained
        <5>2. QED
          BY <2>6, <3>3, <4>3, <5>1
      <4>5. Chained(wire'[l])
        BY <2>6, <4>4 DEF Chained
      <4>6. wire'[l][Len(wire'[l])][2] = "tail"
        BY <2>6
      <4>7. QED
        BY <1>w, <2>4, <2>6, <3>1, <4>1, <4>5, <4>6 DEF Framed
    <3>4. QED
      BY <3>2, <3>3
  <2>8. QED
    BY <1>a, <1>w, <1>0, <2>3, <2>7, FramesOfOthers
<1>3. QED
  BY <1>1, <1>2 DEF CoreStep

\* What the reader takes from the wire, and what it leaves there.
LEMMA ReadKeepsFrames ==
  ASSUME TypeInv, LinkInv, FrameInv, IoRead
  PROVE  FrameInv'
<1>1. sock \in Link /\ io.at = "loop"
  BY DEF IoRead, Loop, TypeInv, ChannelType, Link
<1>2. PICK w \in Seq(Part) : w = wire[sock]
  BY <1>1 DEF TypeInv, CoreType
<1>3. PICK n \in Nat : n = Len(w)
  OBVIOUS
<1>4. /\ w # <<>> /\ UNCHANGED <<sock, writing, data, pc>>
      /\ wire' = [wire EXCEPT ![sock] = Tail(w)]
  BY <1>2 DEF IoRead, calls
<1>5. /\ n >= 1 /\ Len(Tail(w)) = n - 1
      /\ \A i \in 1..(n - 1) : Tail(w)[i] = w[i + 1]
      /\ Head(w) = w[1] /\ w[1] \in Part
      /\ Tail(w) # <<>> <=> n > 1
  <2>1. /\ Len(Tail(w)) = n - 1 /\ n >= 1 /\ Tail(w) \in Seq(Part)
        /\ \A i \in 1..(n - 1) : Tail(w)[i] = w[i + 1]
        /\ Head(w) = w[1] /\ w[1] \in Part
    BY <1>3, <1>4, TailFacts
  <2>2. Tail(w) # <<>> <=> Len(Tail(w)) # 0
    BY <2>1
  <2>3. QED
    BY <2>1, <2>2
<1>6. /\ wire'[sock] = Tail(w)
      /\ \A k \in Link : k # sock => wire'[k] = wire[k]
  BY <1>1, <1>4 DEF TypeInv, CoreType
<1>7. /\ Framed(sock) /\ writing[sock] \in Call \cup {NoCall}
      /\ buf \in Seq(Part)
  BY <1>1 DEF FrameInv, TypeInv, ChannelType, CoreType, Link
<1>8. Chained(Tail(w))
  <2>1. \A i \in 1..(n - 1) : Follows(w[i], w[i + 1])
    BY <1>2, <1>3, <1>7 DEF Framed, Chained
  <2>2. \A i \in 1..(n - 2) : Tail(w)[i] = w[i + 1] /\ Tail(w)[i + 1] = w[i + 2]
    BY <1>5
  <2>3. \A i \in 1..(n - 2) : Follows(w[i + 1], w[i + 2])
    <3>1. ASSUME NEW i \in 1..(n - 2)
          PROVE  i + 1 \in 1..(n - 1) /\ (i + 1) + 1 = i + 2
      OBVIOUS
    <3>2. QED
      BY <2>1, <3>1
  <2>4. Len(Tail(w)) - 1 = n - 2
    BY <1>5
  <2>5. QED
    BY <2>2, <2>3, <2>4 DEF Chained
<1>9. ASSUME NEW k \in Link, k >= sock, k # sock
      PROVE  Framed(k)'
  <2>1. Framed(k) /\ ~Mid(k) /\ ~Mid(k)'
    BY <1>4, <1>9 DEF FrameInv, Mid
  <2>2. wire'[k] = wire[k] /\ writing'[k] = writing[k]
    BY <1>4, <1>6, <1>9
  <2>3. QED
    BY <2>1, <2>2 DEF Framed
<1>10. CASE buf = <<>>
  <2>1. buf' = <<w[1]>> /\ io' = io
    BY <1>2, <1>5, <1>10 DEF IoRead
  <2>2. w[1][2] = "head" /\ Mid(sock)' /\ ~Mid(sock)
    BY <1>2, <1>4, <1>7, <1>10, <2>1 DEF Framed, Mid
  <2>3. n > 1 => w[2] = <<w[1][1], "tail">>
    BY <1>2, <1>3, <1>7, <2>2 DEF Framed, Chained, Follows
  <2>4. n > 1 => Tail(w)[1] = <<buf'[1][1], "tail">> /\ Tail(w)[n - 1] = w[n]
    BY <1>5, <2>1, <2>3
  <2>5. /\ writing[sock] # NoCall => w[n] = <<writing[sock], "head">>
        /\ writing[sock] = NoCall => w[n][2] = "tail"
    BY <1>2, <1>3, <1>4, <1>7 DEF Framed
  <2>6. n = 1 => writing[sock] # NoCall /\ buf'[1][1] = writing[sock]
    BY <2>1, <2>2, <2>5
  <2>7. Framed(sock)'
    <3>1. sock' = sock /\ wire'[sock'] = Tail(w) /\ writing'[sock'] = writing[sock]
      BY <1>4, <1>6
    <3>2. CASE n = 1
      <4>1. Tail(w) = <<>>
        BY <1>5, <3>2
      <4>2. QED
        BY <1>8, <2>2, <2>6, <3>1, <3>2, <4>1 DEF Framed
    <3>3. CASE n > 1
      <4>1. Tail(w) # <<>> /\ Tail(w)[Len(Tail(w))] = w[n]
        BY <1>5, <2>4, <3>3
      <4>2. QED
        BY <1>8, <2>2, <2>4, <2>5, <3>1, <3>3, <4>1 DEF Framed
    <3>4. QED
      BY <1>5, <3>2, <3>3
  <2>8. Len(buf') = 1 /\ buf'[1][2] = "head"
    BY <2>1, <2>2
  <2>9. QED
    BY <1>1, <1>4, <1>9, <2>1, <2>7, <2>8 DEF FrameInv, AnswerIsOwn
<1>11. CASE buf # <<>>
  <2>1. w[1] = <<buf[1][1], "tail">> /\ Mid(sock)
    BY <1>2, <1>4, <1>7, <1>11 DEF Framed, Mid
  <2>2. buf' = <<>> /\ Head(buf) = buf[1]
    BY <1>7, <1>11 DEF IoRead
  <2>3. ~Mid(sock)'
    BY <2>2 DEF Mid
  <2>4. n > 1 => w[2][2] = "head"
    BY <1>2, <1>3, <1>7, <2>1 DEF Framed, Chained, Follows
  <2>5. n > 1 => Tail(w)[1][2] = "head" /\ Tail(w)[n - 1] = w[n]
    BY <1>5, <2>4
  <2>6. /\ writing[sock] # NoCall => w[n] = <<writing[sock], "head">>
        /\ writing[sock] = NoCall => w[n][2] = "tail"
    BY <1>2, <1>3, <1>4, <1>7 DEF Framed
  <2>7. n = 1 => writing[sock] = NoCall
    BY <2>1, <2>6
  <2>8. Framed(sock)'
    <3>1. sock' = sock /\ wire'[sock'] = Tail(w) /\ writing'[sock'] = writing[sock]
      BY <1>4, <1>6
    <3>2. CASE n = 1
      <4>1. Tail(w) = <<>>
        BY <1>5, <3>2
      <4>2. QED
        BY <1>8, <2>3, <2>7, <3>1, <3>2, <4>1 DEF Framed
    <3>3. CASE n > 1
      <4>1. Tail(w) # <<>> /\ Tail(w)[Len(Tail(w))] = w[n]
        BY <1>5, <2>5, <3>3
      <4>2. QED
        BY <1>8, <2>3, <2>5, <2>6, <3>1, <3>3, <4>1 DEF Framed
    <3>4. QED
      BY <1>5, <3>2, <3>3
  <2>9. io' = io \/ io' = [at |-> "deliver", call |-> buf[1][1], of |-> w[1][1]]
    BY <1>2, <1>5, <1>11, <2>2 DEF IoRead
  <2>10. io'.at = "deliver" => io'.of = io'.call
    BY <1>1, <2>1, <2>9
  <2>11. QED
    BY <1>1, <1>4, <1>9, <2>2, <2>8, <2>10 DEF FrameInv, AnswerIsOwn
<1>12. QED
  BY <1>10, <1>11

LEMMA FrameInductive == TypeInv /\ LinkInv /\ FrameInv /\ [Next]_vars => FrameInv'
<1> SUFFICES ASSUME TypeInv, LinkInv, FrameInv, [Next]_vars
             PROVE  FrameInv'
  OBVIOUS
<1>1. ASSUME NEW c \in Call, CallStep(c)
      PROVE  FrameInv'
  <2>1. UNCHANGED <<sock, buf, writing, wire, data, io>>
    BY <1>1 DEF CallStep, CallRefused, CallGoesAhead, Register, PostWrite, Woken, Timeout,
                Reclaimed, Claimed, SecondTimeout, gui, cores
  <2>2. QED
    BY <2>1, FrameUnchanged
<1>2. ASSUME NEW l \in Link, NewCore(l) \/ CoreDies(l)
      PROVE  FrameInv'
  BY <1>2, FrameUnchanged DEF NewCore, CoreDies, gui, calls
<1>3. ASSUME NEW l \in Link, CoreStep(l)
      PROVE  FrameInv'
  BY <1>3, WriteKeepsFrames
<1>4. CASE ReconnectStep \/ IoWrite
  BY <1>4, FrameUnchanged DEF ReconnectStep, ReconnectWake, ReconnectPost, ReconnectStore,
                              IoWrite, calls, cores
<1>5. CASE IoSwap
  <2>1. /\ events # <<>> /\ Head(events).type = "swap" /\ sock' = Head(events).link
        /\ buf' = <<>> /\ UNCHANGED <<io, writing, wire, data>>
    BY <1>5 DEF IoSwap, calls, cores
  <2>2. Head(events) = events[1] /\ Len(events) >= 1 /\ Len(events) \in Nat
    BY <2>1, LinkTypes, TailFacts
  <2>3. sock' \in Link /\ sock' > sock
    BY <2>1, <2>2, LinkTypes DEF LinkInv, SwapAt
  <2>4. ASSUME NEW l \in Link, l >= sock'
        PROVE  Framed(l)'
    <3>1. l >= sock /\ l # sock
      BY <2>3, <2>4, LinkTypes
    <3>2. Framed(l) /\ ~Mid(l) /\ ~Mid(l)'
      BY <2>1, <3>1 DEF FrameInv, Mid
    <3>3. QED
      BY <2>1, <3>2 DEF Framed
  <2>5. QED
    BY <2>1, <2>4 DEF FrameInv, AnswerIsOwn
<1>6. CASE IoRead
  BY <1>6, ReadKeepsFrames
<1>7. CASE IoDeliver
  <2>1. /\ UNCHANGED <<sock, buf, writing, wire>> /\ io'.at = "loop"
        /\ data' = [data EXCEPT ![io.call] = io.of] /\ io.of = io.call
    BY <1>7 DEF IoDeliver, FrameInv, Loop, cores
  <2>2. AnswerIsOwn'
    BY <2>1 DEF FrameInv, AnswerIsOwn, TypeInv, CallType
  <2>3. QED
    BY <2>1, <2>2 DEF FrameInv, Framed, Mid
<1>8. CASE IoDisconnected
  <2>1. io'.at = "wake" /\ UNCHANGED <<sock, buf, writing, wire, data>>
    BY <1>8 DEF IoDisconnected, Loop, calls
  <2>2. QED
    BY <2>1, FrameUnchanged
<1>9. CASE IoWake
  <2>1. io'.at = "loop" /\ UNCHANGED <<sock, buf, writing, wire, data>>
    BY <1>9 DEF IoWake, Loop, cores
  <2>2. QED
    BY <2>1, FrameUnchanged
<1>10. CASE UNCHANGED vars
  BY <1>10, FrameUnchanged DEF vars, gui, calls, cores
<1>11. QED
  BY <1>1, <1>2, <1>3, <1>4, <1>5, <1>6, <1>7, <1>8, <1>9, <1>10 DEF Next, IoStep

StreamInv == TypeInv /\ LinkInv /\ FrameInv

LEMMA StreamInvariant == Spec => []StreamInv
<1>1. Init => LinkInv
  BY RpcAssumption DEF Init, LinkInv, Link
<1>2. Init => FrameInv
  BY RpcAssumption DEF Init, FrameInv, Framed, Chained, Mid, Loop, AnswerIsOwn, Link
<1>3. Init => StreamInv
  BY <1>1, <1>2, TypeInitially DEF StreamInv
<1>4. StreamInv /\ [Next]_vars => StreamInv'
  BY TypeInductive, LinkInductive, FrameInductive DEF StreamInv
<1>5. QED
  BY <1>3, <1>4, PTL DEF Spec

\* Whatever a dying core leaves half written, the reader starts every response at its
\* header: the buffer goes with the socket, and no socket is used twice.
THEOREM FramesInStepTheorem == Spec => []FramesInStep
<1>1. StreamInv => FramesInStep
  BY DEF StreamInv, FrameInv, FramesInStep
<1>2. QED
  BY <1>1, StreamInvariant, PTL

\* A call is handed the response to its own request, for any number of calls and cores.
THEOREM AnswerIsOwnTheorem == Spec => []AnswerIsOwn
<1>1. StreamInv => AnswerIsOwn
  BY DEF StreamInv, FrameInv
<1>2. QED
  BY <1>1, StreamInvariant, PTL

-----------------------------------------------------------------------------
(* A write comes after the swap its call relies on *)

WriteAt(i, c) == events[i].type = "write" /\ events[i].call = c

\* Link l is in use, was, or will be after n of the lambdas that are posted.
Adopted(l, n) == l <= sock \/ \E i \in 1..n : SwapAt(i, l)

(* Whoever sees a link in connected_ comes after its swap in the queue, and so does *)
(* whatever it posts.                                                               *)
OrderInv ==
    /\ Adopted(connected, Len(events))
    /\ ui.at = "store" => Adopted(ui.link, Len(events))
    /\ \A c \in Call : pc[c] \in {"register", "post"} => Adopted(saw[c], Len(events))
    /\ \A c \in Call : \A i \in 1..Len(events) : WriteAt(i, c) => Adopted(saw[c], i - 1)
    /\ \A c \in Call : pc[c] \in {"idle", "register", "post"} =>
          sentOn[c] = 0 /\ \A i \in 1..Len(events) : ~WriteAt(i, c)
    /\ WritesFollowTheSwap

LEMMA OrderTypes ==
  ASSUME TypeInv
  PROVE  /\ connected \in Nat /\ ui.link \in Nat /\ sock \in Nat
         /\ saw \in [Call -> Nat] /\ sentOn \in [Call -> Nat]
         /\ pc \in [Call -> CallPC]
BY RpcAssumption DEF TypeInv, ChannelType, ThreadType, CallType, UiAt

LEMMA AdoptedStays ==
  ASSUME UNCHANGED <<sock, events>>, NEW l, NEW n
  PROVE  Adopted(l, n)' <=> Adopted(l', n')
BY DEF Adopted, SwapAt

LEMMA AdoptedAppend ==
  ASSUME TypeInv, NEW e \in Event, events' = Append(events, e), sock' = sock,
         NEW l \in Nat, NEW n \in Nat, n <= Len(events), Adopted(l, n),
         NEW m \in Nat, n <= m
  PROVE  Adopted(l, m)'
<1>1. \A i \in 1..n : events'[i] = events[i]
  BY LinkTypes, AppendFacts
<1>2. QED
  BY <1>1 DEF Adopted, SwapAt

LEMMA AdoptedTail ==
  ASSUME TypeInv, LinkInv, events # <<>>, events' = Tail(events),
         \/ sock' = sock /\ events[1].type = "write"
         \/ events[1].type = "swap" /\ sock' = events[1].link,
         NEW l \in Nat, NEW n \in Nat, n <= Len(events), Adopted(l, n),
         NEW m \in Nat, n <= m + 1
  PROVE  Adopted(l, m)'
<1>1. /\ Len(events) \in Nat /\ Len(events) >= 1
      /\ \A i \in 1..(Len(events) - 1) : events'[i] = events[i + 1]
  BY LinkTypes, TailFacts
<1>2. sock \in Nat /\ sock' \in Nat /\ sock' >= sock
  BY <1>1, LinkTypes DEF LinkInv, SwapAt
<1>3. CASE l <= sock
  BY <1>2, <1>3 DEF Adopted
<1>4. ASSUME NEW i \in 1..n, SwapAt(i, l)
      PROVE  Adopted(l, m)'
  <2>1. CASE i = 1
    BY <1>2, <1>4, <2>1 DEF Adopted, SwapAt
  <2>2. CASE i # 1
    <3>1. i - 1 \in 1..m /\ i - 1 \in 1..(Len(events) - 1) /\ (i - 1) + 1 = i
      BY <1>1, <2>2
    <3>2. events'[i - 1] = events[i]
      BY <1>1, <3>1
    <3>3. SwapAt(i - 1, l)'
      BY <1>4, <3>2 DEF SwapAt
    <3>4. QED
      BY <3>1, <3>3 DEF Adopted
  <2>3. QED
    BY <2>1, <2>2
<1>5. QED
  BY <1>3, <1>4 DEF Adopted

(* The queue and the socket stay.  A call that goes ahead takes connected_, and      *)
(* Reconnect stores the link it has posted.                                          *)
LEMMA OrderStays ==
  ASSUME TypeInv, TypeInv', OrderInv, UNCHANGED <<sock, events, sentOn>>,
         \/ connected' = connected
         \/ connected' = 0
         \/ ui.at = "store" /\ connected' = ui.link,
         ui'.at = "store" => ui' = ui,
         \A c \in Call :
            /\ saw'[c] = saw[c] \/ (pc[c] = "idle" /\ saw'[c] = connected)
            /\ pc'[c] \in {"register", "post"} =>
                  \/ pc[c] \in {"register", "post"} /\ saw'[c] = saw[c]
                  \/ saw'[c] = connected
            /\ pc'[c] \in {"idle", "register", "post"} => pc[c] \in {"idle", "register", "post"}
  PROVE  OrderInv'
<1> DEFINE Early == {"idle", "register", "post"}
<1>1. /\ connected \in Nat /\ sock \in Nat
      /\ \A c \in Call : saw[c] \in Nat /\ sentOn[c] \in Nat
      /\ Len(events) \in Nat
  BY OrderTypes, LinkTypes
<1>2. PICK n \in Nat : n = Len(events)
  BY <1>1
<1>3. n = Len(events')
  BY <1>2
<1>4. \A l, m : Adopted(l, m) <=>
          \/ l <= sock'
          \/ \E i \in 1..m : events'[i].type = "swap" /\ events'[i].link = l
  BY DEF Adopted, SwapAt
<1>5. Adopted(connected, Len(events))'
  <2>1. Adopted(0, n)
    BY <1>1 DEF Adopted
  <2>2. Adopted(connected', n)
    BY <1>2, <2>1 DEF OrderInv
  <2>3. QED
    BY <1>3, <1>4, <2>2 DEF Adopted, SwapAt
<1>6. (ui.at = "store" => Adopted(ui.link, Len(events)))'
  <2>1. ui'.at = "store" => Adopted(ui'.link, n)
    BY <1>2 DEF OrderInv
  <2>2. QED
    BY <1>3, <1>4, <2>1 DEF Adopted, SwapAt
<1>7. (\A c \in Call : pc[c] \in {"register", "post"} => Adopted(saw[c], Len(events)))'
  <2>1. \A c \in Call : pc'[c] \in {"register", "post"} => Adopted(saw'[c], n)
    BY <1>2 DEF OrderInv
  <2>2. QED
    BY <1>3, <1>4, <2>1 DEF Adopted, SwapAt
<1>8. (\A c \in Call : \A i \in 1..Len(events) : WriteAt(i, c) => Adopted(saw[c], i - 1))'
  <2>1. ASSUME NEW c \in Call, NEW i \in 1..n, events'[i].type = "write", events'[i].call = c
        PROVE  Adopted(saw'[c], i - 1)
    <3>1. WriteAt(i, c)
      BY <2>1 DEF WriteAt
    <3>2. Adopted(saw[c], i - 1)
      BY <1>2, <3>1 DEF OrderInv
    <3>3. pc[c] # "idle"
      BY <1>2, <3>1 DEF OrderInv
    <3>4. QED
      BY <3>2, <3>3
  <2>2. QED
    BY <1>3, <1>4, <2>1 DEF Adopted, SwapAt, WriteAt
<1>9. (\A c \in Call : pc[c] \in Early =>
          sentOn[c] = 0 /\ \A i \in 1..Len(events) : ~WriteAt(i, c))'
  BY DEF OrderInv, WriteAt
<1>10. WritesFollowTheSwap'
  BY DEF OrderInv, WritesFollowTheSwap
<1>11. QED
  BY <1>5, <1>6, <1>7, <1>8, <1>9, <1>10 DEF OrderInv

(* One more lambda, posted by a call or by Reconnect. *)
LEMMA OrderPosted ==
  ASSUME TypeInv, OrderInv, (\E c \in Call : PostWrite(c)) \/ ReconnectPost
  PROVE  OrderInv'
<1>1. PICK e \in Event :
         /\ events' = Append(events, e)
         /\ \/ ReconnectPost /\ e = [type |-> "swap", link |-> ui.link]
            \/ \E c \in Call : PostWrite(c) /\ e = [type |-> "write", call |-> c]
  <2>1. CASE ReconnectPost
    <3>1. [type |-> "swap", link |-> ui.link] \in Event
      BY <2>1 DEF ReconnectPost, Event, TypeInv, UiInv
    <3>2. QED
      BY <2>1, <3>1 DEF ReconnectPost, Post
  <2>2. ASSUME NEW c \in Call, PostWrite(c)
        PROVE  \E e \in Event :
                  events' = Append(events, e) /\ PostWrite(c) /\ e = [type |-> "write", call |-> c]
    <3>1. [type |-> "write", call |-> c] \in Event
      BY DEF Event
    <3>2. QED
      BY <2>2, <3>1 DEF PostWrite, Post
  <2>3. QED
    BY <2>1, <2>2
<1>2. PICK n \in Nat : n = Len(events)
  BY LinkTypes
<1>3. n + 1 = Len(events') /\ events'[n + 1] = e /\ \A i \in 1..n : events'[i] = events[i]
  BY <1>1, <1>2, LinkTypes, AppendFacts
<1>4. UNCHANGED <<sock, connected, saw, sentOn>>
  BY <1>1 DEF PostWrite, ReconnectPost, calls
<1>5. /\ connected \in Nat /\ ui.link \in Nat
      /\ \A c \in Call : saw[c] \in Nat
      /\ pc \in [Call -> CallPC]
  BY OrderTypes
<1>6. ASSUME NEW l \in Nat, NEW k \in Nat, k <= n, Adopted(l, k), NEW m \in Nat, k <= m
      PROVE  Adopted(l, m)'
  BY <1>1, <1>2, <1>4, <1>6, AdoptedAppend
<1>7. Adopted(connected, Len(events))'
  <2>1. PICK l \in Nat : l = connected
    BY <1>5
  <2>2. Adopted(l, n + 1)'
    BY <1>2, <1>6, <2>1 DEF OrderInv
  <2>3. QED
    BY <1>3, <1>4, <2>1, <2>2 DEF Adopted
<1>8. (ui.at = "store" => Adopted(ui.link, Len(events)))'
  <2>1. CASE ReconnectPost
    <3>1. ui'.link = ui.link /\ e = [type |-> "swap", link |-> ui.link]
      BY <1>1, <2>1, AppendFacts DEF ReconnectPost, PostWrite, TypeInv, ThreadType, UiAt
    <3>2. SwapAt(n + 1, ui.link)'
      BY <1>3, <3>1 DEF SwapAt
    <3>3. QED
      BY <1>3, <3>2 DEF Adopted
  <2>2. CASE \E c \in Call : PostWrite(c)
    <3>1. ui' = ui
      BY <2>2 DEF PostWrite
    <3>2. CASE ui.at = "store"
      <4>1. PICK l \in Nat : l = ui.link
        BY <1>5
      <4>2. Adopted(l, n + 1)'
        BY <1>2, <1>6, <3>2, <4>1 DEF OrderInv
      <4>3. QED
        BY <1>3, <3>1, <4>1, <4>2 DEF Adopted
    <3>3. QED
      BY <3>1, <3>2
  <2>3. QED
    BY <2>1, <2>2
<1>9. ASSUME NEW c \in Call
      PROVE  /\ pc'[c] \in {"register", "post"} => pc[c] \in {"register", "post"}
             /\ pc'[c] \in {"idle", "register", "post"} =>
                   pc[c] \in {"idle", "register", "post"} /\ e # [type |-> "write", call |-> c]
             /\ e = [type |-> "write", call |-> c] => pc[c] = "post"
  <2>1. CASE ReconnectPost /\ e = [type |-> "swap", link |-> ui.link]
    <3>1. e # [type |-> "write", call |-> c]
      <4>1. e.type = "swap"
        BY <2>1
      <4>2. QED
        BY <4>1
    <3>2. QED
      BY <2>1, <3>1 DEF ReconnectPost, calls
  <2>2. ASSUME NEW d \in Call, PostWrite(d), e = [type |-> "write", call |-> d]
        PROVE  /\ pc'[c] \in {"register", "post"} => pc[c] \in {"register", "post"}
               /\ pc'[c] \in {"idle", "register", "post"} =>
                     pc[c] \in {"idle", "register", "post"} /\ e # [type |-> "write", call |-> c]
               /\ e = [type |-> "write", call |-> c] => pc[c] = "post"
    <3>1. CASE c = d
      BY <1>5, <2>2, <3>1 DEF PostWrite, Goto
    <3>2. CASE c # d
      <4>1. pc'[c] = pc[c]
        BY <1>5, <2>2, <3>2 DEF PostWrite, Goto
      <4>2. e # [type |-> "write", call |-> c]
        BY <2>2, <3>2
      <4>3. QED
        BY <4>1, <4>2
    <3>3. QED
      BY <3>1, <3>2
  <2>3. QED
    BY <1>1, <2>1, <2>2
<1>10. (\A c \in Call : pc[c] \in {"register", "post"} => Adopted(saw[c], Len(events)))'
  <2>1. SUFFICES ASSUME NEW c \in Call, pc'[c] \in {"register", "post"}
                 PROVE  Adopted(saw[c], Len(events))'
    OBVIOUS
  <2>2. PICK l \in Nat : l = saw[c]
    BY <1>5
  <2>3. Adopted(l, n + 1)'
    BY <1>2, <1>6, <1>9, <2>1, <2>2 DEF OrderInv
  <2>4. QED
    BY <1>3, <1>4, <2>2, <2>3 DEF Adopted
<1>11. (\A c \in Call : \A i \in 1..Len(events) : WriteAt(i, c) => Adopted(saw[c], i - 1))'
  <2>1. SUFFICES ASSUME NEW c \in Call, NEW i \in 1..(n + 1), WriteAt(i, c)'
                 PROVE  Adopted(saw[c], i - 1)'
    BY <1>3
  <2>2. PICK l \in Nat : l = saw[c]
    BY <1>5
  <2>3. CASE i \in 1..n
    <3>1. WriteAt(i, c)
      BY <1>3, <2>1, <2>3 DEF WriteAt
    <3>2. Adopted(l, i - 1) /\ i - 1 \in Nat /\ i - 1 <= n
      BY <1>2, <2>2, <2>3, <3>1 DEF OrderInv
    <3>3. Adopted(l, i - 1)'
      BY <1>6, <3>2
    <3>4. QED
      BY <1>4, <2>2, <3>3 DEF Adopted
  <2>4. CASE i = n + 1
    <3>1. e = [type |-> "write", call |-> c]
      BY <1>1, <1>3, <2>1, <2>4 DEF WriteAt
    <3>2. Adopted(l, n)
      BY <1>2, <1>9, <2>2, <3>1 DEF OrderInv
    <3>3. Adopted(l, i - 1)'
      BY <1>6, <2>4, <3>2
    <3>4. QED
      BY <1>4, <2>2, <3>3 DEF Adopted
  <2>5. QED
    BY <2>3, <2>4
<1>12. (\A c \in Call : pc[c] \in {"idle", "register", "post"} =>
            sentOn[c] = 0 /\ \A i \in 1..Len(events) : ~WriteAt(i, c))'
  <2>1. SUFFICES ASSUME NEW c \in Call, pc'[c] \in {"idle", "register", "post"}
                 PROVE  sentOn'[c] = 0 /\ \A i \in 1..(n + 1) : ~WriteAt(i, c)'
    BY <1>3
  <2>2. sentOn[c] = 0 /\ \A i \in 1..n : ~WriteAt(i, c)
    BY <1>2, <1>9, <2>1 DEF OrderInv
  <2>3. ~WriteAt(n + 1, c)'
    <3>1. e # [type |-> "write", call |-> c]
      BY <1>9, <2>1
    <3>2. QED
      BY <1>1, <1>3, <3>1 DEF WriteAt
  <2>4. \A i \in 1..n : ~WriteAt(i, c)'
    BY <1>3, <2>2 DEF WriteAt
  <2>5. QED
    BY <1>4, <2>2, <2>3, <2>4
<1>13. WritesFollowTheSwap'
  BY <1>4 DEF OrderInv, WritesFollowTheSwap
<1>14. QED
  BY <1>7, <1>8, <1>10, <1>11, <1>12, <1>13 DEF OrderInv

(* The io thread takes the oldest lambda: what was behind n lambdas is behind n - 1. *)
LEMMA OrderTaken ==
  ASSUME TypeInv, LinkInv, OrderInv, IoWrite \/ IoSwap
  PROVE  OrderInv'
<1>1. /\ events # <<>> /\ events' = Tail(events)
      /\ UNCHANGED <<connected, ui, pc, saw>>
      /\ \/ IoWrite /\ Head(events).type = "write" /\ sock' = sock
         \/ IoSwap /\ Head(events).type = "swap" /\ sock' = Head(events).link
  BY DEF IoWrite, IoSwap, calls
<1>2. PICK n \in Nat : n + 1 = Len(events)
  <2>1. Len(events) \in Nat /\ Len(events) >= 1
    BY <1>1, LinkTypes, TailFacts
  <2>2. Len(events) - 1 \in Nat /\ (Len(events) - 1) + 1 = Len(events)
    BY <2>1
  <2>3. QED
    BY <2>2
<1>3. /\ Head(events) = events[1]
      /\ Len(events') = n
      /\ \A i \in 1..n : events'[i] = events[i + 1]
  BY <1>1, <1>2, LinkTypes, TailFacts
<1>4. /\ connected \in Nat /\ ui.link \in Nat
      /\ sock \in Nat /\ saw \in [Call -> Nat] /\ sentOn \in [Call -> Nat]
  BY OrderTypes
<1>5. ASSUME NEW l \in Nat, NEW k \in Nat, k <= n + 1, Adopted(l, k), NEW m \in Nat, k <= m + 1
      PROVE  Adopted(l, m)'
  BY <1>1, <1>2, <1>3, <1>5, AdoptedTail
<1>6. Adopted(connected, Len(events))'
  <2>1. PICK l \in Nat : l = connected
    BY <1>4
  <2>2. Adopted(l, n)'
    BY <1>2, <1>5, <2>1 DEF OrderInv
  <2>3. QED
    BY <1>1, <1>3, <2>1, <2>2 DEF Adopted
<1>7. (ui.at = "store" => Adopted(ui.link, Len(events)))'
  <2>1. SUFFICES ASSUME ui.at = "store"
                 PROVE  Adopted(ui.link, Len(events))'
    BY <1>1
  <2>2. PICK l \in Nat : l = ui.link
    BY <1>4
  <2>3. Adopted(l, n)'
    BY <1>2, <1>5, <2>1, <2>2 DEF OrderInv
  <2>4. QED
    BY <1>1, <1>3, <2>2, <2>3 DEF Adopted
<1>8. (\A c \in Call : pc[c] \in {"register", "post"} => Adopted(saw[c], Len(events)))'
  <2>1. SUFFICES ASSUME NEW c \in Call, pc[c] \in {"register", "post"}
                 PROVE  Adopted(saw[c], Len(events))'
    BY <1>1
  <2>2. PICK l \in Nat : l = saw[c]
    BY <1>4
  <2>3. Adopted(l, n)'
    BY <1>2, <1>5, <2>1, <2>2 DEF OrderInv
  <2>4. QED
    BY <1>1, <1>3, <2>2, <2>3 DEF Adopted
<1>9. (\A c \in Call : \A i \in 1..Len(events) : WriteAt(i, c) => Adopted(saw[c], i - 1))'
  <2>1. SUFFICES ASSUME NEW c \in Call, NEW i \in 1..n, WriteAt(i, c)'
                 PROVE  Adopted(saw[c], i - 1)'
    BY <1>3
  <2>2. PICK l \in Nat : l = saw[c]
    BY <1>4
  <2>3. WriteAt(i + 1, c) /\ i + 1 \in 1..(n + 1)
    BY <1>3, <2>1 DEF WriteAt
  <2>4. Adopted(l, i)
    BY <1>2, <2>2, <2>3 DEF OrderInv
  <2>5. Adopted(l, i - 1)'
    BY <1>5, <2>4
  <2>6. QED
    BY <1>1, <2>2, <2>5 DEF Adopted
<1>10. ASSUME NEW c \in Call
       PROVE  \/ sentOn'[c] = sentOn[c] /\ sock' >= sock
              \/ WriteAt(1, c) /\ sentOn'[c] = sock
  <2>1. CASE IoWrite /\ Head(events).type = "write" /\ sock' = sock
    <3>1. sentOn' = [sentOn EXCEPT ![Head(events).call] = sock]
      BY <2>1 DEF IoWrite
    <3>2. QED
      BY <1>3, <1>4, <2>1, <3>1 DEF WriteAt
  <2>2. CASE IoSwap /\ Head(events).type = "swap" /\ sock' = Head(events).link
    <3>1. sentOn' = sentOn
      BY <2>2 DEF IoSwap, calls
    <3>2. sock' >= sock
      BY <1>2, <1>3, <2>2, LinkTypes DEF LinkInv, SwapAt
    <3>3. QED
      BY <3>1, <3>2
  <2>3. QED
    BY <1>1, <2>1, <2>2
<1>11. (\A c \in Call : pc[c] \in {"idle", "register", "post"} =>
            sentOn[c] = 0 /\ \A i \in 1..Len(events) : ~WriteAt(i, c))'
  <2>1. SUFFICES ASSUME NEW c \in Call, pc[c] \in {"idle", "register", "post"}
                 PROVE  sentOn'[c] = 0 /\ \A i \in 1..n : ~WriteAt(i, c)'
    BY <1>1, <1>3
  <2>2. sentOn[c] = 0 /\ \A i \in 1..(n + 1) : ~WriteAt(i, c)
    BY <1>2, <2>1 DEF OrderInv
  <2>3. \A i \in 1..n : ~WriteAt(i, c)'
    <3>1. SUFFICES ASSUME NEW i \in 1..n
                   PROVE  ~WriteAt(i, c)'
      OBVIOUS
    <3>2. ~WriteAt(i + 1, c) /\ events'[i] = events[i + 1]
      BY <1>3, <2>2
    <3>3. QED
      BY <3>2 DEF WriteAt
  <2>4. QED
    BY <1>10, <2>2, <2>3
<1>12. WritesFollowTheSwap'
  <2>1. SUFFICES ASSUME NEW c \in Call, sentOn'[c] # 0
                 PROVE  sentOn'[c] >= saw[c]
    BY <1>1 DEF WritesFollowTheSwap
  <2>2. CASE sentOn'[c] = sentOn[c]
    BY <2>1, <2>2 DEF OrderInv, WritesFollowTheSwap
  <2>3. CASE WriteAt(1, c) /\ sentOn'[c] = sock
    <3>1. Adopted(saw[c], 1 - 1)
      BY <1>2, <2>3 DEF OrderInv
    <3>2. saw[c] <= sock
      BY <3>1 DEF Adopted
    <3>3. QED
      BY <1>4, <2>3, <3>2
  <2>4. QED
    BY <1>10, <2>2, <2>3
<1>13. QED
  BY <1>6, <1>7, <1>8, <1>9, <1>11, <1>12 DEF OrderInv

LEMMA OrderInductive == TypeInv /\ LinkInv /\ OrderInv /\ [Next]_vars => OrderInv'
<1> SUFFICES ASSUME TypeInv, LinkInv, OrderInv, [Next]_vars
             PROVE  OrderInv'
  OBVIOUS
<1>1. TypeInv'
  BY TypeInductive
<1>2. pc \in [Call -> CallPC] /\ saw \in [Call -> Nat] /\ ui \in UiAt
  BY OrderTypes DEF TypeInv, ThreadType
<1>3. ASSUME NEW d \in Call, CallStep(d), ~PostWrite(d)
      PROVE  OrderInv'
  <2>1. UNCHANGED <<sock, events, sentOn, connected, ui>>
    BY <1>3 DEF CallStep, CallRefused, CallGoesAhead, Register, Woken, Timeout, Reclaimed,
                Claimed, SecondTimeout, gui
  <2>2. ASSUME NEW c \in Call
        PROVE  /\ saw'[c] = saw[c] \/ (pc[c] = "idle" /\ saw'[c] = connected)
               /\ pc'[c] \in {"register", "post"} =>
                     \/ pc[c] \in {"register", "post"} /\ saw'[c] = saw[c]
                     \/ saw'[c] = connected
               /\ pc'[c] \in {"idle", "register", "post"} =>
                     pc[c] \in {"idle", "register", "post"}
    <3>1. CASE CallGoesAhead(d)
      <4>1. pc[d] = "idle" /\ pc'[d] = "register" /\ saw'[d] = connected
        BY <1>2, <3>1 DEF CallGoesAhead, Goto
      <4>2. c # d => pc'[c] = pc[c] /\ saw'[c] = saw[c]
        BY <1>2, <3>1 DEF CallGoesAhead, Goto
      <4>3. pc[c] \in CallPC
        BY <1>2
      <4>4. QED
        BY <4>1, <4>2, <4>3
    <3>2. CASE Register(d)
      <4>1. saw' = saw /\ pc[d] = "register" /\ pc'[d] = "post"
        BY <1>2, <3>2 DEF Register, Goto
      <4>2. c # d => pc'[c] = pc[c]
        BY <1>2, <3>2 DEF Register, Goto
      <4>3. QED
        BY <4>1, <4>2
    <3>3. CASE ~CallGoesAhead(d) /\ ~Register(d)
      <4>1. saw' = saw
        BY <1>3, <3>3 DEF CallStep, CallRefused, Woken, Timeout, Reclaimed, Claimed,
                          SecondTimeout
      <4>2. \E where \in {"wait", "reclaim", "second", "returned"} :
                pc' = [pc EXCEPT ![d] = where]
        BY <1>3, <3>3 DEF CallStep, CallRefused, Woken, Timeout, Reclaimed, Claimed,
                          SecondTimeout, Goto, Return
      <4>3. pc'[c] = pc[c] \/ pc'[c] \in {"wait", "reclaim", "second", "returned"}
        BY <1>2, <4>2
      <4>4. QED
        BY <4>1, <4>3
    <3>4. QED
      BY <3>1, <3>2, <3>3
  <2>3. QED
    BY <1>1, <2>1, <2>2, OrderStays
<1>4. ASSUME UNCHANGED <<sock, events, sentOn, pc, saw>>,
             \/ connected' = connected
             \/ connected' = 0
             \/ ui.at = "store" /\ connected' = ui.link,
             ui'.at = "store" => ui' = ui
      PROVE  OrderInv'
  <2>1. \A c \in Call :
            /\ saw'[c] = saw[c] \/ (pc[c] = "idle" /\ saw'[c] = connected)
            /\ pc'[c] \in {"register", "post"} =>
                  \/ pc[c] \in {"register", "post"} /\ saw'[c] = saw[c]
                  \/ saw'[c] = connected
            /\ pc'[c] \in {"idle", "register", "post"} => pc[c] \in {"idle", "register", "post"}
    BY <1>4
  <2>2. QED
    BY <1>1, <1>4, <2>1, OrderStays
<1>5. CASE \E c \in Call : PostWrite(c)
  BY <1>5, OrderPosted
<1>6. CASE ReconnectPost
  BY <1>6, OrderPosted
<1>7. CASE IoWrite \/ IoSwap
  BY <1>7, OrderTaken
<1>8. CASE \E l \in Link : NewCore(l)
  BY <1>4, <1>8 DEF NewCore, calls
<1>9. CASE \E l \in Link : CoreStep(l) \/ CoreDies(l)
  BY <1>4, <1>9 DEF CoreStep, WriteHead, WriteTail, CoreDies, gui, calls
<1>10. CASE ReconnectWake
  <2>1. ui'.at # "store"
    BY <1>2, <1>10 DEF ReconnectWake, UiAt
  <2>2. QED
    BY <1>4, <1>10, <2>1 DEF ReconnectWake
<1>11. CASE ReconnectStore
  BY <1>4, <1>11 DEF ReconnectStore, calls
<1>12. CASE IoRead \/ IoDeliver \/ IoDisconnected \/ IoWake
  BY <1>4, <1>12 DEF IoRead, IoDeliver, IoDisconnected, IoWake, calls
<1>13. CASE UNCHANGED vars
  BY <1>4, <1>13 DEF vars, gui, calls
<1>14. QED
  BY <1>3, <1>5, <1>6, <1>7, <1>8, <1>9, <1>10, <1>11, <1>12, <1>13
     DEF Next, ReconnectStep, IoStep

\* "A write that arrives after Reconnect always targets the new socket": for any number
\* of calls and cores, no call goes out on a link older than the one it was let through by.
THEOREM WritesFollowTheSwapTheorem == Spec => []WritesFollowTheSwap
<1>1. Init => OrderInv
  BY DEF Init, OrderInv, Adopted, SwapAt, WriteAt, WritesFollowTheSwap
<1>2. Init => StreamInv
  BY TypeInitially, RpcAssumption
     DEF StreamInv, Init, LinkInv, FrameInv, Framed, Chained, Mid, Loop, AnswerIsOwn, Link
<1>3. TypeInv /\ LinkInv /\ OrderInv /\ [Next]_vars => (TypeInv /\ LinkInv /\ OrderInv)'
  BY TypeInductive, LinkInductive, OrderInductive
<1>4. Init => TypeInv /\ LinkInv /\ OrderInv
  BY <1>1, <1>2 DEF StreamInv
<1>5. OrderInv => WritesFollowTheSwap
  BY DEF OrderInv
<1>6. QED
  BY <1>3, <1>4, <1>5, PTL DEF Spec
=============================================================================
