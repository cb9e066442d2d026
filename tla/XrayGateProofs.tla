--------------------------- MODULE XrayGateProofs ---------------------------
(* Proofs about XrayGate, for every set of connections and instances. *)
EXTENDS XrayGate, FiniteSetTheorems, TLAPS

LEMMA CountedFinite == IsFiniteSet(Counted)
  BY GateAssumption, FS_Subset, Counted \in SUBSET Conn DEF Counted

LEMMA TypeInitially == Init => TypeOK
<1> USE GateAssumption DEF TypeOK, HandlerPC
<1> SUFFICES ASSUME Init PROVE TypeOK
  OBVIOUS
<1> USE DEF Init
<1>1. /\ instance \in Instance \cup {NoInst}
      /\ swept \in Instance \cup {NoInst}
      /\ taken \in Instance \cup {NoInst}
  OBVIOUS
<1>2. idle \in BOOLEAN /\ closed \in BOOLEAN /\ connsNil \in BOOLEAN /\ fresh \in BOOLEAN
  OBVIOUS
<1>3. /\ active \in Nat
      /\ sweeper \in {"wait", "age", "take", "close", "stopped"}
      /\ closer \in {"idle", "signal", "drop", "conns", "instance", "done"}
  OBVIOUS
<1>4. /\ conns \subseteq Sock /\ snapshot \subseteq Sock /\ late \subseteq Conn
  OBVIOUS
<1>5. /\ inst \in [Instance -> {"unused", "live", "closed"}]
      /\ sock \in [Sock -> {"none", "open", "closed"}]
  OBVIOUS
<1>6. /\ target \in [Conn -> Instance \cup {NoInst}]
      /\ ended \in [Conn -> SUBSET Direction]
      /\ pc \in [Conn -> HandlerPC]
  OBVIOUS
<1>7. QED
  BY <1>1, <1>2, <1>3, <1>4, <1>5, <1>6

\* active stays a natural number because it counts: a handler that decrements it
\* is one of those it counts.
LEMMA TypeInductive == TypeOK /\ ActiveIsExact /\ [Next]_vars => TypeOK'
<1> USE GateAssumption DEF TypeOK, HandlerPC, Sock, Side, Direction, Client, Upstream
<1> SUFFICES ASSUME TypeOK, ActiveIsExact, [Next]_vars
             PROVE  TypeOK'
  OBVIOUS
<1> USE DEF gateVars, handlerVars, sweepVars, closeVars
<1>1. ASSUME NEW c \in Conn, Accept(c)
      PROVE  TypeOK'
  BY <1>1 DEF Accept
<1>2. ASSUME NEW c \in Conn, TrackClient(c)
      PROVE  TypeOK'
  BY <1>2 DEF TrackClient, TrackOr
<1>3. ASSUME NEW c \in Conn, Count(c)
      PROVE  TypeOK'
  BY <1>3 DEF Count
<1>4. ASSUME NEW c \in Conn, Touch(c)
      PROVE  TypeOK'
  BY <1>4 DEF Touch
<1>5. ASSUME NEW c \in Conn, EnsureRefused(c) \/ EnsureExisting(c)
      PROVE  TypeOK'
  BY <1>5 DEF EnsureRefused, EnsureExisting
<1>6. ASSUME NEW c \in Conn, EnsureCreated(c)
      PROVE  TypeOK'
  BY <1>6 DEF EnsureCreated
<1>7. ASSUME NEW c \in Conn, DialOk(c)
      PROVE  TypeOK'
  BY <1>7 DEF DialOk
<1>8. ASSUME NEW c \in Conn, DialFailed(c)
      PROVE  TypeOK'
  BY <1>8 DEF DialFailed
<1>9. ASSUME NEW c \in Conn, TrackUpstream(c)
      PROVE  TypeOK'
  BY <1>9 DEF TrackUpstream, TrackOr
<1>10. ASSUME NEW c \in Conn, NEW d \in Direction, RelayEnd(c, d)
       PROVE  TypeOK'
  BY <1>10 DEF RelayEnd
<1>11. ASSUME NEW c \in Conn, ForgetUpstream(c) \/ ForgetClient(c)
       PROVE  TypeOK'
  <2>1. CASE ForgetUpstream(c)
    BY <2>1 DEF ForgetUpstream
  <2>2. CASE ForgetClient(c)
    BY <2>2 DEF ForgetClient
  <2>3. QED
    BY <1>11, <2>1, <2>2
<1>12. ASSUME NEW c \in Conn, ShutUpstream(c) \/ ShutClient(c)
       PROVE  TypeOK'
  <2>1. CASE ShutUpstream(c)
    BY <2>1 DEF ShutUpstream
  <2>2. CASE ShutClient(c)
    BY <2>2 DEF ShutClient
  <2>3. QED
    BY <1>12, <2>1, <2>2
<1>13. ASSUME NEW c \in Conn, Uncount(c)
       PROVE  TypeOK'
  <2>1. c \in Counted
    BY <1>13 DEF Uncount, Counted, Counting
  <2>2. active # 0
    BY <2>1, CountedFinite, FS_EmptySet DEF ActiveIsExact
  <2>3. QED
    BY <1>13, <2>2 DEF Uncount
<1>14. CASE SweepActive \/ SweepAge \/ SweepTake \/ SweepStop
  <2>1. CASE SweepActive
    BY <2>1 DEF SweepActive
  <2>2. CASE SweepAge
    BY <2>2 DEF SweepAge
  <2>3. CASE SweepTake
    BY <2>3 DEF SweepTake
  <2>4. CASE SweepStop
    BY <2>4 DEF SweepStop
  <2>5. QED
    BY <1>14, <2>1, <2>2, <2>3, <2>4
<1>15. CASE SweepClose
  BY <1>15 DEF SweepClose
<1>16. CASE WindowPasses
  <2>1. fresh' \in BOOLEAN
    BY <1>16, Zenon DEF WindowPasses
  <2>2. UNCHANGED <<idle, instance, closed, conns, connsNil, active, inst, sock,
                    handlerVars, sweepVars, late, closeVars>>
    BY <1>16, Zenon DEF WindowPasses
  <2>3. QED
    BY <2>1, <2>2
<1>17. CASE CloseBegin \/ CloseSignal \/ CloseDropTable \/ CloseConnsEnd
  <2>1. CASE CloseBegin
    BY <2>1 DEF CloseBegin
  <2>2. CASE CloseSignal
    BY <2>2 DEF CloseSignal
  <2>3. CASE CloseDropTable
    BY <2>3 DEF CloseDropTable
  <2>4. CASE CloseConnsEnd
    BY <2>4 DEF CloseConnsEnd
  <2>5. QED
    BY <1>17, <2>1, <2>2, <2>3, <2>4
<1>18. CASE CloseConn
  BY <1>18 DEF CloseConn
<1>19. CASE CloseInstance
  BY <1>19 DEF CloseInstance
<1>20. CASE UNCHANGED vars
  BY <1>20 DEF vars
<1>21. QED
  BY <1>1, <1>2, <1>3, <1>4, <1>5, <1>6, <1>7, <1>8, <1>9, <1>10, <1>11,
     <1>12, <1>13, <1>14, <1>15, <1>16, <1>17, <1>18, <1>19, <1>20 DEF Next

-----------------------------------------------------------------------------
(* The window of a sweep *)

\* From the load of active to the end of the sweep, every counted handler is a
\* late one: none was counted when active was read.
WindowInv ==
    /\ ActiveIsExact
    /\ sweeper \in {"age", "take", "close"} => idle /\ Counted \subseteq late

LEMMA WindowInductive == TypeOK /\ WindowInv /\ [Next]_vars => WindowInv'
<1> SUFFICES ASSUME TypeOK, WindowInv, [Next]_vars
             PROVE  WindowInv'
  OBVIOUS
<1> USE DEF WindowInv, ActiveIsExact
<1>1. ASSUME NEW c \in Conn, Count(c)
      PROVE  WindowInv'
  <2>1. Counted' = Counted \cup {c} /\ c \notin Counted
    BY <1>1 DEF Count, Counted, Counting, TypeOK
  <2>2. Cardinality(Counted') = Cardinality(Counted) + 1
    BY <2>1, CountedFinite, FS_AddElement
  <2>3. QED
    BY <1>1, <2>1, <2>2 DEF Count, sweepVars
<1>2. ASSUME NEW c \in Conn, Uncount(c)
      PROVE  WindowInv'
  <2>1. Counted' = Counted \ {c} /\ c \in Counted
    BY <1>2 DEF Uncount, Counted, Counting, TypeOK
  <2>2. Cardinality(Counted') = Cardinality(Counted) - 1
    BY <2>1, CountedFinite, FS_RemoveElement
  <2>3. QED
    BY <1>2, <2>1, <2>2 DEF Uncount, sweepVars
<1>3. CASE SweepActive
  <2>1. Counted' = Counted
    BY <1>3 DEF SweepActive, Counted, handlerVars
  <2>2. Cardinality(Counted) = 0
    BY <1>3, CountedFinite, FS_CardinalityType DEF SweepActive
  <2>3. Counted = {}
    BY <2>2, CountedFinite, FS_EmptySet
  <2>4. QED
    BY <1>3, <2>1, <2>3 DEF SweepActive, gateVars
<1>4. ASSUME Counted' = Counted, active' = active, late' = late, idle' = idle,
             sweeper' \in {"age", "take", "close"} =>
                 sweeper \in {"age", "take", "close"}
      PROVE  WindowInv'
  BY <1>4
<1>5. CASE SweepAge \/ SweepTake \/ SweepClose \/ SweepStop
  BY <1>4, <1>5 DEF SweepAge, SweepTake, SweepClose, SweepStop, gateVars, handlerVars,
     Counted
<1>6. CASE \/ WindowPasses \/ CloseBegin \/ CloseSignal \/ CloseDropTable
           \/ CloseConn \/ CloseConnsEnd \/ CloseInstance
  BY <1>4, <1>6 DEF WindowPasses, CloseBegin, CloseSignal, CloseDropTable, CloseConn,
     CloseConnsEnd, CloseInstance, gateVars, handlerVars, sweepVars, Counted
<1>7. ASSUME NEW c \in Conn,
             \/ Accept(c) \/ TrackClient(c) \/ Touch(c)
             \/ EnsureRefused(c) \/ EnsureExisting(c) \/ EnsureCreated(c)
             \/ DialOk(c) \/ DialFailed(c) \/ TrackUpstream(c)
             \/ \E d \in Direction : RelayEnd(c, d)
             \/ ForgetUpstream(c) \/ ShutUpstream(c) \/ ForgetClient(c) \/ ShutClient(c)
      PROVE  WindowInv'
  <2>1. active' = active /\ late' = late /\ sweeper' = sweeper /\ idle' = idle
    BY <1>7 DEF Accept, TrackClient, Touch, EnsureRefused, EnsureExisting, EnsureCreated,
       DialOk, DialFailed, TrackUpstream, RelayEnd, ForgetUpstream, ShutUpstream,
       ForgetClient, ShutClient, gateVars, sweepVars
  <2>2. \/ pc' = pc
        \/ \E q \in HandlerPC : /\ pc' = [pc EXCEPT ![c] = q]
                                /\ q \in Counting <=> pc[c] \in Counting
    BY <1>7 DEF Accept, TrackClient, TrackOr, Touch, EnsureRefused, EnsureExisting,
       EnsureCreated, DialOk, DialFailed, TrackUpstream, RelayEnd, ForgetUpstream,
       ShutUpstream, ForgetClient, ShutClient, HandlerPC, Counting
  <2>3. Counted' = Counted
    BY <2>2 DEF Counted, TypeOK
  <2>4. QED
    BY <1>4, <2>1, <2>3
<1>8. CASE UNCHANGED vars
  BY <1>4, <1>8 DEF vars, gateVars, handlerVars, sweepVars, Counted
<1>9. QED
  BY <1>1, <1>2, <1>3, <1>5, <1>6, <1>7, <1>8 DEF Next

LEMMA WindowInitially == Init => WindowInv
<1> SUFFICES ASSUME Init PROVE WindowInv
  OBVIOUS
<1>1. Counted = {}
  BY DEF Init, Counted, Counting
<1>2. QED
  BY <1>1, FS_EmptySet DEF Init, WindowInv, ActiveIsExact

LEMMA WindowExact == WindowInv => ActiveIsExact
  BY DEF WindowInv

\* The state of the gate and of its handlers stays typed, for any number of
\* connections: active never goes below zero, because it is exact.
THEOREM TypeCorrect == Spec => []TypeOK
  BY TypeInitially, TypeInductive, WindowInitially, WindowInductive, WindowExact, PTL
     DEF Spec

\* active is exactly the number of handlers between their Add(1) and their Add(-1),
\* for any number of connections: an early return of handle() loses no count.
THEOREM ActiveIsExactTheorem == Spec => []ActiveIsExact
  BY TypeInitially, TypeInductive, WindowInitially, WindowInductive, WindowExact, PTL
     DEF Spec

-----------------------------------------------------------------------------
(* One owner per live instance *)

\* OneOwner with what makes it inductive: sweep() and Close() hold an instance
\* only between taking and closing it, and Close() begins once.
OwnerInv ==
    /\ OneOwner
    /\ sweeper = "close" <=> swept # NoInst
    /\ closer = "idle" <=> ~closed
    /\ closer \in {"idle", "done"} => taken = NoInst

LEMMA OwnerInductive == TypeOK /\ OwnerInv /\ [Next]_vars => OwnerInv'
<1> SUFFICES ASSUME TypeOK, OwnerInv, [Next]_vars
             PROVE  OwnerInv'
  OBVIOUS
<1> USE GateAssumption DEF TypeOK, OwnerInv, OneOwner, Held, Live, gateVars,
        handlerVars, sweepVars, closeVars
<1>1. ASSUME NEW c \in Conn, EnsureCreated(c)
      PROVE  OwnerInv'
  BY <1>1 DEF EnsureCreated
<1>2. CASE SweepTake
  BY <1>2 DEF SweepTake
<1>3. CASE SweepClose
  BY <1>3 DEF SweepClose
<1>4. CASE SweepActive \/ SweepAge \/ SweepStop \/ WindowPasses
  BY <1>4 DEF SweepActive, SweepAge, SweepStop, WindowPasses
<1>5. CASE CloseBegin
  BY <1>5 DEF CloseBegin
<1>6. CASE CloseInstance
  BY <1>6 DEF CloseInstance
<1>7. CASE CloseSignal \/ CloseDropTable \/ CloseConn \/ CloseConnsEnd
  BY <1>7 DEF CloseSignal, CloseDropTable, CloseConn, CloseConnsEnd
<1>8. ASSUME UNCHANGED <<instance, closed, inst, sweepVars, closer, taken>>
      PROVE  OwnerInv'
  BY <1>8
<1>9. ASSUME NEW c \in Conn,
             \/ Accept(c) \/ TrackClient(c) \/ Count(c) \/ Touch(c)
             \/ EnsureRefused(c) \/ EnsureExisting(c) \/ DialOk(c) \/ DialFailed(c)
             \/ TrackUpstream(c) \/ \E d \in Direction : RelayEnd(c, d)
             \/ ForgetUpstream(c) \/ ShutUpstream(c) \/ Uncount(c)
             \/ ForgetClient(c) \/ ShutClient(c)
      PROVE  OwnerInv'
  BY <1>8, <1>9 DEF Accept, TrackClient, Count, Touch, EnsureRefused, EnsureExisting,
     DialOk, DialFailed, TrackUpstream, RelayEnd, ForgetUpstream, ShutUpstream,
     Uncount, ForgetClient, ShutClient
<1>10. CASE UNCHANGED vars
  BY <1>8, <1>10 DEF vars
<1>11. QED
  BY <1>1, <1>2, <1>3, <1>4, <1>5, <1>6, <1>7, <1>9, <1>10 DEF Next

\* OneOwner holds for every set of connections and instances: however handlers,
\* sweep() and Close() interleave, no Xray instance leaks and none is closed twice.
THEOREM OneOwnerTheorem == Spec => []OneOwner
<1>1. Init => OwnerInv
  BY GateAssumption DEF Init, OwnerInv, OneOwner, Held, Live
<1>2. OwnerInv => OneOwner
  BY DEF OwnerInv
<1>3. QED
  BY <1>1, <1>2, OwnerInductive, TypeCorrect, PTL DEF Spec
-----------------------------------------------------------------------------
(* What a sweep may cut *)

\* Until Close(), only connections counted after the sweeper's look at active can
\* lose their instance, and none can when the gate has no idle window.
THEOREM CutOnlyInsideSweepWindowTheorem == Spec => CutOnlyInsideSweepWindow
<1>1. TypeOK /\ WindowInv /\ OwnerInv /\ [Next]_vars => [CutsOnlyLate]_vars
  <2> SUFFICES ASSUME TypeOK, WindowInv, OwnerInv, Next,
                      NEW c \in Conn, Relaying(c), inst'[target[c]] = "closed", ~closed
               PROVE  idle /\ c \in late
    BY DEF CutsOnlyLate
  <2>1. c \in Counted
    BY DEF Relaying, Counted, Counting
  <2>2. inst' # inst
    BY DEF Relaying
  <2>3. CASE SweepClose
    BY <2>1, <2>3 DEF SweepClose, WindowInv
  <2>4. CASE CloseInstance
    BY <2>4 DEF CloseInstance, OwnerInv
  <2>5. ASSUME NEW e \in Conn, EnsureCreated(e)
        PROVE  FALSE
    BY <2>5 DEF EnsureCreated, Relaying, TypeOK
  <2>6. QED
    BY <2>2, <2>3, <2>4, <2>5 DEF Next, Accept, TrackClient, Count, Touch, EnsureRefused,
       EnsureExisting, DialOk, DialFailed, TrackUpstream, RelayEnd, ForgetUpstream,
       ShutUpstream, Uncount, ForgetClient, ShutClient, SweepActive, SweepAge, SweepTake,
       SweepStop, WindowPasses, CloseBegin, CloseSignal, CloseDropTable, CloseConn,
       CloseConnsEnd
<1>2. Init => OwnerInv
  BY GateAssumption DEF Init, OwnerInv, OneOwner, Held, Live
<1>3. QED
  BY <1>1, <1>2, WindowInitially, WindowInductive, OwnerInductive, TypeCorrect, PTL
     DEF Spec, CutOnlyInsideSweepWindow
-----------------------------------------------------------------------------
(* No connection survives Close() *)

\* An open socket is in the table, in the snapshot Close() works through, or in
\* the hands of a handler that has not asked track() yet or is about to close it.
SocketInv ==
    /\ connsNil <=> closer \in {"conns", "instance", "done"}
    /\ connsNil => conns = {}
    /\ closer # "conns" => snapshot = {}
    /\ \A c \in Conn :
          /\ sock[Client(c)] = "open" =>
                 pc[c] \in {"accepted", "shutClient"} \/ Client(c) \in conns \cup snapshot
          /\ sock[Upstream(c)] = "open" =>
                 pc[c] \in {"dialed", "shutUpstream"} \/ Upstream(c) \in conns \cup snapshot

LEMMA SocketInductive == TypeOK /\ SocketInv /\ [Next]_vars => SocketInv'
<1> SUFFICES ASSUME TypeOK, SocketInv, [Next]_vars
             PROVE  SocketInv'
  OBVIOUS
<1> USE DEF TypeOK, SocketInv, Sock, Side, Client, Upstream, gateVars, handlerVars,
        sweepVars, closeVars
<1>1. ASSUME NEW c \in Conn, Accept(c) \/ DialOk(c)
      PROVE  SocketInv'
  BY <1>1 DEF Accept, DialOk, Accepting
<1>2. ASSUME NEW c \in Conn, TrackClient(c) \/ TrackUpstream(c)
      PROVE  SocketInv'
  BY <1>2 DEF TrackClient, TrackUpstream, TrackOr
<1>3. ASSUME NEW c \in Conn,
             \/ Count(c) \/ Touch(c) \/ Uncount(c) \/ DialFailed(c)
             \/ EnsureRefused(c) \/ EnsureExisting(c) \/ EnsureCreated(c)
      PROVE  SocketInv'
  BY <1>3 DEF Count, Touch, Uncount, DialFailed, EnsureRefused, EnsureExisting,
     EnsureCreated
<1>4. ASSUME NEW c \in Conn, NEW d \in Direction, RelayEnd(c, d)
      PROVE  SocketInv'
  BY <1>4 DEF RelayEnd
<1>5. ASSUME NEW c \in Conn, ForgetUpstream(c) \/ ForgetClient(c)
      PROVE  SocketInv'
  BY <1>5 DEF ForgetUpstream, ForgetClient
<1>6. ASSUME NEW c \in Conn, ShutUpstream(c) \/ ShutClient(c)
      PROVE  SocketInv'
  BY <1>6 DEF ShutUpstream, ShutClient
<1>7. CASE SweepActive \/ SweepAge \/ SweepTake \/ SweepClose \/ SweepStop \/ WindowPasses
  BY <1>7 DEF SweepActive, SweepAge, SweepTake, SweepClose, SweepStop, WindowPasses
<1>8. CASE CloseBegin \/ CloseSignal \/ CloseDropTable \/ CloseConnsEnd \/ CloseInstance
  BY <1>8 DEF CloseBegin, CloseSignal, CloseDropTable, CloseConnsEnd, CloseInstance
<1>9. CASE CloseConn
  BY <1>9 DEF CloseConn
<1>10. CASE UNCHANGED vars
  BY <1>10 DEF vars
<1>11. QED
  BY <1>1, <1>2, <1>3, <1>4, <1>5, <1>6, <1>7, <1>8, <1>9, <1>10 DEF Next

\* Close() leaves no relayed connection behind, whatever each handler was doing.
THEOREM NothingRelayedAfterCloseTheorem == Spec => []NothingRelayedAfterClose
<1>1. Init => SocketInv
  BY DEF Init, SocketInv, Sock, Side, Client, Upstream
<1>2. SocketInv => NothingRelayedAfterClose
  BY DEF SocketInv, NothingRelayedAfterClose
<1>3. QED
  BY <1>1, <1>2, SocketInductive, TypeCorrect, PTL DEF Spec
=============================================================================
