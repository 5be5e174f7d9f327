------------------------- MODULE SessionStatsProofs -------------------------
(***************************************************************************)
(* Theorems about the lifecycle counters of SessionManager: what they owe  *)
(* the registry is exactly the work that is still under way.               *)
(***************************************************************************)
EXTENDS SessionManagerProofs, FiniteSetTheorems

\* Registered but not yet added to established, or to active.
Unestablished == {s \in Attempt : pc[s] = "established"}
Inactive      == {s \in Attempt : pc[s] \in {"established", "activeUp"}}

\* Removed but not yet added to closed, or not yet taken from active.
Unclosed == {s \in Attempt : life[s] \in {"drained", "closing"}}
Ending   == {s \in Attempt : life[s] \in {"drained", "closing", "counting"}}

sets == <<by_id, Unestablished, Inactive, Unclosed, Ending>>

LEMMA SetsFinite ==
  ASSUME TypeOK
  PROVE  /\ IsFiniteSet(by_id)
         /\ IsFiniteSet(Unestablished) /\ IsFiniteSet(Inactive)
         /\ IsFiniteSet(Unclosed) /\ IsFiniteSet(Ending)
BY AttemptsFinite, FS_Subset DEF TypeOK, Unestablished, Inactive, Unclosed, Ending

\* A removal: out of the table, into the removals under way.
Removal(s) ==
  /\ s \in by_id /\ by_id' = by_id \ {s}
  /\ s \notin Unclosed /\ Unclosed' = Unclosed \cup {s}
  /\ s \notin Ending /\ Ending' = Ending \cup {s}
  /\ Unestablished' = Unestablished /\ Inactive' = Inactive
  /\ UNCHANGED stats

LEMMA StartDisconnectRemoves ==
  ASSUME RegistryInv, NEW s \in Attempt, StartDisconnect(s), UNCHANGED stats,
         \A r \in Attempt : \/ pc'[r] = pc[r]
                            \/ {pc[r], pc'[r]} \cap {"established", "activeUp"} = {}
  PROVE  Removal(s)
BY DEF RegistryInv, TypeInv, TypeOK, Linked, StartDisconnect, Remove, Removal,
       Unestablished, Inactive, Unclosed, Ending

\* What a step may do to the counters and to the sets they stand for.
CounterStep ==
  \/ UNCHANGED stats /\ UNCHANGED sets
  \/ \E s \in Attempt :
       \/ Register(s) \/ CountEstablished(s) \/ CountActive(s)
       \/ CountClosed(s) \/ CountInactive(s) \/ Removal(s)
  \/ ShutdownDrain

LEMMA CounterSteps ==
  ASSUME RegistryInv, [Next]_vars
  PROVE  CounterStep
<1> USE DEF registry, stats, attempts, stopping, sets
<1>0. TypeOK /\ Placed
  BY DEF RegistryInv, TypeInv
<1>1. ASSUME UNCHANGED <<by_id, established, closed, active, life>>,
             \A r \in Attempt : \/ pc'[r] = pc[r]
                                \/ {pc[r], pc'[r]} \cap {"established", "activeUp"} = {}
      PROVE  CounterStep
  BY <1>0, <1>1 DEF CounterStep, Unestablished, Inactive, Unclosed, Ending
<1>2. ASSUME NEW c \in Call, NEW p \in Peer, NEW as \in SUBSET Addr,
             ConnectRefused(c, p, as) \/ ConnectReused(c, p, as) \/ ConnectDial(c, p, as)
      PROVE  CounterStep
  BY <1>0, <1>1, <1>2
     DEF ConnectRefused, ConnectReused, ConnectDial, Return, Goto, Attempt, TypeOK
<1>3. ASSUME NEW c \in Call, DialStep(c)
      PROVE  CounterStep
  BY <1>0, <1>1, <1>3
     DEF DialStep, DialOk, DialFailed, RedialFailed, Return, Goto, Attempt, TypeOK
<1>4. ASSUME NEW i \in Accept, InboundStart(i) \/ \E a \in Addr : AcceptConnection(i, a)
      PROVE  CounterStep
  BY <1>0, <1>1, <1>4 DEF InboundStart, AcceptConnection, Return, Goto, Attempt, TypeOK
<1>5. ASSUME NEW s \in Attempt, HandshakeStep(s)
      PROVE  CounterStep
  BY <1>0, <1>1, <1>5
     DEF HandshakeStep, HandshakeOk, HandshakeFailed, HandshakeUnverified, Return, Goto,
         TypeOK
<1>6. ASSUME NEW s \in Attempt,
             \/ Arbitrate(s) \/ EvictMissed(s) \/ EvictDone(s) \/ RegisterRefused(s)
             \/ Announce(s)
      PROVE  CounterStep
  BY <1>0, <1>1, <1>6
     DEF Arbitrate, EvictMissed, EvictDone, RegisterRefused, Announce, Return, Goto, TypeOK
<1>7. ASSUME NEW s \in Attempt, Evict(s)
      PROVE  CounterStep
  <2>1. victim[s] \in Attempt
    BY <1>0, <1>7 DEF Evict, Placed
  <2>2. \A r \in Attempt : \/ pc'[r] = pc[r]
                           \/ {pc[r], pc'[r]} \cap {"established", "activeUp"} = {}
    BY <1>0, <1>7 DEF Evict, Goto, TypeOK
  <2>3. Removal(victim[s])
    BY <1>7, <2>1, <2>2, StartDisconnectRemoves DEF Evict
  <2> QED
    BY <2>1, <2>3 DEF CounterStep
<1>8. ASSUME NEW s \in Attempt,
             Register(s) \/ CountEstablished(s) \/ CountActive(s) \/ CloseStep(s)
      PROVE  CounterStep
  BY <1>8 DEF CounterStep, CloseStep
<1>9. ASSUME NEW s \in Attempt, Disconnect(s) \/ LoopDisconnect(s)
      PROVE  CounterStep
  <2>1. CASE StartDisconnect(s) /\ UNCHANGED stats /\ UNCHANGED pc
    BY <2>1, StartDisconnectRemoves DEF CounterStep
  <2>2. CASE UNCHANGED <<by_id, established, closed, active, life, pc>>
    BY <1>1, <2>2
  <2> QED
    BY <1>9, <2>1, <2>2 DEF Disconnect, LoopDisconnect
<1>10. ASSUME NEW s \in Attempt, LoopPoll(s) \/ LoopFrame(s) \/ LoopExit(s)
      PROVE  CounterStep
  BY <1>1, <1>10 DEF LoopPoll, LoopFrame, LoopExit
<1>11. ASSUME NEW k \in cooldown, CooldownExpires(k)
      PROVE  CounterStep
  BY <1>1, <1>11 DEF CooldownExpires
<1>12. ASSUME NEW s \in Attempt, ShutdownClose(s)
      PROVE  CounterStep
  BY <1>0, <1>12
     DEF ShutdownClose, CounterStep, TypeOK, Unestablished, Inactive, Unclosed, Ending
<1>13. CASE \/ AcceptStep \/ AcceptShutdown \/ AcceptError
            \/ ShutdownBegin \/ ShutdownNotify \/ ShutdownDone \/ UNCHANGED vars
  BY <1>1, <1>13
     DEF AcceptStep, AcceptTop, AcceptPoll, AcceptShutdown, AcceptError, vars,
         ShutdownBegin, ShutdownNotify, ShutdownDone
<1>14. CASE ShutdownDrain
  BY <1>14 DEF CounterStep
<1> QED
  BY <1>2, <1>3, <1>4, <1>5, <1>6, <1>7, <1>8, <1>9, <1>10, <1>11, <1>12, <1>13, <1>14
  DEF Next, ActivateStep, LoopError, LoopWake, LoopShutdown, LoopClosed, ShutdownStep

-----------------------------------------------------------------------------
(* The two balances *)

ClosedBalance ==
  established + Cardinality(Unestablished)
    = closed + Cardinality(Unclosed) + Cardinality(by_id)

\* The saturating decrement can only leave active too high.
ActiveBalance ==
  active + Cardinality(Inactive) >= Cardinality(by_id) + Cardinality(Ending)

StatsInv == RegistryInv /\ ClosedBalance /\ ActiveBalance

LEMMA InitBalanced == Init => ClosedBalance /\ ActiveBalance
<1> SUFFICES ASSUME Init PROVE ClosedBalance /\ ActiveBalance
  OBVIOUS
<1>1. by_id = {} /\ Unestablished = {} /\ Inactive = {} /\ Unclosed = {} /\ Ending = {}
  BY DEF Init, Unestablished, Inactive, Unclosed, Ending
<1> QED
  BY <1>1, FS_EmptySet DEF Init, ClosedBalance, ActiveBalance

LEMMA CounterStepBalanced ==
  ASSUME StatsInv, CounterStep, TypeInv'
  PROVE  ClosedBalance' /\ ActiveBalance'
<1> DEFINE B == Cardinality(by_id)
           E == Cardinality(Unestablished)   I == Cardinality(Inactive)
           U == Cardinality(Unclosed)        F == Cardinality(Ending)
<1>0. TypeOK /\ Linked /\ Placed
  BY DEF StatsInv, RegistryInv, TypeInv
<1>1. /\ IsFiniteSet(by_id) /\ IsFiniteSet(Unestablished) /\ IsFiniteSet(Inactive)
      /\ IsFiniteSet(Unclosed) /\ IsFiniteSet(Ending)
  BY <1>0, SetsFinite
<1>2. B \in Nat /\ E \in Nat /\ I \in Nat /\ U \in Nat /\ F \in Nat
  BY <1>1, FS_CardinalityType
<1>3. established \in Nat /\ closed \in Nat /\ active \in Nat
  BY <1>0 DEF TypeOK
<1>4. established + E = closed + U + B /\ active + I >= B + F
  BY DEF StatsInv, ClosedBalance, ActiveBalance
<1>5. CASE UNCHANGED stats /\ UNCHANGED sets
  BY <1>4, <1>5 DEF stats, sets, ClosedBalance, ActiveBalance
<1>6. ASSUME NEW s \in Attempt, Register(s)
      PROVE  ClosedBalance' /\ ActiveBalance'
  <2>1. /\ s \notin by_id /\ by_id' = by_id \cup {s}
        /\ s \notin Unestablished /\ Unestablished' = Unestablished \cup {s}
        /\ s \notin Inactive /\ Inactive' = Inactive \cup {s}
        /\ Unclosed' = Unclosed /\ Ending' = Ending
    BY <1>0, <1>6 DEF Register, Insert, Goto, TypeOK, Linked, Registered,
                      Unestablished, Inactive, Unclosed, Ending
  <2>2. B' = B + 1 /\ E' = E + 1 /\ I' = I + 1 /\ U' = U /\ F' = F
    BY <1>1, <2>1, FS_AddElement
  <2>3. UNCHANGED stats
    BY <1>6 DEF Register
  <2> QED
    BY <1>2, <1>3, <1>4, <2>2, <2>3 DEF stats, ClosedBalance, ActiveBalance
<1>7. ASSUME NEW s \in Attempt, CountEstablished(s)
      PROVE  ClosedBalance' /\ ActiveBalance'
  <2>1. /\ s \in Unestablished /\ Unestablished' = Unestablished \ {s}
        /\ Inactive' = Inactive
        /\ by_id' = by_id /\ Unclosed' = Unclosed /\ Ending' = Ending
    BY <1>0, <1>7 DEF CountEstablished, Goto, TypeOK, registry,
                      Unestablished, Inactive, Unclosed, Ending
  <2>2. E' = E - 1 /\ I' = I /\ B' = B /\ U' = U /\ F' = F
    BY <1>1, <2>1, FS_RemoveElement
  <2>3. established' = established + 1 /\ UNCHANGED <<closed, active>>
    BY <1>7 DEF CountEstablished
  <2> QED
    BY <1>2, <1>3, <1>4, <2>2, <2>3 DEF ClosedBalance, ActiveBalance
<1>8. ASSUME NEW s \in Attempt, CountActive(s)
      PROVE  ClosedBalance' /\ ActiveBalance'
  <2>1. /\ s \in Inactive /\ Inactive' = Inactive \ {s}
        /\ Unestablished' = Unestablished
        /\ by_id' = by_id /\ Unclosed' = Unclosed /\ Ending' = Ending
    BY <1>0, <1>8 DEF CountActive, Goto, TypeOK, registry,
                      Unestablished, Inactive, Unclosed, Ending
  <2>2. I' = I - 1 /\ E' = E /\ B' = B /\ U' = U /\ F' = F
    BY <1>1, <2>1, FS_RemoveElement
  <2>3. active' = active + 1 /\ UNCHANGED <<established, closed>>
    BY <1>8 DEF CountActive
  <2> QED
    BY <1>2, <1>3, <1>4, <2>2, <2>3 DEF ClosedBalance, ActiveBalance
<1>9. ASSUME NEW s \in Attempt, CountClosed(s)
      PROVE  ClosedBalance' /\ ActiveBalance'
  <2>1. /\ s \in Unclosed /\ Unclosed' = Unclosed \ {s}
        /\ Ending' = Ending
        /\ by_id' = by_id /\ Unestablished' = Unestablished /\ Inactive' = Inactive
    BY <1>0, <1>9 DEF CountClosed, TypeOK, registry, attempts,
                      Unestablished, Inactive, Unclosed, Ending
  <2>2. U' = U - 1 /\ F' = F /\ B' = B /\ E' = E /\ I' = I
    BY <1>1, <2>1, FS_RemoveElement
  <2>3. closed' = closed + 1 /\ UNCHANGED <<established, active>>
    BY <1>9 DEF CountClosed
  <2> QED
    BY <1>2, <1>3, <1>4, <2>2, <2>3 DEF ClosedBalance, ActiveBalance
<1>10. ASSUME NEW s \in Attempt, CountInactive(s)
      PROVE  ClosedBalance' /\ ActiveBalance'
  <2>1. /\ s \in Ending /\ Ending' = Ending \ {s}
        /\ Unclosed' = Unclosed
        /\ by_id' = by_id /\ Unestablished' = Unestablished /\ Inactive' = Inactive
    BY <1>0, <1>10 DEF CountInactive, TypeOK, registry, attempts,
                       Unestablished, Inactive, Unclosed, Ending
  <2>2. F' = F - 1 /\ U' = U /\ B' = B /\ E' = E /\ I' = I
    BY <1>1, <2>1, FS_RemoveElement
  <2>3. /\ active' >= active - 1 /\ active' \in Nat
        /\ UNCHANGED <<established, closed>>
    BY <1>3, <1>10 DEF CountInactive
  <2> QED
    BY <1>2, <1>3, <1>4, <2>2, <2>3 DEF ClosedBalance, ActiveBalance
<1>11. ASSUME NEW s \in Attempt, Removal(s)
      PROVE  ClosedBalance' /\ ActiveBalance'
  <2>1. B' = B - 1 /\ U' = U + 1 /\ F' = F + 1 /\ E' = E /\ I' = I
    BY <1>1, <1>11, FS_AddElement, FS_RemoveElement DEF Removal
  <2> QED
    BY <1>2, <1>3, <1>4, <1>11, <2>1 DEF Removal, stats, ClosedBalance, ActiveBalance
<1>12. CASE ShutdownDrain
  <2>1. /\ by_id' = {}
        /\ Unclosed' = Unclosed \cup by_id /\ Unclosed \cap by_id = {}
        /\ Ending' = Ending \cup by_id /\ Ending \cap by_id = {}
        /\ Unestablished' = Unestablished /\ Inactive' = Inactive
    BY <1>0, <1>12 DEF ShutdownDrain, Drain, TypeOK, Linked, attempts,
                       Unestablished, Inactive, Unclosed, Ending
  <2>2. B' = 0 /\ U' = U + B /\ F' = F + B /\ E' = E /\ I' = I
    <3>1. U' = U + B - 0 /\ F' = F + B - 0
      BY <1>1, <2>1, FS_Union, FS_EmptySet
    <3> QED
      BY <1>2, <2>1, <3>1, FS_EmptySet
  <2>3. UNCHANGED stats
    BY <1>12 DEF ShutdownDrain
  <2> QED
    BY <1>2, <1>3, <1>4, <2>2, <2>3 DEF stats, ClosedBalance, ActiveBalance
<1> QED
  BY <1>5, <1>6, <1>7, <1>8, <1>9, <1>10, <1>11, <1>12 DEF CounterStep

LEMMA StatsInductive ==
  /\ Init => StatsInv
  /\ StatsInv /\ [Next]_vars => StatsInv'
<1>1. Init => StatsInv
  BY InitTyped, InitLinked, InitBalanced DEF StatsInv, RegistryInv
<1>2. StatsInv /\ [Next]_vars => StatsInv'
  <2> SUFFICES ASSUME StatsInv, [Next]_vars PROVE StatsInv'
    OBVIOUS
  <2>1. RegistryInv' /\ TypeInv'
    BY NextTyped, NextLinked DEF StatsInv, RegistryInv
  <2>2. CounterStep
    BY CounterSteps DEF StatsInv
  <2> QED
    BY <2>1, <2>2, CounterStepBalanced DEF StatsInv
<1> QED
  BY <1>1, <1>2

\* Every session is counted established once and closed once, whoever races to
\* close it: the counters differ from the table by the work under way only.
THEOREM CountedOnce == Spec => []RemovalsCountedOnce
<1>1. StatsInv => RemovalsCountedOnce
  BY DEF StatsInv, ClosedBalance, RemovalsCountedOnce, Unestablished, Unclosed
<1> QED
  BY <1>1, StatsInductive, PTL DEF Spec

\* At rest, active is never less than the number of live sessions.
THEOREM ActiveNeverFallsShort == Spec => []ActiveNeverShort
<1>1. StatsInv => ActiveNeverShort
  <2> SUFFICES ASSUME StatsInv, Settled PROVE active >= Cardinality(by_id)
    BY DEF ActiveNeverShort
  <2>1. Inactive = {} /\ Ending = {}
    BY DEF Settled, Inactive, Ending
  <2>2. TypeOK
    BY DEF StatsInv, RegistryInv, TypeInv
  <2>3. Cardinality(by_id) \in Nat /\ active \in Nat
    BY <2>2, SetsFinite, FS_CardinalityType DEF TypeOK
  <2> QED
    BY <2>1, <2>3, FS_EmptySet DEF StatsInv, ActiveBalance
<1> QED
  BY <1>1, StatsInductive, PTL DEF Spec
=============================================================================
