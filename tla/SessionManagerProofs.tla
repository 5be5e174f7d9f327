------------------------ MODULE SessionManagerProofs ------------------------
(***************************************************************************)
(* Theorems about SessionManager, for every number of attempts, peers and  *)
(* addresses and every interleaving of the tasks.                          *)
(***************************************************************************)
EXTENDS SessionManager, TLAPS

-----------------------------------------------------------------------------
(* Type correctness *)

Authenticated == {"activate", "evict", "evicting", "insert", "established",
                  "activeUp", "announce", "done"}

\* What an attempt knows about its connection at each point of the code: the
\* types of the locals that TypeOK leaves open because they may be absent.
Placed ==
  \A s \in Attempt :
    /\ pc[s] \in {"dial", "redial"} => peer[s] \in Peer
    /\ pc[s] = "inbound" => addr[s] \in Addr /\ s \in Accept
    /\ pc[s] = "handshake" => addr[s] \in Addr /\ (s \in Call => peer[s] \in Peer)
    /\ pc[s] \in Authenticated => peer[s] \in Peer /\ addr[s] \in Addr
    /\ pc[s] \in {"evict", "evicting"} => victim[s] \in Attempt

TypeInv == TypeOK /\ Placed

LEMMA InitTyped == Init => TypeInv
<1> SUFFICES ASSUME Init PROVE TypeInv
  OBVIOUS
<1>1. /\ by_peer \in [Peer -> Attempt \cup {None}]
      /\ by_addr \in [Addr -> Attempt \cup {None}]
  BY DEF Init
<1>2. /\ peer \in [Attempt -> Peer \cup {None}]
      /\ usable \in [Attempt -> SUBSET Addr]
  BY DEF Init
<1>3. /\ addr \in [Attempt -> Addr \cup {None}]
      /\ victim \in [Attempt -> Attempt \cup {None}]
  BY DEF Init
<1>4. /\ pc \in [Attempt -> Labels]
      /\ Placed
  BY DEF Init, Placed, Labels, Authenticated
<1>5. /\ life \in [Attempt -> {"open", "drained", "closing", "counting", "gone"}]
      /\ loop \in [Attempt -> {"none", "poll", "select", "leaving", "exited"}]
  BY DEF Init
<1> QED
  BY <1>1, <1>2, <1>3, <1>4, <1>5 DEF Init, TypeInv, TypeOK


LEMMA NextTyped == TypeInv /\ [Next]_vars => TypeInv'
<1> SUFFICES ASSUME TypeInv, [Next]_vars PROVE TypeInv'
  OBVIOUS
<1> USE DEF TypeInv, TypeOK, Placed, registry, stats, attempts, stopping,
            Labels, Authenticated
<1>1. ASSUME NEW c \in Call, NEW p \in Peer, NEW as \in SUBSET Addr,
             ConnectRefused(c, p, as) \/ ConnectReused(c, p, as)
      PROVE  TypeInv'
  <2>1. \/ Return(c, "failed") \/ Return(c, "reused")
    BY <1>1 DEF ConnectRefused, ConnectReused
  <2>2. UNCHANGED <<registry, stats, cooldown, victim, life, loop, accept, stopping>>
    BY <1>1 DEF ConnectRefused, ConnectReused
  <2> QED
    BY <2>1, <2>2 DEF Return, Goto, Attempt
<1>2. ASSUME NEW c \in Call, NEW p \in Peer, NEW as \in SUBSET Addr,
             ConnectDial(c, p, as)
      PROVE  TypeInv'
  BY <1>2 DEF ConnectDial, Goto, Attempt
<1>3. ASSUME NEW c \in Call, DialOk(c)
      PROVE  TypeInv'
  BY <1>3 DEF DialOk, Goto, Attempt
<1>4. ASSUME NEW c \in Call, DialFailed(c)
      PROVE  TypeInv'
  BY <1>4 DEF DialFailed, Goto, Return, Attempt, Preferred
<1>5. ASSUME NEW c \in Call, RedialFailed(c)
      PROVE  TypeInv'
  BY <1>5 DEF RedialFailed, Goto, Return, Attempt, Fallback
<1>6. ASSUME NEW i \in Accept, InboundStart(i)
      PROVE  TypeInv'
  <2>1. CASE Return(i, "failed")
    BY <1>6, <2>1 DEF InboundStart, Goto, Return, Attempt
  <2>2. CASE Goto(i, "handshake") /\ UNCHANGED <<peer, usable, addr>>
    BY <1>6, <2>2, CallAcceptDisjoint DEF InboundStart, Goto, Attempt
  <2> QED
    BY <1>6, <2>1, <2>2 DEF InboundStart
<1>7. ASSUME NEW i \in Accept, NEW a \in Addr, AcceptConnection(i, a)
      PROVE  TypeInv'
  BY <1>7 DEF AcceptConnection, Goto, Attempt
<1>8. ASSUME NEW s \in Attempt, HandshakeFailed(s)
      PROVE  TypeInv'
  BY <1>8 DEF HandshakeFailed, Goto, Return
<1>9. ASSUME NEW s \in Attempt, NEW p \in Peer, HandshakeOk(s, p) \/ HandshakeUnverified(s, p)
      PROVE  TypeInv'
  BY <1>9 DEF HandshakeOk, HandshakeUnverified, Goto, Return
<1>10. ASSUME NEW s \in Attempt, Arbitrate(s)
      PROVE  TypeInv'
  BY <1>10 DEF Arbitrate, Goto, Return, GetByPeer, NewWins
<1>11. ASSUME NEW s \in Attempt, Evict(s)
      PROVE  TypeInv'
  BY <1>11 DEF Evict, Goto, StartDisconnect, Remove
<1>12. ASSUME NEW s \in Attempt, EvictMissed(s) \/ EvictDone(s)
      PROVE  TypeInv'
  BY <1>12 DEF EvictMissed, EvictDone, Goto
<1>13. ASSUME NEW s \in Attempt, Register(s) \/ RegisterRefused(s)
      PROVE  TypeInv'
  BY <1>13 DEF Register, RegisterRefused, Insert, Goto, Return
<1>14. ASSUME NEW s \in Attempt, CountEstablished(s) \/ CountActive(s) \/ Announce(s)
      PROVE  TypeInv'
  BY <1>14 DEF CountEstablished, CountActive, Announce, Goto
<1>15. ASSUME NEW s \in Attempt, Disconnect(s) \/ CloseStep(s)
      PROVE  TypeInv'
  BY <1>15 DEF Disconnect, CloseStep, CountClosed, CountInactive, StartDisconnect, Remove
<1>16. ASSUME NEW s \in Attempt, LoopDisconnect(s)
      PROVE  TypeInv'
  BY <1>16 DEF LoopDisconnect, StartDisconnect, Remove
<1>17. ASSUME NEW s \in Attempt, LoopPoll(s) \/ LoopFrame(s) \/ LoopExit(s)
      PROVE  TypeInv'
  BY <1>17 DEF LoopPoll, LoopFrame, LoopExit
<1>18. ASSUME NEW k \in cooldown, CooldownExpires(k)
      PROVE  TypeInv'
  BY <1>18 DEF CooldownExpires
<1>19. CASE AcceptStep \/ AcceptShutdown \/ AcceptError
  BY <1>19 DEF AcceptStep, AcceptTop, AcceptPoll, AcceptShutdown, AcceptError
<1>20. CASE ShutdownBegin \/ ShutdownNotify \/ ShutdownDrain \/ ShutdownDone
  BY <1>20 DEF ShutdownBegin, ShutdownNotify, ShutdownDrain, ShutdownDone, Drain, Subscribed
<1>21. ASSUME NEW s \in Attempt, ShutdownClose(s)
      PROVE  TypeInv'
  BY <1>21 DEF ShutdownClose
<1>22. CASE UNCHANGED vars
  BY <1>22 DEF vars
<1> HIDE DEF TypeInv
<1> QED
  BY <1>1, <1>2, <1>3, <1>4, <1>5, <1>6, <1>7, <1>8, <1>9, <1>10, <1>11, <1>12,
     <1>13, <1>14, <1>15, <1>16, <1>17, <1>18, <1>19, <1>20, <1>21, <1>22
  DEF Next, DialStep, HandshakeStep, ActivateStep, LoopError, LoopWake, LoopShutdown,
      LoopClosed, ShutdownStep

\* Every variable stays in its type.
THEOREM TypeCorrect == Spec => []TypeOK
<1>1. TypeInv => TypeOK
  BY DEF TypeInv
<1> QED
  BY <1>1, InitTyped, NextTyped, PTL DEF Spec

-----------------------------------------------------------------------------
(* The registry *)

Registered == {"established", "activeUp", "announce", "done"}

\* IndexesAgree is not inductive by itself: a session that is in the table, or
\* was, is one whose attempt has passed insert, so no attempt still on its way
\* to insert can be in it, and the peer and address it was filed under stay.
Linked ==
  /\ IndexesAgree
  /\ \A s \in by_id : pc[s] \in Registered /\ life[s] = "open"
  /\ \A s \in Attempt : life[s] # "open" => pc[s] \in Registered

RegistryInv == TypeInv /\ Linked

LEMMA InitLinked == Init => Linked
BY NoneIsNothing DEF Init, Linked, IndexesAgree

\* A step of an attempt that has not been registered touches no session in the
\* table.
LEMMA UnregisteredStepLinked ==
  ASSUME RegistryInv, NEW s \in Attempt, pc[s] \notin Registered,
         UNCHANGED <<registry, life>>,
         \A r \in Attempt \ {s} : pc'[r] = pc[r] /\ peer'[r] = peer[r] /\ addr'[r] = addr[r]
  PROVE  Linked'
BY DEF RegistryInv, TypeInv, TypeOK, Linked, IndexesAgree, registry

\* Taking a session out of the table leaves the indexes in agreement.
LEMMA StartDisconnectLinked ==
  ASSUME RegistryInv, NEW s \in Attempt, StartDisconnect(s),
         UNCHANGED <<peer, addr>>,
         \A r \in Attempt : pc[r] \in Registered => pc'[r] \in Registered
  PROVE  Linked'
<1> USE DEF RegistryInv, TypeInv, TypeOK, Linked, StartDisconnect, Remove
<1>1. IndexesAgree'
  BY NoneIsNothing DEF IndexesAgree
<1>2. \A r \in by_id' : pc'[r] \in Registered /\ life'[r] = "open"
  OBVIOUS
<1>3. \A r \in Attempt : life'[r] # "open" => pc'[r] \in Registered
  OBVIOUS
<1> QED
  BY <1>1, <1>2, <1>3

\* A step that leaves the indexes, peers and addresses alone, takes no attempt
\* back before its registration and starts no removal keeps the registry linked.
LEMMA QuietStepLinked ==
  ASSUME RegistryInv, UNCHANGED <<registry, peer, addr>>,
         \A r \in Attempt : pc[r] \in Registered => pc'[r] \in Registered,
         \A r \in Attempt : life'[r] = life[r] \/ (life[r] # "open" /\ life'[r] # "open")
  PROVE  Linked'
BY DEF RegistryInv, TypeInv, TypeOK, Linked, IndexesAgree, registry

LEMMA RegisterLinked ==
  ASSUME RegistryInv, NEW s \in Attempt, Register(s)
  PROVE  Linked'
<1> USE DEF RegistryInv, TypeInv, TypeOK, Linked, Register, Insert, Goto
<1>1. peer[s] \in Peer /\ addr[s] \in Addr /\ s \notin by_id
  BY DEF Placed, Authenticated, Registered
<1>2. by_peer[peer[s]] = None
  BY <1>1 DEF GetByPeer, IndexesAgree
<1>3. \A r \in by_id : peer[r] # peer[s]
  BY <1>2, NoneIsNothing DEF IndexesAgree
<1>4. IndexesAgree'
  BY <1>1, <1>3 DEF IndexesAgree
<1>5. \A r \in by_id' : pc'[r] \in Registered /\ life'[r] = "open"
  BY <1>1 DEF Registered
<1>6. \A r \in Attempt : life'[r] # "open" => pc'[r] \in Registered
  BY DEF Registered
<1> QED
  BY <1>4, <1>5, <1>6

LEMMA NextLinked == RegistryInv /\ [Next]_vars => Linked'
<1> SUFFICES ASSUME RegistryInv, [Next]_vars PROVE Linked'
  OBVIOUS
<1> USE DEF registry, stats, attempts, stopping, Registered
<1>0. TypeOK /\ Placed
  BY DEF RegistryInv, TypeInv
<1>1. ASSUME NEW c \in Call, NEW p \in Peer, NEW as \in SUBSET Addr,
             ConnectRefused(c, p, as) \/ ConnectReused(c, p, as) \/ ConnectDial(c, p, as)
      PROVE  Linked'
  BY <1>0, <1>1, UnregisteredStepLinked
     DEF ConnectRefused, ConnectReused, ConnectDial, Return, Goto, Attempt, TypeOK
<1>2. ASSUME NEW c \in Call, DialStep(c)
      PROVE  Linked'
  BY <1>0, <1>2, UnregisteredStepLinked
     DEF DialStep, DialOk, DialFailed, RedialFailed, Return, Goto, Attempt, TypeOK
<1>3. ASSUME NEW i \in Accept, InboundStart(i) \/ \E a \in Addr : AcceptConnection(i, a)
      PROVE  Linked'
  BY <1>0, <1>3, UnregisteredStepLinked
     DEF InboundStart, AcceptConnection, Return, Goto, Attempt, TypeOK
<1>4. ASSUME NEW s \in Attempt, HandshakeStep(s)
      PROVE  Linked'
  BY <1>0, <1>4, UnregisteredStepLinked
     DEF HandshakeStep, HandshakeOk, HandshakeFailed, HandshakeUnverified, Return, Goto,
         TypeOK
<1>5. ASSUME NEW s \in Attempt,
             Arbitrate(s) \/ EvictMissed(s) \/ EvictDone(s) \/ RegisterRefused(s)
      PROVE  Linked'
  BY <1>0, <1>5, UnregisteredStepLinked
     DEF Arbitrate, EvictMissed, EvictDone, RegisterRefused, Return, Goto, TypeOK
<1>6. ASSUME NEW s \in Attempt, Evict(s)
      PROVE  Linked'
  BY <1>0, <1>6, StartDisconnectLinked DEF Evict, Goto, TypeOK, Placed
<1>7. ASSUME NEW s \in Attempt, Register(s)
      PROVE  Linked'
  BY <1>7, RegisterLinked
<1>8. ASSUME NEW s \in Attempt, CountEstablished(s) \/ CountActive(s) \/ Announce(s)
      PROVE  Linked'
  BY <1>0, <1>8, QuietStepLinked DEF CountEstablished, CountActive, Announce, Goto, TypeOK
<1>9. ASSUME NEW s \in Attempt, Disconnect(s)
      PROVE  Linked'
  BY <1>9, StartDisconnectLinked DEF Disconnect
<1>10. ASSUME NEW s \in Attempt, CloseStep(s)
      PROVE  Linked'
  BY <1>0, <1>10, QuietStepLinked DEF CloseStep, CountClosed, CountInactive, TypeOK
<1>11. ASSUME NEW s \in Attempt, LoopDisconnect(s)
      PROVE  Linked'
  <2>1. CASE StartDisconnect(s) /\ UNCHANGED attempts
    BY <2>1, StartDisconnectLinked
  <2>2. CASE UNCHANGED <<registry, attempts, life>>
    BY <2>2, QuietStepLinked
  <2> QED
    BY <1>11, <2>1, <2>2 DEF LoopDisconnect
<1>12. ASSUME UNCHANGED <<registry, attempts, life>>
      PROVE  Linked'
  BY <1>12, QuietStepLinked
<1>13. CASE ShutdownDrain
  BY <1>0, <1>13, NoneIsNothing
     DEF ShutdownDrain, Drain, RegistryInv, Linked, IndexesAgree, TypeOK
<1>14. ASSUME NEW s \in Attempt, ShutdownClose(s)
      PROVE  Linked'
  BY <1>0, <1>14, QuietStepLinked DEF ShutdownClose, TypeOK
<1>15. ASSUME NEW s \in Attempt, LoopPoll(s) \/ LoopFrame(s) \/ LoopExit(s)
      PROVE  Linked'
  BY <1>12, <1>15 DEF LoopPoll, LoopFrame, LoopExit
<1>16. ASSUME NEW k \in cooldown, CooldownExpires(k)
      PROVE  Linked'
  BY <1>12, <1>16 DEF CooldownExpires
<1>17. CASE \/ AcceptStep \/ AcceptShutdown \/ AcceptError
            \/ ShutdownBegin \/ ShutdownNotify \/ ShutdownDone \/ UNCHANGED vars
  BY <1>12, <1>17
     DEF AcceptStep, AcceptTop, AcceptPoll, AcceptShutdown, AcceptError, vars,
         ShutdownBegin, ShutdownNotify, ShutdownDone
<1> QED
  BY <1>1, <1>2, <1>3, <1>4, <1>5, <1>6, <1>7, <1>8, <1>9, <1>10, <1>11, <1>13,
     <1>14, <1>15, <1>16, <1>17
  DEF Next, ActivateStep, LoopError, LoopWake, LoopShutdown, LoopClosed, ShutdownStep

\* The indexes of the registry agree with its table in every reachable state,
\* however activations, replacements, removals and shutdown interleave.
THEOREM RegistryConsistent == Spec => []IndexesAgree
<1>1. Init => RegistryInv
  BY InitTyped, InitLinked DEF RegistryInv
<1>2. RegistryInv /\ [Next]_vars => RegistryInv'
  BY NextTyped, NextLinked DEF RegistryInv
<1>3. RegistryInv => IndexesAgree
  BY DEF RegistryInv, Linked
<1> QED
  BY <1>1, <1>2, <1>3, PTL DEF Spec

-----------------------------------------------------------------------------
(* No half-dead session *)

ServedInv == RegistryInv /\ RegisteredIsServed

\* Only Announce lets an attempt become done, and it starts the receive loop.
LEMMA OtherStepServed ==
  ASSUME ServedInv, Linked', by_id' \subseteq by_id, UNCHANGED loop,
         \A r \in Attempt : pc'[r] = "done" => pc[r] = "done"
  PROVE  RegisteredIsServed'
BY DEF ServedInv, RegistryInv, TypeInv, TypeOK, Linked, RegisteredIsServed

LEMMA NextServed == ServedInv /\ [Next]_vars => RegisteredIsServed'
<1> SUFFICES ASSUME ServedInv, [Next]_vars PROVE RegisteredIsServed'
  OBVIOUS
<1> USE DEF registry, stats, attempts, stopping
<1>0. TypeOK /\ Placed /\ Linked' /\ Linked
  BY NextLinked DEF ServedInv, RegistryInv, TypeInv
<1>1. ASSUME NEW c \in Call, NEW p \in Peer, NEW as \in SUBSET Addr,
             ConnectRefused(c, p, as) \/ ConnectReused(c, p, as) \/ ConnectDial(c, p, as)
      PROVE  RegisteredIsServed'
  BY <1>0, <1>1, OtherStepServed
     DEF ConnectRefused, ConnectReused, ConnectDial, Return, Goto, Attempt, TypeOK
<1>2. ASSUME NEW c \in Call, DialStep(c)
      PROVE  RegisteredIsServed'
  BY <1>0, <1>2, OtherStepServed
     DEF DialStep, DialOk, DialFailed, RedialFailed, Return, Goto, Attempt, TypeOK
<1>3. ASSUME NEW i \in Accept, InboundStart(i) \/ \E a \in Addr : AcceptConnection(i, a)
      PROVE  RegisteredIsServed'
  BY <1>0, <1>3, OtherStepServed
     DEF InboundStart, AcceptConnection, Return, Goto, Attempt, TypeOK
<1>4. ASSUME NEW s \in Attempt, HandshakeStep(s)
      PROVE  RegisteredIsServed'
  BY <1>0, <1>4, OtherStepServed
     DEF HandshakeStep, HandshakeOk, HandshakeFailed, HandshakeUnverified, Return, Goto,
         TypeOK
<1>5. ASSUME NEW s \in Attempt,
             Arbitrate(s) \/ EvictMissed(s) \/ EvictDone(s) \/ RegisterRefused(s)
      PROVE  RegisteredIsServed'
  BY <1>0, <1>5, OtherStepServed
     DEF Arbitrate, EvictMissed, EvictDone, RegisterRefused, Return, Goto, TypeOK
<1>6. ASSUME NEW s \in Attempt, Evict(s)
      PROVE  RegisteredIsServed'
  BY <1>0, <1>6, OtherStepServed DEF Evict, Goto, TypeOK, StartDisconnect, Remove
<1>7. ASSUME NEW s \in Attempt, Register(s)
      PROVE  RegisteredIsServed'
  BY <1>0, <1>7
     DEF Register, Insert, Goto, TypeOK, Linked, ServedInv, RegisteredIsServed
<1>8. ASSUME NEW s \in Attempt, CountEstablished(s) \/ CountActive(s)
      PROVE  RegisteredIsServed'
  BY <1>0, <1>8, OtherStepServed DEF CountEstablished, CountActive, Goto, TypeOK
<1>9. ASSUME NEW s \in Attempt, Announce(s)
      PROVE  RegisteredIsServed'
  BY <1>0, <1>9 DEF Announce, Goto, TypeOK, ServedInv, RegisteredIsServed
<1>10. ASSUME NEW s \in Attempt, Disconnect(s) \/ CloseStep(s)
      PROVE  RegisteredIsServed'
  BY <1>0, <1>10, OtherStepServed
     DEF Disconnect, StartDisconnect, Remove, CloseStep, CountClosed, CountInactive
<1>11. ASSUME NEW s \in Attempt, LoopDisconnect(s)
      PROVE  RegisteredIsServed'
  BY <1>0, <1>11
     DEF LoopDisconnect, StartDisconnect, Remove, TypeOK, ServedInv, RegisteredIsServed
<1>12. ASSUME NEW s \in Attempt, LoopPoll(s) \/ LoopFrame(s)
      PROVE  RegisteredIsServed'
  BY <1>0, <1>12 DEF LoopPoll, LoopFrame, TypeOK, ServedInv, RegisteredIsServed
<1>13. ASSUME NEW s \in Attempt, LoopExit(s)
      PROVE  RegisteredIsServed'
  BY <1>0, <1>13 DEF LoopExit, TypeOK, Linked, ServedInv, RegisteredIsServed
<1>14. CASE ShutdownDrain
  BY <1>0, <1>14 DEF ShutdownDrain, Drain, RegisteredIsServed
<1>15. ASSUME NEW s \in Attempt, ShutdownClose(s)
      PROVE  RegisteredIsServed'
  BY <1>0, <1>15, OtherStepServed DEF ShutdownClose
<1>16. ASSUME NEW k \in cooldown, CooldownExpires(k)
      PROVE  RegisteredIsServed'
  BY <1>0, <1>16, OtherStepServed DEF CooldownExpires
<1>17. CASE \/ AcceptStep \/ AcceptShutdown \/ AcceptError
            \/ ShutdownBegin \/ ShutdownNotify \/ ShutdownDone \/ UNCHANGED vars
  BY <1>0, <1>17, OtherStepServed
     DEF AcceptStep, AcceptTop, AcceptPoll, AcceptShutdown, AcceptError, vars,
         ShutdownBegin, ShutdownNotify, ShutdownDone
<1> QED
  BY <1>1, <1>2, <1>3, <1>4, <1>5, <1>6, <1>7, <1>8, <1>9, <1>10, <1>11, <1>12,
     <1>13, <1>14, <1>15, <1>16, <1>17
  DEF Next, ActivateStep, LoopError, LoopWake, LoopShutdown, LoopClosed, ShutdownStep

LEMMA InitServed == Init => ServedInv
BY InitTyped, InitLinked DEF Init, ServedInv, RegistryInv, RegisteredIsServed

LEMMA NextServedInv == ServedInv /\ [Next]_vars => ServedInv'
BY NextTyped, NextLinked, NextServed DEF ServedInv, RegistryInv

\* A session that is in the table and announced has a receive loop that reads it.
THEOREM NoHalfDeadSession == Spec => []RegisteredIsServed
<1>1. ServedInv => RegisteredIsServed
  BY DEF ServedInv
<1> QED
  BY <1>1, InitServed, NextServedInv, PTL DEF Spec

-----------------------------------------------------------------------------
(* Refinement: the registry implements the table of sessions *)

Spent == {s \in Attempt : life[s] # "open"}

\* What a step may do to the registry: nothing, a registration, one removal, or
\* the drain of shutdown.
LEMMA RegistrySteps ==
  ASSUME RegistryInv, [Next]_vars
  PROVE  \/ UNCHANGED <<by_peer, by_addr>> /\ Spent' = Spent
         \/ \E s \in Attempt : Register(s)
         \/ \E s \in Attempt : StartDisconnect(s)
         \/ ShutdownDrain
<1> DEFINE Kinds == \/ UNCHANGED <<by_peer, by_addr>> /\ Spent' = Spent
                    \/ \E s \in Attempt : Register(s)
                    \/ \E s \in Attempt : StartDisconnect(s)
                    \/ ShutdownDrain
<1> USE DEF registry, stats, attempts, stopping, Spent
<1>0. TypeOK /\ Placed
  BY DEF RegistryInv, TypeInv
<1>1. ASSUME UNCHANGED <<by_peer, by_addr, life>> PROVE Kinds
  BY <1>1
<1>2. ASSUME NEW c \in Call, NEW p \in Peer, NEW as \in SUBSET Addr,
             ConnectRefused(c, p, as) \/ ConnectReused(c, p, as) \/ ConnectDial(c, p, as)
      PROVE  Kinds
  BY <1>1, <1>2 DEF ConnectRefused, ConnectReused, ConnectDial
<1>3. ASSUME NEW c \in Call, DialStep(c)
      PROVE  Kinds
  BY <1>1, <1>3 DEF DialStep, DialOk, DialFailed, RedialFailed
<1>4. ASSUME NEW i \in Accept, InboundStart(i) \/ \E a \in Addr : AcceptConnection(i, a)
      PROVE  Kinds
  BY <1>1, <1>4 DEF InboundStart, AcceptConnection
<1>5. ASSUME NEW s \in Attempt, HandshakeStep(s)
      PROVE  Kinds
  BY <1>1, <1>5 DEF HandshakeStep, HandshakeOk, HandshakeFailed, HandshakeUnverified
<1>6. ASSUME NEW s \in Attempt, ActivateStep(s)
      PROVE  Kinds
  <2>1. CASE Evict(s)
    BY <1>0, <2>1 DEF Evict, Placed
  <2>2. CASE Register(s)
    BY <2>2
  <2>3. CASE \/ Arbitrate(s) \/ EvictMissed(s) \/ EvictDone(s) \/ RegisterRefused(s)
             \/ CountEstablished(s) \/ CountActive(s) \/ Announce(s)
    BY <1>1, <2>3 DEF Arbitrate, EvictMissed, EvictDone, RegisterRefused,
                      CountEstablished, CountActive, Announce
  <2> QED
    BY <1>6, <2>1, <2>2, <2>3 DEF ActivateStep
<1>7. ASSUME NEW s \in Attempt, Disconnect(s) \/ LoopDisconnect(s)
      PROVE  Kinds
  BY <1>1, <1>7 DEF Disconnect, LoopDisconnect
<1>8. ASSUME NEW s \in Attempt, CloseStep(s) \/ ShutdownClose(s)
      PROVE  Kinds
  BY <1>0, <1>8 DEF CloseStep, CountClosed, CountInactive, ShutdownClose, TypeOK
<1>9. ASSUME NEW s \in Attempt, LoopPoll(s) \/ LoopFrame(s) \/ LoopExit(s)
      PROVE  Kinds
  BY <1>1, <1>9 DEF LoopPoll, LoopFrame, LoopExit
<1>10. ASSUME NEW k \in cooldown, CooldownExpires(k)
      PROVE  Kinds
  BY <1>1, <1>10 DEF CooldownExpires
<1>11. CASE \/ AcceptStep \/ AcceptShutdown \/ AcceptError
            \/ ShutdownBegin \/ ShutdownNotify \/ ShutdownDone \/ UNCHANGED vars
  BY <1>1, <1>11
     DEF AcceptStep, AcceptTop, AcceptPoll, AcceptShutdown, AcceptError, vars,
         ShutdownBegin, ShutdownNotify, ShutdownDone
<1>12. CASE ShutdownDrain
  BY <1>12
<1> QED
  BY <1>2, <1>3, <1>4, <1>5, <1>6, <1>7, <1>8, <1>9, <1>10, <1>11, <1>12
  DEF Next, LoopError, LoopWake, LoopShutdown, LoopClosed, ShutdownStep

\* Register takes a free slot with a session that was never live.
LEMMA RegisterOpens ==
  ASSUME RegistryInv, NEW s \in Attempt, Register(s)
  PROVE  Table!Next
<1> USE DEF RegistryInv, TypeInv, TypeOK, Linked
<1>1. peer[s] \in Peer /\ s \notin by_id /\ life[s] = "open"
  BY DEF Register, Placed, Authenticated, Registered
<1>2. by_peer[peer[s]] = None
  BY <1>1 DEF Register, GetByPeer, IndexesAgree
<1>3. s \notin Table!Live
  BY <1>1, NoneIsNothing DEF Table!Live, IndexesAgree
<1>4. by_peer' = [by_peer EXCEPT ![peer[s]] = s] /\ life' = life
  BY DEF Register, Insert
<1>5. Table!Open(s, peer[s])
  BY <1>1, <1>2, <1>3, <1>4 DEF Table!Open
<1> QED
  BY <1>1, <1>5 DEF Table!Next

\* A removal empties the one slot the session is in.
LEMMA StartDisconnectCloses ==
  ASSUME RegistryInv, NEW s \in Attempt, StartDisconnect(s)
  PROVE  Table!Next
<1> USE DEF RegistryInv, TypeInv, TypeOK, Linked, IndexesAgree
<1>1. peer[s] \in Peer /\ by_peer[peer[s]] = s /\ s # None
  BY NoneIsNothing DEF StartDisconnect
<1>2. {s} \subseteq Table!Live
  BY <1>1 DEF Table!Live
<1>3. \A p \in Peer : by_peer[p] = s => p = peer[s]
  BY <1>1
<1>4. by_peer' = [p \in Peer |-> IF by_peer[p] \in {s} THEN None ELSE by_peer[p]]
  <2>1. by_peer' = [by_peer EXCEPT ![peer[s]] = None]
    BY <1>1 DEF StartDisconnect, Remove
  <2>2. ASSUME NEW p \in Peer
        PROVE  by_peer'[p] = IF by_peer[p] \in {s} THEN None ELSE by_peer[p]
    BY <1>1, <1>3, <2>1
  <2> QED
    BY <2>1, <2>2
<1>5. {r \in Attempt : life'[r] # "open"} = {r \in Attempt : life[r] # "open"} \cup {s}
  BY DEF StartDisconnect
<1>6. Table!Close({s})
  BY <1>2, <1>4, <1>5 DEF Table!Close
<1> QED
  BY <1>2, <1>6 DEF Table!Next

\* The drain empties every slot at once.
LEMMA DrainCloses ==
  ASSUME RegistryInv, ShutdownDrain
  PROVE  Table!Next
<1> USE DEF RegistryInv, TypeInv, TypeOK, Linked, IndexesAgree
<1>1. PICK S : S = by_id
  OBVIOUS
<1>2. Table!Live = S
  BY <1>1, NoneIsNothing DEF Table!Live
<1>3. by_peer' = [p \in Peer |-> IF by_peer[p] \in S THEN None ELSE by_peer[p]]
  BY <1>1 DEF ShutdownDrain, Drain
<1>4. {r \in Attempt : life'[r] # "open"} = {r \in Attempt : life[r] # "open"} \cup S
  BY <1>1 DEF ShutdownDrain
<1>5. Table!Close(S)
  BY <1>2, <1>3, <1>4 DEF Table!Close
<1> QED
  BY <1>2, <1>5 DEF Table!Next

\* The session manager implements the abstract table of sessions: a slot is
\* filled only when it is free, by a session that was never live, and a session
\* that left never comes back.
THEOREM ImplementsTable == Spec => RefinesTable
<1>1. Init => Table!Init
  BY DEF Init, Table!Init
<1>2. RegistryInv /\ [Next]_vars => [Table!Next]_(Table!tvars)
  <2> SUFFICES ASSUME RegistryInv, [Next]_vars PROVE [Table!Next]_(Table!tvars)
    OBVIOUS
  <2>1. CASE UNCHANGED <<by_peer, by_addr>> /\ Spent' = Spent
    BY <2>1 DEF Table!tvars, Spent
  <2> QED
    BY <2>1, RegistrySteps, RegisterOpens, StartDisconnectCloses, DrainCloses
<1>3. Init => RegistryInv
  BY InitTyped, InitLinked DEF RegistryInv
<1>4. RegistryInv /\ [Next]_vars => RegistryInv'
  BY NextTyped, NextLinked DEF RegistryInv
<1> QED
  BY <1>1, <1>2, <1>3, <1>4, PTL DEF Spec, RefinesTable, Table!Spec

-----------------------------------------------------------------------------
(* The index entries *)

\* What NewestKeepsIndex says of one step.
EntriesKept ==
  /\ \A p \in Peer : by_peer[p] \in by_id' => by_peer'[p] = by_peer[p]
  /\ \A a \in Addr : by_addr[a] \in by_id' => \/ by_addr'[a] = by_addr[a]
                                              \/ by_addr'[a] \in by_id' \ by_id

LEMMA StepKeepsEntries ==
  ASSUME RegistryInv, [Next]_vars
  PROVE  EntriesKept
<1> USE DEF RegistryInv, TypeInv, TypeOK, Linked, IndexesAgree
<1>1. CASE UNCHANGED <<by_peer, by_addr>>
  BY <1>1 DEF EntriesKept
<1>2. ASSUME NEW s \in Attempt, Register(s)
      PROVE  EntriesKept
  <2>1. peer[s] \in Peer /\ addr[s] \in Addr /\ s \notin by_id
    BY <1>2 DEF Register, Placed, Authenticated, Registered
  <2>2. by_peer[peer[s]] = None
    BY <1>2, <2>1 DEF Register, GetByPeer
  <2>3. /\ by_peer' = [by_peer EXCEPT ![peer[s]] = s]
        /\ by_addr' = [by_addr EXCEPT ![addr[s]] = s]
        /\ by_id' = by_id \cup {s}
    BY <1>2 DEF Register, Insert
  <2>4. None \notin by_id'
    BY <2>3, NoneIsNothing
  <2> QED
    BY <2>1, <2>2, <2>3, <2>4 DEF EntriesKept
<1>3. ASSUME NEW s \in Attempt, StartDisconnect(s)
      PROVE  EntriesKept
  <2>1. peer[s] \in Peer /\ addr[s] \in Addr
    BY <1>3 DEF StartDisconnect, Placed, Authenticated, Registered
  <2>2. /\ by_peer' = [by_peer EXCEPT ![peer[s]] = IF @ = s THEN None ELSE @]
        /\ by_addr' = [by_addr EXCEPT ![addr[s]] = IF @ = s THEN None ELSE @]
        /\ by_id' = by_id \ {s}
    BY <1>3 DEF StartDisconnect, Remove
  <2> QED
    BY <2>1, <2>2 DEF EntriesKept
<1>4. CASE ShutdownDrain
  BY <1>4 DEF ShutdownDrain, Drain, EntriesKept
<1> QED
  BY <1>1, <1>2, <1>3, <1>4, RegistrySteps

\* An index entry whose session stays registered is not cleared by the late
\* removal of an older session: it stays, or leads to a session just registered.
THEOREM EntriesFollowTheNewest == Spec => NewestKeepsIndex
<1>1. RegistryInv /\ [Next]_vars => [EntriesKept]_vars
  BY StepKeepsEntries
<1>2. Init => RegistryInv
  BY InitTyped, InitLinked DEF RegistryInv
<1>3. RegistryInv /\ [Next]_vars => RegistryInv'
  BY NextTyped, NextLinked DEF RegistryInv
<1> QED
  BY <1>1, <1>2, <1>3, PTL DEF Spec, NewestKeepsIndex, EntriesKept
=============================================================================
