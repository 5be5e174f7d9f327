--------------------------- MODULE SessionManager ---------------------------
(***************************************************************************)
(* crates/pnos-net/src/session: one SessionManager, its registry, its      *)
(* lifecycle counters, its cooldown table and the tasks that share them.   *)
(*                                                                         *)
(* An Attempt is one connect() call or one inbound connection.  Each       *)
(* creates at most one Session (Session::new, after the handshake), so the *)
(* attempt also names the session: SessionId values are never reused.      *)
(*                                                                         *)
(* Tasks run on a multi-threaded runtime.  A step ends where another task  *)
(* may come in between and change the outcome: at an await, at the release *)
(* of a registry lock, between two atomic operations on the counters.      *)
(***************************************************************************)
EXTENDS Naturals, FiniteSets

CONSTANTS
  Call,          \* outbound attempts: calls of SessionManager::connect
  Accept,        \* inbound attempts: connections the listener hands over
  Peer,          \* node ids of the peers
  Above,         \* the peers whose node id is greater than local_id
  Addr,          \* socket addresses
  Tier,          \* 0 loopback, 1 LAN, 2 public: NodeEndpoint::classify
  MaxSessions,   \* SessionConfig::max_sessions
  None           \* the absent value of an Option

Attempt == Call \cup Accept

ASSUME CallAcceptDisjoint == Call \cap Accept = {}
ASSUME AttemptsFinite == IsFiniteSet(Attempt)
ASSUME NoneIsNothing == None \notin Attempt \cup Peer \cup Addr
ASSUME AboveArePeers == Above \subseteq Peer
ASSUME TierOfAddr == Tier \in [Addr -> 0..2]
ASSUME MaxSessionsNat == MaxSessions \in Nat

VARIABLES
  by_peer, by_addr, by_id,     \* SessionRegistry: the two indexes and the table
  established, closed, active, \* SessionStats: the lifecycle counters
  cooldown,                    \* (peer, address) pairs not to be dialled yet
  pc,                          \* where each attempt stands
  peer,                        \* the peer asked for, then the one authenticated
  usable,                      \* the candidate addresses of a dialling call
  addr,                        \* the remote address of the connection
  victim,                      \* the session an activation replaces
  life,                        \* how far the removal of each session has come
  loop,                        \* the receive loop of each session
  accept,                      \* the accept loop
  shutting_down, signal,       \* the AtomicBool and the value of the watch channel
  down, draining               \* progress of shutdown(), the session it closes

registry == <<by_peer, by_addr, by_id>>
stats    == <<established, closed, active>>
attempts == <<pc, peer, usable, addr, victim>>
stopping == <<shutting_down, signal, down, draining>>
vars == <<registry, stats, cooldown, attempts, life, loop, accept, stopping>>

-----------------------------------------------------------------------------
(* Arbitration and route selection *)

Direction(s) == IF s \in Call THEN "outbound" ELSE "inbound"

\* The direction both ends agree to keep.
Expected(p) == IF p \in Above THEN "outbound" ELSE "inbound"

NewWins(s, existing) ==
  /\ Direction(s) = Expected(peer[s])
  /\ Direction(existing) # Expected(peer[s])

\* The best tier present is dialled first, the rest only when it fails.
Preferred(as) == {a \in as : \A b \in as : Tier[a] <= Tier[b]}
Fallback(as)  == as \ Preferred(as)

-----------------------------------------------------------------------------
(* The registry: every operator is one critical section of its RwLock *)

GetByPeer(p)     == IF by_peer[p] \in by_id THEN by_peer[p] ELSE None
SessionOfAddr(a) == IF by_addr[a] \in by_id THEN by_addr[a] ELSE None
Full             == Cardinality(by_id) >= MaxSessions

Insert(s) ==
  /\ by_peer' = [by_peer EXCEPT ![peer[s]] = s]
  /\ by_addr' = [by_addr EXCEPT ![addr[s]] = s]
  /\ by_id'   = by_id \cup {s}

\* Mutant of Remove: the address index is forgotten.
RemoveKeepingAddr(s) ==
  /\ by_id'   = by_id \ {s}
  /\ by_peer' = [by_peer EXCEPT ![peer[s]] = IF @ = s THEN None ELSE @]
  /\ UNCHANGED by_addr

\* Mutant of Remove: the address entry goes, whomever it points at.
RemoveAnyAddr(s) ==
  /\ by_id'   = by_id \ {s}
  /\ by_peer' = [by_peer EXCEPT ![peer[s]] = IF @ = s THEN None ELSE @]
  /\ by_addr' = [by_addr EXCEPT ![addr[s]] = None]

\* An index entry goes only if it still points at the removed session.
Remove(s) ==
  /\ by_id'   = by_id \ {s}
  /\ by_peer' = [by_peer EXCEPT ![peer[s]] = IF @ = s THEN None ELSE @]
  /\ by_addr' = [by_addr EXCEPT ![addr[s]] = IF @ = s THEN None ELSE @]

\* Mutant of Drain: by_addr.clear() is forgotten.
DrainKeepingAddr ==
  /\ by_id'   = {}
  /\ by_peer' = [p \in Peer |-> None]
  /\ UNCHANGED by_addr

Drain ==
  /\ by_id'   = {}
  /\ by_peer' = [p \in Peer |-> None]
  /\ by_addr' = [a \in Addr |-> None]

\* Mutant of StartDisconnect: without the identity check of remove_if.
StartDisconnectUnchecked(s) ==
  /\ life[s] # "open" \/ s \in by_id
  /\ Remove(s)
  /\ life' = [life EXCEPT ![s] = "closing"]

\* disconnect() up to its first await: out of the table, then mark_closed.
StartDisconnect(s) ==
  /\ s \in by_id
  /\ Remove(s)
  /\ life' = [life EXCEPT ![s] = "closing"]

\* Mutant of MarkedClosed: a notification that only a waiting task gets.
MarkedClosedBriefly(s) == life[s] = "closing"

\* Session::is_closed for a session that has been in the registry.
MarkedClosed(s) == life[s] \in {"closing", "counting", "gone"}

Goto(s, label) == pc' = [pc EXCEPT ![s] = label]

\* The attempt returns without a session of its own; its locals are dropped.
Return(s, label) ==
  /\ Goto(s, label)
  /\ peer' = [peer EXCEPT ![s] = None]
  /\ usable' = [usable EXCEPT ![s] = {}]
  /\ addr' = [addr EXCEPT ![s] = None]

-----------------------------------------------------------------------------
Init ==
  /\ by_peer = [p \in Peer |-> None]
  /\ by_addr = [a \in Addr |-> None]
  /\ by_id = {}
  /\ established = 0 /\ closed = 0 /\ active = 0
  /\ cooldown = {}
  /\ pc = [s \in Attempt |-> "idle"]
  /\ peer = [s \in Attempt |-> None]
  /\ usable = [s \in Attempt |-> {}]
  /\ addr = [s \in Attempt |-> None]
  /\ victim = [s \in Attempt |-> None]
  /\ life = [s \in Attempt |-> "open"]
  /\ loop = [s \in Attempt |-> "none"]
  /\ accept \in {"off", "top"}          \* listen_addr is None, or Some
  /\ shutting_down = FALSE /\ signal = FALSE
  /\ down = "up" /\ draining = None

-----------------------------------------------------------------------------
(* connect(): the checks before the first await, then dial and handshake *)

HasSession(p, as) == GetByPeer(p) # None \/ \E a \in as : SessionOfAddr(a) # None
Cooled(p) == {a \in Addr : <<p, a>> \in cooldown}

ConnectRefused(c, p, as) ==
  /\ pc[c] = "idle"
  /\ \/ shutting_down
     \/ ~ HasSession(p, as) /\ (Full \/ as \subseteq Cooled(p))
  /\ Return(c, "failed")
  /\ UNCHANGED <<registry, stats, cooldown, victim, life, loop, accept, stopping>>

\* An existing session of the peer, or of one of the addresses, is returned.
ConnectReused(c, p, as) ==
  /\ pc[c] = "idle"
  /\ ~ shutting_down
  /\ HasSession(p, as)
  /\ Return(c, "reused")
  /\ UNCHANGED <<registry, stats, cooldown, victim, life, loop, accept, stopping>>

ConnectDial(c, p, as) ==
  /\ pc[c] = "idle"
  /\ ~ shutting_down
  /\ ~ HasSession(p, as)
  /\ ~ Full
  /\ as \ Cooled(p) # {}
  /\ Goto(c, "dial")
  /\ peer' = [peer EXCEPT ![c] = p]
  /\ usable' = [usable EXCEPT ![c] = as \ Cooled(p)]
  /\ UNCHANGED <<registry, stats, cooldown, addr, victim, life, loop, accept,
                 stopping>>

\* The stream reports its peer address, or the first usable one stands in.
DialOk(c) ==
  /\ pc[c] \in {"dial", "redial"}
  /\ \E a \in usable[c] : addr' = [addr EXCEPT ![c] = a]
  /\ usable' = [usable EXCEPT ![c] = {}]
  /\ Goto(c, "handshake")
  /\ UNCHANGED <<registry, stats, cooldown, peer, victim, life, loop, accept,
                 stopping>>

\* Mutant of DialFailed: retried in place instead of given up.
DialFailedRetried(c) ==
  /\ pc[c] = "dial"
  /\ cooldown' = cooldown \cup ({peer[c]} \X Preferred(usable[c]))
  /\ UNCHANGED <<registry, stats, attempts, life, loop, accept, stopping>>

DialFailed(c) ==
  /\ pc[c] = "dial"
  /\ cooldown' = cooldown \cup ({peer[c]} \X Preferred(usable[c]))
  /\ IF Fallback(usable[c]) = {}
     THEN Return(c, "failed")
     ELSE Goto(c, "redial") /\ UNCHANGED <<peer, usable, addr>>
  /\ UNCHANGED <<registry, stats, victim, life, loop, accept, stopping>>

RedialFailed(c) ==
  /\ pc[c] = "redial"
  /\ cooldown' = cooldown \cup ({peer[c]} \X Fallback(usable[c]))
  /\ Return(c, "failed")
  /\ UNCHANGED <<registry, stats, victim, life, loop, accept, stopping>>

\* Cooldown ends with time; in_cooldown and prune_cooldown drop the entry.
CooldownExpires(k) ==
  /\ k \in cooldown
  /\ cooldown' = cooldown \ {k}
  /\ UNCHANGED <<registry, stats, attempts, life, loop, accept, stopping>>

-----------------------------------------------------------------------------
(* The accept loop and the task it spawns per connection *)

AcceptTop ==
  /\ accept = "top"
  /\ accept' = IF shutting_down THEN "exited" ELSE "poll"
  /\ UNCHANGED <<registry, stats, cooldown, attempts, life, loop, stopping>>

\* The select! is polled: wait_shutdown subscribes to the watch channel.
AcceptPoll ==
  /\ accept = "poll"
  /\ accept' = "select"
  /\ UNCHANGED <<registry, stats, cooldown, attempts, life, loop, stopping>>

AcceptShutdown ==
  /\ accept = "select"
  /\ signal
  /\ accept' = "exited"
  /\ UNCHANGED <<registry, stats, cooldown, attempts, life, loop, stopping>>

\* accept() fails; the loop backs off and starts over.
AcceptError ==
  /\ accept = "select"
  /\ accept' = "top"
  /\ UNCHANGED <<registry, stats, cooldown, attempts, life, loop, stopping>>

\* TCP connections arrive from distinct source addresses.
AcceptConnection(i, a) ==
  /\ accept = "select"
  /\ pc[i] = "idle"
  /\ \A j \in Accept : addr[j] # a
  /\ addr' = [addr EXCEPT ![i] = a]
  /\ Goto(i, "inbound")
  /\ accept' = "top"
  /\ UNCHANGED <<registry, stats, cooldown, peer, usable, victim, life, loop,
                 stopping>>

InboundStart(i) ==
  /\ pc[i] = "inbound"
  /\ IF shutting_down \/ Full
     THEN Return(i, "failed")
     ELSE Goto(i, "handshake") /\ UNCHANGED <<peer, usable, addr>>
  /\ UNCHANGED <<registry, stats, cooldown, victim, life, loop, accept, stopping>>

-----------------------------------------------------------------------------
(* The handshake, before registration and before the receive loop *)

HandshakeOk(s, p) ==
  /\ pc[s] = "handshake"
  /\ peer' = [peer EXCEPT ![s] = p]
  /\ Goto(s, "activate")
  /\ UNCHANGED <<registry, stats, cooldown, usable, addr, victim, life, loop,
                 accept, stopping>>

\* Error or timeout: a caller cools the address for the peer it asked for.
HandshakeFailed(s) ==
  /\ pc[s] = "handshake"
  /\ cooldown' = IF s \in Call THEN cooldown \cup {<<peer[s], addr[s]>>}
                               ELSE cooldown
  /\ Return(s, "failed")
  /\ UNCHANGED <<registry, stats, victim, life, loop, accept, stopping>>

\* Unverified: the entry is filed under the identity claimed, not asked for.
HandshakeUnverified(s, p) ==
  /\ pc[s] = "handshake"
  /\ cooldown' = IF s \in Call THEN cooldown \cup {<<p, addr[s]>>}
                               ELSE cooldown
  /\ Return(s, "failed")
  /\ UNCHANGED <<registry, stats, victim, life, loop, accept, stopping>>

-----------------------------------------------------------------------------
(* activate(): arbitrate, register, count, announce *)

\* get_by_peer and the decision, under a lock that is then released.
Arbitrate(s) ==
  /\ pc[s] = "activate"
  /\ LET existing == GetByPeer(peer[s]) IN
       \/ /\ existing = None
          /\ Goto(s, "insert")
          /\ UNCHANGED <<peer, usable, addr, victim>>
       \/ /\ existing # None /\ NewWins(s, existing)
          /\ victim' = [victim EXCEPT ![s] = existing]
          /\ Goto(s, "evict")
          /\ UNCHANGED <<peer, usable, addr>>
       \/ /\ existing # None /\ ~ NewWins(s, existing)
          /\ Return(s, "discarded")
          /\ UNCHANGED victim
  /\ UNCHANGED <<registry, stats, cooldown, life, loop, accept, stopping>>

\* disconnect(existing.id, Replaced), awaited to its end.
Evict(s) ==
  /\ pc[s] = "evict"
  /\ StartDisconnect(victim[s])
  /\ Goto(s, "evicting")
  /\ UNCHANGED <<stats, cooldown, peer, usable, addr, victim, loop, accept,
                 stopping>>

\* Somebody else has taken it out: disconnect returns at once.
EvictMissed(s) ==
  /\ pc[s] = "evict"
  /\ victim[s] \notin by_id
  /\ victim' = [victim EXCEPT ![s] = None]
  /\ Goto(s, "insert")
  /\ UNCHANGED <<registry, stats, cooldown, peer, usable, addr, life, loop,
                 accept, stopping>>

EvictDone(s) ==
  /\ pc[s] = "evicting"
  /\ life[victim[s]] = "gone"
  /\ victim' = [victim EXCEPT ![s] = None]
  /\ Goto(s, "insert")
  /\ UNCHANGED <<registry, stats, cooldown, peer, usable, addr, life, loop,
                 accept, stopping>>

\* Mutant of Register: insert overwrites without looking the peer up again.
RegisterUnchecked(s) ==
  /\ pc[s] = "insert"
  /\ Insert(s)
  /\ Goto(s, "established")
  /\ UNCHANGED <<stats, cooldown, peer, usable, addr, victim, life, loop,
                 accept, stopping>>

Register(s) ==
  /\ pc[s] = "insert"
  /\ GetByPeer(peer[s]) = None
  /\ Insert(s)
  /\ Goto(s, "established")
  /\ UNCHANGED <<stats, cooldown, peer, usable, addr, victim, life, loop,
                 accept, stopping>>

\* Another activation registered the peer since the lookup.
RegisterRefused(s) ==
  /\ pc[s] = "insert"
  /\ GetByPeer(peer[s]) # None
  /\ Return(s, "discarded")
  /\ UNCHANGED <<registry, stats, cooldown, victim, life, loop, accept, stopping>>

\* record_established: two counters, two atomic additions.
CountEstablished(s) ==
  /\ pc[s] = "established"
  /\ established' = established + 1
  /\ Goto(s, "activeUp")
  /\ UNCHANGED <<registry, closed, active, cooldown, peer, usable, addr, victim,
                 life, loop, accept, stopping>>

CountActive(s) ==
  /\ pc[s] = "activeUp"
  /\ active' = active + 1
  /\ Goto(s, "announce")
  /\ UNCHANGED <<registry, established, closed, cooldown, peer, usable, addr,
                 victim, life, loop, accept, stopping>>

\* The debug_assert of record_established, Connected, spawn_recv_loop.
Announce(s) ==
  /\ pc[s] = "announce"
  /\ loop' = [loop EXCEPT ![s] = "poll"]
  /\ Goto(s, "done")
  /\ UNCHANGED <<registry, stats, cooldown, peer, usable, addr, victim, life,
                 accept, stopping>>

-----------------------------------------------------------------------------
(* Removal: disconnect() after the table, and shutdown()'s body *)

\* disconnect() called by a user, by tick or after a fatal send error.
Disconnect(s) ==
  /\ StartDisconnect(s)
  /\ UNCHANGED <<stats, cooldown, attempts, loop, accept, stopping>>

\* transport.close().await returns; record_closed adds to closed ...
CountClosed(s) ==
  /\ life[s] = "closing"
  /\ closed' = closed + 1
  /\ life' = [life EXCEPT ![s] = "counting"]
  /\ UNCHANGED <<registry, established, active, cooldown, attempts, loop, accept,
                 stopping>>

\* Mutant of CountInactive: fetch_sub instead of the saturating update.
CountInactiveWrapping(s) ==
  /\ life[s] = "counting"
  /\ active' = active - 1
  /\ life' = [life EXCEPT ![s] = "gone"]
  /\ UNCHANGED <<registry, established, closed, cooldown, attempts, loop, accept,
                 stopping>>

\* ... then takes one from active, stopping at zero; Disconnected is sent.
CountInactive(s) ==
  /\ life[s] = "counting"
  /\ active' = IF active = 0 THEN 0 ELSE active - 1
  /\ life' = [life EXCEPT ![s] = "gone"]
  /\ UNCHANGED <<registry, established, closed, cooldown, attempts, loop, accept,
                 stopping>>

-----------------------------------------------------------------------------
(* The receive loop of a session *)

\* The select! is polled: wait_shutdown subscribes to the watch channel.
LoopPoll(s) ==
  /\ loop[s] = "poll"
  /\ loop' = [loop EXCEPT ![s] = "select"]
  /\ UNCHANGED <<registry, stats, cooldown, attempts, life, accept, stopping>>

\* A frame is handled; the other branches, and the subscription, are dropped.
LoopFrame(s) ==
  /\ loop[s] = "select"
  /\ loop' = [loop EXCEPT ![s] = "poll"]
  /\ UNCHANGED <<registry, stats, cooldown, attempts, life, accept, stopping>>

LoopDisconnect(s) ==
  \/ /\ StartDisconnect(s)
     /\ loop' = [loop EXCEPT ![s] = "leaving"]
     /\ UNCHANGED <<stats, cooldown, attempts, accept, stopping>>
  \/ /\ s \notin by_id
     /\ loop' = [loop EXCEPT ![s] = "exited"]
     /\ UNCHANGED <<registry, stats, cooldown, attempts, life, accept, stopping>>

\* Mutants of LoopShutdown and LoopError: break, and leave the table alone.
LoopAbandons(s) ==
  /\ loop[s] = "select"
  /\ signal
  /\ loop' = [loop EXCEPT ![s] = "exited"]
  /\ UNCHANGED <<registry, stats, cooldown, attempts, life, accept, stopping>>

LoopErrorAbandons(s) ==
  /\ loop[s] = "select"
  /\ loop' = [loop EXCEPT ![s] = "exited"]
  /\ UNCHANGED <<registry, stats, cooldown, attempts, life, accept, stopping>>

LoopShutdown(s) ==
  /\ loop[s] = "select"
  /\ signal
  /\ LoopDisconnect(s)

LoopError(s) ==
  /\ loop[s] = "select"
  /\ LoopDisconnect(s)

\* wait_closed: the disconnect after the loop is called here too.
LoopClosed(s) ==
  /\ loop[s] = "select"
  /\ MarkedClosed(s)
  /\ LoopDisconnect(s)

\* The loop's own disconnect has run to its end.
LoopExit(s) ==
  /\ loop[s] = "leaving"
  /\ life[s] = "gone"
  /\ loop' = [loop EXCEPT ![s] = "exited"]
  /\ UNCHANGED <<registry, stats, cooldown, attempts, life, accept, stopping>>

-----------------------------------------------------------------------------
(* shutdown() *)

ShutdownBegin ==
  /\ ~ shutting_down
  /\ shutting_down' = TRUE
  /\ down' = "notify"
  /\ UNCHANGED <<registry, stats, cooldown, attempts, life, loop, accept, signal,
                 draining>>

\* The tasks that hold a receiver of the shutdown channel.
Subscribed == accept = "select" \/ \E s \in Attempt : loop[s] = "select"

\* watch::Sender::send fails, and stores nothing, while nobody is subscribed.
ShutdownNotify ==
  /\ down = "notify"
  /\ signal' = Subscribed
  /\ down' = "drain"
  /\ UNCHANGED <<registry, stats, cooldown, attempts, life, loop, accept,
                 shutting_down, draining>>

ShutdownDrain ==
  /\ down = "drain"
  /\ Drain
  /\ life' = [s \in Attempt |-> IF s \in by_id THEN "drained" ELSE life[s]]
  /\ down' = "closing"
  /\ UNCHANGED <<stats, cooldown, attempts, loop, accept, shutting_down, signal,
                 draining>>

DrainIdle == draining # None => life[draining] = "gone"

\* The drained sessions are closed one after the other.
ShutdownClose(s) ==
  /\ down = "closing"
  /\ DrainIdle
  /\ life[s] = "drained"
  /\ life' = [life EXCEPT ![s] = "closing"]
  /\ draining' = s
  /\ UNCHANGED <<registry, stats, cooldown, attempts, loop, accept,
                 shutting_down, signal, down>>

ShutdownDone ==
  /\ down = "closing"
  /\ DrainIdle
  /\ \A s \in Attempt : life[s] # "drained"
  /\ down' = "done"
  /\ UNCHANGED <<registry, stats, cooldown, attempts, life, loop, accept,
                 shutting_down, signal, draining>>

-----------------------------------------------------------------------------
DialStep(c)      == DialOk(c) \/ DialFailed(c) \/ RedialFailed(c)
HandshakeStep(s) == \/ HandshakeFailed(s)
                    \/ \E p \in Peer : HandshakeOk(s, p) \/ HandshakeUnverified(s, p)
ActivateStep(s)  == \/ Arbitrate(s) \/ Evict(s) \/ EvictMissed(s) \/ EvictDone(s)
                    \/ Register(s) \/ RegisterRefused(s)
                    \/ CountEstablished(s) \/ CountActive(s) \/ Announce(s)
CloseStep(s)     == CountClosed(s) \/ CountInactive(s)
LoopWake(s)      == LoopShutdown(s) \/ LoopClosed(s)
ShutdownStep     == \/ ShutdownNotify \/ ShutdownDrain \/ ShutdownDone
                    \/ \E s \in Attempt : ShutdownClose(s)
AcceptStep       == AcceptTop \/ AcceptPoll

Next ==
  \/ \E c \in Call :
       \/ \E p \in Peer, as \in SUBSET Addr :
            ConnectRefused(c, p, as) \/ ConnectReused(c, p, as) \/ ConnectDial(c, p, as)
       \/ DialStep(c)
  \/ \E i \in Accept : InboundStart(i) \/ \E a \in Addr : AcceptConnection(i, a)
  \/ \E s \in Attempt :
       \/ HandshakeStep(s) \/ ActivateStep(s) \/ Disconnect(s) \/ CloseStep(s)
       \/ LoopPoll(s) \/ LoopFrame(s) \/ LoopError(s) \/ LoopWake(s) \/ LoopExit(s)
  \/ \E k \in cooldown : CooldownExpires(k)
  \/ AcceptStep \/ AcceptShutdown \/ AcceptError
  \/ ShutdownBegin \/ ShutdownStep

Spec == Init /\ [][Next]_vars

\* Dials and handshakes time out, closing is bounded by the write timeout, and
\* the runtime polls every ready task; select! picks among its ready branches
\* at random, so one that stays ready is taken in the end.
Fairness ==
  /\ \A c \in Call : WF_vars(DialStep(c))
  /\ \A i \in Accept : WF_vars(InboundStart(i))
  /\ \A s \in Attempt :
       /\ WF_vars(HandshakeStep(s))
       /\ WF_vars(ActivateStep(s))
       /\ WF_vars(CloseStep(s))
       /\ WF_vars(LoopPoll(s))
       /\ WF_vars(LoopExit(s))
       /\ SF_vars(LoopWake(s))
  /\ WF_vars(AcceptStep)
  /\ SF_vars(AcceptShutdown)
  /\ WF_vars(ShutdownStep)

FairSpec == Spec /\ Fairness
-----------------------------------------------------------------------------
(* Properties *)

Labels == {"idle", "dial", "redial", "inbound", "handshake", "activate", "evict",
           "evicting", "insert", "established", "activeUp", "announce", "done",
           "failed", "reused", "discarded"}
Returned == {"done", "failed", "reused", "discarded"}

\* Every variable stays in its type.
TypeOK ==
  /\ by_peer \in [Peer -> Attempt \cup {None}]
  /\ by_addr \in [Addr -> Attempt \cup {None}]
  /\ by_id \subseteq Attempt
  /\ established \in Nat /\ closed \in Nat /\ active \in Nat
  /\ cooldown \subseteq Peer \X Addr
  /\ pc \in [Attempt -> Labels]
  /\ peer \in [Attempt -> Peer \cup {None}]
  /\ usable \in [Attempt -> SUBSET Addr]
  /\ addr \in [Attempt -> Addr \cup {None}]
  /\ victim \in [Attempt -> Attempt \cup {None}]
  /\ life \in [Attempt -> {"open", "drained", "closing", "counting", "gone"}]
  /\ loop \in [Attempt -> {"none", "poll", "select", "leaving", "exited"}]
  /\ accept \in {"off", "top", "poll", "select", "exited"}
  /\ shutting_down \in BOOLEAN /\ signal \in BOOLEAN
  /\ down \in {"up", "notify", "drain", "closing", "done"}
  /\ draining \in Attempt \cup {None}

\* The three maps of the registry agree: a registered session is the one its
\* peer leads to, so a peer has at most one, and no index entry dangles or
\* names a session of another peer or address (registry.rs:5-16).
IndexesAgree ==
  /\ \A s \in by_id : peer[s] \in Peer /\ by_peer[peer[s]] = s
  /\ \A p \in Peer : by_peer[p] # None => by_peer[p] \in by_id /\ peer[by_peer[p]] = p
  /\ \A a \in Addr : by_addr[a] # None => by_addr[a] \in by_id /\ addr[by_addr[a]] = a

\* While the session an index leads to stays registered, the index leads to it,
\* or to a session that has just replaced it.  The older of two sessions on one
\* address that goes late, or the late close of a replaced session, does not
\* take the entry of the newer one along (registry.rs:69).
NewestKeepsIndex ==
  [][/\ \A p \in Peer : by_peer[p] \in by_id' => by_peer'[p] = by_peer[p]
     /\ \A a \in Addr : by_addr[a] \in by_id' => \/ by_addr'[a] = by_addr[a]
                                                 \/ by_addr'[a] \in by_id' \ by_id]_vars

\* No half-dead session: one that is in the table and announced has a receive
\* loop that is still reading, whatever closes, replacements and errors raced
\* (stats.rs:9-11 tells of sessions that could not send any more).
RegisteredIsServed ==
  \A s \in by_id : /\ life[s] = "open"
                   /\ pc[s] = "done" => loop[s] \in {"poll", "select"}

\* Each session is counted established once and closed once, however many of
\* its receive loop, replacement, tick, user and shutdown try to close it
\* (acceptor.rs:143-145): what the counters owe the table is exactly the
\* registrations and the removals that are still on their way.
RemovalsCountedOnce ==
  established + Cardinality({s \in Attempt : pc[s] = "established"})
    = closed + Cardinality({s \in Attempt : life[s] \in {"drained", "closing"}})
             + Cardinality(by_id)

\* No registration and no removal is half done.
Settled ==
  /\ \A s \in Attempt : pc[s] \notin {"established", "activeUp", "announce"}
  /\ \A s \in Attempt : life[s] \in {"open", "gone"}

\* The saturating decrement errs on one side only: active may come to exceed
\* the number of live sessions, it never falls short of it (stats.rs:76-82).
ActiveNeverShort == Settled => active >= Cardinality(by_id)

\* established - closed == active, as promised by stats.rs:3-9.
ActiveIsExact == Settled => established - closed = active

\* An attempt that got going comes back to its caller: no dial, handshake,
\* replacement or lost race leaves activate() waiting for ever.
AttemptsReturn == \A s \in Attempt : pc[s] # "idle" ~> pc[s] \in Returned

\* A session that was taken out of the table, by whomever and at whatever point
\* of its activation, loses its receive loop and has its close counted.
RemovedSessionsEnd ==
  \A s \in Attempt : life[s] # "open" ~> life[s] = "gone" /\ loop[s] = "exited"

\* Once the watch channel holds the signal, the table empties and stays empty,
\* although activations that were under way still register sessions.
SignalEmptiesTable == signal ~> [](by_id = {})

\* "The shutdown signal: a watch channel, wake-ups are not lost" (mod.rs:171):
\* after shutdown no receive loop stays parked on its session.
ShutdownWakesEveryLoop ==
  down = "done" ~> \A s \in Attempt : loop[s] \in {"none", "exited"}

\* The registry implements the table of sessions it promises.
Table == INSTANCE SessionTable WITH
  Session <- Attempt, slot <- by_peer, spent <- {s \in Attempt : life[s] # "open"}
RefinesTable == Table!Spec
=============================================================================
