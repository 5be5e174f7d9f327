---------------------------- MODULE NodeDiscovery ---------------------------
(***************************************************************************)
(* The two discoveries a node runs itself (pnos-net: discovery/lpd.rs,     *)
(* discovery/mqtt.rs): announcements by multicast in the local network,    *)
(* and one task per public broker.  The network, the interfaces, the       *)
(* brokers and the other nodes are external.                               *)
(***************************************************************************)
EXTENDS Naturals, FiniteSets

CONSTANTS
  Peer,            \* (node, source address) pairs that announce themselves
  Me,
  MaxRecent,       \* entries recent_announces holds before it is pruned (4096)
  LpdWindow,       \* DEFAULT_LPD_DEDUP_WINDOW_SECS
  MaxNow,          \* bound on the clock
  Iface,           \* IPv4 addresses the default route can have
  NoIface,
  Broker,          \* targets: names and fallback addresses
  MaxTries         \* failures after which a broker is given up (3)

ASSUME LpdNat == MaxRecent \in Nat /\ LpdWindow \in Nat \ {0} /\ MaxNow \in Nat
ASSUME MeIsNoPeer == Me \notin Peer
ASSUME MqttNat == MaxTries \in Nat \ {0}

VARIABLES
  clock,
  air,             \* announcements the multicast socket will still get, twice if need be
  recentAt,        \* recent_announces: when each peer was last reported
  lastTold,        \* history: the same, of all peers ever
  tooSoon,         \* history: a peer was reported twice within the window
  route,           \* the interface of the default route now (external)
  lpd,             \* LPD task: "off", "bound", "running", "failed" or "stopped"
  curIface,        \* current_iface
  sockIface,       \* the interface the socket sends on
  missed,          \* history: the route changed during the start, or a switch failed
  broker,          \* each task: "off", "resolve", "poll", "run", "signalled", "pause",
                   \* "ended" or "stopped"
  failures,        \* retries of each task
  failed,          \* history: how often each task has failed
  retained         \* the node whose message each broker retains: {} or {node}

lpdVars == <<air, recentAt, lastTold, tooSoon, route, lpd, curIface, sockIface, missed>>
mqttVars == <<broker, failures, failed, retained>>
ndvars == <<clock, lpdVars, mqttVars>>

Never == MaxNow + 1

NDInit ==
  /\ clock = 0 /\ air = {}
  /\ recentAt = [p \in {} |-> 0] /\ lastTold = [p \in Peer |-> Never] /\ tooSoon = FALSE
  /\ route \in Iface \cup {NoIface} /\ lpd = "off" /\ missed = FALSE
  /\ curIface = NoIface /\ sockIface = NoIface
  /\ broker = [b \in Broker |-> "off"] /\ failures = [b \in Broker |-> 0]
  /\ failed = [b \in Broker |-> 0] /\ retained = [b \in Broker |-> {}]

Tick ==
  /\ lpd = "running" /\ clock < MaxNow /\ clock' = clock + 1
  /\ UNCHANGED <<lpdVars, mqttVars>>

-----------------------------------------------------------------------------
(* LPD *)

\* The socket is bound, and set to the interface of the route, if that succeeds.
LpdBind ==
  /\ lpd = "off" /\ lpd' = "bound"
  /\ \/ sockIface' = route /\ UNCHANGED missed
     \/ sockIface' = NoIface /\ missed' = TRUE
  /\ UNCHANGED <<clock, air, recentAt, lastTold, tooSoon, route, curIface, mqttVars>>

\* The port is not to be had, or the group not to be joined; there is no second attempt.
LpdFails ==
  /\ lpd \in {"off", "bound"} /\ lpd' = "failed"
  /\ UNCHANGED <<clock, air, recentAt, lastTold, tooSoon, route, curIface, sockIface, missed,
                 mqttVars>>

\* The route is looked up a second time, to be compared with from now on.
LpdRun ==
  /\ lpd = "bound" /\ lpd' = "running" /\ curIface' = route
  /\ UNCHANGED <<clock, air, recentAt, lastTold, tooSoon, route, sockIface, missed, mqttVars>>

RouteChanges ==
  /\ lpd \in {"bound", "running"}
  /\ \E r \in Iface \cup {NoIface} : r # route /\ route' = r
  /\ missed' = (missed \/ lpd = "bound")
  /\ UNCHANGED <<clock, air, recentAt, lastTold, tooSoon, lpd, curIface, sockIface, mqttVars>>

\* The interface is remembered whether or not the socket took it.
IfaceTick ==
  /\ lpd = "running" /\ route # curIface /\ curIface' = route
  /\ IF route = NoIface THEN UNCHANGED <<sockIface, missed>>
     ELSE \/ sockIface' = route /\ UNCHANGED missed
          \/ missed' = TRUE /\ UNCHANGED sockIface
  /\ UNCHANGED <<clock, air, recentAt, lastTold, tooSoon, route, lpd, mqttVars>>

PeerAnnounces(p) ==
  /\ lpd = "running" /\ p \notin air /\ air' = air \cup {p}
  /\ UNCHANGED <<clock, recentAt, lastTold, tooSoon, route, lpd, curIface, sockIface, missed, mqttVars>>

Fresh(p) == clock - recentAt[p] < LpdWindow

\* should_emit(): expired entries go when the table is above its bound.
Pruned ==
  IF Cardinality(DOMAIN recentAt) > MaxRecent THEN {p \in DOMAIN recentAt : Fresh(p)}
                                             ELSE DOMAIN recentAt

\* handle_received_message(): the kernel may deliver the packet once more.
LpdReceive(p) ==
  /\ lpd = "running" /\ p \in air /\ air' \in {air, air \ {p}}
  /\ LET known == p \in Pruned /\ Fresh(p) IN
     /\ recentAt' = [q \in Pruned \cup {p} |->
          IF q = p /\ ~known THEN clock ELSE recentAt[q]]
     /\ lastTold' = IF known THEN lastTold ELSE [lastTold EXCEPT ![p] = clock]
     /\ tooSoon' = (tooSoon \/ (~known /\ lastTold[p] # Never
                                 /\ clock - lastTold[p] < LpdWindow))
  /\ UNCHANGED <<clock, route, lpd, curIface, sockIface, missed, mqttVars>>

-----------------------------------------------------------------------------
(* MQTT *)

BrokerTo(b, s) == broker' = [broker EXCEPT ![b] = s]

MqttSpawn(b) ==
  /\ broker[b] = "off" /\ BrokerTo(b, "resolve")
  /\ UNCHANGED <<clock, lpdVars, failures, failed, retained>>

\* The name is resolved.  What is to be subscribed and published waits in the client;
\* the signal of a shutdown is heard from here on, and the first poll connects.
MqttResolved(b) ==
  /\ broker[b] = "resolve" /\ BrokerTo(b, "poll")
  /\ UNCHANGED <<clock, lpdVars, failures, failed, retained>>

\* The broker retains one message of the topic, which all nodes share.
Retain(b, p) == retained' = [retained EXCEPT ![b] = {p}]

\* The broker is connected: it sends what it retains, which handle_notification() only
\* passes on, and retains what the node published instead.
MqttRun(b) ==
  /\ broker[b] = "poll" /\ BrokerTo(b, "run") /\ Retain(b, Me)
  /\ UNCHANGED <<clock, lpdVars, failures, failed>>

MqttBeat(b) ==
  /\ broker[b] = "run" /\ Retain(b, Me)
  /\ UNCHANGED <<clock, lpdVars, broker, failures, failed>>

\* Another node publishes its address (external).
OtherBeats(b, p) ==
  /\ broker[b] # "off" /\ Retain(b, p)
  /\ UNCHANGED <<clock, lpdVars, broker, failures, failed>>

Trying(b) == broker[b] \in {"resolve", "poll", "run", "signalled"}

\* Mutant of MqttFails: all tasks count together.
MqttFailsShared(b) ==
  /\ Trying(b)
  /\ failures' = [c \in Broker |-> IF failures[c] < MaxTries THEN failures[c] + 1 ELSE MaxTries]
  /\ failed' = [failed EXCEPT ![b] = @ + 1]
  /\ BrokerTo(b, IF failures'[b] >= MaxTries THEN "ended" ELSE "pause")
  /\ UNCHANGED <<clock, lpdVars, retained>>

\* The resolution, the connection or the poll failed; the count is never reset.
MqttFails(b) ==
  /\ Trying(b)
  /\ failures' = [failures EXCEPT ![b] = @ + 1] /\ failed' = [failed EXCEPT ![b] = @ + 1]
  /\ BrokerTo(b, IF failures'[b] >= MaxTries THEN "ended" ELSE "pause")
  /\ UNCHANGED <<clock, lpdVars, retained>>

MqttAgain(b) ==
  /\ broker[b] = "pause" /\ BrokerTo(b, "resolve")
  /\ UNCHANGED <<clock, lpdVars, failures, failed, retained>>

\* The signal reaches the tasks that have subscribed to it: LPD before it binds, those of
\* MQTT in their loop.
Listening(b) == broker[b] \in {"poll", "run"}

DiscoveryShutdown ==
  /\ lpd \in {"bound", "running"} \/ \E b \in Broker : Listening(b)
  /\ lpd' = IF lpd \in {"bound", "running"} THEN "stopped" ELSE lpd
  /\ broker' = [b \in Broker |-> IF Listening(b) THEN "signalled" ELSE broker[b]]
  /\ UNCHANGED <<clock, air, recentAt, lastTold, tooSoon, route, curIface, sockIface, missed,
                 failures, failed, retained>>

MqttStop(b) ==
  /\ broker[b] = "signalled" /\ BrokerTo(b, "stopped")
  /\ UNCHANGED <<clock, lpdVars, failures, failed, retained>>

LpdNext ==
  \/ LpdBind \/ LpdFails \/ LpdRun \/ RouteChanges \/ IfaceTick
  \/ \E p \in Peer : PeerAnnounces(p) \/ LpdReceive(p)

MqttNext == \E b \in Broker :
  \/ MqttSpawn(b) \/ MqttResolved(b) \/ MqttRun(b) \/ MqttBeat(b)
  \/ MqttFails(b) \/ MqttAgain(b) \/ MqttStop(b)
  \/ \E p \in Peer : OtherBeats(b, p)

NDNext == Tick \/ LpdNext \/ MqttNext \/ DiscoveryShutdown

NDSpec == NDInit /\ [][NDNext]_ndvars

-----------------------------------------------------------------------------

NDTypeOK ==
  /\ clock \in 0..MaxNow /\ air \subseteq Peer
  /\ DOMAIN recentAt \subseteq Peer /\ \A p \in DOMAIN recentAt : recentAt[p] \in 0..clock
  /\ lpd \in {"off", "bound", "running", "failed", "stopped"}
  /\ {route, curIface, sockIface} \subseteq Iface \cup {NoIface}
  /\ broker \in [Broker -> {"off", "resolve", "poll", "run", "signalled", "pause", "ended", "stopped"}]
  /\ failures \in [Broker -> 0..MaxTries] /\ failed \in [Broker -> Nat]
  /\ retained \in [Broker -> SUBSET (Peer \cup {Me})]

\* A peer is reported at most once within the window, however often its packets are
\* delivered and however the table is pruned (lpd.rs:34-39).
OncePerWindow == ~tooSoon

\* The socket sends on the interface that the task thinks it does, unless the route
\* changed during the start or a switch failed: neither is ever repaired.
IfaceFollows ==
  lpd = "running" /\ ~missed /\ curIface # NoIface => sockIface = curIface

\* A broker is given up, without a shutdown, only by a task that has failed with that
\* broker MaxTries times itself: the failures of the others do not count, and they are
\* tried on (mqtt.rs:196-220).
BrokersAreTried == \A b \in Broker : broker[b] = "ended" => failed[b] >= MaxTries

\* shutdown reaches every task of the discovery (mqtt.rs:294-295, 331-335).  It does not
\* reach one that resolves a name or waits to do so again.
ShutdownEndsDiscovery ==
  lpd = "stopped" => \A b \in Broker : broker[b] \notin {"resolve", "pause"}

\* "Retained, so that a new node gets it as soon as it has connected" (mqtt.rs:9): the
\* address of a node stays at the broker until that node publishes another.
AddressesStay ==
  [][\A b \in Broker : \A p \in retained[b] : p # Me => p \in retained'[b]]_ndvars
=============================================================================
