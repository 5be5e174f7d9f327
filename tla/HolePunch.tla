------------------------------ MODULE HolePunch -----------------------------
(***************************************************************************)
(* UDP hole punching (pnos-net: nat/udp_hole_punch.rs).  Nodes behind NATs *)
(* punch towards each other, each through the one socket of its puncher:   *)
(* a burst opens the own NAT for the peer, and any packet that the socket  *)
(* then has counts as the peer's answer.  The NATs and the network are     *)
(* external: a NAT lets in only what comes from where its node sent to.    *)
(***************************************************************************)
EXTENDS Naturals, FiniteSets

CONSTANTS
  Host,            \* nodes, each behind a NAT
  Punch,           \* the calls punch(): pairs <<node, peer>>
  MaxRetries,      \* HolePunchConfig::max_retries (3)
  MaxLoss,         \* bursts of which no packet gets through the network
  Nobody

ASSUME PunchPairs == Punch \subseteq {x \in Host \X Host : x[1] # x[2]} /\ IsFiniteSet(Punch)
ASSUME RetriesNat == MaxRetries \in Nat /\ MaxLoss \in Nat
ASSUME NobodyIsNone == Nobody \notin Host

VARIABLES
  punch,           \* each call: "idle", "send", "wait", "pause", "last", "ok" or "failed"
  retry,           \* the attempt it is at
  confirmed,       \* the address it takes for the peer's, or Nobody
  opened,          \* the nodes that each node's NAT lets in
  flying,          \* bursts under way: <<from, to>>
  socket,          \* the nodes of whose packets the socket of a node holds some
  met,             \* history: calls whose peer's packets found their NAT open and an
                   \* attempt left
  total, good, bad,  \* HolePunchStats of each node
  losses

hpvars == <<punch, retry, confirmed, opened, flying, socket, met, total, good, bad, losses>>

Back(x) == <<x[2], x[1]>>

HPTypeOK ==
  /\ punch \in [Punch -> {"idle", "send", "wait", "pause", "last", "ok", "failed"}]
  /\ retry \in [Punch -> 0..MaxRetries]
  /\ confirmed \in [Punch -> Host \cup {Nobody}]
  /\ opened \in [Host -> SUBSET Host] /\ socket \in [Host -> SUBSET Host]
  /\ flying \subseteq Host \X Host /\ met \subseteq Punch
  /\ total \in [Host -> Nat] /\ good \in [Host -> Nat] /\ bad \in [Host -> Nat]
  /\ losses \in 0..MaxLoss

HPInit ==
  /\ punch = [x \in Punch |-> "idle"] /\ retry = [x \in Punch |-> 0]
  /\ confirmed = [x \in Punch |-> Nobody]
  /\ opened = [n \in Host |-> {}] /\ socket = [n \in Host |-> {}]
  /\ flying = {} /\ met = {}
  /\ total = [n \in Host |-> 0] /\ good = [n \in Host |-> 0] /\ bad = [n \in Host |-> 0]
  /\ losses = 0

PunchTo(x, s) == punch' = [punch EXCEPT ![x] = s]

StartPunch(x) ==
  /\ punch[x] = "idle" /\ PunchTo(x, IF MaxRetries = 0 THEN "last" ELSE "send")
  /\ UNCHANGED <<retry, confirmed, opened, flying, socket, met, total, good, bad, losses>>

\* The call the other way, whose NAT is open already and which will still look.
Expecting(y) == y \in Punch /\ punch[y] \in {"send", "wait", "pause"} /\ y[2] \in opened[y[1]]

\* punch_once(): the packets go out, which opens the own NAT for the peer.  The NAT
\* type is never detected (the second socket cannot bind the address of the first),
\* so all packets are sent first and the answer is awaited after them.
Burst(x) ==
  /\ punch[x] = "send" /\ PunchTo(x, "wait")
  /\ opened' = [opened EXCEPT ![x[1]] = @ \cup {x[2]}]
  /\ \/ flying' = flying \cup {x} /\ UNCHANGED losses
     \/ losses < MaxLoss /\ losses' = losses + 1 /\ UNCHANGED flying
  /\ met' = IF Expecting(Back(x)) THEN met \cup {Back(x)} ELSE met
  /\ UNCHANGED <<retry, confirmed, socket, total, good, bad>>

\* The NAT of the receiver lets the packets in, or drops them (external).
Arrive(f) ==
  /\ f \in flying /\ flying' = flying \ {f}
  /\ socket' = IF f[1] \in opened[f[2]] THEN [socket EXCEPT ![f[2]] = @ \cup {f[1]}] ELSE socket
  /\ UNCHANGED <<punch, retry, confirmed, opened, met, total, good, bad, losses>>

Record(n, counter, other) ==
  /\ total' = [total EXCEPT ![n] = @ + 1]
  /\ counter' = [counter EXCEPT ![n] = @ + 1]
  /\ UNCHANGED other

\* wait_for_response(): a packet from anyone ends the wait; others of its burst may
\* stay in the socket.
PunchAnswered(x) ==
  /\ punch[x] = "wait" /\ PunchTo(x, "ok")
  /\ \E m \in socket[x[1]] :
       /\ confirmed' = [confirmed EXCEPT ![x] = m]
       /\ \/ socket' = [socket EXCEPT ![x[1]] = @ \ {m}]
          \/ UNCHANGED socket
  /\ Record(x[1], good, bad)
  /\ UNCHANGED <<retry, opened, flying, met, losses>>

\* Mutant of NoAnswer: what came too late is thrown away before the next attempt.
NoAnswerDrained(x) ==
  /\ punch[x] = "wait" /\ flying = {}
  /\ retry' = [retry EXCEPT ![x] = @ + 1]
  /\ PunchTo(x, IF retry'[x] = MaxRetries THEN "last" ELSE "pause")
  /\ socket' = [socket EXCEPT ![x[1]] = {}]
  /\ UNCHANGED <<confirmed, opened, flying, met, total, good, bad, losses>>

\* The timeout is longer than packets need, and it pauses after the last attempt too.
NoAnswer(x) ==
  /\ punch[x] = "wait" /\ socket[x[1]] = {} /\ \A f \in flying : f[2] # x[1]
  /\ retry' = [retry EXCEPT ![x] = @ + 1]
  /\ PunchTo(x, IF retry'[x] = MaxRetries THEN "last" ELSE "pause")
  /\ UNCHANGED <<confirmed, opened, flying, socket, met, total, good, bad, losses>>

PunchAgain(x) ==
  /\ punch[x] = "pause" /\ PunchTo(x, "send")
  /\ UNCHANGED <<retry, confirmed, opened, flying, socket, met, total, good, bad, losses>>

GiveUp(x) ==
  /\ punch[x] = "last" /\ PunchTo(x, "failed")
  /\ Record(x[1], bad, good)
  /\ UNCHANGED <<retry, confirmed, opened, flying, socket, met, losses>>

PunchStep(x) == Burst(x) \/ PunchAnswered(x) \/ NoAnswer(x) \/ PunchAgain(x) \/ GiveUp(x)

HPNext ==
  \/ \E x \in Punch : StartPunch(x) \/ PunchStep(x)
  \/ \E f \in Host \X Host : Arrive(f)

HPSpec == HPInit /\ [][HPNext]_hpvars

HPFairness ==
  /\ \A x \in Punch : WF_hpvars(PunchStep(x))
  /\ \A f \in Host \X Host : WF_hpvars(Arrive(f))

HPFairSpec == HPSpec /\ HPFairness

-----------------------------------------------------------------------------

\* An address is confirmed only when there is a hole in both NATs: the node sent
\* there and was sent to from there (udp_hole_punch.rs:6-19), although the answer
\* may be another peer's, or one that came for an earlier punch.
HolesAreMutual ==
  \A x \in Punch : LET m == confirmed[x] IN
    m # Nobody => m \in opened[x[1]] /\ x[1] \in opened[m]

\* Without loss a call fails, whose peer's packets came through the hole while it had
\* an attempt left, only if another call of the node took them from the shared socket.
HoleIsUsed ==
  \A x \in Punch :
    losses = 0 /\ x \in met /\ punch[x] = "failed"
      => \E y \in Punch \ {x} : y[1] = x[1] /\ confirmed[y] = x[2]

\* The counters of a node account for its calls, each once.
PunchesCounted ==
  \A n \in Host :
    /\ total[n] = good[n] + bad[n]
    /\ total[n] = Cardinality({x \in Punch : x[1] = n /\ punch[x] \in {"ok", "failed"}})
=============================================================================
