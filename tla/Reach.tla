-------------------------------- MODULE Reach -------------------------------
(***************************************************************************)
(* Reaching a peer (pnos-net: transport/router.rs, transport/tcp.rs,       *)
(* transport/iroh.rs, strategy.rs, connector.rs).  The router races the    *)
(* iroh transport against the TCP transport, and falls back to the other   *)
(* one when the first to finish has failed.  The TCP transport dials every *)
(* address, and then punches a hole to each one and dials it once more.    *)
(* Remote listeners, iroh and the outcome of a punch are external.         *)
(***************************************************************************)
EXTENDS Naturals, FiniteSets

CONSTANTS
  Way,             \* concurrent calls connect()
  NumAddrs,        \* addresses of the peer
  DialRetries,     \* TcpConnectConfig::max_retries (2)
  Mode,            \* TransportMode: "tcp", "iroh" or "auto"
  MaxChanges       \* how often an address starts or stops to accept connections

ASSUME ReachNat == NumAddrs \in Nat \ {0} /\ DialRetries \in Nat /\ MaxChanges \in Nat
ASSUME WaysFinite == IsFiniteSet(Way)
ASSUME ModeIsMode == Mode \in {"tcp", "iroh", "auto"}

VARIABLES
  fitted,          \* the transports that the router was built with
  way,             \* router: "idle", "race", "tcp", "iroh", "ok" or "failed"
  tcp,             \* strategy: [at, addr, attempt], where at is "off", "dial", "punch",
                   \* "upgrade", "ok", "failed" or "absent"
  iroh,            \* the iroh attempt: "off", "run", "ok", "failed" or "absent"
  punchable,       \* what the caller knows of the peer: Reachability allows a punch
  listening,       \* addresses that accept a connection now
  changes,
  tried, wins,     \* TransportStats: attempts and successes of "tcp" and "iroh"
  refused,         \* history: how often each address was dialled in vain
  dropped          \* history: the attempts that the race cancelled

rcvars == <<fitted, way, tcp, iroh, punchable, listening, changes, tried, wins, refused, dropped>>

Kinds == {"tcp", "iroh"}
Addrs == 1..NumAddrs
Off == [at |-> "off", addr |-> 1, attempt |-> 0]

RCTypeOK ==
  /\ way \in [Way -> {"idle", "race", "tcp", "iroh", "ok", "failed"}]
  /\ tcp \in [Way -> [at : {"off", "dial", "punch", "upgrade", "ok", "failed", "absent"},
                      addr : Addrs, attempt : 0..DialRetries]]
  /\ iroh \in [Way -> {"off", "run", "ok", "failed", "absent"}] /\ fitted \subseteq Kinds
  /\ punchable \in [Way -> BOOLEAN] /\ listening \subseteq Addrs /\ changes \in 0..MaxChanges
  /\ tried \in [Kinds -> Nat] /\ wins \in [Kinds -> Nat]
  /\ refused \in [Way -> [Addrs -> Nat]] /\ dropped \subseteq Way \X Kinds

RCInit ==
  /\ fitted \in SUBSET Kinds
  /\ way = [w \in Way |-> "idle"] /\ tcp = [w \in Way |-> Off]
  /\ iroh = [w \in Way |-> "off"] /\ punchable = [w \in Way |-> FALSE]
  /\ listening = {} /\ changes = 0
  /\ tried = [k \in Kinds |-> 0] /\ wins = [k \in Kinds |-> 0]
  /\ refused = [w \in Way |-> [a \in Addrs |-> 0]] /\ dropped = {}

\* An address starts or stops to accept connections (external).
Change(a) ==
  /\ changes < MaxChanges /\ changes' = changes + 1
  /\ listening' = IF a \in listening THEN listening \ {a} ELSE listening \cup {a}
  /\ UNCHANGED <<fitted, way, tcp, iroh, punchable, tried, wins, refused, dropped>>

-----------------------------------------------------------------------------
(* TransportRouter *)

\* What connect() begins with: a transport that is not there fails at once.
Dialling == [at |-> IF "tcp" \in fitted THEN "dial" ELSE "absent", addr |-> 1, attempt |-> 0]
Calling == IF "iroh" \in fitted THEN "run" ELSE "absent"

StartWay(w) ==
  /\ way[w] = "idle"
  /\ way' = [way EXCEPT ![w] = IF Mode = "auto" THEN "race" ELSE Mode]
  /\ tcp' = [tcp EXCEPT ![w] = IF Mode = "iroh" THEN Off ELSE Dialling]
  /\ iroh' = [iroh EXCEPT ![w] = IF Mode = "tcp" THEN "off" ELSE Calling]
  /\ \E b \in BOOLEAN : punchable' = [punchable EXCEPT ![w] = b]
  /\ UNCHANGED <<fitted, listening, changes, tried, wins, refused, dropped>>

Result(w, k) == IF k = "tcp" THEN tcp[w].at ELSE iroh[w]
HasEnded(w, k) == Result(w, k) \in {"ok", "failed", "absent"}
WayResult(w, k) == IF Result(w, k) = "ok" THEN "ok" ELSE "failed"
TheOther(k) == CHOOSE x \in Kinds : x # k

\* connect_with(): an attempt is counted when it has ended, and only if there was one.
Count(w, k) ==
  /\ tried' = IF k \in fitted THEN [tried EXCEPT ![k] = @ + 1] ELSE tried
  /\ wins' = IF Result(w, k) = "ok" THEN [wins EXCEPT ![k] = @ + 1] ELSE wins

\* Mutant of RaceWon: after a failure the other one, which the race dropped, is awaited
\* without being started again.
RaceWonWaits(w, k) ==
  /\ way[w] = "race" /\ HasEnded(w, k) /\ Count(w, k)
  /\ dropped' = dropped \cup {<<w, TheOther(k)>>}
  /\ way' = [way EXCEPT ![w] = IF Result(w, k) = "ok" THEN "ok" ELSE TheOther(k)]
  /\ tcp' = [tcp EXCEPT ![w] = Off] /\ iroh' = [iroh EXCEPT ![w] = "off"]
  /\ UNCHANGED <<fitted, punchable, listening, changes, refused>>

\* The first to finish decides: its success is the result, and after its failure the
\* other one starts again from the beginning; what it had under way is dropped.
RaceWon(w, k) ==
  /\ way[w] = "race" /\ HasEnded(w, k) /\ Count(w, k)
  /\ dropped' = dropped \cup {<<w, TheOther(k)>>}
  /\ way' = [way EXCEPT ![w] = IF Result(w, k) = "ok" THEN "ok" ELSE TheOther(k)]
  /\ tcp' = [tcp EXCEPT ![w] = IF way'[w] = "tcp" THEN Dialling ELSE Off]
  /\ iroh' = [iroh EXCEPT ![w] = IF way'[w] = "iroh" THEN Calling ELSE "off"]
  /\ UNCHANGED <<fitted, punchable, listening, changes, refused>>

Single(w, k) ==
  /\ way[w] = k /\ HasEnded(w, k) /\ Count(w, k)
  /\ way' = [way EXCEPT ![w] = WayResult(w, k)]
  /\ UNCHANGED <<fitted, tcp, iroh, punchable, listening, changes, refused, dropped>>

\* A transport that is not there ends the race at the first poll, before the other one
\* has got anywhere.
MayMove(w) == way[w] = "race" => fitted = Kinds

\* IrohTransport::connect(): it is not started, times out, fails or connects.
IrohEnds(w) ==
  /\ MayMove(w) /\ iroh[w] = "run"
  /\ \E r \in {"ok", "failed"} : iroh' = [iroh EXCEPT ![w] = r]
  /\ UNCHANGED <<fitted, way, tcp, punchable, listening, changes, tried, wins, refused, dropped>>

-----------------------------------------------------------------------------
(* ConnectStrategy and connect_any() *)

TcpAt(w, at, a, n) == tcp' = [tcp EXCEPT ![w] = [at |-> at, addr |-> a, attempt |-> n]]

Connected(w) ==
  /\ tcp[w].at \in {"dial", "upgrade"} /\ tcp[w].addr \in listening
  /\ TcpAt(w, "ok", tcp[w].addr, tcp[w].attempt)
  /\ UNCHANGED <<fitted, way, iroh, punchable, listening, changes, tried, wins, refused, dropped>>

Refuse(w) == refused' = [refused EXCEPT ![w][tcp[w].addr] = @ + 1]

\* The same address again, then the next one, then the holes if the peer allows them.
DialRefused(w) ==
  LET t == tcp[w] IN
  /\ t.at = "dial" /\ t.addr \notin listening /\ Refuse(w)
  /\ \/ t.attempt < DialRetries /\ TcpAt(w, "dial", t.addr, t.attempt + 1)
     \/ t.attempt = DialRetries /\ t.addr < NumAddrs /\ TcpAt(w, "dial", t.addr + 1, 0)
     \/ t.attempt = DialRetries /\ t.addr = NumAddrs
          /\ TcpAt(w, IF punchable[w] THEN "punch" ELSE "failed", 1, 0)
  /\ UNCHANGED <<fitted, way, iroh, punchable, listening, changes, tried, wins, dropped>>

\* Whatever came of the punch, the address is dialled once more.
Punched(w) ==
  /\ tcp[w].at = "punch" /\ TcpAt(w, "upgrade", tcp[w].addr, 0)
  /\ UNCHANGED <<fitted, way, iroh, punchable, listening, changes, tried, wins, refused, dropped>>

UpgradeRefused(w) ==
  LET t == tcp[w] IN
  /\ t.at = "upgrade" /\ t.addr \notin listening /\ Refuse(w)
  /\ \/ t.addr < NumAddrs /\ TcpAt(w, "punch", t.addr + 1, 0)
     \/ t.addr = NumAddrs /\ TcpAt(w, "failed", t.addr, 0)
  /\ UNCHANGED <<fitted, way, iroh, punchable, listening, changes, tried, wins, dropped>>

TcpStep(w) == MayMove(w) /\ (Connected(w) \/ DialRefused(w) \/ Punched(w) \/ UpgradeRefused(w))
RouterStep(w) == \E k \in Kinds : RaceWon(w, k) \/ Single(w, k)

RCNext ==
  \/ \E a \in Addrs : Change(a)
  \/ \E w \in Way : StartWay(w) \/ TcpStep(w) \/ RouterStep(w) \/ IrohEnds(w)

RCSpec == RCInit /\ [][RCNext]_rcvars

\* Dials and punches time out, and the tasks are scheduled.  Of iroh it is assumed that
\* open_bi(), which has no timeout here (iroh.rs:347), fails on a connection that is dead.
RCFairness == \A w \in Way : WF_rcvars(TcpStep(w)) /\ WF_rcvars(RouterStep(w)) /\ WF_rcvars(IrohEnds(w))

RCFairSpec == RCSpec /\ RCFairness

-----------------------------------------------------------------------------

\* A connect() that failed, and did not lack the TCP transport, has dialled every address
\* DialRetries + 1 times, and once more after a punch; a race that was dropped midway is
\* made up for (router.rs:206).
FailsOnlyAfterAll ==
  Mode # "iroh" /\ "tcp" \in fitted => \A w \in Way : way[w] = "failed" =>
    \A a \in Addrs : refused[w][a] >= DialRetries + (IF punchable[w] THEN 2 ELSE 1)

\* The successes counted are the connections handed out, whichever transport won, and no
\* transport has more of them than attempts.
StatsTellResults ==
  /\ wins["tcp"] + wins["iroh"] = Cardinality({w \in Way : way[w] = "ok"})
  /\ \A k \in Kinds : wins[k] <= tried[k]

\* Every connect() returns: the retries are bounded, and the fallback is made once.
WaysReturn == \A w \in Way : way[w] = "race" ~> way[w] \in {"ok", "failed"}
=============================================================================
