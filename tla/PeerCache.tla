------------------------------ MODULE PeerCache -----------------------------
(***************************************************************************)
(* The ranking of cached peers (pnos-net: discovery/peer_cache.rs, and     *)
(* NodeEndpoint in types.rs).  NetAgent has the file; here are the         *)
(* entries: what upsert() counts, what prune() keeps and which address the *)
(* cache recommends.  Latencies are never measured, so they are left out.  *)
(***************************************************************************)
EXTENDS Naturals, Sequences, FiniteSets, Functions

CONSTANTS
  PeerId,          \* node identifiers
  PeerAddr,        \* addresses
  KindOf,          \* the kind of each address: "Lan", "Loopback", "Public" or "Ipv6"
  FailLimit,       \* failures in a row after which an address is left out (20)
  MaxCount,        \* the counters saturate here (u32::MAX)
  Week,            \* the age at which prune() drops a node (7 days)
  MaxTime,         \* bound on the clock
  MaxUpserts       \* bound on the calls

ASSUME CacheNat ==
  /\ FailLimit \in Nat /\ MaxCount \in Nat \ {0} /\ Week \in Nat
  /\ MaxTime \in Nat \ {0} /\ MaxUpserts \in Nat
ASSUME PeersFinite == IsFiniteSet(PeerId)
ASSUME KindsKnown == KindOf \in [PeerAddr -> {"Lan", "Loopback", "Public", "Ipv6"}]

VARIABLES
  now,
  nodes,           \* PeerCache::nodes: [id, endpoints, last_seen] each
  row,             \* history: the failures in a row of each address, since it was last added
  upserts

pkvars == <<now, nodes, row, upserts>>

PKInit ==
  /\ now = 1 /\ nodes = <<>> /\ upserts = 0
  /\ row = [n \in PeerId |-> [a \in PeerAddr |-> 0]]

Later == now < MaxTime /\ now' = now + 1 /\ UNCHANGED <<nodes, row, upserts>>

Least(i, j) == IF i < j THEN i ELSE j
More(k) == Least(k + 1, MaxCount)

NewEndpoint(a, ok) ==
  [addr |-> a, last_success |-> IF ok THEN now ELSE 0,
   success_count |-> IF ok THEN 1 ELSE 0, fail_count |-> IF ok THEN 0 ELSE 1]

\* last_success is set by a failure too.
Updated(e, ok) ==
  [e EXCEPT !.last_success = now, !.success_count = IF ok THEN More(@) ELSE @,
            !.fail_count = IF ok THEN 0 ELSE More(@)]

WithAddr(list, a, ok) ==
  IF \E i \in DOMAIN list : list[i].addr = a
  THEN [i \in DOMAIN list |-> IF list[i].addr = a THEN Updated(list[i], ok) ELSE list[i]]
  ELSE Append(list, NewEndpoint(a, ok))

Upsert(n, a, ok) ==
  /\ upserts < MaxUpserts /\ upserts' = upserts + 1
  /\ nodes' = IF \E i \in DOMAIN nodes : nodes[i].id = n
       THEN [i \in DOMAIN nodes |-> IF nodes[i].id # n THEN nodes[i]
               ELSE [nodes[i] EXCEPT !.endpoints = WithAddr(@, a, ok), !.last_seen = now]]
       ELSE Append(nodes, [id |-> n, endpoints |-> <<NewEndpoint(a, ok)>>, last_seen |-> now])
  /\ row' = [row EXCEPT ![n][a] = IF ok THEN 0 ELSE More(@)]
  /\ UNCHANGED now

\* The sum of the successes of the endpoints: each of them is counted as a pair.
Total(node) ==
  Cardinality(UNION {{i} \X (1..node.endpoints[i].success_count) : i \in DOMAIN node.endpoints})

\* The entries of a list at the positions I, in their order.
Only(list, I) ==
  [k \in 1..Cardinality(I) |-> list[CHOOSE i \in I : Cardinality({j \in I : j <= i}) = k]]

\* A stable sort by successes, the most first: at which position of the list each one was.
Rankings(list) ==
  {p \in Injection(DOMAIN list, DOMAIN list) : \A k, l \in DOMAIN list : k < l =>
     \/ Total(list[p[k]]) > Total(list[p[l]])
     \/ Total(list[p[k]]) = Total(list[p[l]]) /\ p[k] < p[l]}

Usable(list) == Only(list, {i \in DOMAIN list : list[i].fail_count < FailLimit})

\* The nodes that prune() keeps, before it sorts them.
Kept ==
  LET left == [i \in DOMAIN nodes |-> [nodes[i] EXCEPT !.endpoints = Usable(@)]]
  IN Only(left, {i \in DOMAIN left : Total(left[i]) > 0 /\ now - left[i].last_seen < Week})

Prune(max) ==
  /\ \E p \in Rankings(Kept) : nodes' = [k \in 1..Least(max, Len(Kept)) |-> Kept[p[k]]]
  /\ row' = [n \in PeerId |-> [a \in PeerAddr |->
       IF \E i \in DOMAIN nodes' : nodes'[i].id = n
            /\ \E j \in DOMAIN nodes'[i].endpoints : nodes'[i].endpoints[j].addr = a
       THEN row[n][a] ELSE 0]]
  /\ UNCHANGED <<now, upserts>>

PKNext ==
  \/ Later
  \/ \E n \in PeerId, a \in PeerAddr, ok \in BOOLEAN : Upsert(n, a, ok)
  \/ \E max \in 1..Cardinality(PeerId) : Prune(max)

PKSpec == PKInit /\ [][PKNext]_pkvars

-----------------------------------------------------------------------------

KindWeight(k) == CASE k = "Lan" -> 0 [] k = "Loopback" -> 1 [] k = "Public" -> 2 [] k = "Ipv6" -> 3

\* best_addr(): the first of the least by kind, then by successes.
Better(e, f) ==
  \/ KindWeight(KindOf[e.addr]) < KindWeight(KindOf[f.addr])
  \/ KindWeight(KindOf[e.addr]) = KindWeight(KindOf[f.addr]) /\ e.success_count > f.success_count

BestAddr(node) ==
  LET list == Usable(node.endpoints)
      best == {i \in DOMAIN list : \A j \in DOMAIN list :
                 ~Better(list[j], list[i]) /\ (Better(list[i], list[j]) \/ i <= j)}
  IN {list[i].addr : i \in best}

TopAddrs(n) ==
  LET list == Only(nodes, {i \in DOMAIN nodes : BestAddr(nodes[i]) # {}})
      p == CHOOSE p \in Rankings(list) : TRUE
  IN [k \in 1..Least(n, Len(list)) |-> list[p[k]]]

-----------------------------------------------------------------------------

PKTypeOK ==
  /\ now \in 1..MaxTime
  /\ \A i \in DOMAIN nodes :
       /\ nodes[i].id \in PeerId /\ nodes[i].last_seen \in 1..now
       /\ \A j \in DOMAIN nodes[i].endpoints : LET e == nodes[i].endpoints[j] IN
            e.addr \in PeerAddr /\ {e.success_count, e.fail_count} \subseteq 0..MaxCount

\* A node and an address are there once, and an address is left out after FailLimit
\* failures in a row and for nothing else (peer_cache.rs:252-256).
FailuresInARow ==
  \A i, j \in DOMAIN nodes :
    /\ nodes[i].id = nodes[j].id => i = j
    /\ \A k, l \in DOMAIN nodes[i].endpoints :
         LET e == nodes[i].endpoints IN
         (e[k].addr = e[l].addr => k = l) /\ e[k].fail_count = row[nodes[i].id][e[k].addr]

\* The recommendation names one address of a node as soon as one is usable, and leaves
\* out no node that worked more often than one it names (peer_cache.rs:217-220).
BestAreKept ==
  /\ \A i \in DOMAIN nodes :
       LET some == Usable(nodes[i].endpoints) # <<>> IN
       Cardinality(BestAddr(nodes[i])) = IF some THEN 1 ELSE 0
  /\ \A n \in 1..Cardinality(PeerId) : LET top == TopAddrs(n) IN
       \A i \in DOMAIN nodes :
         BestAddr(nodes[i]) = {} \/ (\E k \in DOMAIN top : top[k] = nodes[i])
           \/ (Len(top) = n /\ \A k \in 1..n : Total(top[k]) >= Total(nodes[i]))
=============================================================================
