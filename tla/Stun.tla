-------------------------------- MODULE Stun --------------------------------
(***************************************************************************)
(* NAT type detection over STUN (pnos-net: nat/stun.rs), and the DnsPool   *)
(* that turns the names of servers into literals before it (dns.rs).       *)
(* Every binding request opens a socket of its own.  DNS, the NAT and the  *)
(* STUN servers are external.                                              *)
(***************************************************************************)
EXTENDS Naturals, Sequences

CONSTANTS
  Configured,      \* lists of endpoints to try
  Site,            \* addresses of STUN servers
  Ephemeral,       \* ports the system hands out for port 0
  NoSite

\* An endpoint as it is written; it leads to the site "to".
Endpoint ==
  [host : {"v4", "v6", "name", ""}, bracket : BOOLEAN, port : {"none", "good", "bad"},
   padded : BOOLEAN, to : Site]

ASSUME EndpointLists == Configured \subseteq Seq(Endpoint)
ASSUME PortsNat == Ephemeral \subseteq Nat

VARIABLES
  endpoints,       \* the list as configured
  fallback,        \* DnsConfig::allow_system_fallback
  bind,            \* local_addr of the request: "any", "own", or "taken" by another socket
  natKind,         \* external: "none", "cone" or "symmetric"
  stage,           \* "resolve", "first", "second" or "done"
  cursor,          \* the endpoint being resolved
  servers,         \* what resolve_endpoints() returns
  mapped,          \* the mapped addresses of the two requests: [ip, port, via]
  verdict,         \* NatType, "pending" before
  askedSystem      \* history: a request has sent a name to the system's DNS

suvars == <<endpoints, fallback, bind, natKind, stage, cursor, servers, mapped, verdict, askedSystem>>
given == <<endpoints, fallback, bind, natKind>>

Nowhere == [ip |-> "none", port |-> 0, via |-> NoSite]

SUInit ==
  /\ endpoints \in Configured /\ fallback \in BOOLEAN
  /\ bind \in {"any", "own", "taken"} /\ natKind \in {"none", "cone", "symmetric"}
  /\ stage = "resolve" /\ cursor = 1 /\ servers = <<>>
  /\ mapped = <<Nowhere, Nowhere>> /\ verdict = "pending" /\ askedSystem = FALSE

-----------------------------------------------------------------------------
(* DnsPool *)

IsLiteral(e) ==
  e.port = "good" /\ <<e.host, e.bracket>> \in {<<"v4", FALSE>>, <<"v6", TRUE>>}

\* split_host_port(): which port the endpoint gets, or "unknown".  An IPv6 address
\* without brackets swallows its port.  (An empty host is kept and fails to resolve: the same.)
PortOf(e) ==
  IF e.host = "" THEN "unknown"
  ELSE IF e.host = "v6" /\ ~e.bracket /\ e.port = "good" THEN "default"
  ELSE IF e.port = "good" THEN "given"
  ELSE IF e.port = "none" \/ e.bracket THEN "default" ELSE "unknown"

\* An item of the list that is returned: where it leads, and whether it parses as ip:port.
Item(e, literal) == [to |-> e.to, literal |-> literal]

Next1 ==
  /\ cursor' = cursor + 1
  /\ stage' = IF cursor = Len(endpoints) THEN "first" ELSE "resolve"

\* handle_unresolved()
Unresolved(e) ==
  servers' = IF fallback THEN Append(servers, Item(e, FALSE)) ELSE servers

\* One round of resolve_endpoints().  A literal is kept as it was written, spaces
\* included; an address needs no query, and a query may fail.
Resolve ==
  /\ stage = "resolve" /\ cursor <= Len(endpoints) /\ Next1
  /\ LET e == endpoints[cursor] IN
       IF IsLiteral(e) THEN servers' = Append(servers, Item(e, ~e.padded))
       ELSE IF PortOf(e) = "unknown" THEN Unresolved(e)
       ELSE \/ servers' = Append(servers, Item(e, TRUE))
            \/ e.host = "name" /\ Unresolved(e)
  /\ UNCHANGED <<given, mapped, verdict, askedSystem>>

-----------------------------------------------------------------------------
(* stun_binding_request() *)

\* What the NAT shows of a socket to a site (external): a cone NAT the same port to all.
Shown(port, site) ==
  CASE natKind = "none"      -> [ip |-> "own", port |-> port, via |-> NoSite]
    [] natKind = "cone"      -> [ip |-> "nat", port |-> port, via |-> NoSite]
    [] natKind = "symmetric" -> [ip |-> "nat", port |-> port, via |-> site]

LocalPort == IF bind = "any" THEN Ephemeral ELSE {0}

\* The mapped address is the local one: never, when the socket is bound to 0.0.0.0.
IsLocal(m) == m.ip = "own" /\ bind = "own"

Verdict(v) == verdict' = v /\ stage' = "done"

\* detect_nat_type_multi(): the second server is the first one that differs.
Second ==
  LET other == {i \in 2..Len(servers) : servers[i] # servers[1]}
  IN IF other = {} THEN 2 ELSE CHOOSE i \in other : \A j \in other : i <= j

\* No server at all; or the bind fails, nobody answers in time, or the answer does not
\* parse: another transaction, no address, or an XOR-MAPPED-ADDRESS of IPv6 alone.
NoBinding ==
  /\ stage \in {"first", "second"} /\ Verdict("unknown")
  /\ askedSystem' = (askedSystem \/
       (servers # <<>> /\ ~servers[IF stage = "first" THEN 1 ELSE Second].literal))
  /\ UNCHANGED <<given, cursor, servers, mapped>>

Bound(k, s) ==
  /\ bind # "taken"
  /\ \E p \in LocalPort : mapped' = [mapped EXCEPT ![k] = Shown(p, s.to)]
  /\ askedSystem' = (askedSystem \/ ~s.literal)

FirstBinding ==
  /\ stage = "first" /\ servers # <<>> /\ Bound(1, servers[1])
  /\ IF IsLocal(mapped'[1]) THEN Verdict("open_internet")
     ELSE IF Len(servers) = 1 THEN Verdict("unknown")
     ELSE stage' = "second" /\ UNCHANGED verdict
  /\ UNCHANGED <<given, cursor, servers>>

SecondBinding ==
  /\ stage = "second" /\ Bound(2, servers[Second])
  /\ Verdict(IF mapped'[2] = mapped[1] THEN "full_cone" ELSE "symmetric")
  /\ UNCHANGED <<given, cursor, servers>>

SUNext ==
  Resolve \/ FirstBinding \/ SecondBinding \/ NoBinding

SUSpec == SUInit /\ [][SUNext]_suvars

-----------------------------------------------------------------------------

SUTypeOK ==
  /\ stage \in {"resolve", "first", "second", "done"}
  /\ cursor \in 1..(Len(endpoints) + 1) /\ Len(servers) < cursor
  /\ verdict \in {"pending", "open_internet", "full_cone", "symmetric", "unknown"}

\* A cone verdict is right whenever the list holds two different sites: the port was
\* shown to both (stun.rs:319).  An open one is right, and never given for 0.0.0.0.
ConeIsNoGuess ==
  /\ verdict = "full_cone" /\ (\A i \in DOMAIN servers : servers[i].literal)
       /\ (\E i, j \in DOMAIN servers : servers[i].to # servers[j].to)
       => natKind # "symmetric"
  /\ verdict = "open_internet" => natKind = "none" /\ bind = "own"

\* "This process never reads the system's DNS" unless that is allowed (dns.rs:319-323);
\* it needs the endpoints to be written without spaces around them.
StrictStaysOffSystem ==
  ~fallback /\ (\A i \in DOMAIN endpoints : ~endpoints[i].padded) => ~askedSystem

\* "Two servers return different addresses: symmetric" (stun.rs:320).  The two
\* requests come from different ports, so that a cone NAT gets this verdict too.
SymmetricIsSymmetric == verdict = "symmetric" => natKind = "symmetric"
=============================================================================
