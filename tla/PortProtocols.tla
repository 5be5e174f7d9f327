---------------------------- MODULE PortProtocols ---------------------------
(***************************************************************************)
(* The NAT-PMP and PCP clients (pnos-net: nat/nat_pmp.rs, nat/pcp.rs).     *)
(* Every call opens a socket of its own, sends one request and takes the   *)
(* first answer; nothing is repeated.  The gateway is external: it does    *)
(* what RFC 6886 and RFC 6887 say, and may refuse; packets may be lost.    *)
(***************************************************************************)
EXTENDS Naturals, FiniteSets

CONSTANTS
  Asker,           \* calls of map_port(), unmap_port(), get_external_address(), announce()
  Speaks,          \* the protocol of each call: "pmp" or "pcp"
  KnownProto,      \* the protocols the gateway knows
  Inner, Outer,    \* internal and external ports
  Lifetime, Epoch  \* values the gateway puts in an answer

ASSUME AnswersNat == Lifetime \in Nat \ {0} /\ Epoch \in Nat
ASSUME OuterNat == Outer \subseteq Nat \ {0}

VARIABLES
  ask,             \* each call: [at, op, port]; at is "idle", "sent", "ok", "code" or "err"
  said,            \* the answer in the socket of each call
  got,             \* the external port each call reports, 0 for none
  gate,            \* the gateway: external port of each internal port, 0 for none
  gateDid,         \* what the gateway did with each call: "no", "yes" or "refused"
  latest           \* history: the call the gateway last served for each internal port

ppvars == <<ask, said, got, gate, gateDid, latest>>

Silence == [opcode |-> "none", result |-> 0, lifetime |-> 0, epoch |-> 0, outer |-> 0]

PPInit ==
  /\ ask = [c \in Asker |-> [at |-> "idle", op |-> "probe", port |-> 0]]
  /\ said = [c \in Asker |-> Silence] /\ got = [c \in Asker |-> 0]
  /\ gate = [i \in Inner |-> 0] /\ gateDid = [c \in Asker |-> "no"]
  /\ latest = [i \in Inner |-> {}]

SendAsk(c) ==
  /\ ask[c].at = "idle"
  /\ \E op \in {"probe", "map", "unmap"}, i \in Inner :
       ask' = [ask EXCEPT ![c] = [at |-> "sent", op |-> op, port |-> i]]
  /\ UNCHANGED <<said, got, gate, gateDid, latest>>

-----------------------------------------------------------------------------
(* The gateway (external) *)

Reply(c, res, life, out) ==
  said' = [said EXCEPT ![c] =
    [opcode |-> ask[c].op, result |-> res, lifetime |-> life, epoch |-> Epoch, outer |-> out]]

Due(c) == ask[c].at = "sent" /\ gateDid[c] = "no"

\* The mapping there is, or a free port, which need not be the one that was asked for.
Grant(c) ==
  LET i == ask[c].port IN
  /\ Due(c) /\ Speaks[c] \in KnownProto /\ ask[c].op = "map"
  /\ \E p \in Outer :
       /\ IF gate[i] # 0 THEN p = gate[i] ELSE \A j \in Inner : gate[j] # p
       /\ gate' = [gate EXCEPT ![i] = p] /\ Reply(c, 0, Lifetime, p)
  /\ gateDid' = [gateDid EXCEPT ![c] = "yes"] /\ latest' = [latest EXCEPT ![i] = {c}]
  /\ UNCHANGED <<ask, got>>

Release(c) ==
  LET i == ask[c].port IN
  /\ Due(c) /\ Speaks[c] \in KnownProto /\ ask[c].op = "unmap"
  /\ gate' = [gate EXCEPT ![i] = 0] /\ Reply(c, 0, 0, 0)
  /\ gateDid' = [gateDid EXCEPT ![c] = "yes"] /\ latest' = [latest EXCEPT ![i] = {c}]
  /\ UNCHANGED <<ask, got>>

Announce(c) ==
  /\ Due(c) /\ Speaks[c] \in KnownProto /\ ask[c].op = "probe" /\ Reply(c, 0, 0, 0)
  /\ gateDid' = [gateDid EXCEPT ![c] = "yes"] /\ UNCHANGED <<ask, got, gate, latest>>

\* A refusal says how long it will stand, or nothing of that; an unknown version is
\* refused in the format of the other protocol.
RouterRefuses(c) ==
  /\ Due(c)
  /\ IF Speaks[c] \in KnownProto THEN \E life \in {0, Lifetime} : Reply(c, 2, life, 0)
     ELSE said' = [said EXCEPT ![c] = [Silence EXCEPT !.opcode = "foreign", !.result = 1]]
  /\ gateDid' = [gateDid EXCEPT ![c] = "refused"] /\ UNCHANGED <<ask, got, gate, latest>>

-----------------------------------------------------------------------------
(* The clients *)

\* parse_generic_response() takes the word behind the one that holds the result for
\* the result, which is the lifetime (RFC 6887 7.2).
ResultCode(c) == IF Speaks[c] = "pmp" THEN said[c].result ELSE said[c].lifetime

\* A short answer, one of another version or with another opcode is an error.
TakeReply(c) ==
  /\ ask[c].at = "sent" /\ said[c] # Silence
  /\ ask' = [ask EXCEPT ![c].at =
       IF said[c].opcode # ask[c].op THEN "err"
       ELSE IF ResultCode(c) = 0 THEN "ok" ELSE "code"]
  /\ got' = [got EXCEPT ![c] = IF said[c].opcode = ask[c].op THEN said[c].outer ELSE 0]
  /\ UNCHANGED <<said, gate, gateDid, latest>>

\* The read times out: the request or its answer was lost, or comes to a closed socket.
AskTimeout(c) ==
  /\ ask[c].at = "sent" /\ ask' = [ask EXCEPT ![c].at = "err"]
  /\ UNCHANGED <<said, got, gate, gateDid, latest>>

PPNext == \E c \in Asker :
  \/ SendAsk(c) \/ Grant(c) \/ Release(c) \/ Announce(c) \/ RouterRefuses(c)
  \/ TakeReply(c) \/ AskTimeout(c)

PPSpec == PPInit /\ [][PPNext]_ppvars

-----------------------------------------------------------------------------

PPTypeOK ==
  /\ ask \in [Asker -> [at : {"idle", "sent", "ok", "code", "err"},
                        op : {"probe", "map", "unmap"}, port : Inner \cup {0}]]
  /\ got \in [Asker -> Outer \cup {0}] /\ gate \in [Inner -> Outer \cup {0}]
  /\ gateDid \in [Asker -> {"no", "yes", "refused"}]
  /\ latest \in [Inner -> SUBSET Asker]

\* A NAT-PMP call that succeeded tells what the gateway has, until the gateway handles
\* another request for the port; of a call that failed nothing is known.
PmpTellsTheGate ==
  \A c \in Asker : LET i == ask[c].port IN
    Speaks[c] = "pmp" /\ ask[c].at = "ok" /\ ask[c].op # "probe" =>
      gateDid[c] = "yes" /\ (latest[i] = {c} => gate[i] = got[c])

\* A client reports an error code only when the gateway refused.  PCP breaks it: a
\* mapping with a lifetime is taken for a refusal with that code (pcp.rs:302).
CodesAreRefusals == \A c \in Asker : ask[c].at = "code" => gateDid[c] = "refused"

\* The one refusal taken for a success is a PCP refusal that states no lifetime
\* (pcp.rs:302); NAT-PMP takes none for one, and nobody takes a lost answer for one.
RefusalsAreSeen ==
  \A c \in Asker : ask[c].at = "ok" =>
    \/ gateDid[c] = "yes"
    \/ gateDid[c] = "refused" /\ Speaks[c] # "pmp" /\ said[c].lifetime = 0
=============================================================================
