------------------------------ MODULE DualDial ------------------------------
(***************************************************************************)
(* Two SessionManagers that dial each other (session/mod.rs:383-448,       *)
(* session/acceptor.rs:57-186).  Each connection has two ends, one per     *)
(* node, and each end goes through activate() of its own node on its own   *)
(* time; closing one end is seen by the other as an error of recv_frame.   *)
(* SessionManager has the steps inside one node in full; here disconnect() *)
(* is one step, because only the close of the transport reaches the peer.  *)
(***************************************************************************)
EXTENDS Naturals

CONSTANTS
  Low, High,      \* the two node ids, Low < High
  Conn,           \* TCP connections between them
  Dialer,         \* the node that dials each of them
  MaxFaults,      \* bound on failed handshakes and disconnect() calls
  None

Node == {Low, High}

ASSUME NodesDiffer == Low # High
ASSUME DialerIsNode == Dialer \in [Conn -> Node]
ASSUME MaxFaultsNat == MaxFaults \in Nat
ASSUME NoneIsNoConn == None \notin Conn

VARIABLES
  end,        \* where each end of each connection stands
  table,      \* the session each node has registered for the other
  victim,     \* the session an end in activate() is about to replace
  faults      \* failures so far

vars == <<end, table, victim, faults>>

Other(n) == IF n = Low THEN High ELSE Low

Direction(n, k) == IF Dialer[k] = n THEN "outbound" ELSE "inbound"

Expected(n) == IF n = Low THEN "outbound" ELSE "inbound"

\* The connection dialled by the node with the smaller id is the one to keep.
NewWins(n, k, existing) ==
  Direction(n, k) = Expected(n) /\ Direction(n, existing) # Expected(n)

Init ==
  /\ end = [n \in Node |-> [k \in Conn |-> "none"]]
  /\ table = [n \in Node |-> None]
  /\ victim = [n \in Node |-> [k \in Conn |-> None]]
  /\ faults = 0

Move(n, k, to) == end' = [end EXCEPT ![n][k] = to]

-----------------------------------------------------------------------------
\* connect() dials only while the node has no session with the peer.
Dial(k) ==
  /\ end[Dialer[k]][k] = "none"
  /\ table[Dialer[k]] = None
  /\ Move(Dialer[k], k, "handshake")
  /\ UNCHANGED <<table, victim, faults>>

Incoming(k) ==
  /\ end[Dialer[k]][k] # "none"
  /\ end[Other(Dialer[k])][k] = "none"
  /\ Move(Other(Dialer[k]), k, "handshake")
  /\ UNCHANGED <<table, victim, faults>>

\* The last message of the handshake may be read after its sender has closed.
Authenticate(n, k) ==
  /\ end[n][k] = "handshake"
  /\ end[Other(n)][k] # "none"
  /\ Move(n, k, "activate")
  /\ UNCHANGED <<table, victim, faults>>

HandshakeFails(n, k) ==
  /\ faults < MaxFaults
  /\ end[n][k] = "handshake"
  /\ Move(n, k, "shut")
  /\ faults' = faults + 1
  /\ UNCHANGED <<table, victim>>

-----------------------------------------------------------------------------
(* activate() at one end *)

ArbitrateFree(n, k) ==
  /\ end[n][k] = "activate"
  /\ table[n] = None
  /\ Move(n, k, "insert")
  /\ UNCHANGED <<table, victim, faults>>

ArbitrateWins(n, k) ==
  /\ end[n][k] = "activate"
  /\ table[n] # None
  /\ NewWins(n, k, table[n])
  /\ victim' = [victim EXCEPT ![n][k] = table[n]]
  /\ Move(n, k, "evict")
  /\ UNCHANGED <<table, faults>>

ArbitrateLoses(n, k) ==
  /\ end[n][k] = "activate"
  /\ table[n] # None
  /\ ~ NewWins(n, k, table[n])
  /\ Move(n, k, "shut")
  /\ UNCHANGED <<table, victim, faults>>

\* Mutant of Evict: the old session is dropped from the table without a close.
EvictSilently(n, k) ==
  /\ end[n][k] = "evict"
  /\ table' = [table EXCEPT ![n] = IF @ = victim[n][k] THEN None ELSE @]
  /\ Move(n, k, "insert")
  /\ victim' = [victim EXCEPT ![n][k] = None]
  /\ UNCHANGED faults

\* disconnect(existing, Replaced); it does nothing to a session already gone.
Evict(n, k) ==
  /\ end[n][k] = "evict"
  /\ LET v == victim[n][k] IN
       /\ table' = [table EXCEPT ![n] = IF @ = v THEN None ELSE @]
       /\ end' = [end EXCEPT ![n] =
                    [j \in Conn |-> IF j = k THEN "insert"
                                    ELSE IF j = v /\ table[n] = v THEN "shut"
                                    ELSE end[n][j]]]
  /\ victim' = [victim EXCEPT ![n][k] = None]
  /\ UNCHANGED faults

Register(n, k) ==
  /\ end[n][k] = "insert"
  /\ table[n] = None
  /\ table' = [table EXCEPT ![n] = k]
  /\ Move(n, k, "live")
  /\ UNCHANGED <<victim, faults>>

RegisterRefused(n, k) ==
  /\ end[n][k] = "insert"
  /\ table[n] # None
  /\ Move(n, k, "shut")
  /\ UNCHANGED <<table, victim, faults>>

-----------------------------------------------------------------------------
(* A registered session ends *)

Close(n, k) ==
  /\ end[n][k] = "live"
  /\ table' = [table EXCEPT ![n] = IF @ = k THEN None ELSE @]
  /\ Move(n, k, "shut")

\* Mutant of LoopError: the receive loop breaks without calling disconnect().
LoopErrorAbandons(n, k) ==
  /\ end[Other(n)][k] = "shut"
  /\ end[n][k] = "live"
  /\ Move(n, k, "shut")
  /\ UNCHANGED <<table, victim, faults>>

\* recv_frame fails on a connection the other end has closed.
LoopError(n, k) ==
  /\ end[Other(n)][k] = "shut"
  /\ Close(n, k)
  /\ UNCHANGED <<victim, faults>>

\* disconnect() by the application, an idle timeout or a failed send.
Disconnect(n, k) ==
  /\ faults < MaxFaults
  /\ Close(n, k)
  /\ faults' = faults + 1
  /\ UNCHANGED victim

-----------------------------------------------------------------------------
ActivateStep(n, k) ==
  \/ ArbitrateFree(n, k) \/ ArbitrateWins(n, k) \/ ArbitrateLoses(n, k)
  \/ Evict(n, k) \/ Register(n, k) \/ RegisterRefused(n, k)

Next ==
  \/ \E k \in Conn : Dial(k) \/ Incoming(k)
  \/ \E n \in Node, k \in Conn :
       \/ Authenticate(n, k) \/ HandshakeFails(n, k) \/ ActivateStep(n, k)
       \/ LoopError(n, k) \/ Disconnect(n, k)

Spec == Init /\ [][Next]_vars

\* Handshakes time out at the latest; tasks that are ready get polled.
Fairness ==
  \A n \in Node, k \in Conn :
    /\ WF_vars(Incoming(k))
    /\ WF_vars(Authenticate(n, k))
    /\ WF_vars(ActivateStep(n, k))
    /\ WF_vars(LoopError(n, k))

FairSpec == Spec /\ Fairness
-----------------------------------------------------------------------------
(* Properties *)

TypeOK ==
  /\ end \in [Node -> [Conn -> {"none", "handshake", "activate", "evict",
                                 "insert", "live", "shut"}]]
  /\ table \in [Node -> Conn \cup {None}]
  /\ victim \in [Node -> [Conn -> Conn \cup {None}]]
  /\ faults \in 0..MaxFaults

\* The registered session is the only one of its node that is live: an end
\* that left the table is closed, never just forgotten (mod.rs:408).
LiveIsRegistered ==
  \A n \in Node, k \in Conn : end[n][k] = "live" <=> table[n] = k

\* Nothing is under way at either node, and every close has been noticed.
Quiet ==
  \A k \in Conn :
    /\ \A n \in Node : end[n][k] \in {"none", "live", "shut"}
    /\ end[Low][k] = "none" <=> end[High][k] = "none"
    /\ end[Low][k] = "shut" <=> end[High][k] = "shut"

\* Whatever races, the two tables come to hold the same connection, or none, for good:
\* no node is left with a session the other does not have.
Converges == <>[](table[Low] = table[High])

\* "When both dial at the same time only one connection is kept, and both ends
\* decide alike" (mod.rs:388): without failures, two crossing dials leave one.
OneIsKept ==
  Quiet /\ faults = 0 /\ (\A k \in Conn : end[Low][k] # "none")
    => table[Low] # None /\ table[Low] = table[High]
=============================================================================
