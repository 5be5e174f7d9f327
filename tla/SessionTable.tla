---------------------------- MODULE SessionTable ----------------------------
(***************************************************************************)
(* What the session registry promises its users, without tasks, locks or   *)
(* counters: a peer holds at most one live session, a slot is emptied      *)
(* before it is filled again, and a session that left its slot is spent    *)
(* (session/registry.rs:1-16).  SessionManager is shown to implement it.   *)
(***************************************************************************)
CONSTANTS Session, Peer, None

VARIABLES
  slot,      \* the live session of each peer, or None
  spent      \* the sessions that have been taken out

tvars == <<slot, spent>>

TypeOK ==
  /\ slot \in [Peer -> Session \cup {None}]
  /\ spent \subseteq Session

Init ==
  /\ slot = [p \in Peer |-> None]
  /\ spent = {}

Live == {slot[p] : p \in Peer} \ {None}

\* A session that was never live takes the free slot of one peer.
Open(s, p) ==
  /\ slot[p] = None
  /\ s \notin spent \cup Live
  /\ slot' = [slot EXCEPT ![p] = s]
  /\ UNCHANGED spent

\* A set of live sessions leaves the table for good.
Close(S) ==
  /\ S \subseteq Live
  /\ slot' = [p \in Peer |-> IF slot[p] \in S THEN None ELSE slot[p]]
  /\ spent' = spent \cup S

Next ==
  \/ \E s \in Session, p \in Peer : Open(s, p)
  \/ \E S \in SUBSET Live : Close(S)

Spec == Init /\ [][Next]_tvars
=============================================================================
