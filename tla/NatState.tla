------------------------------ MODULE NatState ------------------------------
(***************************************************************************)
(* The NAT state machine (pnos-net: nat/state.rs), called from several     *)
(* threads: the state and the history have a lock each, and a transition   *)
(* reads the state before it takes the lock of the history.                *)
(***************************************************************************)
EXTENDS Naturals, Sequences

CONSTANTS
  Mover,           \* calls of transition() and force_transition()
  Reporter,        \* calls of state_statistics()
  Target,          \* the states the calls ask for
  MaxHistory       \* max_history (100)

ASSUME HistoryNat == MaxHistory \in Nat \ {0}

NatStates == {"uninitialized", "initializing", "mapping", "active", "degraded",
              "gateway_lost", "recovering", "released", "error"}

ASSUME TargetsAreStates == Target \subseteq NatStates

VARIABLES
  natState,
  past,            \* transition_history: <<from, to>> each
  historyLock,     \* the mover that holds it for writing, or {}
  reading,         \* the reporters that hold it for reading
  move,            \* each mover: [at, from, to]
  reported         \* each reporter: [at, from, to]: the last transition it saw, and the state

nsvars == <<natState, past, historyLock, reading, move, reported>>

\* can_transition_to()
Allowed(from, to) ==
  \/ to \in {"released", "error"}
  \/ <<from, to>> \in
       {<<"uninitialized", "initializing">>, <<"released", "initializing">>,
        <<"error", "initializing">>, <<"initializing", "mapping">>,
        <<"mapping", "active">>, <<"mapping", "degraded">>,
        <<"active", "gateway_lost">>, <<"degraded", "gateway_lost">>,
        <<"gateway_lost", "recovering">>, <<"recovering", "active">>,
        <<"recovering", "degraded">>, <<"recovering", "gateway_lost">>,
        <<"active", "degraded">>, <<"degraded", "active">>}

NSInit ==
  /\ natState = "uninitialized" /\ past = <<>> /\ historyLock = {} /\ reading = {}
  /\ move = [m \in Mover |-> [at |-> "idle", from |-> natState, to |-> natState]]
  /\ reported = [r \in Reporter |-> [at |-> "idle", from |-> natState, to |-> natState]]

\* The state is read and checked under its own lock, and nothing keeps it so.
LookState(m) ==
  /\ move[m].at = "idle"
  /\ \E to \in Target, forced \in BOOLEAN :
       move' = [move EXCEPT ![m] =
         [at |-> IF forced \/ Allowed(natState, to) THEN "allowed" ELSE "false",
          from |-> natState, to |-> to]]
  /\ UNCHANGED <<natState, past, historyLock, reading, reported>>

Capped(h) == IF Len(h) > MaxHistory THEN Tail(h) ELSE h

Push(m) ==
  /\ move[m].at = "allowed" /\ historyLock = {} /\ reading = {}
  /\ historyLock' = {m}
  /\ past' = Capped(Append(past, <<move[m].from, move[m].to>>))
  /\ move' = [move EXCEPT ![m].at = "pushed"]
  /\ UNCHANGED <<natState, reading, reported>>

\* The state is written while the lock of the history is held.
Write(m) ==
  /\ move[m].at = "pushed"
  /\ natState' = move[m].to /\ historyLock' = {}
  /\ move' = [move EXCEPT ![m].at = "true"]
  /\ UNCHANGED <<past, reading, reported>>

\* state_statistics(): the history, and with its lock still held the state.
ReadHistory(r) ==
  /\ reported[r].at = "idle" /\ historyLock = {}
  /\ reading' = reading \cup {r}
  /\ reported' = [reported EXCEPT ![r] = [at |-> "state", to |-> natState,
       from |-> IF past = <<>> THEN "uninitialized" ELSE past[Len(past)][2]]]
  /\ UNCHANGED <<natState, past, historyLock, move>>

ReadState(r) ==
  /\ reported[r].at = "state"
  /\ reported' = [reported EXCEPT ![r].at = "done", ![r].to = natState]
  /\ reading' = reading \ {r}
  /\ UNCHANGED <<natState, past, historyLock, move>>

NSNext ==
  \/ \E m \in Mover : LookState(m) \/ Push(m) \/ Write(m)
  \/ \E r \in Reporter : ReadHistory(r) \/ ReadState(r)

NSSpec == NSInit /\ [][NSNext]_nsvars

-----------------------------------------------------------------------------

NSTypeOK ==
  /\ natState \in NatStates
  /\ past \in Seq(NatStates \X NatStates) /\ Len(past) <= MaxHistory
  /\ historyLock \subseteq Mover /\ reading \subseteq Reporter
  /\ move \in [Mover -> [at : {"idle", "false", "allowed", "pushed", "true"},
                         from : NatStates, to : NatStates]]
  /\ reported \in [Reporter -> [at : {"idle", "state", "done"},
                              from : NatStates, to : NatStates]]

\* The history ends where the state machine is, as soon as nobody is between the two
\* writes (state.rs:198-206), although two transitions may have started from one state.
HistoryTells ==
  historyLock = {} /\ past # <<>> => past[Len(past)][2] = natState

\* A report accounts for the time since the last transition under the state that this
\* transition led to (state.rs:268-280).
ReportsAddUp == \A r \in Reporter : reported[r].at = "done" => reported[r].from = reported[r].to

\* "A transition that is not allowed returns false" (state.rs:168-170): every two
\* entries that follow each other meet.  Two transitions at once break it.
HistoryIsAPath ==
  \A i \in 1..(Len(past) - 1) : past[i][2] = past[i + 1][1]
=============================================================================
