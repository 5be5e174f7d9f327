------------------------------- MODULE MCComm -------------------------------
(***************************************************************************)
(* Small instances of the parts of pnos-comm for TLC.  The parts share no  *)
(* state, so one run checks them side by side: each behaviour is of one    *)
(* part, the one named by "part", and leaves the others at their start.    *)
(***************************************************************************)
EXTENDS AppRuntime, EventStream, Discovery, Checkpoint

CONSTANTS app1, old, exact, all, c1, r1, r2

VARIABLE part

MCMatches == {x \in Event \X Pattern : x[2] = all \/ x[1] # 2}

\* The last two events have the same type, source and timestamp.
MCKeyOf == [e \in Event |-> IF e = MaxEvents /\ e > 1 THEN e - 1 ELSE e]

MCInit ==
  /\ Init /\ ESInit /\ DCInit /\ CPInit
  /\ part \in {"runtime", "events", "discovery", "checkpoint"}

MCNext ==
  /\ UNCHANGED part
  /\ \/ part = "runtime" /\ Next /\ UNCHANGED <<esvars, dcvars, cpvars>>
     \/ part = "events" /\ ESNext /\ UNCHANGED <<vars, dcvars, cpvars>>
     \/ part = "discovery" /\ DCNext /\ UNCHANGED <<vars, esvars, cpvars>>
     \/ part = "checkpoint" /\ CPNext /\ UNCHANGED <<vars, esvars, dcvars>>

mcvars == <<part, vars, esvars, dcvars, cpvars>>

\* Before its first step no part has a fair action enabled.
MCSpec == MCInit /\ [][MCNext]_mcvars /\ Fairness /\ ESFairness /\ DCFairness

\* The safety of all parts.
CommSafe == RuntimeSafe /\ StreamSafe /\ DCTypeOK /\ CPTypeOK /\ CheckpointKept
=============================================================================
