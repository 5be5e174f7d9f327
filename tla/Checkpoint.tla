----------------------------- MODULE Checkpoint -----------------------------
(***************************************************************************)
(* The checkpoint store (pnos-comm: checkpoint.rs, lib.rs init step 10.5). *)
(* A call runs its SQL on the blocking pool under the lock of the one      *)
(* connection; a caller that stops waiting does not stop it.  SQLite is    *)
(* external: a transaction it has committed survives a crash (WAL).  One   *)
(* key, whose user makes one call at a time; loads change nothing.         *)
(***************************************************************************)
EXTENDS Naturals

CONSTANTS
  MaxCalls,        \* calls of the user; call n saves version n
  MaxOpenFails     \* starts on which the file cannot be opened

ASSUME StoreLimits == MaxCalls \in Nat /\ MaxOpenFails \in Nat

VARIABLES
  open,            \* the store in use: "no", "disk" (the file) or "memory"
  disk, memory,    \* the version stored for the key in each, 0 for none
  calls,           \* calls made so far
  waiting,         \* the call that the user waits for, at most one
  task,            \* calls on the blocking pool
  answer,          \* to the call the user waits for: "none", "done" or "failed"
  opfails,
  over,            \* history: the calls still on the pool when that call was made
  may              \* history: what the file may hold by what the user was told

cpvars == <<open, disk, memory, calls, waiting, task, answer, opfails, over, may>>

Version == 0..MaxCalls

\* save() of version n, or delete() as call n.
CallOf(n) == {[nr |-> n, value |-> n], [nr |-> n, value |-> 0]}
AnyCall == UNION {CallOf(n) : n \in 1..MaxCalls}
Values(S) == {c.value : c \in S}

CPTypeOK ==
  /\ open \in {"no", "disk", "memory"}
  /\ disk \in Version /\ memory \in Version /\ calls \in Version
  /\ waiting \subseteq AnyCall /\ task \subseteq AnyCall
  /\ answer \in {"none", "done", "failed"}
  /\ opfails \in 0..MaxOpenFails /\ over \subseteq AnyCall /\ may \subseteq Version

CPInit ==
  /\ open = "no" /\ disk = 0 /\ memory = 0 /\ calls = 0 /\ waiting = {}
  /\ task = {} /\ answer = "none" /\ opfails = 0
  /\ over = {} /\ may = {0}

\* open(), or an empty database in memory if that fails: init() goes on without the file.
Open ==
  /\ open = "no" /\ memory' = 0
  /\ \/ open' = "disk" /\ UNCHANGED opfails
     \/ opfails < MaxOpenFails /\ open' = "memory" /\ opfails' = opfails + 1
  /\ UNCHANGED <<disk, calls, waiting, task, answer, over, may>>

Ask(c) ==
  /\ open # "no" /\ waiting = {} /\ c.nr = calls + 1
  /\ calls' = c.nr /\ waiting' = {c} /\ task' = task \cup {c} /\ answer' = "none"
  /\ over' = task
  /\ UNCHANGED <<open, disk, memory, opfails, may>>

\* The tasks get the lock in any order.  SQL that fails changes nothing.
Execute(c) ==
  /\ c \in task /\ task' = task \ {c}
  /\ \/ /\ disk' = IF open = "disk" THEN c.value ELSE disk
        /\ memory' = IF open = "memory" THEN c.value ELSE memory
        /\ answer' = IF c \in waiting THEN "done" ELSE answer
     \/ /\ answer' = IF c \in waiting THEN "failed" ELSE answer
        /\ UNCHANGED <<disk, memory>>
  /\ UNCHANGED <<open, calls, waiting, opfails, over, may>>

\* A call that succeeded took effect; one abandoned before may have come after it.
Answered ==
  /\ answer # "none"
  /\ may' = IF answer = "done" /\ open = "disk" THEN Values(waiting \cup over) ELSE may
  /\ waiting' = {} /\ answer' = "none"
  /\ UNCHANGED <<open, disk, memory, calls, task, opfails, over>>

\* The user drops the future of its call, as a timeout does.
Abandon ==
  /\ waiting # {}
  /\ may' = IF open = "disk" THEN may \cup Values(waiting) ELSE may
  /\ waiting' = {} /\ answer' = "none"
  /\ UNCHANGED <<open, disk, memory, calls, task, opfails, over>>

\* The process dies: what is not committed never will be.
Die ==
  /\ open # "no" /\ open' = "no" /\ task' = {}
  /\ may' = IF open = "disk" THEN may \cup Values(waiting) ELSE may
  /\ waiting' = {} /\ answer' = "none"
  /\ UNCHANGED <<disk, memory, calls, opfails, over>>

CPNext ==
  \/ Open \/ Answered \/ Abandon \/ Die
  \/ \E c \in AnyCall : Ask(c) \/ Execute(c)

CPSpec == CPInit /\ [][CPNext]_cpvars

-----------------------------------------------------------------------------

\* After any crash the file holds the last save or delete that was acknowledged while
\* it was open, or one that its user stopped waiting for (checkpoint.rs:3-6).
CheckpointKept == waiting = {} => disk \in may
=============================================================================
