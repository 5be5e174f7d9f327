------------------------------ MODULE NetAgent ------------------------------
(***************************************************************************)
(* NetAgent (net_agent.rs) with its peer cache on disk                     *)
(* (discovery/peer_cache.rs): calls of start(), connect_to() and           *)
(* shutdown(), the tasks that start() spawns, the file operations of a     *)
(* save, and crashes of the process.                                       *)
(*                                                                         *)
(* The cache is abstracted to the set of connections recorded in it.  The  *)
(* two paths of a save lead to files; an open file is followed to where it *)
(* can be found, since a rename moves a file that another save is writing. *)
(***************************************************************************)
EXTENDS Naturals, FiniteSets

CONSTANTS
  Starter,     \* calls of start()
  LightStarter,\* calls of start_transport_only()
  Closer,      \* calls of shutdown()
  Conn,        \* calls of connect_to(), a peer and address each
  MaxCrashes, MaxDiskFaults    \* bounds on what the environment does

Saver == Starter \cup Closer   \* start()'s periodic task, or shutdown() itself
Task == {"forward", "lpd", "save"}

ASSUME CallsDiffer ==
  /\ Starter \cap (LightStarter \cup Closer) = {} /\ LightStarter \cap Closer = {}
ASSUME ConnFinite == IsFiniteSet(Conn)
ASSUME BoundsNat == MaxCrashes \in Nat /\ MaxDiskFaults \in Nat

VARIABLES
  started,     \* NetAgent::started
  pc,          \* where each call of start() and shutdown() stands
  task,        \* the tasks of each start(): "none", "running", "signalled", "stopped"
  conn,        \* where each connect_to() stands
  cache,       \* NetAgent::peer_cache
  at,          \* where each save stands: "idle", "open", "write", "rename"
  snap,        \* the clone of the cache it is saving
  file,        \* the file it has open: "tmp", "path", or "gone": replaced or closed
  tmp, path,   \* federation_peers.json.tmp and federation_peers.json
  mixed,       \* history of overlapping saves: "never", "now" since two of them were
               \* under way at once, "mending" while one that began alone goes on
               \* after that, "mended" when it has replaced the file
  crashes, faults

calls == <<started, pc, task>>
saving == <<at, snap, file>>
disk == <<tmp, path>>
env == <<crashes, faults>>
vars == <<calls, conn, cache, saving, disk, mixed, env>>

\* What can be at a path: nothing, a file that was opened and not yet written, a
\* cache, or anything else.
NoFile    == [is |-> "none", of |-> {}]
Empty     == [is |-> "empty", of |-> {}]
Garbage   == [is |-> "garbage", of |-> {}]
Whole(set) == [is |-> "cache", of |-> set]

\* PeerCache::load: no file, or one that does not parse, counts as no peers.
Load(content) == IF content.is = "cache" THEN content.of ELSE {}

Init ==
  /\ started = FALSE
  /\ pc = [c \in Starter \cup LightStarter \cup Closer |-> "idle"]
  /\ task = [s \in Starter |-> [k \in Task |-> "none"]]
  /\ conn = [c \in Conn |-> "idle"]
  /\ cache = {}
  /\ at = [w \in Saver |-> "idle"]
  /\ snap = [w \in Saver |-> {}]
  /\ file = [w \in Saver |-> "gone"]
  /\ tmp = NoFile
  /\ path = NoFile
  /\ mixed = "never"
  /\ crashes = 0
  /\ faults = 0

Goto(c, label) == pc' = [pc EXCEPT ![c] = label]

-----------------------------------------------------------------------------
(* start() *)

\* The flag is read here and set at the end, with awaits in between.
Start(s) ==
  /\ s \in Starter \cup LightStarter
  /\ pc[s] = "idle"
  /\ Goto(s, IF started THEN "ignored" ELSE "transport")
  /\ UNCHANGED <<started, task, conn, cache, saving, disk, mixed, env>>

\* transport.start(), and the two port mappings, are awaited.
TransportUp(s) ==
  /\ s \in Starter
  /\ pc[s] = "transport"
  /\ Goto(s, "forward")
  /\ UNCHANGED <<started, task, conn, cache, saving, disk, mixed, env>>

\* transport.start()? returns early: nothing was spawned, the flag stays.
TransportFails(s) ==
  /\ pc[s] = "transport"
  /\ Goto(s, "failed")
  /\ UNCHANGED <<started, task, conn, cache, saving, disk, mixed, env>>

LightUp(s) ==
  /\ s \in LightStarter
  /\ pc[s] = "transport"
  /\ Goto(s, "started")
  /\ started' = TRUE
  /\ UNCHANGED <<task, conn, cache, saving, disk, mixed, env>>

NextLabel(k) == CASE k = "forward" -> "lpd" [] k = "lpd" -> "save" [] k = "save" -> "flag"

\* Each task subscribes to the shutdown channel when it is spawned.  The
\* external discoveries are started, and awaited, before the last one.
Spawn(s, k) ==
  /\ s \in Starter
  /\ pc[s] = k
  /\ task' = [task EXCEPT ![s][k] = "running"]
  /\ Goto(s, NextLabel(k))
  /\ UNCHANGED <<started, conn, cache, saving, disk, mixed, env>>

Started(s) ==
  /\ s \in Starter
  /\ pc[s] = "flag"
  /\ started' = TRUE
  /\ Goto(s, "started")
  /\ UNCHANGED <<task, conn, cache, saving, disk, mixed, env>>

-----------------------------------------------------------------------------
(* connect_to() *)

Connect(c) ==
  /\ conn[c] = "idle"
  /\ conn' = [conn EXCEPT ![c] = "dialing"]
  /\ UNCHANGED <<calls, cache, saving, disk, mixed, env>>

\* PeerCache::upsert with success = true.
Connected(c) ==
  /\ conn[c] = "dialing"
  /\ conn' = [conn EXCEPT ![c] = "connected"]
  /\ cache' = cache \cup {c}
  /\ UNCHANGED <<calls, saving, disk, mixed, env>>

ConnectFailed(c) ==
  /\ conn[c] = "dialing"
  /\ conn' = [conn EXCEPT ![c] = "failed"]
  /\ UNCHANGED <<calls, cache, saving, disk, mixed, env>>

-----------------------------------------------------------------------------
(* Tasks and shutdown() *)

\* broadcast::Sender::send reaches the receivers there are at that moment.
Shutdown(x) ==
  /\ pc[x] = "idle"
  /\ Goto(x, "signalled")
  /\ task' = [s \in Starter |-> [k \in Task |->
                IF task[s][k] = "running" THEN "signalled" ELSE task[s][k]]]
  /\ UNCHANGED <<started, conn, cache, saving, disk, mixed, env>>

\* Mutant of Stop: the loop of the periodic save has no branch for shutdown.
StopNotSaving(s, k) ==
  /\ k # "save"
  /\ task[s][k] = "signalled"
  /\ task' = [task EXCEPT ![s][k] = "stopped"]
  /\ UNCHANGED <<started, pc, conn, cache, saving, disk, mixed, env>>

\* Mutant of Stop: the task is aborted wherever it is.
StopAnywhere(s, k) ==
  /\ task[s][k] = "signalled"
  /\ task' = [task EXCEPT ![s][k] = "stopped"]
  /\ UNCHANGED <<started, pc, conn, cache, saving, disk, mixed, env>>

\* select! takes the branch of the shutdown channel, not while it is saving.
Stop(s, k) ==
  /\ task[s][k] = "signalled"
  /\ k = "save" => at[s] = "idle"
  /\ task' = [task EXCEPT ![s][k] = "stopped"]
  /\ UNCHANGED <<started, pc, conn, cache, saving, disk, mixed, env>>

\* LPD also ends when it cannot bind its port or join its group.
LpdFails(s) ==
  /\ task[s]["lpd"] \in {"running", "signalled"}
  /\ task' = [task EXCEPT ![s]["lpd"] = "stopped"]
  /\ UNCHANGED <<started, pc, conn, cache, saving, disk, mixed, env>>

-----------------------------------------------------------------------------
(* PeerCache::save *)

MaySave(w) ==
  IF w \in Closer THEN pc[w] = "signalled" ELSE task[w]["save"] \in {"running", "signalled"}

\* save_peer_cache clones the cache; a tick of the periodic task, or shutdown().
BeginSave(w) ==
  /\ at[w] = "idle"
  /\ MaySave(w)
  /\ at' = [at EXCEPT ![w] = "open"]
  /\ snap' = [snap EXCEPT ![w] = cache]
  /\ mixed' = IF \E v \in Saver \ {w} : at[v] # "idle" THEN "now"
              ELSE IF mixed = "now" THEN "mending" ELSE mixed
  /\ pc' = IF w \in Closer THEN [pc EXCEPT ![w] = "saving"] ELSE pc
  /\ UNCHANGED <<started, task, conn, cache, file, disk, env>>

Spoilt == mixed' = IF mixed = "mending" THEN "now" ELSE mixed

\* The save returns, well or not: shutdown() ignores an error, the task logs it.
SaveReturns(w) ==
  /\ at' = [at EXCEPT ![w] = "idle"]
  /\ pc' = IF w \in Closer THEN [pc EXCEPT ![w] = "done"] ELSE pc

\* Mutant of OpenTmp: the old file is truncated and written in place.
OpenInPlace(w) ==
  /\ at[w] = "open"
  /\ at' = [at EXCEPT ![w] = "write"]
  /\ path' = Empty
  /\ file' = [file EXCEPT ![w] = "path"]
  /\ UNCHANGED <<calls, conn, cache, snap, tmp, mixed, env>>

\* Mutant of OpenTmp: the temporary file must not exist yet.
OpenNew(w) ==
  /\ at[w] = "open"
  /\ IF tmp = NoFile
     THEN /\ at' = [at EXCEPT ![w] = "write"]
          /\ tmp' = Empty
          /\ file' = [file EXCEPT ![w] = "tmp"]
          /\ pc' = pc
     ELSE SaveReturns(w) /\ UNCHANGED <<tmp, file>>
  /\ UNCHANGED <<started, task, conn, cache, snap, path, mixed, env>>

\* std::fs::write opens the temporary file and truncates it, whoever else has it.
OpenTmp(w) ==
  /\ at[w] = "open"
  /\ at' = [at EXCEPT ![w] = "write"]
  /\ tmp' = Empty
  /\ file' = [file EXCEPT ![w] = "tmp"]
  /\ UNCHANGED <<calls, conn, cache, snap, path, mixed, env>>

\* What is in the file after the cache was written from its beginning: the end
\* of a longer cache stays behind it.  The file is then closed.
Written(old, new) ==
  IF Cardinality(old.of) > Cardinality(new) THEN {Garbage}
  ELSE IF old = Garbage THEN {Whole(new), Garbage} ELSE {Whole(new)}

WriteTmp(w) ==
  /\ at[w] = "write"
  /\ at' = [at EXCEPT ![w] = "rename"]
  /\ tmp' \in IF file[w] = "tmp" THEN Written(tmp, snap[w]) ELSE {tmp}
  /\ path' \in IF file[w] = "path" THEN Written(path, snap[w]) ELSE {path}
  /\ file' = [file EXCEPT ![w] = "gone"]
  /\ UNCHANGED <<calls, conn, cache, snap, mixed, env>>

\* The disk is full: part of the cache is written, and write returns the error.
WriteFails(w) ==
  /\ at[w] = "write"
  /\ faults < MaxDiskFaults
  /\ faults' = faults + 1
  /\ tmp' = IF file[w] = "tmp" THEN Garbage ELSE tmp
  /\ path' = IF file[w] = "path" THEN Garbage ELSE path
  /\ file' = [file EXCEPT ![w] = "gone"]
  /\ SaveReturns(w)
  /\ Spoilt
  /\ UNCHANGED <<started, task, conn, cache, snap, crashes>>

\* rename moves whatever is at the temporary path; there may be nothing left.
Rename(w) ==
  /\ at[w] = "rename"
  /\ IF tmp = NoFile THEN UNCHANGED <<disk, file>>
     ELSE /\ path' = tmp
          /\ tmp' = NoFile
          /\ file' = [v \in Saver |-> IF file[v] = "tmp" THEN "path" ELSE "gone"]
  /\ SaveReturns(w)
  /\ mixed' = IF mixed = "mending" THEN "mended" ELSE mixed
  /\ UNCHANGED <<started, task, conn, cache, snap, env>>

-----------------------------------------------------------------------------
Volatile(f, rest) == [c \in DOMAIN f |-> IF f[c] \in rest THEN f[c] ELSE "lost"]

\* Mutant of Crash: the new agent starts with an empty cache.
CrashForgetting ==
  /\ crashes < MaxCrashes
  /\ crashes' = crashes + 1
  /\ started' = FALSE
  /\ pc' = Volatile(pc, {"idle", "done", "started", "ignored", "failed"})
  /\ task' = [s \in Starter |-> [k \in Task |-> "none"]]
  /\ conn' = Volatile(conn, {"idle", "connected", "failed"})
  /\ cache' = {}
  /\ at' = [w \in Saver |-> "idle"]
  /\ file' = [w \in Saver |-> "gone"]
  /\ Spoilt
  /\ UNCHANGED <<snap, disk, faults>>

\* The process dies, and a new one creates its agent from the file.
Crash ==
  /\ crashes < MaxCrashes
  /\ crashes' = crashes + 1
  /\ started' = FALSE
  /\ pc' = Volatile(pc, {"idle", "done", "started", "ignored", "failed"})
  /\ task' = [s \in Starter |-> [k \in Task |-> "none"]]
  /\ conn' = Volatile(conn, {"idle", "connected", "failed"})
  /\ cache' = Load(path)
  /\ at' = [w \in Saver |-> "idle"]
  /\ file' = [w \in Saver |-> "gone"]
  /\ Spoilt
  /\ UNCHANGED <<snap, disk, faults>>

-----------------------------------------------------------------------------
StartStep(s)   == \/ TransportUp(s) \/ TransportFails(s) \/ LightUp(s) \/ Started(s)
                  \/ \E k \in Task : Spawn(s, k)
ConnectStep(c) == Connected(c) \/ ConnectFailed(c)
SaveStep(w)    == OpenTmp(w) \/ WriteTmp(w) \/ WriteFails(w) \/ Rename(w)

Next ==
  \/ \E s \in Starter \cup LightStarter : Start(s) \/ StartStep(s)
  \/ \E c \in Conn : Connect(c) \/ ConnectStep(c)
  \/ \E x \in Closer : Shutdown(x)
  \/ \E s \in Starter : LpdFails(s) \/ \E k \in Task : Stop(s, k)
  \/ \E w \in Saver : BeginSave(w) \/ SaveStep(w)
  \/ Crash

Spec == Init /\ [][Next]_vars

\* start() and shutdown() run on, the interval ticks, and select! takes each of
\* its branches that stays ready.
Fairness ==
  /\ \A s \in Starter \cup LightStarter : WF_vars(StartStep(s))
  /\ \A s \in Starter, k \in Task : SF_vars(Stop(s, k))
  /\ \A w \in Saver : WF_vars(BeginSave(w)) /\ WF_vars(SaveStep(w))

FairSpec == Spec /\ Fairness
-----------------------------------------------------------------------------
(* Properties *)

Content == {NoFile, Empty, Garbage} \cup {Whole(set) : set \in SUBSET Conn}

\* Every variable stays in its type, and a save belongs to a task or a call that
\* is still there: a periodic task never ends in the middle of one.
TypeOK ==
  /\ started \in BOOLEAN /\ mixed \in {"never", "now", "mending", "mended"}
  /\ pc \in [Starter \cup LightStarter \cup Closer ->
               {"idle", "transport", "forward", "lpd", "save", "flag", "started",
                "failed", "ignored", "signalled", "saving", "done", "lost"}]
  /\ task \in [Starter -> [Task -> {"none", "running", "signalled", "stopped"}]]
  /\ conn \in [Conn -> {"idle", "dialing", "connected", "failed", "lost"}]
  /\ cache \subseteq Conn
  /\ at \in [Saver -> {"idle", "open", "write", "rename"}]
  /\ snap \in [Saver -> SUBSET Conn]
  /\ file \in [Saver -> {"tmp", "path", "gone"}]
  /\ tmp \in Content /\ path \in Content
  /\ crashes \in 0..MaxCrashes /\ faults \in 0..MaxDiskFaults
  /\ \A w \in Saver : at[w] # "idle" =>
       IF w \in Closer THEN pc[w] = "saving" ELSE task[w]["save"] \in {"running", "signalled"}

OnDisk == Load(path)

\* "Written atomically: a temporary file first, then renamed, so that a crash
\* does not damage the file" (peer_cache.rs:105).  It holds across crashes and
\* failed writes until two saves are under way at once, and again as soon as a
\* later save that had the disk to itself has replaced the file.
FileWhole == mixed \in {"never", "mended"} => path.is \in {"none", "cache"}

\* A peer that is on disk stays there: no save, crash or restart goes back to an
\* older cache, nor does the save that mends a file two others had spoilt.
DiskOnlyGrows == [][mixed' \in {"never", "mended"} => OnDisk \subseteq OnDisk']_vars

\* shutdown() returns when what the agent knew as it was called is on disk.
ShutdownSaves ==
  \A x \in Closer : pc[x] = "done" /\ mixed = "never" /\ faults = 0 => snap[x] \subseteq OnDisk

Closing == \E x \in Closer : pc[x] # "idle"

\* While a periodic task runs, a peer that was connected to reaches the disk,
\* unless the process ends first: also when two calls of start() got past the
\* flag together and their tasks save over each other for good.
ConnectedIsSaved ==
  \A c \in Conn :
    c \in cache /\ (\E s \in Starter : task[s]["save"] = "running")
      ~> c \in OnDisk \/ c \notin cache \/ Closing

\* The tasks of a start() that had returned are stopped by a later shutdown().
ShutdownStopsTasks ==
  \A x \in Closer, s \in Starter :
    [](pc[x] = "idle" /\ pc[s] = "started"
         => [](pc[x] # "idle" => <>(\A k \in Task : task[s][k] \in {"none", "stopped"})))
=============================================================================
