--------------------------- MODULE NetAgentProofs ---------------------------
(***************************************************************************)
(* Proofs about NetAgent, for any numbers of calls, connections, crashes   *)
(* and disk faults: its types, and what a save promises until two of them  *)
(* overlap, and again after one that has the disk to itself.               *)
(***************************************************************************)
EXTENDS NetAgent, FiniteSetTheorems, TLAPS

\* A new agent's variables have their types (net_agent.rs:156-205).
LEMMA TypeInit == Init => TypeOK
<1> SUFFICES ASSUME Init PROVE TypeOK
  OBVIOUS
<1>1. crashes \in 0..MaxCrashes /\ faults \in 0..MaxDiskFaults
  BY BoundsNat DEF Init
<1>2. tmp \in Content /\ path \in Content
  BY DEF Init, Content
<1> QED  BY <1>1, <1>2 DEF Init, TypeOK, Task

\* Every step keeps the types: each call, task, save and crash.
LEMMA TypeStep == TypeOK /\ [Next]_vars => TypeOK'
<1> SUFFICES ASSUME TypeOK, [Next]_vars PROVE TypeOK'
  OBVIOUS
<1> USE BoundsNat, CallsDiffer DEF TypeOK, Saver, Content
<1>1. ASSUME NEW s \in Starter \cup LightStarter, Start(s) PROVE TypeOK'
  BY <1>1 DEF Start, Goto, saving, disk, env
<1>2. ASSUME NEW s \in Starter \cup LightStarter, StartStep(s) PROVE TypeOK'
  <2>1. CASE TransportUp(s) \/ TransportFails(s)
    BY <2>1 DEF TransportUp, TransportFails, Goto, saving, disk, env
  <2>2. CASE LightUp(s)
    BY <2>2 DEF LightUp, Goto, saving, disk, env
  <2>3. CASE Started(s)
    BY <2>3 DEF Started, Goto, saving, disk, env
  <2>4. ASSUME NEW k \in Task, Spawn(s, k) PROVE TypeOK'
    <3>1. s \in Starter /\ NextLabel(k) \in {"lpd", "save", "flag"}
      BY <2>4 DEF Spawn, NextLabel, Task
    <3>2. task' \in [Starter -> [Task -> {"none", "running", "signalled", "stopped"}]]
      BY <2>4, <3>1 DEF Spawn
    <3>3. pc' \in [Starter \cup LightStarter \cup Closer ->
                     {"idle", "transport", "forward", "lpd", "save", "flag", "started",
                      "failed", "ignored", "signalled", "saving", "done", "lost"}]
      BY <2>4, <3>1 DEF Spawn, Goto
    <3>4. \A r \in Starter : task[r]["save"] \in {"running", "signalled"} =>
                             task'[r]["save"] \in {"running", "signalled"}
      BY <2>4, <3>1 DEF Spawn, Task
    <3>5. \A x \in Closer : pc'[x] = pc[x]
      BY <2>4, <3>1 DEF Spawn, Goto
    <3> QED  BY <2>4, <3>1, <3>2, <3>3, <3>4, <3>5 DEF Spawn, saving, disk, env
  <2> QED  BY <1>2, <2>1, <2>2, <2>3, <2>4 DEF StartStep
<1>3. ASSUME NEW c \in Conn, Connect(c) \/ ConnectStep(c) PROVE TypeOK'
  BY <1>3 DEF Connect, ConnectStep, Connected, ConnectFailed, calls, saving, disk, env
<1>4. ASSUME NEW x \in Closer, Shutdown(x) PROVE TypeOK'
  <2>1. task' \in [Starter -> [Task -> {"none", "running", "signalled", "stopped"}]]
    BY <1>4 DEF Shutdown
  <2>2. \A r \in Starter : task[r]["save"] \in {"running", "signalled"} =>
                           task'[r]["save"] \in {"running", "signalled"}
    BY <1>4 DEF Shutdown, Task
  <2>3. pc' \in [Starter \cup LightStarter \cup Closer ->
                   {"idle", "transport", "forward", "lpd", "save", "flag", "started",
                    "failed", "ignored", "signalled", "saving", "done", "lost"}]
    BY <1>4 DEF Shutdown, Goto
  <2>4. \A y \in Closer : pc[y] = "saving" => pc'[y] = "saving"
    BY <1>4 DEF Shutdown, Goto
  <2> QED  BY <1>4, <2>1, <2>2, <2>3, <2>4 DEF Shutdown, saving, disk, env
<1>5. ASSUME NEW s \in Starter, NEW k \in Task, Stop(s, k) PROVE TypeOK'
  BY <1>5 DEF Stop, Task, saving, disk, env
<1>6. ASSUME NEW s \in Starter, LpdFails(s) PROVE TypeOK'
  <2>1. task' \in [Starter -> [Task -> {"none", "running", "signalled", "stopped"}]]
    BY <1>6 DEF LpdFails, Task
  <2>2. \A r \in Starter : task'[r]["save"] = task[r]["save"]
    BY <1>6 DEF LpdFails, Task
  <2> QED  BY <1>6, <2>1, <2>2 DEF LpdFails, saving, disk, env
<1>7. ASSUME NEW w \in Saver, BeginSave(w) PROVE TypeOK'
  BY <1>7 DEF BeginSave, MaySave, disk, env
<1>8. ASSUME NEW w \in Saver, OpenTmp(w) PROVE TypeOK'
  BY <1>8 DEF OpenTmp, calls, env
<1>9. ASSUME NEW w \in Saver, WriteTmp(w) PROVE TypeOK'
  BY <1>9 DEF WriteTmp, Written, calls, env
<1>10. ASSUME NEW w \in Saver, WriteFails(w) PROVE TypeOK'
  BY <1>10 DEF WriteFails, SaveReturns, Spoilt
<1>11. ASSUME NEW w \in Saver, Rename(w) PROVE TypeOK'
  BY <1>11 DEF Rename, SaveReturns, disk, env
<1>12. CASE Crash
  <2>1. Load(path) \subseteq Conn
    BY DEF Load, Whole, NoFile, Empty, Garbage
  <2>2. pc' \in [Starter \cup LightStarter \cup Closer ->
                   {"idle", "transport", "forward", "lpd", "save", "flag", "started",
                    "failed", "ignored", "signalled", "saving", "done", "lost"}]
    BY <1>12 DEF Crash, Volatile
  <2>3. conn' \in [Conn -> {"idle", "dialing", "connected", "failed", "lost"}]
    BY <1>12 DEF Crash, Volatile
  <2>4. crashes' \in 0..MaxCrashes
    BY <1>12 DEF Crash
  <2>5. task' \in [Starter -> [Task -> {"none", "running", "signalled", "stopped"}]]
    BY <1>12 DEF Crash
  <2> QED  BY <1>12, <2>1, <2>2, <2>3, <2>4, <2>5 DEF Crash, Spoilt, disk
<1>13. CASE UNCHANGED vars
  BY <1>13 DEF vars, calls, saving, disk, env
<1> QED
  BY <1>1, <1>2, <1>3, <1>4, <1>5, <1>6, <1>7, <1>8, <1>9, <1>10, <1>11, <1>12, <1>13
  DEF Next, SaveStep

\* Each variable keeps its type in every behaviour, and a periodic save never
\* outlives its task (net_agent.rs:336-350).
THEOREM TypeCorrect == Spec => []TypeOK
  BY TypeInit, TypeStep, PTL DEF Spec
-----------------------------------------------------------------------------
\* std::fs::write truncates before it writes, so what it writes to an empty file
\* is the whole cache.
LEMMA WrittenToEmpty ==
  ASSUME NEW S \in SUBSET Conn
  PROVE  Written(Empty, S) = {Whole(S)}
<1>1. Cardinality(S) \in Nat
  BY ConnFinite, FS_Subset, FS_CardinalityType
<1>2. Cardinality({}) = 0
  BY FS_EmptySet
<1>3. ~(Cardinality(Empty.of) > Cardinality(S))
  BY <1>1, <1>2 DEF Empty
<1>4. Empty # Garbage
  BY DEF Empty, Garbage
<1> QED  BY <1>3, <1>4 DEF Written

\* The cache has all that is on disk, and all that a save may put there: what it
\* has cloned, and what lies in a temporary file that it may rename.
KnownSaved ==
  /\ OnDisk \subseteq cache
  /\ \A w \in Saver : at[w] # "idle" => snap[w] \subseteq cache
  /\ (\E w \in Saver : at[w] \in {"write", "rename"}) => Load(tmp) \subseteq cache

\* A save that has the disk to itself: no other one is under way;
OneSave == \A v, w \in Saver : at[v] # "idle" /\ at[w] # "idle" => v = w

\* the temporary file is its own, emptied before it is written and whole when
\* it is renamed;
TmpIsMine ==
  \A w \in Saver :
    /\ at[w] = "write" => file[w] = "tmp" /\ tmp = Empty
    /\ at[w] = "rename" => tmp = Whole(snap[w])

\* and it replaces the file by a cache that has all that the file has.
SaveIsNewer == \A w \in Saver : at[w] # "idle" => OnDisk \subseteq snap[w]

ClosersSaved == \A x \in Closer : pc[x] = "done" /\ faults = 0 => snap[x] \subseteq OnDisk

\* The inductive invariant of the saves, with what each overlap breaks.
SaveInv ==
  /\ KnownSaved
  /\ mixed # "now" => OneSave /\ TmpIsMine /\ SaveIsNewer
  /\ mixed \in {"never", "mended"} => path.is \in {"none", "cache"}
  /\ mixed = "never" => ClosersSaved

\* What a step leaves on disk.
Keeps == mixed' \in {"never", "mended"} => OnDisk \subseteq OnDisk'

\* The invariant holds in a new agent without files.
LEMMA SaveInvInit == Init => SaveInv
  BY DEF Init, SaveInv, KnownSaved, OneSave, TmpIsMine, SaveIsNewer, ClosersSaved, OnDisk,
         Load, NoFile, Saver

\* A step of another part of the agent: the saves stand still, the cache at most
\* grows, and no shutdown() returns.
Aside ==
  /\ UNCHANGED <<saving, disk, mixed, faults>>
  /\ cache \subseteq cache'
  /\ \A x \in Closer : pc'[x] = "done" => pc[x] = "done"

\* Such steps keep the invariant of the saves.
LEMMA AsideKeeps ==
  ASSUME SaveInv, Aside
  PROVE  SaveInv' /\ Keeps
<1>1. OnDisk' = OnDisk /\ Load(tmp)' = Load(tmp)
  BY DEF Aside, disk, OnDisk, Load
<1>2. UNCHANGED <<at, snap, file, tmp, path, mixed, faults>> /\ cache \subseteq cache'
  BY DEF Aside, saving, disk
<1>3. KnownSaved'
  BY <1>1, <1>2 DEF SaveInv, KnownSaved
<1>4. mixed' # "now" => OneSave' /\ TmpIsMine' /\ SaveIsNewer'
  BY <1>1, <1>2 DEF SaveInv, OneSave, TmpIsMine, SaveIsNewer
<1>5. mixed' = "never" => ClosersSaved'
  BY <1>1, <1>2 DEF Aside, SaveInv, ClosersSaved
<1> QED  BY <1>1, <1>2, <1>3, <1>4, <1>5 DEF SaveInv, Keeps

\* start(), connect_to(), the signal of shutdown() and the end of a task are such steps.
LEMMA AsideSteps ==
  ASSUME TypeOK,
         \/ \E s \in Starter \cup LightStarter : Start(s) \/ StartStep(s)
         \/ \E c \in Conn : Connect(c) \/ ConnectStep(c)
         \/ \E x \in Closer : Shutdown(x)
         \/ \E s \in Starter : LpdFails(s) \/ \E k \in Task : Stop(s, k)
         \/ UNCHANGED vars
  PROVE  Aside
<1> USE CallsDiffer DEF Aside, saving, disk, env, TypeOK
<1>1. ASSUME NEW s \in Starter \cup LightStarter, Start(s) \/ StartStep(s) PROVE Aside
  <2>1. CASE Start(s)
    BY <2>1 DEF Start, Goto
  <2>2. CASE TransportUp(s) \/ TransportFails(s) \/ LightUp(s) \/ Started(s)
    BY <2>2 DEF TransportUp, TransportFails, LightUp, Started, Goto
  <2>3. ASSUME NEW k \in Task, Spawn(s, k) PROVE Aside
    <3>1. \A x \in Closer : pc'[x] = pc[x]
      BY <2>3 DEF Spawn, Goto
    <3> QED  BY <2>3, <3>1 DEF Spawn
  <2> QED  BY <1>1, <2>1, <2>2, <2>3 DEF StartStep
<1>2. ASSUME NEW c \in Conn, Connect(c) \/ ConnectStep(c) PROVE Aside
  BY <1>2 DEF Connect, ConnectStep, Connected, ConnectFailed, calls
<1>3. ASSUME NEW x \in Closer, Shutdown(x) PROVE Aside
  <2>1. \A y \in Closer : pc'[y] = "done" => pc[y] = "done"
    BY <1>3 DEF Shutdown, Goto
  <2> QED  BY <1>3, <2>1 DEF Shutdown
<1>4. ASSUME NEW s \in Starter, LpdFails(s) PROVE Aside
  BY <1>4 DEF LpdFails
<1>5. ASSUME NEW s \in Starter, NEW k \in Task, Stop(s, k) PROVE Aside
  BY <1>5 DEF Stop
<1>6. CASE UNCHANGED vars
  BY <1>6 DEF vars, calls
<1> QED  BY <1>1, <1>2, <1>3, <1>4, <1>5, <1>6

\* The clone: of a cache that has all that is on disk, and all that others save.
LEMMA BeginKeeps ==
  ASSUME TypeOK, SaveInv, NEW w \in Saver, BeginSave(w)
  PROVE  SaveInv' /\ Keeps
<1>1. UNCHANGED <<cache, file, tmp, path, faults>> /\ OnDisk' = OnDisk /\ Load(tmp)' = Load(tmp)
  BY DEF BeginSave, disk, env, OnDisk, Load
<1>2. at[w] = "idle" /\ at'[w] = "open" /\ snap'[w] = cache
  BY DEF BeginSave, TypeOK
<1>3. \A v \in Saver : v # w => at'[v] = at[v] /\ snap'[v] = snap[v]
  BY DEF BeginSave, TypeOK
<1>4. KnownSaved'
  BY <1>1, <1>2, <1>3 DEF SaveInv, KnownSaved
<1>5. ASSUME mixed' # "now" PROVE OneSave' /\ TmpIsMine' /\ SaveIsNewer'
  <2>1. \A v \in Saver : v # w => at[v] = "idle"
    BY <1>5 DEF BeginSave
  <2>2. OneSave' /\ TmpIsMine'
    BY <1>2, <1>3, <2>1 DEF OneSave, TmpIsMine
  <2>3. SaveIsNewer'
    BY <1>1, <1>2, <1>3, <2>1 DEF SaveIsNewer, SaveInv, KnownSaved
  <2> QED  BY <2>2, <2>3
<1>6. mixed' \in {"never", "mended"} => mixed' = mixed
  BY DEF BeginSave
<1>7. mixed' = "never" => ClosersSaved'
  <2> SUFFICES ASSUME mixed' = "never" PROVE ClosersSaved'
    OBVIOUS
  <2>1. ASSUME NEW x \in Closer, pc'[x] = "done" PROVE pc[x] = "done" /\ x # w
    BY <2>1 DEF BeginSave, TypeOK
  <2>2. \A x \in Closer : x \in Saver
    BY DEF Saver
  <2> QED  BY <1>1, <1>3, <1>6, <2>1, <2>2 DEF SaveInv, ClosersSaved
<1> QED  BY <1>1, <1>4, <1>5, <1>6, <1>7 DEF SaveInv, Keeps

\* The temporary file is emptied, whoever else has it.
LEMMA OpenKeeps ==
  ASSUME TypeOK, SaveInv, NEW w \in Saver, OpenTmp(w)
  PROVE  SaveInv' /\ Keeps
<1>1. at[w] = "open" /\ at'[w] = "write" /\ file'[w] = "tmp" /\ tmp' = Empty
  BY DEF OpenTmp, TypeOK
<1>2. UNCHANGED <<path, cache, snap, pc, faults, mixed>> /\ OnDisk' = OnDisk /\ Load(tmp)' = {}
  BY <1>1 DEF OpenTmp, calls, env, OnDisk, Load, Empty
<1>3. \A v \in Saver : v # w => at'[v] = at[v] /\ file'[v] = file[v]
  BY DEF OpenTmp, TypeOK
<1>4. KnownSaved'
  BY <1>1, <1>2, <1>3 DEF SaveInv, KnownSaved
<1>5. ASSUME mixed' # "now" PROVE OneSave' /\ TmpIsMine' /\ SaveIsNewer'
  <2>1. \A v \in Saver : v # w => at[v] = "idle"
    BY <1>1, <1>2, <1>5 DEF SaveInv, OneSave
  <2>2. OneSave' /\ TmpIsMine'
    BY <1>1, <1>3, <2>1 DEF OneSave, TmpIsMine
  <2>3. SaveIsNewer'
    BY <1>1, <1>2, <1>3, <1>5, <2>1 DEF SaveInv, SaveIsNewer
  <2> QED  BY <2>2, <2>3
<1> QED  BY <1>2, <1>4, <1>5 DEF SaveInv, ClosersSaved, Keeps

\* What write() leaves in a file loads as nothing, or as what was written.
LEMMA WrittenLoads ==
  ASSUME NEW old, NEW S, NEW new \in Written(old, S)
  PROVE  Load(new) \subseteq S
BY DEF Written, Load, Garbage, Whole

\* The file that the save has open is written, wherever it is by now.
LEMMA WriteKeeps ==
  ASSUME TypeOK, SaveInv, NEW w \in Saver, WriteTmp(w)
  PROVE  SaveInv' /\ Keeps
<1>1. at[w] = "write" /\ at'[w] = "rename"
  BY DEF WriteTmp, TypeOK
<1>2. UNCHANGED <<cache, snap, pc, faults, mixed>>
  BY DEF WriteTmp, calls, env
<1>3. \A v \in Saver : v # w => at'[v] = at[v] /\ file'[v] = file[v]
  BY DEF WriteTmp, TypeOK
<1>4. snap[w] \subseteq cache /\ Load(tmp) \subseteq cache /\ OnDisk \subseteq cache
  BY <1>1 DEF SaveInv, KnownSaved
<1>5. Load(tmp)' \subseteq cache
  <2>1. CASE file[w] = "tmp"
    <3>1. tmp' \in Written(tmp, snap[w])
      BY <2>1 DEF WriteTmp
    <3> QED  BY <1>4, <3>1, WrittenLoads DEF Load
  <2>2. CASE file[w] # "tmp"
    BY <1>4, <2>2 DEF WriteTmp, Load
  <2> QED  BY <2>1, <2>2
<1>6. OnDisk' \subseteq cache
  <2>1. CASE file[w] = "path"
    <3>1. path' \in Written(path, snap[w])
      BY <2>1 DEF WriteTmp
    <3> QED  BY <1>4, <3>1, WrittenLoads DEF OnDisk, Load
  <2>2. CASE file[w] # "path"
    BY <1>4, <2>2 DEF WriteTmp, OnDisk, Load
  <2> QED  BY <2>1, <2>2
<1>7. KnownSaved'
  BY <1>1, <1>2, <1>3, <1>5, <1>6 DEF SaveInv, KnownSaved
<1>8. ASSUME mixed # "now"
      PROVE  OneSave' /\ TmpIsMine' /\ SaveIsNewer' /\ path' = path /\ OnDisk' = OnDisk
  <2>1. file[w] = "tmp" /\ tmp = Empty
    BY <1>1, <1>8 DEF SaveInv, TmpIsMine
  <2>2. \A v \in Saver : v # w => at[v] = "idle"
    BY <1>1, <1>8 DEF SaveInv, OneSave
  <2>3. path' = path /\ OnDisk' = OnDisk
    BY <2>1 DEF WriteTmp, OnDisk, Load
  <2>4. tmp' = Whole(snap[w])
    BY <2>1, WrittenToEmpty DEF WriteTmp, TypeOK
  <2>5. OneSave' /\ TmpIsMine'
    BY <1>1, <1>2, <1>3, <2>2, <2>4 DEF OneSave, TmpIsMine
  <2>6. SaveIsNewer'
    BY <1>1, <1>2, <1>3, <1>8, <2>2, <2>3 DEF SaveInv, SaveIsNewer
  <2> QED  BY <2>3, <2>5, <2>6
<1>9. mixed = "never" => ClosersSaved'
  BY <1>2, <1>8 DEF SaveInv, ClosersSaved
<1> QED  BY <1>2, <1>7, <1>8, <1>9 DEF SaveInv, Keeps

\* A write that fails loses what it wrote, and mends nothing.
LEMMA FailKeeps ==
  ASSUME TypeOK, SaveInv, NEW w \in Saver, WriteFails(w)
  PROVE  SaveInv' /\ Keeps
<1>1. at[w] = "write" /\ at'[w] = "idle" /\ faults' # 0
  BY DEF WriteFails, SaveReturns, TypeOK
<1>2. UNCHANGED <<cache, snap>> /\ mixed' \in {mixed, "now"} /\ mixed' # "mending"
  BY DEF WriteFails, Spoilt
<1>3. \A v \in Saver : v # w => at'[v] = at[v] /\ file'[v] = file[v]
  BY DEF WriteFails, SaveReturns, TypeOK
<1>4. Load(tmp)' \subseteq cache
  BY <1>1 DEF WriteFails, SaveInv, KnownSaved, Load, Garbage
<1>5. OnDisk' \subseteq cache
  BY DEF WriteFails, SaveInv, KnownSaved, OnDisk, Load, Garbage
<1>6. KnownSaved'
  BY <1>1, <1>2, <1>3, <1>4, <1>5 DEF SaveInv, KnownSaved
<1>7. ASSUME mixed' # "now"
      PROVE  OneSave' /\ TmpIsMine' /\ SaveIsNewer' /\ path' = path /\ OnDisk' = OnDisk
  <2>1. mixed # "now"
    BY <1>2, <1>7
  <2>2. file[w] = "tmp"
    BY <1>1, <2>1 DEF SaveInv, TmpIsMine
  <2>3. \A v \in Saver : at'[v] = "idle"
    BY <1>1, <1>3, <2>1 DEF SaveInv, OneSave
  <2>4. path' = path /\ OnDisk' = OnDisk
    BY <2>2 DEF WriteFails, OnDisk, Load
  <2> QED  BY <2>3, <2>4 DEF OneSave, TmpIsMine, SaveIsNewer
<1>8. ClosersSaved'
  BY <1>1 DEF ClosersSaved
<1> QED  BY <1>2, <1>6, <1>7, <1>8 DEF SaveInv, Keeps

\* The file is replaced, by this save's cache when it had the disk to itself.
LEMMA RenameKeeps ==
  ASSUME TypeOK, SaveInv, NEW w \in Saver, Rename(w)
  PROVE  SaveInv' /\ Keeps
<1>1. at[w] = "rename" /\ at'[w] = "idle"
  BY DEF Rename, SaveReturns, TypeOK
<1>2. UNCHANGED <<cache, snap, faults>> /\ (mixed' # "now" => mixed # "now")
  BY DEF Rename, env
<1>3. \A v \in Saver : v # w => at'[v] = at[v]
  BY DEF Rename, SaveReturns, TypeOK
<1>4. Load(tmp) \subseteq cache /\ OnDisk \subseteq cache
  BY <1>1 DEF SaveInv, KnownSaved
<1>5. Load(tmp)' \subseteq cache /\ OnDisk' \subseteq cache
  <2>1. CASE tmp = NoFile
    BY <1>4, <2>1 DEF Rename, disk, OnDisk, Load
  <2>2. CASE tmp # NoFile
    BY <1>4, <2>2 DEF Rename, OnDisk, Load, NoFile
  <2> QED  BY <2>1, <2>2
<1>6. KnownSaved'
  BY <1>1, <1>2, <1>3, <1>5 DEF SaveInv, KnownSaved
<1>7. ASSUME mixed # "now"
      PROVE  /\ OneSave' /\ TmpIsMine' /\ SaveIsNewer'
             /\ path' = Whole(snap[w]) /\ OnDisk' = snap[w] /\ OnDisk \subseteq OnDisk'
  <2>1. tmp = Whole(snap[w]) /\ tmp # NoFile
    BY <1>1, <1>7 DEF SaveInv, TmpIsMine, Whole, NoFile
  <2>2. path' = Whole(snap[w]) /\ OnDisk' = snap[w]
    BY <2>1 DEF Rename, OnDisk, Load, Whole
  <2>3. \A v \in Saver : at'[v] = "idle"
    BY <1>1, <1>3, <1>7 DEF SaveInv, OneSave
  <2>4. OnDisk \subseteq snap[w]
    BY <1>1, <1>7 DEF SaveInv, SaveIsNewer
  <2>5. OneSave' /\ TmpIsMine' /\ SaveIsNewer'
    BY <2>3 DEF OneSave, TmpIsMine, SaveIsNewer
  <2> QED  BY <2>2, <2>4, <2>5
<1>8. ASSUME mixed' = "never" PROVE ClosersSaved'
  <2>1. mixed = "never"
    BY <1>8 DEF Rename
  <2>2. \A x \in Closer : pc'[x] = "done" => pc[x] = "done" \/ x = w
    BY DEF Rename, SaveReturns, TypeOK
  <2>3. OnDisk' = snap[w] /\ OnDisk \subseteq OnDisk'
    BY <1>7, <2>1
  <2> QED  BY <1>2, <2>1, <2>2, <2>3 DEF SaveInv, ClosersSaved
<1>9. mixed' \in {"never", "mended"} => path'.is = "cache"
  BY <1>2, <1>7 DEF Whole
<1> QED  BY <1>2, <1>6, <1>7, <1>8, <1>9 DEF SaveInv, Keeps

\* A crash ends every save; the next agent begins with what is on disk.
LEMMA CrashKeeps ==
  ASSUME TypeOK, SaveInv, Crash
  PROVE  SaveInv' /\ Keeps
<1>1. (\A v \in Saver : at'[v] = "idle") /\ UNCHANGED <<path, snap, faults>>
  BY DEF Crash, disk
<1>2. cache' = OnDisk /\ OnDisk' = OnDisk
  BY <1>1 DEF Crash, OnDisk, Load
<1>3. \A x \in Closer : pc'[x] = "done" => pc[x] = "done"
  BY DEF Crash, Volatile, TypeOK
<1>4. mixed' \in {"never", "mended"} => mixed' = mixed
  BY DEF Crash, Spoilt
<1>5. KnownSaved' /\ OneSave' /\ TmpIsMine' /\ SaveIsNewer'
  BY <1>1, <1>2 DEF KnownSaved, OneSave, TmpIsMine, SaveIsNewer
<1>6. mixed' = "never" => ClosersSaved'
  BY <1>1, <1>2, <1>3, <1>4 DEF SaveInv, ClosersSaved
<1> QED  BY <1>1, <1>2, <1>4, <1>5, <1>6 DEF SaveInv, Keeps

\* Every step keeps the invariant, and leaves on disk what was there.
LEMMA SaveInvStep ==
  ASSUME TypeOK, SaveInv, [Next]_vars
  PROVE  SaveInv' /\ Keeps
BY AsideSteps, AsideKeeps, BeginKeeps, OpenKeeps, WriteKeeps, FailKeeps, RenameKeeps, CrashKeeps
   DEF Next, SaveStep

\* The invariant holds in every behaviour, crashes and full disks included.
LEMMA SavesInvariant == Spec => [](TypeOK /\ SaveInv)
<1>1. Init => TypeOK /\ SaveInv
  BY TypeInit, SaveInvInit
<1>2. TypeOK /\ SaveInv /\ [Next]_vars => (TypeOK /\ SaveInv)'
  BY TypeStep, SaveInvStep
<1> QED  BY <1>1, <1>2, PTL DEF Spec

\* What peer_cache.rs:105 says of save(), with the condition it needs: until two
\* saves overlap, and again from the first save that has the disk to itself after
\* that, the file is a whole cache whenever the process dies.
THEOREM FileAlwaysWhole == Spec => []FileWhole
<1>1. SaveInv => FileWhole
  BY DEF SaveInv, FileWhole
<1> QED  BY <1>1, SavesInvariant, PTL

\* A shutdown() that returned saved what the agent knew, if the disk took it and
\* no other save got in its way (net_agent.rs:512-516).
THEOREM ShutdownAlwaysSaves == Spec => []ShutdownSaves
<1>1. SaveInv => ShutdownSaves
  BY DEF SaveInv, ShutdownSaves, ClosersSaved
<1> QED  BY <1>1, SavesInvariant, PTL

\* No save, restart or second agent takes a peer off the disk, but for two saves
\* that overlap and until one alone has mended what they did (peer_cache.rs:106-120).
THEOREM DiskNeverLoses == Spec => DiskOnlyGrows
<1>1. TypeOK /\ SaveInv /\ [Next]_vars
        => [mixed' \in {"never", "mended"} => OnDisk \subseteq OnDisk']_vars
  BY SaveInvStep DEF Keeps
<1> QED  BY <1>1, SavesInvariant, PTL DEF Spec, DiskOnlyGrows
=============================================================================
