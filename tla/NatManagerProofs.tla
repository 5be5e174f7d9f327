-------------------------- MODULE NatManagerProofs --------------------------
(***************************************************************************)
(* Proofs about NatManager, for any hosts, calls, jobs, ports and leases:  *)
(* its types, that no mapping is lost sight of, that renewals come in time *)
(* and that init() removes what a dead process left behind.                *)
(***************************************************************************)
EXTENDS NatManager, SequenceTheorems, TLAPS

\* The interval of renewals is a number of ticks (nat/mod.rs:859).
LEMMA IntervalNat == Interval \in Nat
  BY LeaseNat DEF Interval

\* What the sequences of jobs are: never empty, each of them a request for a port.
LEMMA JobsAre ==
  ASSUME NEW w \in Worker
  PROVE  /\ Len(Job[w]) \in Nat /\ Len(Job[w]) >= 1
         /\ \A i \in 1..Len(Job[w]) :
              Job[w][i].proto \in Proto /\ Job[w][i].port \in Port /\ Job[w][i].mark \in BOOLEAN
<1> DEFINE J == [proto : Proto, port : Port, mark : BOOLEAN]
<1>1. Job[w] \in Seq(J) /\ Job[w] # <<>>
  BY JobType
<1> HIDE DEF J
<1>2. Len(Job[w]) \in Nat \ {0}
  BY <1>1, EmptySeq
<1>3. \A i \in 1..Len(Job[w]) : Job[w][i] \in J
  BY <1>1, LenProperties
<1> QED  BY <1>2, <1>3 DEF J

\* Arithmetic modulo the number of ports.
LEMMA ModIsPort == \A a \in Nat : a % (MaxPort + 1) \in Port
  BY PortNat DEF Port

\* The port that is tried is a port: wrapping_add wraps (nat/mod.rs:738).
LEMMA KeyIsKey ==
  ASSUME WorkOK, NEW w \in Worker
  PROVE  KeyOf(w) \in Key /\ JobOf(w).port \in Port /\ JobOf(w).mark \in BOOLEAN
<1>1. next[w] \in 1..Len(Job[w]) /\ off[w] \in Nat
  BY RetriesNat DEF WorkOK
<1>2. JobOf(w).proto \in Proto /\ JobOf(w).port \in Port /\ JobOf(w).mark \in BOOLEAN
  BY <1>1, JobsAre DEF JobOf
<1>3. JobOf(w).port + off[w] \in Nat
  BY <1>1, <1>2 DEF Port
<1>4. Ext(JobOf(w).port, off[w]) \in Port
  BY <1>3, ModIsPort DEF Ext
<1> QED  BY <1>2, <1>4 DEF KeyOf, Key

\* A job belongs to a host.
LEMMA HostIsNode == \A w \in Worker : HostOf(w) \in Node
  BY HostType DEF HostOf, Worker

\* What Proceed leaves in pc, next and off: only w moves on.
LEMMA ProceedTypes ==
  ASSUME WorkOK, NEW w \in Worker, NEW r \in {"done", "failed"}, Proceed(w, r)
  PROVE  /\ pc' = [pc EXCEPT ![w] = pc'[w]]
         /\ pc'[w] \in {"add", "start", "done", "failed"}
         /\ pc'[w] = "start" => w \notin Call
         /\ pc'[w] \in {"done", "failed"} => w \in Call
         /\ next' \in [Worker -> Nat] /\ \A v \in Worker : next'[v] \in 1..Len(Job[v])
         /\ off' \in [Worker -> 0..(MaxRetries - 1)]
         /\ \A v \in Worker \ {w} : next'[v] = next[v] /\ off'[v] = off[v]
<1>1. off' \in [Worker -> 0..(MaxRetries - 1)] /\ \A v \in Worker \ {w} : off'[v] = off[v]
  BY RetriesNat DEF WorkOK, Proceed
<1>2. CASE next[w] < Len(Job[w])
  <2>1. pc' = [pc EXCEPT ![w] = "add"] /\ next' = [next EXCEPT ![w] = next[w] + 1]
    BY <1>2 DEF Proceed, Goto
  <2>2. next[w] + 1 \in 1..Len(Job[w])
    BY <1>2, JobsAre DEF WorkOK
  <2> QED  BY <1>1, <2>1, <2>2 DEF WorkOK
<1>3. CASE ~(next[w] < Len(Job[w]))
  BY <1>1, <1>3 DEF WorkOK, Proceed, Goto
<1> QED  BY <1>2, <1>3

\* NextOffset likewise.
LEMMA NextOffsetTypes ==
  ASSUME WorkOK, NEW w \in Worker, pc[w] = "add", NextOffset(w)
  PROVE  /\ pc' = [pc EXCEPT ![w] = pc'[w]]
         /\ pc'[w] \in {"add", "start", "done", "failed"}
         /\ pc'[w] = "start" => w \notin Call
         /\ pc'[w] \in {"done", "failed"} => w \in Call
         /\ next' \in [Worker -> Nat] /\ \A v \in Worker : next'[v] \in 1..Len(Job[v])
         /\ off' \in [Worker -> 0..(MaxRetries - 1)]
         /\ \A v \in Worker \ {w} : next'[v] = next[v] /\ off'[v] = off[v]
<1>1. CASE off[w] + 1 < MaxRetries
  <2>1. off' = [off EXCEPT ![w] = off[w] + 1] /\ UNCHANGED <<pc, next>>
    BY <1>1 DEF NextOffset
  <2>2. off[w] + 1 \in 0..(MaxRetries - 1)
    BY <1>1, RetriesNat DEF WorkOK
  <2> QED  BY <2>1, <2>2 DEF WorkOK
<1>2. CASE ~(off[w] + 1 < MaxRetries)
  <2>1. Proceed(w, "failed")
    BY <1>2 DEF NextOffset
  <2> QED  BY <2>1, ProceedTypes
<1> QED  BY <1>1, <1>2

\* A new mapping of a host is an entry of the router.
LEMMA EntryIsEntry ==
  ASSUME NEW n \in Node \cup {Other}, NEW mark \in BOOLEAN, NEW kept \in BOOLEAN
  PROVE  Entry(n, mark, kept) \in EntryType
  BY LeaseNat DEF Entry, EntryType

\* A process without mappings has its types, on a router without mappings.
LEMMA TypeInit == Init => TypeOK
<1> SUFFICES ASSUME Init PROVE TypeOK
  OBVIOUS
<1>1. next \in [Worker -> Nat] /\ \A w \in Worker : next[w] \in 1..Len(Job[w])
  BY JobsAre DEF Init
<1>2. off \in [Worker -> 0..(MaxRetries - 1)]
  BY RetriesNat DEF Init
<1>3. slept \in [Node -> 0..(Interval + Slack)]
  BY IntervalNat, LeaseNat DEF Init
<1>4. crashes \in 0..MaxCrashes /\ faults \in 0..MaxFaults
  BY BoundsNat DEF Init
<1>5. WorkOK
  BY <1>1, <1>2 DEF Init, WorkOK
<1>6. TasksOK
  BY <1>3 DEF Init, TasksOK
<1> QED  BY <1>4, <1>5, <1>6 DEF Init, TypeOK, RouterOK

\* The renewal task runs once init() is done, and nothing else ends or starts it.
TaskInv == \A n \in Node : renew[n] # "none" <=> pc[n] = "done"

\* The steps of init() and map_port() keep the types of their own state.
LEMMA WorkStep == TypeOK /\ [Next]_vars => WorkOK'
<1> SUFFICES ASSUME WorkOK, [Next]_vars PROVE WorkOK'
  BY DEF TypeOK
<1>1. ASSUME NEW w \in Worker, Begin(w) PROVE WorkOK'
  BY <1>1 DEF WorkOK, Begin, Goto
<1>2. ASSUME NEW w \in Worker, Discovered(w) \/ NotDiscovered(w) PROVE WorkOK'
  BY <1>2 DEF WorkOK, Discovered, NotDiscovered, Goto
<1>3. ASSUME NEW w \in Worker, SkipZero(w) \/ TryNext(w) PROVE WorkOK'
  <2>1. pc[w] = "add" /\ NextOffset(w) /\ UNCHANGED <<gateway, old>>
    BY <1>3 DEF SkipZero, TryNext
  <2> QED  BY <2>1, NextOffsetTypes DEF WorkOK
<1>4. ASSUME NEW w \in Worker, AddPort(w) PROVE WorkOK'
  BY <1>4 DEF WorkOK, AddPort, Goto
<1>5. ASSUME NEW w \in Worker, AddFails(w) \/ Record(w) PROVE WorkOK'
  <2>1. (Proceed(w, "failed") \/ Proceed(w, "done")) /\ UNCHANGED <<gateway, old>>
    BY <1>5 DEF AddFails, Record
  <2> QED  BY <2>1, ProceedTypes DEF WorkOK
<1>6. ASSUME NEW n \in Node, InitStep(n) PROVE WorkOK'
  BY <1>6 DEF WorkOK, InitStep, Enumerate, RemoveOld, CleanedUp, StartRenewal, Goto
<1>7. ASSUME NEW n \in Node, Crash(n) PROVE WorkOK'
  <2>1. next' \in [Worker -> Nat] /\ \A w \in Worker : next'[w] \in 1..Len(Job[w])
    BY <1>7, JobsAre DEF Crash, WorkOK
  <2>2. off' \in [Worker -> 0..(MaxRetries - 1)]
    BY <1>7, RetriesNat DEF Crash, WorkOK
  <2> QED  BY <1>7, <2>1, <2>2 DEF Crash, WorkOK
<1>8. CASE UNCHANGED <<gateway, work>>
  BY <1>8 DEF WorkOK, work
<1>9. \/ \E n \in Node : RenewStep(n) \/ Release(n) \/ ReleaseStep(n)
      \/ \E k \in Key : OtherTakes(k) \/ OtherFrees(k)
      \/ Tick
      \/ UNCHANGED vars
      => UNCHANGED <<gateway, work>>
  BY DEF RenewStep, Wake, RenewOne, Sleep, Release, ReleaseStep, ReleaseOne, Released, OtherTakes,
     OtherFrees, Tick, vars
<1> QED  BY <1>1, <1>2, <1>3, <1>4, <1>5, <1>6, <1>7, <1>8, <1>9 DEF Next, MapStep

\* The steps of the tasks keep the types of theirs.
LEMMA TasksStep == TypeOK /\ TaskInv /\ [Next]_vars => TasksOK'
<1> SUFFICES ASSUME WorkOK, TasksOK, TaskInv, [Next]_vars PROVE TasksOK'
  BY DEF TypeOK
<1>1. ASSUME NEW w \in Worker, Record(w) PROVE TasksOK'
  <2>1. [key |-> KeyOf(w), int |-> JobOf(w).port, mark |-> JobOf(w).mark] \in Mapping
    BY KeyIsKey DEF Mapping
  <2>2. mappings' \in [Node -> SUBSET Mapping] /\ raced' \in [Node -> BOOLEAN]
    BY <1>1, <2>1, HostIsNode DEF Record, TasksOK
  <2> QED  BY <1>1, <2>2 DEF Record, TasksOK, tasks, releases
<1>2. ASSUME NEW n \in Node, StartRenewal(n) PROVE TasksOK'
  <2>1. snap[n] = {}
    BY <1>2 DEF StartRenewal, TasksOK, TaskInv
  <2>2. slept' \in [Node -> 0..(Interval + Slack)]
    BY <1>2, IntervalNat, LeaseNat DEF StartRenewal, TasksOK
  <2> QED  BY <1>2, <2>1, <2>2 DEF StartRenewal, TasksOK, releases
<1>3. ASSUME NEW n \in Node, RenewStep(n) PROVE TasksOK'
  <2>1. CASE Wake(n)
    BY <2>1 DEF Wake, TasksOK, releases
  <2>2. CASE RenewOne(n)
    BY <2>2 DEF RenewOne, TasksOK, releases
  <2>3. CASE Sleep(n)
    BY <2>3, IntervalNat, LeaseNat DEF Sleep, TasksOK, releases
  <2> QED  BY <1>3, <2>1, <2>2, <2>3 DEF RenewStep
<1>4. ASSUME NEW n \in Node, Release(n) PROVE TasksOK'
  BY <1>4 DEF Release, TasksOK, tasks
<1>5. ASSUME NEW n \in Node, ReleaseStep(n) PROVE TasksOK'
  BY <1>5 DEF ReleaseStep, ReleaseOne, Released, TasksOK, tasks
<1>6. ASSUME NEW n \in Node, Crash(n) PROVE TasksOK'
  BY <1>6, IntervalNat, LeaseNat DEF Crash, TasksOK
<1>7. CASE Tick
  <2>1. slept' \in [Node -> 0..(Interval + Slack)]
    BY <1>7, IntervalNat, LeaseNat DEF Tick, TasksOK
  <2> QED  BY <1>7, <2>1 DEF Tick, TasksOK, releases
<1>8. CASE UNCHANGED <<mappings, tasks, releases, raced>>
  BY <1>8 DEF TasksOK, tasks, releases
<1>9. \/ \E w \in Worker : \/ Begin(w) \/ Discovered(w) \/ NotDiscovered(w) \/ SkipZero(w)
                           \/ TryNext(w) \/ AddPort(w) \/ AddFails(w)
      \/ \E n \in Node : Enumerate(n) \/ RemoveOld(n) \/ CleanedUp(n)
      \/ \E k \in Key : OtherTakes(k) \/ OtherFrees(k)
      \/ UNCHANGED vars
      => UNCHANGED <<mappings, tasks, releases, raced>>
  BY DEF Begin, Discovered, NotDiscovered, SkipZero, TryNext, AddPort, AddFails, Enumerate,
     RemoveOld, CleanedUp, OtherTakes, OtherFrees, vars
<1> QED
  BY <1>1, <1>2, <1>3, <1>4, <1>5, <1>6, <1>7, <1>8, <1>9 DEF Next, MapStep, InitStep

\* The router keeps its types.
LEMMA RouterStep == TypeOK /\ [Next]_vars => RouterOK'
<1> SUFFICES ASSUME TypeOK, [Next]_vars PROVE RouterOK'
  OBVIOUS
<1> USE BoundsNat DEF RouterOK, env, Fault
<1>a. WorkOK /\ TasksOK /\ RouterOK
  BY DEF TypeOK
<1>1. ASSUME NEW w \in Worker, AddPort(w) PROVE RouterOK'
  <2>1. (w \in Node \/ renew[HostOf(w)] # "none") \in BOOLEAN
    OBVIOUS
  <2>2. Entry(HostOf(w), JobOf(w).mark, w \in Node \/ renew[HostOf(w)] # "none") \in EntryType
    BY <1>a, <2>1, HostIsNode, KeyIsKey, EntryIsEntry
  <2> QED  BY <1>a, <1>1, <2>2 DEF AddPort
<1>2. ASSUME NEW n \in Node, NEW m \in Mapping, Renewed(n, m) PROVE RouterOK'
  <2>1. Entry(n, m.mark, TRUE) \in EntryType
    BY EntryIsEntry DEF Mapping
  <2>2. m.key \in Key
    BY DEF Mapping
  <2>3. router' \in [Key -> EntryType \cup {Free}]
    BY <1>a, <1>2, <2>1, <2>2 DEF Renewed
  <2>4. UNCHANGED env \/ Fault
    BY <1>2 DEF Renewed
  <2>5. crashes' \in 0..MaxCrashes /\ faults' \in 0..MaxFaults
    BY <1>a, <2>4
  <2> QED  BY <2>3, <2>5
<1>3. ASSUME NEW n \in Node, RenewOne(n) PROVE RouterOK'
  BY <1>a, <1>2, <1>3 DEF RenewOne, TasksOK
<1>4. ASSUME NEW n \in Node, RemoveOld(n) \/ ReleaseOne(n) PROVE RouterOK'
  <2>1. \/ \E k : router' = [router EXCEPT ![k] = Free] /\ UNCHANGED env
        \/ Fault /\ UNCHANGED router
    BY <1>4 DEF RemoveOld, ReleaseOne
  <2> QED  BY <1>a, <2>1
<1>5. ASSUME NEW w \in Worker, AddFails(w) PROVE RouterOK'
  BY <1>a, <1>5 DEF AddFails
<1>6. ASSUME NEW n \in Node, Crash(n) PROVE RouterOK'
  <2>1. router' \in [Key -> EntryType \cup {Free}]
    BY <1>a, <1>6 DEF Crash, EntryType
  <2> QED  BY <1>a, <1>6, <2>1 DEF Crash
<1>7. ASSUME NEW k \in Key, OtherTakes(k) \/ OtherFrees(k) PROVE RouterOK'
  <2>1. Entry(Other, FALSE, FALSE) \in EntryType
    BY EntryIsEntry
  <2> QED  BY <1>a, <1>7, <2>1 DEF OtherTakes, OtherFrees
<1>8. CASE Tick
  <2>1. ASSUME NEW k \in Key, router[k] \in EntryType, router[k].age + 1 # Lease
        PROVE  [router[k] EXCEPT !.age = @ + 1] \in EntryType
    BY <2>1, LeaseNat DEF EntryType
  <2>2. \A k \in Key : router'[k] \in EntryType \cup {Free}
    BY <1>a, <1>8, <2>1 DEF Tick
  <2>3. router' \in [Key -> EntryType \cup {Free}]
    BY <1>8, <2>2 DEF Tick
  <2> QED  BY <1>a, <1>8, <2>3 DEF Tick
<1>9. CASE UNCHANGED <<router, env>>
  BY <1>a, <1>9
<1>10. \/ \E w \in Worker : \/ Begin(w) \/ Discovered(w) \/ NotDiscovered(w) \/ SkipZero(w)
                            \/ TryNext(w) \/ Record(w)
       \/ \E n \in Node : \/ Enumerate(n) \/ CleanedUp(n) \/ StartRenewal(n) \/ Wake(n) \/ Sleep(n)
                          \/ Release(n) \/ Released(n)
       \/ UNCHANGED vars
       => UNCHANGED <<router, env>>
  BY DEF Begin, Discovered, NotDiscovered, SkipZero, TryNext, Record, Enumerate, CleanedUp,
     StartRenewal, Wake, Sleep, Release, Released, vars
<1> QED
  BY <1>1, <1>3, <1>4, <1>5, <1>6, <1>7, <1>8, <1>9, <1>10
  DEF Next, MapStep, InitStep, RenewStep, ReleaseStep

\* The task and init() keep in step.
LEMMA TaskStep == TypeOK /\ TaskInv /\ [Next]_vars => TaskInv'
<1> SUFFICES ASSUME WorkOK, TasksOK, TaskInv, [Next]_vars, NEW n \in Node
             PROVE  (renew[n] # "none" <=> pc[n] = "done")'
  BY DEF TypeOK, TaskInv
<1> USE DEF Worker
<1>0. (renew[n] # "none" <=> pc[n] = "done") /\ n \notin Call
  BY NamesDiffer DEF TaskInv
<1>1. ASSUME NEW w \in Worker, Begin(w) PROVE (renew[n] # "none" <=> pc[n] = "done")'
  BY <1>0, <1>1 DEF WorkOK, Begin, Goto, tasks
<1>2. ASSUME NEW w \in Worker, Discovered(w) \/ NotDiscovered(w) \/ AddPort(w)
      PROVE  (renew[n] # "none" <=> pc[n] = "done")'
  BY <1>0, <1>2 DEF WorkOK, Discovered, NotDiscovered, AddPort, Goto, tasks
<1>3. ASSUME NEW w \in Worker, SkipZero(w) \/ TryNext(w)
      PROVE  (renew[n] # "none" <=> pc[n] = "done")'
  <2>1. pc[w] = "add" /\ NextOffset(w) /\ UNCHANGED renew
    BY <1>3 DEF SkipZero, TryNext, tasks
  <2> QED  BY <1>0, <2>1, NextOffsetTypes DEF WorkOK
<1>4. ASSUME NEW w \in Worker, AddFails(w) \/ Record(w)
      PROVE  (renew[n] # "none" <=> pc[n] = "done")'
  <2>1. /\ pc[w] \in {"add", "record"} /\ (Proceed(w, "failed") \/ Proceed(w, "done"))
        /\ UNCHANGED renew
    BY <1>4 DEF AddFails, Record, tasks
  <2> QED  BY <1>0, <2>1, ProceedTypes DEF WorkOK
<1>5. ASSUME NEW m \in Node, InitStep(m) PROVE (renew[n] # "none" <=> pc[n] = "done")'
  BY <1>0, <1>5 DEF WorkOK, TasksOK, InitStep, Enumerate, RemoveOld, CleanedUp, StartRenewal, Goto, tasks
<1>6. ASSUME NEW m \in Node, RenewStep(m) PROVE (renew[n] # "none" <=> pc[n] = "done")'
  BY <1>0, <1>6 DEF TasksOK, RenewStep, Wake, RenewOne, Sleep, work
<1>7. ASSUME NEW m \in Node, Crash(m) PROVE (renew[n] # "none" <=> pc[n] = "done")'
  BY <1>0, <1>7 DEF Crash, WorkOK, TasksOK, HostOf
<1>8. \/ \E m \in Node : Release(m) \/ ReleaseStep(m)
      \/ \E k \in Key : OtherTakes(k) \/ OtherFrees(k)
      \/ Tick
      \/ UNCHANGED vars
      => UNCHANGED <<pc, renew>>
  BY DEF Release, ReleaseStep, ReleaseOne, Released, OtherTakes, OtherFrees, Tick, vars, tasks, work
<1> QED
  BY <1>0, <1>1, <1>2, <1>3, <1>4, <1>5, <1>6, <1>7, <1>8 DEF Next, MapStep

\* Both hold in every behaviour.
LEMMA TypesAndTask == Spec => [](TypeOK /\ TaskInv)
<1>1. Init => TaskInv
  BY DEF Init, TaskInv, Worker
<1>2. TypeOK /\ TaskInv /\ [Next]_vars => (TypeOK /\ TaskInv)'
  BY WorkStep, TasksStep, RouterStep, TaskStep DEF TypeOK
<1> QED  BY <1>1, <1>2, TypeInit, PTL DEF Spec

\* Each variable keeps its type in every behaviour; in particular no port wraps
\* out of its range and no round of renewals outlives its task.
THEOREM TypeCorrect == Spec => []TypeOK
  BY TypesAndTask, PTL

-----------------------------------------------------------------------------
(* No mapping is lost sight of *)

Held(n, k) == Has(n, k) /\ ~router[k].left
Clean(n) == ~raced[n] /\ faults = 0

\* Besides NoLeak: a round renews what is recorded, and a release covers what the
\* process has, so long as neither meets the other.
LeakInvOf(n) ==
  Clean(n) =>
    /\ \A k \in Key : Held(n, k) => Recorded(n, k) \/ Pending(n, k)
    /\ renew[n] = "round" => snap[n] \subseteq mappings[n] /\ ~releasing[n]
    /\ releasing[n] => \A k \in Key :
         Held(n, k) => Pending(n, k) \/ \E m \in freeing[n] : m.key = k

LeakInv == \A n \in Node : LeakInvOf(n)

\* A worker that is not recording a mapping takes no pending mapping away.
LEMMA PendingKept ==
  ASSUME NEW w \in Worker, pc[w] # "record", NEW n \in Node, NEW k \in Key,
         \A v \in Worker \ {w} : pc'[v] = pc[v] /\ next'[v] = next[v] /\ off'[v] = off[v]
  PROVE  Pending(n, k) => Pending(n, k)'
  BY DEF Pending, KeyOf, JobOf

\* The steps of init() and map_port() that neither record nor make a mapping take no
\* pending mapping away.
LEMMA QuietKeepsPending ==
  ASSUME TypeOK, NEW w \in Worker, NEW n \in Node, NEW k \in Key,
         Begin(w) \/ Discovered(w) \/ NotDiscovered(w) \/ SkipZero(w) \/ TryNext(w)
  PROVE  Pending(n, k) => Pending(n, k)'
<1> USE DEF TypeOK
<1>1. CASE Begin(w) \/ Discovered(w) \/ NotDiscovered(w)
  <2>1. pc[w] # "record" /\ next' = next /\ off' = off /\ \E l : pc' = [pc EXCEPT ![w] = l]
    BY <1>1 DEF Begin, Discovered, NotDiscovered, Goto
  <2> QED  BY <2>1, PendingKept DEF WorkOK
<1>2. CASE SkipZero(w) \/ TryNext(w)
  <2>1. pc[w] = "add" /\ NextOffset(w)
    BY <1>2 DEF SkipZero, TryNext
  <2> QED  BY <2>1, NextOffsetTypes, PendingKept DEF WorkOK
<1> QED  BY <1>1, <1>2

\* Nor do the steps of init() around its jobs.
LEMMA InitKeepsPending ==
  ASSUME TypeOK, NEW m \in Node, NEW n \in Node, NEW k \in Key, InitStep(m)
  PROVE  Pending(n, k) => Pending(n, k)'
<1> m \in Worker
  BY DEF Worker
<1>1. CASE RemoveOld(m)
  BY <1>1 DEF RemoveOld, Pending, KeyOf, JobOf
<1>2. CASE Enumerate(m) \/ CleanedUp(m) \/ StartRenewal(m)
  <2>1. pc[m] # "record" /\ next' = next /\ off' = off /\ \E l : pc' = [pc EXCEPT ![m] = l]
    BY <1>2 DEF Enumerate, CleanedUp, StartRenewal, Goto
  <2> QED  BY <2>1, PendingKept DEF TypeOK, WorkOK
<1> QED  BY <1>1, <1>2 DEF InitStep

\* A step that gives the host nothing new on the router and touches none of its
\* records keeps the invariant.
LEMMA QuietStep ==
  ASSUME NEW n \in Node, LeakInvOf(n), faults' = 0 => faults = 0,
         \A k \in Key : Held(n, k)' => Held(n, k),
         \A k \in Key : Pending(n, k) => Pending(n, k)',
         UNCHANGED <<mappings[n], snap[n], releasing[n], freeing[n], raced[n]>>,
         renew'[n] = "round" => renew[n] = "round"
  PROVE  LeakInvOf(n)'
  BY DEF LeakInvOf, Clean, Recorded

\* Time only takes mappings away, and so does the removal of one.
LEMMA TickHeld ==
  ASSUME TypeOK, Tick, NEW n \in Node, NEW k \in Key
  PROVE  Held(n, k)' => Held(n, k)
<1>1. CASE router[k] = Free \/ router[k].by = Other
  BY <1>1 DEF Tick, Held, Has
<1>2. CASE ~(router[k] = Free \/ router[k].by = Other)
  <2>1. router[k] \in EntryType
    BY <1>2 DEF TypeOK, RouterOK
  <2>2. CASE router[k].age + 1 = Lease
    BY <1>2, <2>2 DEF Tick, Held, Has
  <2>3. CASE router[k].age + 1 # Lease
    <3>1. router'[k] = [router[k] EXCEPT !.age = @ + 1]
      BY <1>2, <2>3 DEF Tick
    <3>2. router'[k].by = router[k].by /\ router'[k].left = router[k].left
      BY <2>1, <3>1 DEF EntryType
    <3> QED  BY <1>2, <3>2 DEF Held, Has
  <2> QED  BY <2>2, <2>3
<1> QED  BY <1>1, <1>2

\* What a failing call counts for.
LEMMA FaultCounts == ASSUME TypeOK, Fault PROVE faults' # 0
  BY BoundsNat DEF TypeOK, RouterOK, Fault

\* init() and map_port() keep the invariant: what they made is pending until it is
\* recorded.
LEMMA LeakMap ==
  ASSUME TypeOK, NEW n \in Node, LeakInvOf(n), NEW w \in Worker, MapStep(w)
  PROVE  LeakInvOf(n)'
<1> USE DEF tasks, releases, env
<1>1. CASE Discovered(w) \/ NotDiscovered(w) \/ SkipZero(w) \/ TryNext(w)
  <2>1. UNCHANGED <<mappings, tasks, releases, raced, router, env>>
    BY <1>1 DEF Discovered, NotDiscovered, SkipZero, TryNext
  <2>2. \A k \in Key : Pending(n, k) => Pending(n, k)'
    BY <1>1, QuietKeepsPending
  <2> QED  BY <2>1, <2>2, QuietStep DEF Held, Has
<1>2. CASE AddFails(w)
  BY <1>2, FaultCounts DEF AddFails, LeakInvOf, Clean
<1>3. CASE AddPort(w)
  <2>1. /\ pc' = [pc EXCEPT ![w] = "record"] /\ pc[w] = "add"
        /\ UNCHANGED <<next, off, mappings, tasks, releases, raced, env>>
    BY <1>3 DEF AddPort, Goto
  <2>2. \A k \in Key : Pending(n, k) => Pending(n, k)'
    BY <2>1, PendingKept DEF TypeOK, WorkOK
  <2>3. ASSUME NEW k \in Key, k # KeyOf(w) PROVE Held(n, k)' => Held(n, k)
    BY <1>3, <2>3 DEF AddPort, Held, Has
  <2>4. CASE n # HostOf(w)
    <3>1. KeyOf(w) \in Key
      BY KeyIsKey DEF TypeOK
    <3>2. router'[KeyOf(w)].by = HostOf(w)
      BY <1>3, <3>1 DEF AddPort, Entry, TypeOK, RouterOK
    <3>3. \A k \in Key : Held(n, k)' => Held(n, k)
      BY <2>3, <2>4, <3>2 DEF Held, Has
    <3> QED  BY <2>1, <2>2, <3>3, QuietStep
  <2>5. CASE n = HostOf(w)
    <3>1. \A k \in Key : k = KeyOf(w) => Pending(n, k)'
      BY <2>1, <2>5 DEF Pending, KeyOf, JobOf, TypeOK, WorkOK
    <3>2. \A k \in Key : Held(n, k)' => Held(n, k) \/ Pending(n, k)'
      BY <2>3, <3>1
    <3>3. ASSUME Clean(n)'
          PROVE  /\ Clean(n)
                 /\ \A k \in Key : Recorded(n, k) => Recorded(n, k)'
                 /\ UNCHANGED <<renew, snap, mappings, releasing, freeing>>
      BY <2>1, <3>3 DEF Clean, Recorded
    <3>4. ASSUME Clean(n)', NEW k \in Key, Held(n, k)' PROVE Recorded(n, k)' \/ Pending(n, k)'
      BY <2>2, <3>2, <3>3, <3>4 DEF LeakInvOf
    <3>5. ASSUME Clean(n)', releasing'[n], NEW k \in Key, Held(n, k)'
          PROVE  Pending(n, k)' \/ \E m \in freeing'[n] : m.key = k
      BY <2>2, <3>2, <3>3, <3>5 DEF LeakInvOf
    <3> QED  BY <3>3, <3>4, <3>5 DEF LeakInvOf
  <2> QED  BY <2>4, <2>5
<1>4. CASE Record(w)
  <2>1. /\ pc[w] = "record" /\ \E r \in {"done", "failed"} : Proceed(w, r)
        /\ UNCHANGED <<tasks, releases, router, env>>
    BY <1>4 DEF Record
  <2>2. /\ pc' = [pc EXCEPT ![w] = pc'[w]]
        /\ \A v \in Worker \ {w} : next'[v] = next[v] /\ off'[v] = off[v]
    BY <2>1, ProceedTypes DEF TypeOK
  <2>3. mappings[n] \subseteq mappings'[n]
    BY <1>4 DEF Record, TypeOK, TasksOK
  <2>4. ~raced'[n] => ~raced[n]
    BY <1>4 DEF Record, TypeOK, TasksOK
  <2>5. n = HostOf(w) /\ ~raced'[n] => ~releasing[n]
    BY <1>4 DEF Record, TypeOK, TasksOK
  <2>6. \A k \in Key : n # HostOf(w) \/ k # KeyOf(w) => (Pending(n, k) => Pending(n, k)')
    BY <2>2 DEF Pending, KeyOf, JobOf, TypeOK, WorkOK
  <2>7. \A k \in Key : n = HostOf(w) /\ k = KeyOf(w) => Recorded(n, k)'
    <3> DEFINE m == [key |-> KeyOf(w), int |-> JobOf(w).port, mark |-> JobOf(w).mark]
    <3>1. mappings' = [mappings EXCEPT ![HostOf(w)] = @ \cup {m}]
      BY <1>4 DEF Record
    <3>2. n = HostOf(w) => m \in mappings'[n]
      BY <3>1 DEF TypeOK, TasksOK
    <3>3. m.key = KeyOf(w)
      OBVIOUS
    <3> QED  BY <3>2, <3>3 DEF Recorded
  <2>8. \A k \in Key : Recorded(n, k) \/ Pending(n, k) => (Recorded(n, k) \/ Pending(n, k))'
    BY <2>3, <2>6, <2>7 DEF Recorded
  <2>9. \A k \in Key : Held(n, k)' <=> Held(n, k)
    BY <2>1 DEF Held, Has
  <2> QED  BY <2>1, <2>3, <2>4, <2>5, <2>6, <2>8, <2>9 DEF LeakInvOf, Clean
<1> QED  BY <1>1, <1>2, <1>3, <1>4 DEF MapStep

\* The renewal task renews what is recorded, so it makes nothing unknown.
LEMMA LeakRenew ==
  ASSUME TypeOK, NEW n \in Node, LeakInvOf(n), NEW m \in Node, RenewStep(m)
  PROVE  LeakInvOf(n)'
<1>1. UNCHANGED <<pc, next, off, mappings, releasing, freeing>>
  BY DEF RenewStep, Wake, RenewOne, Sleep, work, releases
<1>2. \A k \in Key : Pending(n, k)' <=> Pending(n, k)
  BY <1>1 DEF Pending, KeyOf, JobOf
<1>3. CASE Wake(m)
  <2>1. UNCHANGED <<router, env>> /\ (~raced'[n] => ~raced[n])
    BY <1>3 DEF Wake, TypeOK, TasksOK
  <2>2. n = m => snap'[n] = mappings[n] /\ (~raced'[n] => ~releasing[n])
    BY <1>3 DEF Wake, TypeOK, TasksOK
  <2>3. n # m => snap'[n] = snap[n] /\ renew'[n] = renew[n]
    BY <1>3 DEF Wake, TypeOK, TasksOK
  <2>4. \A k \in Key : (Held(n, k)' <=> Held(n, k)) /\ (Recorded(n, k)' <=> Recorded(n, k))
    BY <1>1, <2>1 DEF Held, Has, Recorded
  <2> QED  BY <1>1, <1>2, <2>1, <2>2, <2>3, <2>4 DEF LeakInvOf, Clean, env
<1>4. CASE Sleep(m)
  <2>1. UNCHANGED <<router, env, snap, raced>> /\ (renew'[n] = "round" => renew[n] = "round")
    BY <1>4 DEF Sleep, TypeOK, TasksOK
  <2> QED  BY <1>1, <1>2, <2>1, QuietStep DEF Held, Has, env
<1>5. CASE RenewOne(m)
  <2>1. PICK e \in snap[m] : snap' = [snap EXCEPT ![m] = @ \ {e}] /\ Renewed(m, e)
    BY <1>5 DEF RenewOne
  <2>2. e.key \in Key /\ e \in Mapping
    BY DEF TypeOK, TasksOK, Mapping
  <2>3. UNCHANGED <<renew, raced>> /\ renew[m] = "round"
    BY <1>5 DEF RenewOne
  <2>4. CASE Fault
    BY <2>4, FaultCounts DEF LeakInvOf, Clean
  <2>5. CASE UNCHANGED <<router, env>>
    <3>1. snap'[n] \subseteq snap[n]
      BY <2>1 DEF TypeOK, TasksOK
    <3>2. \A k \in Key : (Held(n, k)' <=> Held(n, k)) /\ (Recorded(n, k)' <=> Recorded(n, k))
      BY <1>1, <2>5 DEF Held, Has, Recorded
    <3> QED  BY <1>1, <1>2, <2>3, <2>5, <3>1, <3>2 DEF LeakInvOf, Clean, env
  <2>6. CASE router' = [router EXCEPT ![e.key] = Entry(m, e.mark, TRUE)] /\ UNCHANGED env
    <3>1. snap'[n] \subseteq snap[n]
      BY <2>1 DEF TypeOK, TasksOK
    <3>2. \A k \in Key : k # e.key => (Held(n, k)' => Held(n, k))
      BY <2>6 DEF Held, Has
    <3>3. router'[e.key].by = m
      BY <2>2, <2>6 DEF Entry, TypeOK, RouterOK
    <3>4. n # m => \A k \in Key : Held(n, k)' => Held(n, k)
      BY <3>2, <3>3 DEF Held, Has
    <3>5. n = m /\ Clean(n) => Recorded(n, e.key) /\ ~releasing[n]
      BY <2>3 DEF LeakInvOf, Recorded
    <3>6. \A k \in Key : Recorded(n, k)' <=> Recorded(n, k)
      BY <1>1 DEF Recorded
    <3>7. Clean(n)' <=> Clean(n)
      BY <2>3, <2>6 DEF Clean, env
    <3>8. CASE n # m
      BY <1>1, <1>2, <2>3, <3>1, <3>4, <3>6, <3>7, <3>8 DEF LeakInvOf
    <3>9. CASE n = m
      BY <1>1, <1>2, <2>3, <3>1, <3>2, <3>5, <3>6, <3>7, <3>9 DEF LeakInvOf
    <3> QED  BY <3>8, <3>9
  <2> QED  BY <2>1, <2>4, <2>5, <2>6 DEF Renewed
<1> QED  BY <1>3, <1>4, <1>5 DEF RenewStep

\* release_all() forgets what it removed, and nothing else.
LEMMA LeakRelease ==
  ASSUME TypeOK, NEW n \in Node, LeakInvOf(n), NEW m \in Node, Release(m) \/ ReleaseStep(m)
  PROVE  LeakInvOf(n)'
<1>1. UNCHANGED <<pc, next, off, renew, snap>>
  BY DEF Release, ReleaseStep, ReleaseOne, Released, work, tasks
<1>2. \A k \in Key : Pending(n, k)' <=> Pending(n, k)
  BY <1>1 DEF Pending, KeyOf, JobOf
<1>3. CASE Release(m)
  <2>1. UNCHANGED <<mappings, router, env>> /\ (~raced'[n] => ~raced[n])
    BY <1>3 DEF Release, TypeOK, TasksOK
  <2>2. n = m => freeing'[n] = mappings[n] /\ (~raced'[n] => renew[n] # "round")
    BY <1>3 DEF Release, TypeOK, TasksOK
  <2>3. n # m => freeing'[n] = freeing[n] /\ releasing'[n] = releasing[n]
    BY <1>3 DEF Release, TypeOK, TasksOK
  <2>4. \A k \in Key : (Held(n, k)' <=> Held(n, k)) /\ (Recorded(n, k)' <=> Recorded(n, k))
    BY <2>1 DEF Held, Has, Recorded
  <2>5. Clean(n)' => Clean(n)
    BY <2>1 DEF Clean, env
  <2>6. CASE n # m
    BY <1>1, <1>2, <2>1, <2>3, <2>4, <2>5, <2>6 DEF LeakInvOf
  <2>7. CASE n = m
    <3>1. ASSUME Clean(n)' PROVE renew'[n] # "round"
      BY <1>1, <2>2, <2>7, <3>1 DEF Clean
    <3>2. ASSUME Clean(n)', NEW k \in Key, Held(n, k)' PROVE (Recorded(n, k) \/ Pending(n, k))'
      BY <1>2, <2>4, <2>5, <3>2 DEF LeakInvOf
    <3>3. \A k \in Key : Recorded(n, k)' => \E e \in freeing'[n] : e.key = k
      BY <2>1, <2>2, <2>7 DEF Recorded
    <3> QED  BY <3>1, <3>2, <3>3 DEF LeakInvOf
  <2> QED  BY <2>6, <2>7
<1>4. CASE ReleaseOne(m)
  <2>1. PICK e \in freeing[m] :
          /\ freeing' = [freeing EXCEPT ![m] = @ \ {e}]
          /\ \/ router' = [router EXCEPT ![e.key] = Free] /\ UNCHANGED env
             \/ Fault /\ UNCHANGED router
    BY <1>4 DEF ReleaseOne
  <2>2. UNCHANGED <<mappings, releasing, raced>>
    BY <1>4 DEF ReleaseOne
  <2>3. CASE Fault
    BY <2>3, FaultCounts DEF LeakInvOf, Clean
  <2>4. CASE router' = [router EXCEPT ![e.key] = Free] /\ UNCHANGED env
    <3>1. e.key \in Key
      BY DEF TypeOK, TasksOK, Mapping
    <3>2. \A k \in Key : Held(n, k)' => Held(n, k) /\ k # e.key
      BY <2>4, <3>1 DEF Held, Has, TypeOK, RouterOK
    <3>3. \A k \in Key : k # e.key =>
            ((\E f \in freeing[n] : f.key = k) => \E f \in freeing'[n] : f.key = k)
      BY <2>1 DEF TypeOK, TasksOK
    <3>4. (Clean(n)' <=> Clean(n)) /\ \A k \in Key : Recorded(n, k)' <=> Recorded(n, k)
      BY <2>2, <2>4 DEF Clean, env, Recorded
    <3>5. ASSUME Clean(n)', releasing'[n], NEW k \in Key, Held(n, k)'
          PROVE  Pending(n, k)' \/ \E f \in freeing'[n] : f.key = k
      BY <1>2, <2>2, <3>2, <3>3, <3>4, <3>5 DEF LeakInvOf
    <3> QED  BY <1>1, <1>2, <2>2, <3>2, <3>4, <3>5 DEF LeakInvOf
  <2> QED  BY <2>1, <2>3, <2>4
<1>5. CASE Released(m)
  <2>1. UNCHANGED <<router, env, raced>> /\ releasing[m] /\ freeing[m] = {}
    BY <1>5 DEF Released
  <2>2. \A k \in Key : Held(n, k)' <=> Held(n, k)
    BY <2>1 DEF Held, Has
  <2>3. Clean(n)' <=> Clean(n)
    BY <2>1 DEF Clean, env
  <2>4. CASE n # m
    <3>1. UNCHANGED <<mappings[n], releasing[n], freeing[n]>>
      BY <1>5, <2>4 DEF Released, TypeOK, TasksOK
    <3> QED  BY <1>1, <1>2, <2>2, <2>3, <3>1 DEF LeakInvOf, Recorded
  <2>5. CASE n = m
    <3>1. ~releasing'[n]
      BY <1>5, <2>5 DEF Released, TypeOK, TasksOK
    <3> QED  BY <1>1, <1>2, <2>1, <2>2, <2>3, <2>5, <3>1 DEF LeakInvOf
  <2> QED  BY <2>4, <2>5
<1> QED  BY <1>3, <1>4, <1>5 DEF ReleaseStep

\* A process that dies leaves what it had: none of it is held any more.
LEMMA LeakCrash ==
  ASSUME TypeOK, NEW n \in Node, LeakInvOf(n), NEW m \in Node, Crash(m)
  PROVE  LeakInvOf(n)'
<1>1. UNCHANGED <<raced, faults>>
  BY DEF Crash
<1>2. CASE n = m
  <2>1. ASSUME NEW k \in Key, router[k] # Free, router[k].by = n PROVE router'[k].left
    <3>1. router[k] \in EntryType
      BY <2>1 DEF TypeOK, RouterOK
    <3>2. router'[k] = [router[k] EXCEPT !.left = TRUE]
      BY <1>2, <2>1 DEF Crash
    <3> QED  BY <3>1, <3>2 DEF EntryType
  <2>2. ASSUME NEW k \in Key, ~(router[k] # Free /\ router[k].by = n) PROVE ~Has(n, k)'
    BY <1>2, <2>2 DEF Crash, Has
  <2>3. \A k \in Key : ~Held(n, k)'
    BY <2>1, <2>2 DEF Held
  <2>4. renew'[n] = "none" /\ ~releasing'[n]
    BY <1>2 DEF Crash, TypeOK, TasksOK
  <2> QED  BY <2>3, <2>4 DEF LeakInvOf
<1>3. CASE n # m
  <2>1. UNCHANGED <<mappings[n], snap[n], releasing[n], freeing[n], raced[n], renew[n]>>
    BY <1>3 DEF Crash, TypeOK, TasksOK
  <2>2. ASSUME NEW k \in Key, Held(n, k)' PROVE Held(n, k)
    <3>1. CASE router[k] # Free /\ router[k].by = m
      <4>1. router[k] \in EntryType
        BY <3>1 DEF TypeOK, RouterOK
      <4>2. router'[k] = [router[k] EXCEPT !.left = TRUE]
        BY <3>1 DEF Crash
      <4> QED  BY <2>2, <4>1, <4>2 DEF EntryType, Held
    <3>2. CASE ~(router[k] # Free /\ router[k].by = m)
      BY <2>2, <3>2 DEF Crash, Held, Has
    <3> QED  BY <3>1, <3>2
  <2>3. \A w \in Worker : HostOf(w) = n => pc'[w] = pc[w] /\ next'[w] = next[w] /\ off'[w] = off[w]
    BY <1>3 DEF Crash
  <2>4. \A k \in Key : Pending(n, k) => Pending(n, k)'
    BY <2>3 DEF Pending, KeyOf, JobOf, HostOf
  <2> QED  BY <1>1, <2>1, <2>2, <2>4, QuietStep
<1> QED  BY <1>2, <1>3

\* The steps of the router and of time, and those of init() around its jobs.
LEMMA LeakRest ==
  ASSUME TypeOK, NEW n \in Node, LeakInvOf(n),
         \/ \E w \in Worker : Begin(w)
         \/ \E m \in Node : InitStep(m)
         \/ \E k \in Key : OtherTakes(k) \/ OtherFrees(k)
         \/ Tick \/ UNCHANGED vars
  PROVE  LeakInvOf(n)'
<1> USE DEF tasks, releases, env, work
<1>1. CASE \E w \in Worker : Begin(w)
  <2>1. UNCHANGED <<mappings, tasks, releases, raced, router, env>>
    BY <1>1 DEF Begin
  <2>2. \A k \in Key : Pending(n, k) => Pending(n, k)'
    BY <1>1, QuietKeepsPending
  <2> QED  BY <2>1, <2>2, QuietStep DEF Held, Has
<1>2. CASE \E m \in Node : InitStep(m)
  <2>1. PICK m \in Node : InitStep(m)
    BY <1>2
  <2>2. UNCHANGED <<mappings, snap, releases, raced>> /\ (renew'[n] = "round" => renew[n] = "round")
    BY <2>1 DEF InitStep, Enumerate, RemoveOld, CleanedUp, StartRenewal, TypeOK, TasksOK
  <2>3. \A k \in Key : Pending(n, k) => Pending(n, k)'
    BY <2>1, InitKeepsPending
  <2>4. CASE Fault
    BY <2>4, FaultCounts DEF LeakInvOf, Clean
  <2>5. CASE ~Fault
    <3>1. /\ \/ UNCHANGED router
             \/ \E k : router' = [router EXCEPT ![k] = Free]
          /\ UNCHANGED env
      BY <2>1, <2>5 DEF InitStep, Enumerate, RemoveOld, CleanedUp, StartRenewal
    <3>2. \A k \in Key : Held(n, k)' => Held(n, k)
      BY <3>1 DEF Held, Has, TypeOK, RouterOK
    <3> QED  BY <2>2, <2>3, <3>1, <3>2, QuietStep
  <2> QED  BY <2>4, <2>5
<1>3. CASE \E k \in Key : OtherTakes(k) \/ OtherFrees(k)
  <2>1. PICK k \in Key : OtherTakes(k) \/ OtherFrees(k)
    BY <1>3
  <2>2. UNCHANGED <<mappings, tasks, releases, raced, env, work>>
    BY <2>1 DEF OtherTakes, OtherFrees
  <2>3. ASSUME NEW j \in Key, Held(n, j)' PROVE Held(n, j)
    <3>1. router'[k] = Free \/ router'[k].by = Other
      BY <2>1 DEF OtherTakes, OtherFrees, Entry, TypeOK, RouterOK
    <3>2. j # k
      BY <2>3, <3>1, NamesDiffer DEF Held, Has
    <3>3. router'[j] = router[j]
      BY <2>1, <3>2 DEF OtherTakes, OtherFrees, TypeOK, RouterOK
    <3> QED  BY <2>3, <3>3 DEF Held, Has
  <2>4. \A j \in Key : Pending(n, j) => Pending(n, j)'
    BY <2>2 DEF Pending, KeyOf, JobOf
  <2> QED  BY <2>2, <2>3, <2>4, QuietStep
<1>4. CASE Tick
  <2>1. UNCHANGED <<mappings, renew, snap, releases, raced, env, work>>
    BY <1>4 DEF Tick
  <2>2. \A j \in Key : Pending(n, j) => Pending(n, j)'
    BY <2>1 DEF Pending, KeyOf, JobOf
  <2> QED  BY <1>4, <2>1, <2>2, TickHeld, QuietStep
<1>5. CASE UNCHANGED vars
  <2>1. UNCHANGED <<mappings, tasks, releases, raced, router, env, work>>
    BY <1>5 DEF vars
  <2>2. \A j \in Key : Pending(n, j) => Pending(n, j)'
    BY <2>1 DEF Pending, KeyOf, JobOf
  <2> QED  BY <2>1, <2>2, QuietStep DEF Held, Has
<1> QED  BY <1>1, <1>2, <1>3, <1>4, <1>5

\* No host has a mapping on the router that it neither has recorded nor is about to
\* record, unless a release met a renewal or a new mapping, or the router failed to
\* remove one (nat/mod.rs:664-696, 873-902, 918-938).
THEOREM NeverLeaks == Spec => []NoLeak
<1>1. Init => LeakInv
  BY DEF Init, LeakInv, LeakInvOf, Held, Has
<1>2. TypeOK /\ LeakInv /\ [Next]_vars => LeakInv'
  BY LeakMap, LeakRenew, LeakRelease, LeakCrash, LeakRest DEF LeakInv, Next
<1>3. LeakInv => NoLeak
  BY DEF LeakInv, LeakInvOf, NoLeak, Held, Clean
<1> QED  BY <1>1, <1>2, <1>3, TypeCorrect, PTL DEF Spec

-----------------------------------------------------------------------------
(* Renewals come in time *)

Kept(n, k) == Has(n, k) /\ router[k].kept /\ ~router[k].left
Mapping_(w) == [key |-> KeyOf(w), int |-> JobOf(w).port, mark |-> JobOf(w).mark]

\* How old what is recorded can be: nothing between it is made and it is recorded or
\* the task starts; then as long as the task sleeps and a round may be late; in a
\* round, either that is still ahead of it, or it was renewed in this round.
KeptInvOf(n) ==
  faults = 0 =>
    /\ \A k \in Key : Pending(n, k) /\ Has(n, k) => router[k].age = 0
    /\ renew[n] = "round" => slept[n] >= Interval
    /\ renew[n] = "none" => \A k \in Key :
         Kept(n, k) => router[k].age = 0 /\ pc[n] \in {"add", "record", "start"}
    /\ renew[n] = "sleep" => \A k \in Key :
         Kept(n, k) /\ Recorded(n, k) => router[k].age <= Slack + slept[n]
    /\ renew[n] = "round" => \A k \in Key :
         Kept(n, k) /\ Recorded(n, k) =>
           \/ router[k].age + Interval <= slept[n]
           \/ router[k].age <= Slack + slept[n] /\ \E m \in snap[n] : m.key = k

KeptInv == \A n \in Node : KeptInvOf(n)

\* A step that gives the host nothing new on the router and leaves its task alone keeps
\* the invariant.
LEMMA KeptQuiet ==
  ASSUME NEW n \in Node, KeptInvOf(n), faults' = 0 => faults = 0,
         \A k \in Key : Has(n, k)' => Has(n, k) /\ router'[k] = router[k],
         \A k \in Key : Pending(n, k)' => Pending(n, k),
         mappings'[n] \subseteq mappings[n],
         UNCHANGED <<renew[n], slept[n], snap[n]>>,
         pc[n] \in {"add", "record", "start"} => pc'[n] \in {"add", "record", "start"}
  PROVE  KeptInvOf(n)'
<1>1. \A k \in Key : Kept(n, k)' => Kept(n, k) /\ router'[k] = router[k]
  BY DEF Kept
<1>2. \A k \in Key : Recorded(n, k)' => Recorded(n, k)
  BY DEF Recorded
<1> QED  BY <1>1, <1>2 DEF KeptInvOf

\* A worker that moves to anything but recording makes nothing pending.
LEMMA NothingPends ==
  ASSUME WorkOK, NEW w \in Worker, NEW n \in Node, NEW k \in Key,
         pc' = [pc EXCEPT ![w] = pc'[w]], pc'[w] # "record",
         \A v \in Worker \ {w} : next'[v] = next[v] /\ off'[v] = off[v]
  PROVE  Pending(n, k)' => Pending(n, k)
  BY DEF Pending, KeyOf, JobOf, WorkOK

\* The steps of map_port() and init() keep it: what they make is new.
LEMMA KeptMap ==
  ASSUME TypeOK, TaskInv, LeaseNat, NEW n \in Node, KeptInvOf(n), NEW w \in Worker,
         Begin(w) \/ MapStep(w)
  PROVE  KeptInvOf(n)'
<1> USE DEF tasks, releases, env
<1>1. CASE Begin(w) \/ Discovered(w) \/ NotDiscovered(w)
  <2>1. /\ \E l \in {"add", "discover", "enumerate", "failed"} : pc' = [pc EXCEPT ![w] = l]
        /\ pc[w] \in {"idle", "discover"}
        /\ UNCHANGED <<next, off, mappings, tasks, router, env>>
    BY <1>1 DEF Begin, Discovered, NotDiscovered, Goto
  <2>2. pc' = [pc EXCEPT ![w] = pc'[w]] /\ pc'[w] # "record"
    BY <2>1 DEF TypeOK, WorkOK
  <2>3. \A k \in Key : Pending(n, k)' => Pending(n, k)
    BY <2>1, <2>2, NothingPends DEF TypeOK
  <2>4. pc[n] \in {"add", "record", "start"} => pc'[n] \in {"add", "record", "start"}
    BY <2>1 DEF TypeOK, WorkOK
  <2> QED  BY <2>1, <2>3, <2>4, KeptQuiet DEF Has
<1>2. CASE SkipZero(w) \/ TryNext(w)
  <2>1. /\ pc[w] = "add" /\ NextOffset(w)
        /\ UNCHANGED <<mappings, tasks, router, env>>
    BY <1>2 DEF SkipZero, TryNext
  <2>2. /\ pc' = [pc EXCEPT ![w] = pc'[w]] /\ pc'[w] \in {"add", "start", "done", "failed"}
        /\ pc'[w] \in {"done", "failed"} => w \in Call
        /\ \A v \in Worker \ {w} : next'[v] = next[v] /\ off'[v] = off[v]
    BY <2>1, NextOffsetTypes DEF TypeOK
  <2>3. \A k \in Key : Pending(n, k)' => Pending(n, k)
    BY <2>2, NothingPends DEF TypeOK
  <2>4. pc[n] \in {"add", "record", "start"} => pc'[n] \in {"add", "record", "start"}
    BY <2>2, NamesDiffer DEF TypeOK, WorkOK, Worker
  <2> QED  BY <2>1, <2>3, <2>4, KeptQuiet DEF Has
<1>3. CASE AddFails(w)
  BY <1>3, FaultCounts DEF AddFails, KeptInvOf
<1>4. CASE AddPort(w)
  <2>1. /\ pc' = [pc EXCEPT ![w] = "record"] /\ pc[w] = "add"
        /\ UNCHANGED <<next, off, mappings, tasks, env>>
        /\ router' = [router EXCEPT ![KeyOf(w)] =
             Entry(HostOf(w), JobOf(w).mark, w \in Node \/ renew[HostOf(w)] # "none")]
    BY <1>4 DEF AddPort, Goto
  <2>2. KeyOf(w) \in Key
    BY KeyIsKey DEF TypeOK
  <2>3. router'[KeyOf(w)] = Entry(HostOf(w), JobOf(w).mark, w \in Node \/ renew[HostOf(w)] # "none")
    BY <2>1, <2>2 DEF TypeOK, RouterOK
  <2>4. \A k \in Key : k # KeyOf(w) => router'[k] = router[k]
    BY <2>1 DEF TypeOK, RouterOK
  <2>5. \A k \in Key : k # KeyOf(w) \/ n # HostOf(w) => (Pending(n, k)' => Pending(n, k))
    BY <2>1 DEF Pending, KeyOf, JobOf, TypeOK, WorkOK
  <2>6. pc[n] \in {"add", "record", "start"} => pc'[n] \in {"add", "record", "start"}
    BY <2>1 DEF TypeOK, WorkOK
  <2>7. CASE n # HostOf(w)
    <3>1. \A k \in Key : Has(n, k)' => Has(n, k) /\ router'[k] = router[k]
      BY <2>3, <2>4, <2>7 DEF Has, Entry
    <3> QED  BY <2>1, <2>5, <2>6, <2>7, <3>1, KeptQuiet
  <2>8. CASE n = HostOf(w)
    <3>1. router'[KeyOf(w)].age = 0
      BY <2>3 DEF Entry
    <3>2. router'[KeyOf(w)].kept /\ renew[n] = "none" => pc'[n] = "record"
      <4>1. router'[KeyOf(w)].kept /\ renew[n] = "none" => w \in Node
        <5> DEFINE K == w \in Node \/ renew[HostOf(w)] # "none"
        <5>1. K /\ renew[n] = "none" => w \in Node
          BY <2>8
        <5>2. router'[KeyOf(w)] = Entry(HostOf(w), JobOf(w).mark, K)
          BY <2>3
        <5> HIDE DEF K
        <5>3. router'[KeyOf(w)].kept = K
          BY <5>2 DEF Entry
        <5> QED  BY <5>1, <5>3, Zenon
      <4>2. w \in Node => w = n
        BY <2>8, NamesDiffer DEF HostOf
      <4> QED  BY <2>1, <4>1, <4>2 DEF TypeOK, WorkOK
    <3>3. ASSUME NEW k \in Key, k # KeyOf(w)
          PROVE  (Has(n, k)' <=> Has(n, k)) /\ (Kept(n, k)' <=> Kept(n, k)) /\ router'[k] = router[k]
      BY <2>4, <3>3 DEF Has, Kept
    <3>4. \A k \in Key : Recorded(n, k)' <=> Recorded(n, k)
      BY <2>1 DEF Recorded
    <3>5. \A k \in Key : Kept(n, k)' => router'[k].kept
      BY DEF Kept
    <3>6. slept[n] \in Nat
      BY IntervalNat DEF TypeOK, TasksOK
    <3>7. SUFFICES ASSUME faults = 0 PROVE KeptInvOf(n)'
      BY <2>1 DEF KeptInvOf
    <3>8. \A k \in Key : Pending(n, k)' /\ Has(n, k)' => router'[k].age = 0
      BY <2>5, <3>1, <3>3, <3>7 DEF KeptInvOf
    <3>9. renew[n] = "none" => \A k \in Key :
            Kept(n, k)' => router'[k].age = 0 /\ pc'[n] \in {"add", "record", "start"}
      BY <2>6, <3>1, <3>2, <3>3, <3>5, <3>7 DEF KeptInvOf
    <3>10. renew[n] = "sleep" => \A k \in Key :
             Kept(n, k)' /\ Recorded(n, k)' => router'[k].age <= Slack + slept[n]
      BY <3>1, <3>3, <3>4, <3>6, <3>7, LeaseNat DEF KeptInvOf
    <3>11. renew[n] = "round" => \A k \in Key :
             Kept(n, k)' /\ Recorded(n, k)' =>
               \/ router'[k].age + Interval <= slept[n]
               \/ router'[k].age <= Slack + slept[n] /\ \E m \in snap[n] : m.key = k
      BY <3>1, <3>3, <3>4, <3>6, <3>7, IntervalNat DEF KeptInvOf
    <3> QED  BY <2>1, <3>7, <3>8, <3>9, <3>10, <3>11 DEF KeptInvOf
  <2> QED  BY <2>7, <2>8
<1>5. CASE Record(w)
  <2>1. /\ pc[w] = "record" /\ \E r \in {"done", "failed"} : Proceed(w, r)
        /\ UNCHANGED <<tasks, router, env>>
        /\ mappings' = [mappings EXCEPT ![HostOf(w)] = @ \cup {Mapping_(w)}]
    BY <1>5 DEF Record, Mapping_
  <2>2. /\ pc' = [pc EXCEPT ![w] = pc'[w]] /\ pc'[w] \in {"add", "start", "done", "failed"}
        /\ pc'[w] \in {"done", "failed"} => w \in Call
        /\ \A v \in Worker \ {w} : next'[v] = next[v] /\ off'[v] = off[v]
    BY <2>1, ProceedTypes DEF TypeOK
  <2>3. \A k \in Key : Pending(n, k)' => Pending(n, k)
    BY <2>2, NothingPends DEF TypeOK
  <2>4. pc[n] \in {"add", "record", "start"} => pc'[n] \in {"add", "record", "start"}
    BY <2>2, NamesDiffer DEF TypeOK, WorkOK, Worker
  <2>5. ASSUME NEW k \in Key, Recorded(n, k)' PROVE Recorded(n, k) \/ Pending(n, k)
    <3>1. PICK m \in mappings'[n] : m.key = k
      BY <2>5 DEF Recorded
    <3>2. m \in mappings[n] \/ (n = HostOf(w) /\ m = Mapping_(w))
      BY <2>1 DEF TypeOK, TasksOK
    <3>3. m = Mapping_(w) => m.key = KeyOf(w)
      BY DEF Mapping_
    <3> QED  BY <2>1, <3>1, <3>2, <3>3 DEF Recorded, Pending
  <2>6. \A k \in Key : Kept(n, k) => Has(n, k) /\ (Kept(n, k)' <=> Kept(n, k))
    BY <2>1 DEF Kept, Has
  <2>7. \A k \in Key : (Kept(n, k)' => Kept(n, k)) /\ (Has(n, k)' => Has(n, k))
    BY <2>1 DEF Kept, Has
  <2>8. slept[n] \in Nat
    BY IntervalNat DEF TypeOK, TasksOK
  <2> QED  BY <2>1, <2>3, <2>4, <2>5, <2>6, <2>7, <2>8, IntervalNat DEF KeptInvOf
<1> QED  BY <1>1, <1>2, <1>3, <1>4, <1>5 DEF MapStep

\* The task wakes in time, renews what it finds and starts over.
LEMMA KeptRenew ==
  ASSUME TypeOK, NEW n \in Node, KeptInvOf(n), NEW m \in Node, RenewStep(m)
  PROVE  KeptInvOf(n)'
<1>1. UNCHANGED <<pc, next, off, mappings>>
  BY DEF RenewStep, Wake, RenewOne, Sleep, work
<1>2. \A k \in Key : (Pending(n, k)' <=> Pending(n, k)) /\ (Recorded(n, k)' <=> Recorded(n, k))
  BY <1>1 DEF Pending, Recorded, KeyOf, JobOf
<1>3. slept[n] \in 0..(Interval + Slack) /\ Interval \in Nat /\ Slack \in Nat
  BY IntervalNat, LeaseNat DEF TypeOK, TasksOK
<1>4. \A k \in Key : Has(n, k) => router[k].age \in Nat
  BY DEF Has, TypeOK, RouterOK, EntryType
<1>5. CASE n # m /\ (Wake(m) \/ Sleep(m))
  <2>1. UNCHANGED <<router, env>> /\ UNCHANGED <<renew[n], slept[n], snap[n]>>
    BY <1>5 DEF Wake, Sleep, TypeOK, TasksOK
  <2> QED  BY <1>1, <1>2, <2>1, KeptQuiet DEF Has, env
<1>6. CASE n = m /\ Wake(m)
  <2>1. /\ renew[n] = "sleep" /\ renew'[n] = "round" /\ slept[n] >= Interval
        /\ snap'[n] = mappings[n] /\ UNCHANGED <<slept, router, env>>
    BY <1>6 DEF Wake, TypeOK, TasksOK
  <2>2. \A k \in Key : (Kept(n, k)' <=> Kept(n, k)) /\ (Has(n, k)' <=> Has(n, k))
    BY <2>1 DEF Kept, Has
  <2>3. \A k \in Key : Recorded(n, k) => \E e \in snap'[n] : e.key = k
    BY <2>1 DEF Recorded
  <2> QED  BY <1>2, <2>1, <2>2, <2>3 DEF KeptInvOf, env
<1>7. CASE n = m /\ Sleep(m)
  <2>1. /\ renew[n] = "round" /\ renew'[n] = "sleep" /\ snap[n] = {}
        /\ slept'[n] = 0 /\ UNCHANGED <<router, env>>
    BY <1>7 DEF Sleep, TypeOK, TasksOK
  <2>2. \A k \in Key : (Kept(n, k)' <=> Kept(n, k)) /\ (Has(n, k)' <=> Has(n, k))
    BY <2>1 DEF Kept, Has
  <2>3. ASSUME faults = 0, NEW k \in Key, Kept(n, k), Recorded(n, k) PROVE router[k].age <= Slack
    <3>1. router[k].age + Interval <= slept[n]
      BY <2>1, <2>3 DEF KeptInvOf
    <3> QED  BY <1>3, <1>4, <2>3, <3>1 DEF Kept
  <2> QED  BY <1>2, <1>3, <2>1, <2>2, <2>3 DEF KeptInvOf, env
<1>8. CASE RenewOne(m)
  <2>1. PICK e \in snap[m] : snap' = [snap EXCEPT ![m] = @ \ {e}] /\ Renewed(m, e)
    BY <1>8 DEF RenewOne
  <2>2. e.key \in Key /\ UNCHANGED <<renew, slept>> /\ renew[m] = "round"
    BY <1>8 DEF RenewOne, TypeOK, TasksOK, Mapping
  <2>3. CASE Fault
    BY <2>3, FaultCounts DEF KeptInvOf
  <2>4. CASE ~Fault
    <3>1. /\ UNCHANGED env
          /\ \A k \in Key : k # e.key => router'[k] = router[k]
          /\ \/ router'[e.key] = Entry(m, e.mark, TRUE)
             \/ InUse(m, e.key) /\ router'[e.key] = router[e.key]
      BY <2>1, <2>2, <2>4 DEF Renewed, TypeOK, RouterOK
    <3>2. CASE n # m
      <4>1. \A k \in Key : Has(n, k)' => Has(n, k) /\ router'[k] = router[k]
        BY <2>2, <3>1, <3>2 DEF Has, Entry
      <4>2. snap'[n] = snap[n]
        BY <2>1, <3>2 DEF TypeOK, TasksOK
      <4> QED  BY <1>1, <1>2, <2>2, <3>1, <4>1, <4>2, KeptQuiet DEF env
    <3>3. CASE n = m
      <4>1. Has(n, e.key)' => router'[e.key].age = 0
        BY <2>2, <3>1, <3>3 DEF Has, Entry, InUse
      <4>2. \A k \in Key : k # e.key => /\ Has(n, k)' <=> Has(n, k)
                                        /\ Kept(n, k)' <=> Kept(n, k)
                                        /\ router'[k] = router[k]
        BY <3>1 DEF Has, Kept
      <4>3. \A k \in Key : k # e.key /\ (\E f \in snap[n] : f.key = k) => \E f \in snap'[n] : f.key = k
        BY <2>1, <3>3 DEF TypeOK, TasksOK
      <4>4. \A k \in Key : Kept(n, k)' => Has(n, k)'
        BY DEF Kept
      <4>5. SUFFICES ASSUME faults = 0 PROVE KeptInvOf(n)'
        BY <3>1 DEF KeptInvOf, env
      <4>6. \A k \in Key : Pending(n, k)' /\ Has(n, k)' => router'[k].age = 0
        <5>1. ASSUME NEW k \in Key, k # e.key, Pending(n, k)', Has(n, k)' PROVE router'[k].age = 0
          BY <1>2, <4>2, <4>5, <5>1 DEF KeptInvOf
        <5> QED  BY <4>1, <5>1
      <4>7. slept[n] >= Interval
        BY <2>2, <3>3, <4>5 DEF KeptInvOf
      <4>8. ASSUME NEW k \in Key, Kept(n, k)', Recorded(n, k)'
            PROVE  \/ router'[k].age + Interval <= slept[n]
                   \/ router'[k].age <= Slack + slept[n] /\ \E f \in snap'[n] : f.key = k
        <5>1. CASE k # e.key
          BY <1>2, <2>2, <3>3, <4>2, <4>3, <4>5, <4>8, <5>1 DEF KeptInvOf
        <5>2. CASE k = e.key
          <6>1. router'[k].age = 0
            BY <4>1, <4>4, <4>8, <5>2
          <6> QED  BY <1>3, <4>7, <6>1
        <5> QED  BY <5>1, <5>2
      <4> QED  BY <2>2, <3>3, <4>6, <4>7, <4>8 DEF KeptInvOf
    <3> QED  BY <3>2, <3>3
  <2> QED  BY <2>3, <2>4
<1> QED  BY <1>5, <1>6, <1>7, <1>8 DEF RenewStep

\* init() around its jobs: it only removes mappings, and it starts the task when all
\* it made is new.
LEMMA KeptInit ==
  ASSUME TypeOK, TaskInv, NEW n \in Node, KeptInvOf(n), NEW m \in Node, InitStep(m)
  PROVE  KeptInvOf(n)'
<1> m \in Worker /\ n \in Worker
  BY DEF Worker
<1>1. CASE Enumerate(m) \/ CleanedUp(m)
  <2>1. /\ \E l \in {"cleanup", "add"} : pc' = [pc EXCEPT ![m] = l]
        /\ pc[m] \in {"enumerate", "cleanup"}
        /\ UNCHANGED <<next, off, mappings, renew, slept, snap, router, env>>
    BY <1>1 DEF Enumerate, CleanedUp, Goto, tasks
  <2>2. pc' = [pc EXCEPT ![m] = pc'[m]] /\ pc'[m] # "record"
    BY <2>1 DEF TypeOK, WorkOK
  <2>3. \A k \in Key : Pending(n, k)' => Pending(n, k)
    BY <2>1, <2>2, NothingPends DEF TypeOK
  <2>4. pc[n] \in {"add", "record", "start"} => pc'[n] \in {"add", "record", "start"}
    BY <2>1 DEF TypeOK, WorkOK
  <2> QED  BY <2>1, <2>3, <2>4, KeptQuiet DEF Has, env
<1>2. CASE RemoveOld(m)
  <2>1. UNCHANGED <<pc, next, off, mappings, renew, slept, snap>>
    BY <1>2 DEF RemoveOld, tasks
  <2>2. CASE Fault
    BY <2>2, FaultCounts DEF KeptInvOf
  <2>3. CASE ~Fault
    <3>1. (\E k : router' = [router EXCEPT ![k] = Free]) /\ UNCHANGED env
      BY <1>2, <2>3 DEF RemoveOld
    <3>2. \A k \in Key : Has(n, k)' => Has(n, k) /\ router'[k] = router[k]
      BY <3>1 DEF Has, TypeOK, RouterOK
    <3>3. \A k \in Key : Pending(n, k)' => Pending(n, k)
      BY <2>1 DEF Pending, KeyOf, JobOf
    <3> QED  BY <2>1, <3>1, <3>2, <3>3, KeptQuiet DEF env
  <2> QED  BY <2>2, <2>3
<1>3. CASE StartRenewal(m)
  <2>1. /\ pc[m] = "start" /\ pc' = [pc EXCEPT ![m] = "done"]
        /\ renew' = [renew EXCEPT ![m] = "sleep"] /\ slept' = [slept EXCEPT ![m] = 0]
        /\ UNCHANGED <<next, off, mappings, snap, router, env>>
    BY <1>3 DEF StartRenewal, Goto
  <2>2. pc' = [pc EXCEPT ![m] = pc'[m]] /\ pc'[m] # "record"
    BY <2>1 DEF TypeOK, WorkOK
  <2>3. \A k \in Key : Pending(n, k)' => Pending(n, k)
    BY <2>1, <2>2, NothingPends DEF TypeOK
  <2>4. CASE n # m
    <3>1. UNCHANGED <<pc[n], renew[n], slept[n], snap[n]>>
      BY <2>1, <2>4 DEF TypeOK, WorkOK, TasksOK
    <3> QED  BY <2>1, <2>3, <3>1, KeptQuiet DEF Has, env
  <2>5. CASE n = m
    <3>1. renew[n] = "none" /\ renew'[n] = "sleep" /\ slept'[n] = 0
      BY <2>1, <2>5 DEF TypeOK, WorkOK, TasksOK, TaskInv
    <3>2. \A k \in Key : (Kept(n, k)' <=> Kept(n, k)) /\ (Has(n, k)' <=> Has(n, k))
      BY <2>1 DEF Kept, Has
    <3> QED  BY <2>1, <2>3, <3>1, <3>2, LeaseNat DEF KeptInvOf, env
  <2> QED  BY <2>4, <2>5
<1> QED  BY <1>1, <1>2, <1>3 DEF InitStep

\* A tick finds no mapping that is only being made, and makes all ages and sleeps one
\* longer.
LEMMA KeptTick ==
  ASSUME TypeOK, TaskInv, NEW n \in Node, KeptInvOf(n), Tick
  PROVE  KeptInvOf(n)'
<1>1. UNCHANGED <<pc, next, off, mappings, renew, snap, env>>
  BY DEF Tick, work
<1>2. n \in Worker /\ n \notin Call
  BY NamesDiffer DEF Worker
<1>3. pc[n] \notin {"add", "record", "start"}
  BY <1>2 DEF Tick
<1>4. \A k \in Key : ~Pending(n, k)'
  <2>1. \A w \in Worker : pc[w] # "record"
    BY DEF Tick
  <2> QED  BY <1>1, <2>1 DEF Pending
<1>5. slept'[n] = IF renew[n] = "none" THEN 0 ELSE slept[n] + 1
  BY DEF Tick
<1>6. ASSUME NEW k \in Key, Kept(n, k)' PROVE Kept(n, k) /\ router'[k].age = router[k].age + 1
  <2>1. router[k] # Free /\ router[k].by # Other
    BY <1>6, NamesDiffer DEF Tick, Kept, Has
  <2>2. router[k] \in EntryType
    BY <2>1 DEF TypeOK, RouterOK
  <2>3. router'[k] = [router[k] EXCEPT !.age = @ + 1]
    BY <1>6, <2>1 DEF Tick, Kept, Has
  <2>4. /\ router'[k].age = router[k].age + 1 /\ router'[k].by = router[k].by
        /\ router'[k].kept = router[k].kept /\ router'[k].left = router[k].left
    BY <2>2, <2>3 DEF EntryType
  <2> QED  BY <1>6, <2>1, <2>4 DEF Kept, Has
<1>7. \A k \in Key : Recorded(n, k)' <=> Recorded(n, k)
  BY <1>1 DEF Recorded
<1>8. slept[n] \in Nat /\ Interval \in Nat /\ Slack \in Nat
  BY IntervalNat, LeaseNat DEF TypeOK, TasksOK
<1>9. \A k \in Key : Kept(n, k) => router[k].age \in Nat
  BY DEF Kept, Has, TypeOK, RouterOK, EntryType
<1> SUFFICES ASSUME faults = 0 PROVE KeptInvOf(n)'
  BY <1>1 DEF KeptInvOf, env
<1>10. renew[n] = "none" => \A k \in Key : ~Kept(n, k)'
  BY <1>3, <1>6 DEF KeptInvOf
<1>11. ASSUME renew[n] = "sleep", NEW k \in Key, Kept(n, k)', Recorded(n, k)'
       PROVE  router'[k].age <= Slack + slept'[n]
  BY <1>5, <1>6, <1>7, <1>8, <1>9, <1>11 DEF KeptInvOf
<1>12. ASSUME renew[n] = "round", NEW k \in Key, Kept(n, k)', Recorded(n, k)'
       PROVE  \/ router'[k].age + Interval <= slept'[n]
              \/ router'[k].age <= Slack + slept'[n] /\ \E m \in snap'[n] : m.key = k
  BY <1>1, <1>5, <1>6, <1>7, <1>8, <1>9, <1>12 DEF KeptInvOf
<1>13. renew[n] = "round" => slept'[n] >= Interval
  BY <1>5, <1>8 DEF KeptInvOf
<1> QED  BY <1>1, <1>4, <1>10, <1>11, <1>12, <1>13 DEF KeptInvOf

\* The other steps give a host nothing, and leave its task alone.
LEMMA KeptRest ==
  ASSUME TypeOK, NEW n \in Node, KeptInvOf(n),
         \/ \E m \in Node : Release(m) \/ ReleaseStep(m)
         \/ \E k \in Key : OtherTakes(k) \/ OtherFrees(k)
         \/ UNCHANGED vars
  PROVE  KeptInvOf(n)'
<1>1. UNCHANGED <<pc, next, off, renew, slept, snap>> /\ mappings'[n] \subseteq mappings[n]
  BY DEF Release, ReleaseStep, ReleaseOne, Released, OtherTakes, OtherFrees, vars, work, tasks, TypeOK, TasksOK
<1>2. \A k \in Key : Pending(n, k)' => Pending(n, k)
  BY <1>1 DEF Pending, KeyOf, JobOf
<1>3. CASE Fault
  BY <1>3, FaultCounts DEF KeptInvOf
<1>4. CASE ~Fault
  <2>1. /\ UNCHANGED env
        /\ \/ UNCHANGED router
           \/ \E k : router' = [router EXCEPT ![k] = Free]
           \/ \E k \in Key : router' = [router EXCEPT ![k] = Entry(Other, FALSE, FALSE)]
    BY <1>4 DEF Release, ReleaseStep, ReleaseOne, Released, OtherTakes, OtherFrees, vars
  <2>2. Entry(Other, FALSE, FALSE).by # n
    BY NamesDiffer DEF Entry
  <2>3. \A k \in Key : Has(n, k)' => Has(n, k) /\ router'[k] = router[k]
    BY <2>1, <2>2 DEF Has, TypeOK, RouterOK
  <2> QED  BY <1>1, <1>2, <2>1, <2>3, KeptQuiet DEF env
<1> QED  BY <1>3, <1>4

\* A process that dies leaves nothing that anybody keeps.
LEMMA KeptCrash ==
  ASSUME TypeOK, NEW n \in Node, KeptInvOf(n), NEW m \in Node, Crash(m)
  PROVE  KeptInvOf(n)'
<1>1. faults' = faults
  BY DEF Crash
<1>2. CASE n = m
  <2>1. renew'[n] = "none" /\ \A w \in Worker : HostOf(w) = n => pc'[w] = "idle"
    BY <1>2 DEF Crash, TypeOK, TasksOK
  <2>2. \A k \in Key : ~Pending(n, k)'
    BY <2>1 DEF Pending, HostOf
  <2>3. ASSUME NEW k \in Key PROVE ~Kept(n, k)'
    <3>1. CASE router[k] # Free /\ router[k].by = n
      <4>1. router[k] \in EntryType
        BY <3>1 DEF TypeOK, RouterOK
      <4>2. router'[k] = [router[k] EXCEPT !.left = TRUE]
        BY <1>2, <3>1 DEF Crash
      <4> QED  BY <4>1, <4>2 DEF EntryType, Kept
    <3>2. CASE ~(router[k] # Free /\ router[k].by = n)
      BY <1>2, <3>2 DEF Crash, Kept, Has
    <3> QED  BY <3>1, <3>2
  <2> QED  BY <2>1, <2>2, <2>3 DEF KeptInvOf
<1>3. CASE n # m
  <2>1. UNCHANGED <<mappings[n], snap[n], slept[n], renew[n]>>
    BY <1>3 DEF Crash, TypeOK, TasksOK
  <2>2. ASSUME NEW k \in Key, Has(n, k)' PROVE Has(n, k) /\ router'[k] = router[k]
    <3>1. CASE router[k] # Free /\ router[k].by = m
      <4>1. router[k] \in EntryType
        BY <3>1 DEF TypeOK, RouterOK
      <4>2. router'[k] = [router[k] EXCEPT !.left = TRUE]
        BY <3>1 DEF Crash
      <4> QED  BY <1>3, <2>2, <3>1, <4>1, <4>2 DEF EntryType, Has
    <3>2. CASE ~(router[k] # Free /\ router[k].by = m)
      BY <2>2, <3>2 DEF Crash, Has
    <3> QED  BY <3>1, <3>2
  <2>3. \A w \in Worker : HostOf(w) = n => pc'[w] = pc[w] /\ next'[w] = next[w] /\ off'[w] = off[w]
    BY <1>3 DEF Crash
  <2>4. \A k \in Key : Pending(n, k)' => Pending(n, k)
    BY <2>3 DEF Pending, KeyOf, JobOf, HostOf
  <2>5. pc'[n] = pc[n]
    BY <2>3, NamesDiffer DEF HostOf, Worker
  <2> QED  BY <1>1, <2>1, <2>2, <2>4, <2>5, KeptQuiet
<1> QED  BY <1>2, <1>3

\* If two late rounds and the interval between them fit into the lease, what init()
\* mapped, or map_port() after it, never runs out while it is recorded and the router
\* answers (nat/mod.rs:859-911).  With a lease of 3600 s the interval is 1800 s; with
\* one of 30 s or less it is the lease, and the assumption fails.
THEOREM KeptStays ==
  ASSUME Interval + 2 * Slack < Lease
  PROVE  Spec => KeptNeverLapses
<1>1. Init => KeptInv
  BY DEF Init, KeptInv, KeptInvOf, Has, Kept, Pending
<1>2. TypeOK /\ TaskInv /\ KeptInv /\ [Next]_vars => KeptInv'
  BY KeptMap, KeptRenew, KeptInit, KeptTick, KeptRest, KeptCrash, LeaseNat DEF KeptInv, Next
<1>3. TypeOK /\ TaskInv /\ KeptInv /\ Tick =>
        \A n \in Node, k \in Key : Recorded(n, k) /\ Kept(n, k) /\ faults = 0 => router'[k] # Free
  <2> SUFFICES ASSUME TypeOK, TaskInv, KeptInv, Tick, NEW n \in Node, NEW k \in Key,
                      Recorded(n, k), Kept(n, k), faults = 0
               PROVE  router'[k] # Free
    OBVIOUS
  <2>1. router[k] # Free /\ router[k].by # Other /\ router[k] \in EntryType
    BY NamesDiffer DEF Kept, Has, TypeOK, RouterOK
  <2>2. slept[n] \in Nat /\ Interval \in Nat /\ Slack \in Nat /\ router[k].age \in Nat
    BY <2>1, IntervalNat, LeaseNat DEF TypeOK, TasksOK, EntryType
  <2>3. pc[n] \notin {"add", "record", "start"}
    BY NamesDiffer DEF Tick, Worker
  <2>4. renew[n] \in {"sleep", "round"}
    BY <2>3 DEF KeptInv, KeptInvOf, TypeOK, TasksOK
  <2>5. slept[n] < Interval + Slack
    BY <2>4 DEF Tick
  <2>6. router[k].age <= Slack + slept[n]
    BY <2>2, <2>4 DEF KeptInv, KeptInvOf
  <2>7. router[k].age + 1 # Lease
    BY <2>2, <2>5, <2>6, LeaseNat
  <2>8. router'[k] = [router[k] EXCEPT !.age = @ + 1]
    BY <2>1, <2>7 DEF Tick
  <2>9. router[k].age + 1 \in 0..(Lease - 1)
    BY <2>1, <2>2, <2>7, LeaseNat DEF EntryType
  <2>10. router'[k] \in EntryType
    BY <2>1, <2>8, <2>9 DEF EntryType
  <2> QED  BY <2>10, FreeIsNoEntry
<1>4. TypeOK /\ TaskInv /\ KeptInv /\ [Next]_vars =>
        [Tick => \A n \in Node, k \in Key :
           Recorded(n, k) /\ Has(n, k) /\ router[k].kept /\ ~router[k].left /\ faults = 0
             => router'[k] # Free]_vars
  BY <1>3 DEF Kept
<1> QED  BY <1>1, <1>2, <1>4, TypesAndTask, PTL DEF Spec, KeptNeverLapses

-----------------------------------------------------------------------------
(* What a process left behind is cleaned up *)

Left(n, k) == Has(n, k) /\ router[k].left /\ router[k].mark

\* Until the cleanup is over it has what was left behind on its list.
LeftInvOf(n) ==
  faults = 0 => \A k \in Key : Left(n, k) =>
    \/ pc[n] \in {"idle", "discover", "enumerate", "failed"}
    \/ pc[n] = "cleanup" /\ k \in old[n]

LeftInv == \A n \in Node : LeftInvOf(n)

\* Only a crash leaves anything behind.
LEMMA LeftOnlyByCrash ==
  ASSUME TypeOK, [Next]_vars, NEW n \in Node, ~Crash(n), NEW k \in Key, Left(n, k)'
  PROVE  Left(n, k)
<1>1. CASE UNCHANGED router
  BY <1>1 DEF Left, Has
<1>2. ASSUME NEW m \in Node \cup {Other}, NEW mark \in BOOLEAN, NEW kept \in BOOLEAN, NEW j \in Key,
             router' = [router EXCEPT ![j] = Entry(m, mark, kept)]
      PROVE  Left(n, k)
  <2>1. k # j
    BY <1>2 DEF Left, Entry, TypeOK, RouterOK
  <2>2. router'[k] = router[k]
    BY <1>2, <2>1 DEF TypeOK, RouterOK
  <2> QED  BY <2>2 DEF Left, Has
<1>3. ASSUME NEW j, router' = [router EXCEPT ![j] = Free] PROVE Left(n, k)
  BY <1>3 DEF Left, Has, TypeOK, RouterOK
<1>4. ASSUME NEW w \in Worker, AddPort(w) PROVE Left(n, k)
  <2> DEFINE K == w \in Node \/ renew[HostOf(w)] # "none"
  <2>1. router' = [router EXCEPT ![KeyOf(w)] = Entry(HostOf(w), JobOf(w).mark, K)]
    BY <1>4 DEF AddPort
  <2>2. K \in BOOLEAN
    OBVIOUS
  <2> HIDE DEF K
  <2>3. HostOf(w) \in Node \cup {Other} /\ JobOf(w).mark \in BOOLEAN /\ KeyOf(w) \in Key
    BY HostIsNode, KeyIsKey DEF TypeOK
  <2> QED  BY <1>2, <2>1, <2>2, <2>3
<1>5. ASSUME NEW m \in Node, RenewOne(m) PROVE Left(n, k)
  <2>1. PICK e \in snap[m] : Renewed(m, e)
    BY <1>5 DEF RenewOne
  <2>2. e.key \in Key /\ e.mark \in BOOLEAN
    BY <1>5 DEF TypeOK, TasksOK, Mapping, RenewOne
  <2>3. UNCHANGED router \/ router' = [router EXCEPT ![e.key] = Entry(m, e.mark, TRUE)]
    BY <2>1 DEF Renewed
  <2> QED  BY <1>1, <1>2, <2>2, <2>3
<1>6. ASSUME NEW j \in Key, OtherTakes(j) \/ OtherFrees(j) PROVE Left(n, k)
  <2>1. \/ router' = [router EXCEPT ![j] = Entry(Other, FALSE, FALSE)]
        \/ router' = [router EXCEPT ![j] = Free]
    BY <1>6 DEF OtherTakes, OtherFrees
  <2> QED  BY <1>2, <1>3, <2>1
<1>7. ASSUME NEW m \in Node, RemoveOld(m) \/ ReleaseOne(m) PROVE Left(n, k)
  <2>1. UNCHANGED router \/ \E j : router' = [router EXCEPT ![j] = Free]
    BY <1>7 DEF RemoveOld, ReleaseOne
  <2> QED  BY <1>1, <1>3, <2>1
<1>8. CASE Tick
  <2>1. CASE router[k] = Free \/ router[k].by = Other
    BY <1>8, <2>1 DEF Tick, Left, Has
  <2>2. CASE ~(router[k] = Free \/ router[k].by = Other)
    <3>1. router[k] \in EntryType
      BY <2>2 DEF TypeOK, RouterOK
    <3>2. router'[k] = Free \/ router'[k] = [router[k] EXCEPT !.age = @ + 1]
      BY <1>8, <2>2 DEF Tick
    <3> QED  BY <2>2, <3>1, <3>2 DEF Left, Has, EntryType
  <2> QED  BY <2>1, <2>2
<1>9. ASSUME NEW m \in Node, m # n, Crash(m) PROVE Left(n, k)
  <2>1. CASE router[k] # Free /\ router[k].by = m
    <3>1. router[k] \in EntryType
      BY <2>1 DEF TypeOK, RouterOK
    <3>2. router'[k] = [router[k] EXCEPT !.left = TRUE]
      BY <1>9, <2>1 DEF Crash
    <3> QED  BY <1>9, <2>1, <3>1, <3>2 DEF EntryType, Left, Has
  <2>2. CASE ~(router[k] # Free /\ router[k].by = m)
    BY <1>9, <2>2 DEF Crash, Left, Has
  <2> QED  BY <2>1, <2>2
<1>10. \/ \E w \in Worker : \/ Begin(w) \/ Discovered(w) \/ NotDiscovered(w) \/ SkipZero(w)
                            \/ TryNext(w) \/ AddFails(w) \/ Record(w)
       \/ \E m \in Node : \/ Enumerate(m) \/ CleanedUp(m) \/ StartRenewal(m) \/ Wake(m) \/ Sleep(m)
                          \/ Release(m) \/ Released(m)
       \/ UNCHANGED vars
       => UNCHANGED router
  BY DEF Begin, Discovered, NotDiscovered, SkipZero, TryNext, AddFails, Record, Enumerate, CleanedUp,
     StartRenewal, Wake, Sleep, Release, Released, vars
<1> QED
  BY <1>1, <1>4, <1>5, <1>6, <1>7, <1>8, <1>9, <1>10
  DEF Next, MapStep, InitStep, RenewStep, ReleaseStep

\* init() leaves the states before the cleanup for no other, and shortens its list only
\* by what it removed.
LEMMA LeftStep ==
  ASSUME TypeOK, [Next]_vars, NEW n \in Node, LeftInvOf(n)
  PROVE  LeftInvOf(n)'
<1> n \in Worker /\ n \notin Call
  BY NamesDiffer DEF Worker
<1> DEFINE Early == {"idle", "discover", "enumerate", "failed"}
<1>1. CASE Crash(n)
  BY <1>1 DEF Crash, HostOf, LeftInvOf
<1>2. CASE Fault
  BY <1>2, FaultCounts DEF LeftInvOf
<1>3. CASE ~Crash(n) /\ ~Fault
  <2>1. \A k \in Key : Left(n, k)' => Left(n, k)
    BY <1>3, LeftOnlyByCrash
  <2>2. SUFFICES ASSUME faults = 0, NEW k \in Key, Left(n, k), Left(n, k)'
                 PROVE  pc'[n] \in Early \/ (pc'[n] = "cleanup" /\ k \in old'[n])
    <3>1. faults' = 0 => faults = 0
      BY <1>3, BoundsNat DEF Next, MapStep, InitStep, RenewStep, ReleaseStep, Begin, Discovered,
         NotDiscovered, SkipZero, TryNext, AddPort, AddFails, Record, Enumerate, RemoveOld, CleanedUp,
         StartRenewal, Wake, RenewOne, Renewed, Sleep, Release, ReleaseOne, Released, Crash, OtherTakes,
         OtherFrees, Tick, vars, env
    <3> QED  BY <2>1, <3>1 DEF LeftInvOf
  <2>3. pc[n] \in Early \/ (pc[n] = "cleanup" /\ k \in old[n])
    BY <2>2 DEF LeftInvOf
  <2>4. CASE UNCHANGED <<pc, old>>
    BY <2>3, <2>4
  <2>5. ASSUME NEW w \in Worker, Begin(w) \/ MapStep(w)
        PROVE  pc'[n] \in Early \/ (pc'[n] = "cleanup" /\ k \in old'[n])
    <3>1. old' = old
      BY <2>5 DEF MapStep, Begin, Discovered, NotDiscovered, SkipZero, TryNext, AddPort, AddFails, Record
    <3>2. CASE w = n
      <4>1. pc[n] \in {"idle", "discover", "add", "record"}
        BY <2>5, <3>2 DEF MapStep, Begin, Discovered, NotDiscovered, SkipZero, TryNext, AddPort, AddFails,
           Record
      <4>2. Begin(n) \/ Discovered(n) \/ NotDiscovered(n)
        BY <2>3, <2>5, <3>2, <4>1 DEF MapStep, SkipZero, TryNext, AddPort, AddFails, Record
      <4> QED  BY <4>2 DEF Begin, Discovered, NotDiscovered, Goto, TypeOK, WorkOK
    <3>3. CASE w # n
      <4>1. pc'[n] = pc[n]
        <5>1. CASE Begin(w) \/ Discovered(w) \/ NotDiscovered(w) \/ AddPort(w)
          BY <3>3, <5>1 DEF Begin, Discovered, NotDiscovered, AddPort, Goto, TypeOK, WorkOK
        <5>2. CASE SkipZero(w) \/ TryNext(w)
          BY <3>3, <5>2, NextOffsetTypes DEF SkipZero, TryNext, TypeOK, WorkOK
        <5>3. CASE AddFails(w) \/ Record(w)
          BY <3>3, <5>3, ProceedTypes DEF AddFails, Record, TypeOK, WorkOK
        <5> QED  BY <2>5, <5>1, <5>2, <5>3 DEF MapStep
      <4> QED  BY <2>3, <3>1, <4>1
    <3> QED  BY <3>2, <3>3
  <2>6. ASSUME NEW m \in Node, InitStep(m)
        PROVE  pc'[n] \in Early \/ (pc'[n] = "cleanup" /\ k \in old'[n])
    <3>1. CASE m # n
      <4>1. pc'[n] = pc[n] /\ old'[n] = old[n]
        BY <2>6, <3>1 DEF InitStep, Enumerate, RemoveOld, CleanedUp, StartRenewal, Goto, TypeOK, WorkOK
      <4> QED  BY <2>3, <4>1
    <3>2. CASE m = n /\ Enumerate(n)
      BY <2>2, <3>2 DEF Enumerate, Goto, Left, Has, TypeOK, WorkOK
    <3>3. CASE m = n /\ RemoveOld(n)
      <4>1. PICK j \in old[n] : old' = [old EXCEPT ![n] = @ \ {j}] /\ router' = [router EXCEPT ![j] = Free]
        BY <1>3, <3>3 DEF RemoveOld
      <4>2. k # j
        BY <2>2, <4>1 DEF Left, Has, TypeOK, RouterOK
      <4>3. pc' = pc
        BY <3>3 DEF RemoveOld
      <4> QED  BY <2>3, <3>3, <4>1, <4>2, <4>3 DEF RemoveOld, TypeOK, WorkOK
    <3>4. CASE m = n /\ (CleanedUp(n) \/ StartRenewal(n))
      BY <2>3, <3>4 DEF CleanedUp, StartRenewal
    <3> QED  BY <2>6, <3>1, <3>2, <3>3, <3>4 DEF InitStep
  <2>7. ASSUME NEW m \in Node, m # n, Crash(m)
        PROVE  pc'[n] \in Early \/ (pc'[n] = "cleanup" /\ k \in old'[n])
    BY <2>3, <2>7 DEF Crash, HostOf, TypeOK, WorkOK
  <2>8. \/ \E m \in Node : RenewStep(m) \/ Release(m) \/ ReleaseStep(m)
        \/ \E j \in Key : OtherTakes(j) \/ OtherFrees(j)
        \/ Tick \/ UNCHANGED vars
        => UNCHANGED <<pc, old>>
    BY DEF RenewStep, Wake, RenewOne, Sleep, Release, ReleaseStep, ReleaseOne, Released, OtherTakes,
       OtherFrees, Tick, vars, work
  <2> QED  BY <1>3, <2>4, <2>5, <2>6, <2>7, <2>8 DEF Next
<1> QED  BY <1>1, <1>2, <1>3

\* While the router answers, init() maps nothing before what an earlier process of its
\* host left under its name is gone (nat/mod.rs:816-850).
THEOREM OldIsRemoved == Spec => []OldIsGone
<1>1. Init => LeftInv
  BY DEF Init, LeftInv, LeftInvOf, Left, Has
<1>2. TypeOK /\ LeftInv /\ [Next]_vars => LeftInv'
  BY LeftStep DEF LeftInv
<1>3. LeftInv => OldIsGone
  BY DEF LeftInv, LeftInvOf, Left, OldIsGone
<1> QED  BY <1>1, <1>2, <1>3, TypeCorrect, PTL DEF Spec
=============================================================================
