----------------------------- MODULE NatManager -----------------------------
(***************************************************************************)
(* NatManager (nat/mod.rs): port mappings on a router that several hosts   *)
(* share.  init() removes what a previous run left behind, maps a list of  *)
(* ports and starts the renewal task; map_port() maps one port;            *)
(* release_all() removes what was recorded.  Every call of the router is   *)
(* awaited, so all of them interleave.                                     *)
(*                                                                         *)
(* Time passes in ticks, a fraction of the lease.  A tick is long compared *)
(* with init() and with a call of the router.                              *)
(***************************************************************************)
EXTENDS Naturals, Sequences

CONSTANTS
  Node,        \* hosts that run a NatManager
  Other,       \* all other hosts
  Call,        \* calls of map_port()
  Host,        \* the host of each
  Proto, MaxPort,
  Job,         \* what each call, and each host's init(), maps, in this order
  MaxRetries,  \* PORT_MAP_MAX_RETRIES
  Lease, Floor,\* lease_duration, and the least lease that renewal is timed for
  Slack,       \* how late a round of renewals may be, and how long it may take
  Free,        \* the router has no mapping for a port
  MaxCrashes, MaxFaults        \* bounds on what the environment does

Worker == Call \cup Node       \* init() of a host is named by the host
HostOf(w) == IF w \in Call THEN Host[w] ELSE w
Port == 0..MaxPort
Key == [proto : Proto, port : Port]
Mapping == [key : Key, int : Port, mark : BOOLEAN]
EntryType == [by : Node \cup {Other}, mark : BOOLEAN, age : 0..(Lease - 1),
              kept : BOOLEAN, left : BOOLEAN]

ASSUME NamesDiffer == Call \cap Node = {} /\ Other \notin Node
ASSUME FreeIsNoEntry == Free \notin EntryType
ASSUME HostType == Host \in [Call -> Node]
ASSUME PortNat == MaxPort \in Nat
ASSUME JobType ==
  /\ Job \in [Worker -> Seq([proto : Proto, port : Port, mark : BOOLEAN])]
  /\ \A w \in Worker : Job[w] # <<>>
  /\ \A c \in Call : Len(Job[c]) = 1 /\ Job[c][1].port # 0
ASSUME RetriesNat == MaxRetries \in Nat \ {0}
ASSUME LeaseNat == Lease \in Nat \ {0} /\ Floor \in Nat /\ Slack \in Nat
ASSUME BoundsNat == MaxCrashes \in Nat /\ MaxFaults \in Nat

VARIABLES
  gateway,     \* whether each host knows its gateway
  pc,          \* where each map_port() and init() stands
  next, off,   \* the job it is at, and the offset it tries
  old,         \* the ports that init() found left behind
  mappings,    \* NatManager::mappings
  renew, slept,\* the renewal task: "none", "sleep" or "round", and for how long
  snap,        \* the mappings that are left in its round
  releasing, freeing,          \* release_all(), and the mappings it has left
  raced,       \* history: a release met a round of renewals, or a new mapping
  router,      \* the mappings on the router
  crashes, faults

tasks == <<renew, slept, snap>>
releases == <<releasing, freeing>>
work == <<pc, next, off, old>>
env == <<crashes, faults>>
vars == <<gateway, work, mappings, tasks, releases, raced, router, env>>

JobOf(w) == Job[w][next[w]]

\* wrapping_add on the type of a port.
Ext(port, offset) == (port + offset) % (MaxPort + 1)

KeyOf(w) == [proto |-> JobOf(w).proto, port |-> Ext(JobOf(w).port, off[w])]

\* Mutant of Interval: the lease is not halved.
IntervalWhole == IF Lease < Floor THEN Floor ELSE Lease

\* Half the lease, but a lease counts as one of 60 seconds at least.
Interval == (IF Lease < Floor THEN Floor ELSE Lease) \div 2

Init ==
  /\ gateway = [n \in Node |-> FALSE]
  /\ pc = [w \in Worker |-> "idle"]
  /\ next = [w \in Worker |-> 1]
  /\ off = [w \in Worker |-> 0]
  /\ old = [n \in Node |-> {}]
  /\ mappings = [n \in Node |-> {}]
  /\ renew = [n \in Node |-> "none"]
  /\ slept = [n \in Node |-> 0]
  /\ snap = [n \in Node |-> {}]
  /\ releasing = [n \in Node |-> FALSE]
  /\ freeing = [n \in Node |-> {}]
  /\ raced = [n \in Node |-> FALSE]
  /\ router = [k \in Key |-> Free]
  /\ crashes = 0
  /\ faults = 0

Goto(w, label) == pc' = [pc EXCEPT ![w] = label]

Fault == faults < MaxFaults /\ faults' = faults + 1 /\ UNCHANGED crashes

-----------------------------------------------------------------------------
(* The router *)

\* A mapping carries its owner and description (mark: it has "PNOS" in it).  It
\* is kept if a renewal task will renew it, and left if its owner has died.
Entry(n, mark, kept) == [by |-> n, mark |-> mark, age |-> 0, kept |-> kept, left |-> FALSE]

\* A port is in use unless it is free or has a mapping to the same host.
InUse(n, k) == router[k] # Free /\ router[k].by # n

OtherTakes(k) ==
  /\ router[k] = Free
  /\ router' = [router EXCEPT ![k] = Entry(Other, FALSE, FALSE)]
  /\ UNCHANGED <<gateway, work, mappings, tasks, releases, raced, env>>

OtherFrees(k) ==
  /\ router[k] # Free /\ router[k].by = Other
  /\ router' = [router EXCEPT ![k] = Free]
  /\ UNCHANGED <<gateway, work, mappings, tasks, releases, raced, env>>

\* Mappings of the hosts run out; the others' are of no concern here.  Nothing is
\* in the middle of init() or of recording a mapping, and renewals are in time.
Tick ==
  /\ \A w \in Worker : pc[w] \in {"idle", "discover", "done", "failed"} \cup
                                 (IF w \in Call THEN {"add"} ELSE {})
  /\ \A n \in Node : renew[n] # "none" => slept[n] < Interval + Slack
  /\ slept' = [n \in Node |-> IF renew[n] = "none" THEN 0 ELSE slept[n] + 1]
  /\ router' = [k \in Key |->
       IF router[k] = Free \/ router[k].by = Other THEN router[k]
       ELSE IF router[k].age + 1 = Lease THEN Free
       ELSE [router[k] EXCEPT !.age = @ + 1]]
  /\ UNCHANGED <<gateway, work, mappings, renew, snap, releases, raced, env>>

-----------------------------------------------------------------------------
(* init() and map_port() *)

\* map_port() looks for the gateway only if none is known; init() always does.
Begin(w) ==
  /\ pc[w] = "idle"
  /\ Goto(w, IF w \in Call /\ gateway[HostOf(w)] THEN "add" ELSE "discover")
  /\ UNCHANGED <<gateway, next, off, old, mappings, tasks, releases, raced, router, env>>

Discovered(w) ==
  /\ pc[w] = "discover"
  /\ gateway' = [gateway EXCEPT ![HostOf(w)] = TRUE]
  /\ Goto(w, IF w \in Call THEN "add" ELSE "enumerate")
  /\ UNCHANGED <<next, off, old, mappings, tasks, releases, raced, router, env>>

NotDiscovered(w) ==
  /\ pc[w] = "discover"
  /\ Goto(w, "failed")
  /\ UNCHANGED <<gateway, next, off, old, mappings, tasks, releases, raced, router, env>>

\* Mutant of Enumerate: it looks for what this process has recorded.
EnumerateRecorded(n) ==
  /\ pc[n] = "enumerate"
  /\ old' = [old EXCEPT ![n] = {m.key : m \in mappings[n]}]
  /\ Goto(n, "cleanup")
  /\ UNCHANGED <<gateway, next, off, mappings, tasks, releases, raced, router, env>>

\* cleanup_old_mappings lists the mappings whose description has "PNOS" in it,
\* whoever owns them ...
Enumerate(n) ==
  /\ pc[n] = "enumerate"
  /\ old' = [old EXCEPT ![n] = {k \in Key : router[k] # Free /\ router[k].mark}]
  /\ Goto(n, "cleanup")
  /\ UNCHANGED <<gateway, next, off, mappings, tasks, releases, raced, router, env>>

\* ... and removes them, without looking at them again.
RemoveOld(n) ==
  /\ pc[n] = "cleanup"
  /\ \E k \in old[n] :
       /\ old' = [old EXCEPT ![n] = @ \ {k}]
       /\ \/ router' = [router EXCEPT ![k] = Free] /\ UNCHANGED env
          \/ Fault /\ UNCHANGED router
  /\ UNCHANGED <<gateway, pc, next, off, mappings, tasks, releases, raced>>

CleanedUp(n) ==
  /\ pc[n] = "cleanup"
  /\ old[n] = {}
  /\ Goto(n, "add")
  /\ UNCHANGED <<gateway, next, off, old, mappings, tasks, releases, raced, router, env>>

\* The next job of init(), whether or not this one succeeded; map_port() returns.
Proceed(w, result) ==
  /\ IF next[w] < Len(Job[w])
     THEN Goto(w, "add") /\ next' = [next EXCEPT ![w] = @ + 1]
     ELSE Goto(w, IF w \in Call THEN result ELSE "start") /\ UNCHANGED next
  /\ off' = [off EXCEPT ![w] = 0]

\* Mutant of NextOffset: one try too many.
NextOffsetInclusive(w) ==
  IF off[w] + 1 <= MaxRetries
  THEN off' = [off EXCEPT ![w] = @ + 1] /\ UNCHANGED <<pc, next>>
  ELSE Proceed(w, "failed")

\* map_port_with_retry tries another offset, or gives up.
NextOffset(w) ==
  IF off[w] + 1 < MaxRetries
  THEN off' = [off EXCEPT ![w] = @ + 1] /\ UNCHANGED <<pc, next>>
  ELSE Proceed(w, "failed")

\* Port 0 is skipped.
SkipZero(w) ==
  /\ pc[w] = "add"
  /\ KeyOf(w).port = 0
  /\ NextOffset(w)
  /\ UNCHANGED <<gateway, old, mappings, tasks, releases, raced, router, env>>

\* Mutant of TryNext: the same port is tried again.
TrySame(w) ==
  /\ pc[w] = "add"
  /\ KeyOf(w).port # 0
  /\ InUse(HostOf(w), KeyOf(w))
  /\ UNCHANGED vars

TryNext(w) ==
  /\ pc[w] = "add"
  /\ KeyOf(w).port # 0
  /\ InUse(HostOf(w), KeyOf(w))
  /\ NextOffset(w)
  /\ UNCHANGED <<gateway, old, mappings, tasks, releases, raced, router, env>>

AddPort(w) ==
  /\ pc[w] = "add"
  /\ KeyOf(w).port # 0
  /\ ~InUse(HostOf(w), KeyOf(w))
  /\ router' = [router EXCEPT ![KeyOf(w)] =
       Entry(HostOf(w), JobOf(w).mark, w \in Node \/ renew[HostOf(w)] # "none")]
  /\ Goto(w, "record")
  /\ UNCHANGED <<gateway, next, off, old, mappings, tasks, releases, raced, env>>

\* Any other error ends the retries.
AddFails(w) ==
  /\ pc[w] = "add"
  /\ KeyOf(w).port # 0
  /\ Fault
  /\ Proceed(w, "failed")
  /\ UNCHANGED <<gateway, old, mappings, tasks, releases, raced, router>>

Record(w) ==
  LET n == HostOf(w) IN
  /\ pc[w] = "record"
  /\ mappings' = [mappings EXCEPT ![n] = @ \cup
       {[key |-> KeyOf(w), int |-> JobOf(w).port, mark |-> JobOf(w).mark]}]
  /\ raced' = [raced EXCEPT ![n] = @ \/ releasing[n]]
  /\ Proceed(w, "done")
  /\ UNCHANGED <<gateway, old, tasks, releases, router, env>>

\* The end of init(): the renewal task is spawned even if every job failed.
StartRenewal(n) ==
  /\ pc[n] = "start"
  /\ Goto(n, "done")
  /\ renew' = [renew EXCEPT ![n] = "sleep"]
  /\ slept' = [slept EXCEPT ![n] = 0]
  /\ UNCHANGED <<gateway, next, off, old, mappings, snap, releases, raced, router, env>>

-----------------------------------------------------------------------------
(* The renewal task *)

Wake(n) ==
  /\ renew[n] = "sleep"
  /\ slept[n] >= Interval
  /\ renew' = [renew EXCEPT ![n] = "round"]
  /\ snap' = [snap EXCEPT ![n] = mappings[n]]
  /\ raced' = [raced EXCEPT ![n] = @ \/ releasing[n]]
  /\ UNCHANGED <<gateway, work, mappings, slept, releases, router, env>>

\* add_port once more; if the router refuses, that is logged.
Renewed(n, m) ==
  \/ /\ ~InUse(n, m.key)
     /\ router' = [router EXCEPT ![m.key] = Entry(n, m.mark, TRUE)]
     /\ UNCHANGED env
  \/ InUse(n, m.key) /\ UNCHANGED <<router, env>>
  \/ Fault /\ UNCHANGED router

\* Mutant of RenewOne: an error ends the task.
RenewOrEnd(n) ==
  /\ renew[n] = "round"
  /\ \E m \in snap[n] :
       /\ snap' = [snap EXCEPT ![n] = @ \ {m}]
       /\ Renewed(n, m)
       /\ renew' = IF router'[m.key] = Free THEN [renew EXCEPT ![n] = "none"] ELSE renew
  /\ UNCHANGED <<gateway, work, mappings, slept, releases, raced>>

RenewOne(n) ==
  /\ renew[n] = "round"
  /\ \E m \in snap[n] :
       /\ snap' = [snap EXCEPT ![n] = @ \ {m}]
       /\ Renewed(n, m)
  /\ UNCHANGED <<gateway, work, mappings, renew, slept, releases, raced>>

Sleep(n) ==
  /\ renew[n] = "round"
  /\ snap[n] = {}
  /\ renew' = [renew EXCEPT ![n] = "sleep"]
  /\ slept' = [slept EXCEPT ![n] = 0]
  /\ UNCHANGED <<gateway, work, mappings, snap, releases, raced, router, env>>

-----------------------------------------------------------------------------
(* release_all() *)

Release(n) ==
  /\ ~releasing[n]
  /\ gateway[n]
  /\ releasing' = [releasing EXCEPT ![n] = TRUE]
  /\ freeing' = [freeing EXCEPT ![n] = mappings[n]]
  /\ raced' = [raced EXCEPT ![n] = @ \/ renew[n] = "round"]
  /\ UNCHANGED <<gateway, work, mappings, tasks, router, env>>

\* Mutant of ReleaseOne: the internal port is removed.
ReleaseInternal(n) ==
  /\ releasing[n]
  /\ \E m \in freeing[n] :
       /\ freeing' = [freeing EXCEPT ![n] = @ \ {m}]
       /\ \/ router' = [router EXCEPT ![[m.key EXCEPT !.port = m.int]] = Free] /\ UNCHANGED env
          \/ Fault /\ UNCHANGED router
  /\ UNCHANGED <<gateway, work, mappings, tasks, releasing, raced>>

\* The router removes the mapping of a port, whoever owns it; errors are ignored.
ReleaseOne(n) ==
  /\ releasing[n]
  /\ \E m \in freeing[n] :
       /\ freeing' = [freeing EXCEPT ![n] = @ \ {m}]
       /\ \/ router' = [router EXCEPT ![m.key] = Free] /\ UNCHANGED env
          \/ Fault /\ UNCHANGED router
  /\ UNCHANGED <<gateway, work, mappings, tasks, releasing, raced>>

\* Everything that is recorded by now is forgotten.
Released(n) ==
  /\ releasing[n]
  /\ freeing[n] = {}
  /\ releasing' = [releasing EXCEPT ![n] = FALSE]
  /\ mappings' = [mappings EXCEPT ![n] = {}]
  /\ UNCHANGED <<gateway, work, tasks, freeing, raced, router, env>>

-----------------------------------------------------------------------------
\* The process dies and the host starts it again; the router keeps its mappings.
Crash(n) ==
  /\ crashes < MaxCrashes
  /\ crashes' = crashes + 1
  /\ gateway' = [gateway EXCEPT ![n] = FALSE]
  /\ pc' = [w \in Worker |-> IF HostOf(w) = n THEN "idle" ELSE pc[w]]
  /\ next' = [w \in Worker |-> IF HostOf(w) = n THEN 1 ELSE next[w]]
  /\ off' = [w \in Worker |-> IF HostOf(w) = n THEN 0 ELSE off[w]]
  /\ old' = [old EXCEPT ![n] = {}]
  /\ mappings' = [mappings EXCEPT ![n] = {}]
  /\ renew' = [renew EXCEPT ![n] = "none"]
  /\ slept' = [slept EXCEPT ![n] = 0]
  /\ snap' = [snap EXCEPT ![n] = {}]
  /\ releasing' = [releasing EXCEPT ![n] = FALSE]
  /\ freeing' = [freeing EXCEPT ![n] = {}]
  /\ router' = [k \in Key |->
       IF router[k] # Free /\ router[k].by = n THEN [router[k] EXCEPT !.left = TRUE] ELSE router[k]]
  /\ UNCHANGED <<raced, faults>>

-----------------------------------------------------------------------------
InitStep(n)    == Enumerate(n) \/ RemoveOld(n) \/ CleanedUp(n) \/ StartRenewal(n)
MapStep(w)     == \/ Discovered(w) \/ NotDiscovered(w) \/ SkipZero(w) \/ TryNext(w)
                  \/ AddPort(w) \/ AddFails(w) \/ Record(w)
RenewStep(n)   == Wake(n) \/ RenewOne(n) \/ Sleep(n)
ReleaseStep(n) == ReleaseOne(n) \/ Released(n)

Next ==
  \/ \E w \in Worker : Begin(w) \/ MapStep(w)
  \/ \E n \in Node : InitStep(n) \/ RenewStep(n) \/ Release(n) \/ ReleaseStep(n) \/ Crash(n)
  \/ \E k \in Key : OtherTakes(k) \/ OtherFrees(k)
  \/ Tick

Spec == Init /\ [][Next]_vars

\* The router answers or its client times out, the tasks run, and time passes.
Fairness ==
  /\ \A w \in Worker : WF_vars(MapStep(w))
  /\ \A n \in Node : WF_vars(InitStep(n)) /\ WF_vars(RenewStep(n)) /\ WF_vars(ReleaseStep(n))
  /\ WF_vars(Tick)

FairSpec == Spec /\ Fairness
-----------------------------------------------------------------------------
(* Properties *)

WorkOK ==
  /\ gateway \in [Node -> BOOLEAN]
  /\ pc \in [Worker -> {"idle", "discover", "enumerate", "cleanup", "add", "record",
                        "start", "done", "failed"}]
  /\ next \in [Worker -> Nat] /\ \A w \in Worker : next[w] \in 1..Len(Job[w])
  /\ off \in [Worker -> 0..(MaxRetries - 1)]
  /\ old \in [Node -> SUBSET Key]

TasksOK ==
  /\ mappings \in [Node -> SUBSET Mapping]
  /\ renew \in [Node -> {"none", "sleep", "round"}]
  /\ slept \in [Node -> 0..(Interval + Slack)]
  /\ snap \in [Node -> SUBSET Mapping] /\ freeing \in [Node -> SUBSET Mapping]
  /\ releasing \in [Node -> BOOLEAN] /\ raced \in [Node -> BOOLEAN]
  /\ \A n \in Node : (snap[n] # {} => renew[n] = "round") /\ (freeing[n] # {} => releasing[n])

RouterOK ==
  /\ router \in [Key -> EntryType \cup {Free}]
  /\ crashes \in 0..MaxCrashes /\ faults \in 0..MaxFaults

\* Every variable stays in its type, a round has mappings left only while it
\* lasts, and so has a release.
TypeOK == WorkOK /\ TasksOK /\ RouterOK

Has(n, k) == router[k] # Free /\ router[k].by = n
Recorded(n, k) == \E m \in mappings[n] : m.key = k
Pending(n, k) == \E w \in Worker : HostOf(w) = n /\ pc[w] = "record" /\ KeyOf(w) = k

\* What a live process has on the router it knows of, to renew or to release it:
\* it is recorded, or about to be.  This ends when a release meets a round of
\* renewals or a mapping being made, or the router fails to remove one.
NoLeak ==
  \A n \in Node, k \in Key :
    Has(n, k) /\ ~router[k].left /\ ~raced[n] /\ faults = 0 =>
      \/ Recorded(n, k)
      \/ Pending(n, k)

\* What a process that died had mapped under its own name is gone from the router
\* before the next one maps anything in init().
OldIsGone ==
  \A n \in Node, k \in Key :
    pc[n] \in {"add", "record", "start", "done"} /\ faults = 0 =>
      ~(Has(n, k) /\ router[k].left /\ router[k].mark)

\* Mappings that init() made, or map_port() after it, do not run out while they
\* are recorded and the router answers.
KeptNeverLapses ==
  [][Tick => \A n \in Node, k \in Key :
       Recorded(n, k) /\ Has(n, k) /\ router[k].kept /\ ~router[k].left /\ faults = 0
         => router'[k] # Free]_vars

\* A recorded mapping that the router has lost comes back, unless another host
\* has taken the port.
RenewalRestores ==
  \A n \in Node, k \in Key :
    Recorded(n, k) /\ renew[n] # "none" ~> ~Recorded(n, k) \/ router[k] # Free

\* init() and map_port() return.
CallsReturn ==
  \A w \in Worker : pc[w] \notin {"idle", "done", "failed"} ~> pc[w] \in {"idle", "done", "failed"}

\* "Periodic renewal" (mod.rs:9): what is recorded stays on the router, as long as
\* that does its work and nobody releases it.
MappingsLast ==
  \A n \in Node, k \in Key :
    Recorded(n, k) /\ faults = 0 /\ ~releasing[n] /\ ~raced[n] => Has(n, k)
=============================================================================
