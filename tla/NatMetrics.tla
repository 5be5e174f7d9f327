----------------------------- MODULE NatMetrics -----------------------------
(***************************************************************************)
(* The NAT metrics (pnos-net: nat/metrics.rs) and the registry of          *)
(* providers (nat/provider.rs).  record_mapping() holds the lock of the    *)
(* protocol counters while it updates the latency window and the recent    *)
(* operations; a summary reads the three one after the other.  The two     *)
(* reachability counters have a lock each.                                 *)
(***************************************************************************)
EXTENDS Naturals, Sequences, SequencesExt, FiniteSets

CONSTANTS
  Recorder,        \* calls of record_mapping(), as [ok |-> BOOLEAN, ms |-> Nat]
  Checker,         \* calls of record_reachability(), the outcome of each
  Summary,         \* calls of summary()
  MaxSamples,      \* LatencyStats::max_samples (1000)
  MaxOperations,   \* what recent_operations holds (100)
  Provider         \* calls of register(), as [name, priority]

ASSUME SamplesNat == MaxSamples \in Nat \ {0} /\ MaxOperations \in Nat \ {0}
ASSUME LatenciesNat == \A r \in DOMAIN Recorder : Recorder[r].ms \in Nat
ASSUME PrioritiesNat == \A p \in Provider : p.priority \in Nat

VARIABLES
  recording,       \* each recorder: "idle", "latency", "recent" or "done"
  okCount, badCount,  \* ProtocolStats::mapping_success and mapping_failure
  countLock,       \* the recorder that holds the lock of the counters
  samples, sampleSum,  \* LatencyStats
  recent,          \* recent_operations
  checking,        \* each checker: "idle", "counted" or "done"
  checks, reached, \* reachability_checks, reachability_success
  summing,         \* each summary: [at, samples, checks, reached, ok, bad]
  providers        \* ProviderRegistry::providers

mxvars == <<recording, okCount, badCount, countLock, samples, sampleSum, recent,
            checking, checks, reached, summing, providers>>

NoSummary == [at |-> "idle", samples |-> <<>>, checks |-> 0, reached |-> 0, ok |-> 0, bad |-> 0]

MXInit ==
  /\ recording = [r \in DOMAIN Recorder |-> "idle"]
  /\ okCount = 0 /\ badCount = 0 /\ countLock = {}
  /\ samples = <<>> /\ sampleSum = 0 /\ recent = <<>>
  /\ checking = [c \in DOMAIN Checker |-> "idle"] /\ checks = 0 /\ reached = 0
  /\ summing = [s \in Summary |-> NoSummary] /\ providers = <<>>

-----------------------------------------------------------------------------
(* record_mapping() *)

CountMapping(r) ==
  /\ recording[r] = "idle" /\ countLock = {}
  /\ countLock' = {r} /\ recording' = [recording EXCEPT ![r] = "latency"]
  /\ IF Recorder[r].ok THEN okCount' = okCount + 1 /\ UNCHANGED badCount
                       ELSE badCount' = badCount + 1 /\ UNCHANGED okCount
  /\ UNCHANGED <<samples, sampleSum, recent, checking, checks, reached, summing, providers>>

\* LatencyStats::record(): the oldest sample makes room and leaves the sum.
RecordLatency(r) ==
  LET full == Len(samples) >= MaxSamples
      kept == IF full THEN Tail(samples) ELSE samples
  IN /\ recording[r] = "latency" /\ recording' = [recording EXCEPT ![r] = "recent"]
     /\ samples' = Append(kept, Recorder[r].ms)
     /\ sampleSum' = (IF full THEN sampleSum - Head(samples) ELSE sampleSum) + Recorder[r].ms
     /\ UNCHANGED <<okCount, badCount, countLock, recent, checking, checks, reached,
                    summing, providers>>

RecordRecent(r) ==
  /\ recording[r] = "recent" /\ recording' = [recording EXCEPT ![r] = "done"]
  /\ countLock' = {}
  /\ LET all == Append(recent, r) IN
       recent' = IF Len(all) > MaxOperations THEN Tail(all) ELSE all
  /\ UNCHANGED <<okCount, badCount, samples, sampleSum, checking, checks, reached,
                 summing, providers>>

-----------------------------------------------------------------------------
(* record_reachability() *)

CountCheck(c) ==
  /\ checking[c] = "idle" /\ checks' = checks + 1
  /\ checking' = [checking EXCEPT ![c] = IF Checker[c] THEN "counted" ELSE "done"]
  /\ UNCHANGED <<recording, okCount, badCount, countLock, samples, sampleSum, recent,
                 reached, summing, providers>>

CountReached(c) ==
  /\ checking[c] = "counted" /\ reached' = reached + 1
  /\ checking' = [checking EXCEPT ![c] = "done"]
  /\ UNCHANGED <<recording, okCount, badCount, countLock, samples, sampleSum, recent,
                 checks, summing, providers>>

-----------------------------------------------------------------------------
(* summary() *)

SumStep(s, from, to, taken) ==
  /\ summing[s].at = from
  /\ summing' = [summing EXCEPT ![s] = [taken EXCEPT !.at = to]]
  /\ UNCHANGED <<recording, okCount, badCount, countLock, samples, sampleSum, recent,
                 checking, checks, reached, providers>>

SumLatency(s) == SumStep(s, "idle", "checks", [summing[s] EXCEPT !.samples = samples])
SumChecks(s)  == SumStep(s, "checks", "reached", [summing[s] EXCEPT !.checks = checks])
SumReached(s) == SumStep(s, "reached", "counts", [summing[s] EXCEPT !.reached = reached])
SumCounts(s)  == countLock = {}
                 /\ SumStep(s, "counts", "done", [summing[s] EXCEPT !.ok = okCount, !.bad = badCount])

\* percentile(): of the sorted window, the entry at p/100 of its length.
Sorted(window) ==
  LET p == CHOOSE p \in Injection(DOMAIN window, DOMAIN window) :
             \A k, l \in DOMAIN window : k < l => window[p[k]] <= window[p[l]]
  IN [k \in DOMAIN window |-> window[p[k]]]

Percentile(window, p) ==
  LET idx == (p * Len(window)) \div 100
  IN IF window = <<>> THEN 0
     ELSE Sorted(window)[(IF idx < Len(window) THEN idx ELSE Len(window) - 1) + 1]

-----------------------------------------------------------------------------
(* ProviderRegistry *)

\* register(): a name that is there already is left alone; behind those of the same
\* priority.
RegisterProvider(p) ==
  /\ p \in Provider
  /\ \A i \in DOMAIN providers : providers[i].name # p.name
  /\ LET behind == {i \in DOMAIN providers : providers[i].priority > p.priority}
         pos == IF behind = {} THEN Len(providers) + 1
                ELSE CHOOSE i \in behind : \A j \in behind : i <= j
     IN providers' = InsertAt(providers, pos, p)
  /\ UNCHANGED <<recording, okCount, badCount, countLock, samples, sampleSum, recent,
                 checking, checks, reached, summing>>

Unregister(p) ==
  /\ \E i \in DOMAIN providers : providers[i].name = p.name /\ providers' = RemoveAt(providers, i)
  /\ UNCHANGED <<recording, okCount, badCount, countLock, samples, sampleSum, recent,
                 checking, checks, reached, summing>>

MetricsNext ==
  \/ \E r \in DOMAIN Recorder : CountMapping(r) \/ RecordLatency(r) \/ RecordRecent(r)
  \/ \E c \in DOMAIN Checker : CountCheck(c) \/ CountReached(c)
  \/ \E s \in Summary : SumLatency(s) \/ SumChecks(s) \/ SumReached(s) \/ SumCounts(s)

ProvidersNext == \E p \in Provider : RegisterProvider(p) \/ Unregister(p)

MXNext == MetricsNext \/ ProvidersNext

MXSpec == MXInit /\ [][MXNext]_mxvars

-----------------------------------------------------------------------------

\* The sum of a window: every sample counts as that many pairs.
SumOf(window) == Cardinality(UNION {{i} \X (1..window[i]) : i \in DOMAIN window})

\* The sum belongs to the samples in the window, and percentiles are samples in order
\* (metrics.rs:43-87).
WindowAddsUp ==
  /\ Len(samples) <= MaxSamples /\ sampleSum = SumOf(samples)
  /\ samples # <<>> =>
       LET P(p) == Percentile(samples, p) IN
       /\ \A p \in {50, 95, 99} : \E i \in DOMAIN samples : samples[i] = P(p)
       /\ P(50) <= P(95) /\ P(95) <= P(99)
       /\ \A i \in DOMAIN samples : Len(samples) < 20 => samples[i] <= P(95)

\* A summary never reports a latency of an operation it does not count: the latencies
\* are read first, and the counters are locked until the latency is there.
SummaryCovers ==
  \A s \in Summary :
    summing[s].at = "done" => Len(summing[s].samples) <= summing[s].ok + summing[s].bad

AtMost(n, k) == IF n < k THEN n ELSE k

\* The lock of the counters keeps the other records in step with them: each window holds
\* the last operations that were counted, as many as it has room for, and of two windows
\* of different size the shorter one holds the last operations of the other.
RecordsAgree ==
  countLock = {} =>
    /\ Len(samples) = AtMost(okCount + badCount, MaxSamples)
    /\ Len(recent) = AtMost(okCount + badCount, MaxOperations)
    /\ \A i \in 0..(AtMost(Len(samples), Len(recent)) - 1) :
         samples[Len(samples) - i] = Recorder[recent[Len(recent) - i]].ms

\* A name is registered once, and the providers stand by priority (provider.rs:101-118).
ProvidersSorted ==
  \A i, j \in DOMAIN providers : i < j =>
    providers[i].name # providers[j].name /\ providers[i].priority <= providers[j].priority

\* "Reachability rate (0-100)": a check that ends between the two reads breaks it.
RateIsARate == \A s \in Summary : summing[s].at = "done" => summing[s].reached <= summing[s].checks
=============================================================================
