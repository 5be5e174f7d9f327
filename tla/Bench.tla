-------------------------------- MODULE Bench -------------------------------
(***************************************************************************)
(* The load generator (pnos-bench: engine.rs, metrics.rs and               *)
(* scenarios/).  Workers send requests until the progress task finds that  *)
(* the time is over; the report is made from the shared counters once all  *)
(* of them have been joined.  In the UDP scenario workers take the sockets *)
(* in turn, and whatever datagram a socket has is the answer.  The server  *)
(* and the network are external.                                           *)
(***************************************************************************)
EXTENDS Naturals, Sequences, FiniteSets

CONSTANTS
  Worker,          \* concurrency
  Pool,            \* number of sockets
  Duration,        \* the run, in progress intervals
  MaxRequests,     \* requests begun
  MaxLate          \* answers to setup() that come after it has given them up (up to 200)

ASSUME BenchNat == Pool \in Nat \ {0} /\ Duration \in Nat \ {0} /\ MaxRequests \in Nat /\ MaxLate \in Nat
ASSUME WorkersFinite == IsFiniteSet(Worker)

VARIABLES
  udp,             \* the scenario: udp_tracker, or else http
  bench,           \* run(): "setup", "run", "join", "done" or "failed"
  halt,            \* stop_flag
  lap,             \* progress intervals elapsed
  worker,          \* "off", "top", "send", "connect", "ask", "total", "count" or "exit"
  outcome,         \* of the request at hand: "ok", "failure" or "timeout"
  socketOf, turn,  \* the socket of the request, and the next one
  linked,          \* connections: some connection_id is in the pool
  asked,           \* how many datagrams the server has not answered, by socket and kind
  box,             \* answers in each socket, by kind
  begun, sum,      \* requests begun, and total_requests
  tally,           \* the counters by outcome
  ledger           \* the totals of the report, and of its parts

bnvars == <<udp, bench, halt, lap, worker, outcome, socketOf, turn, linked, asked, box, begun, sum,
            tally, ledger>>

Outcomes == {"ok", "failure", "timeout"}
Datagrams == {"connect", "ask"}
Sockets == 0..(Pool - 1)
NoTally == [o \in Outcomes |-> 0]

BNTypeOK ==
  /\ udp \in BOOLEAN /\ bench \in {"setup", "run", "join", "done", "failed"} /\ halt \in BOOLEAN /\ lap \in 0..Duration
  /\ worker \in [Worker -> {"off", "top", "send", "connect", "ask", "total", "count", "exit"}]
  /\ outcome \in [Worker -> Outcomes] /\ socketOf \in [Worker -> Sockets] /\ turn \in Sockets
  /\ linked \in BOOLEAN /\ asked \in [Sockets \X Datagrams -> 0..(2 * MaxRequests + MaxLate)]
  /\ \A s \in Sockets : box[s] \in Seq(Datagrams)
  /\ begun \in 0..MaxRequests /\ sum \in 0..MaxRequests /\ tally \in [Outcomes -> 0..MaxRequests]
  /\ ledger \in [total : Nat, parts : [Outcomes -> Nat]]

BNInit ==
  /\ udp \in BOOLEAN /\ bench = "setup" /\ halt = FALSE /\ lap = 0
  /\ worker = [w \in Worker |-> "off"] /\ outcome = [w \in Worker |-> "ok"]
  /\ socketOf = [w \in Worker |-> 0] /\ turn = 0 /\ linked = FALSE
  /\ asked = [d \in Sockets \X Datagrams |-> 0] /\ box = [s \in Sockets |-> <<>>]
  /\ begun = 0 /\ sum = 0 /\ tally = NoTally /\ ledger = [total |-> 0, parts |-> NoTally]

-----------------------------------------------------------------------------
(* The engine *)

\* setup() connects ahead of the run over its first socket, which may fail every time;
\* an answer that comes too late stays for who uses the socket next.  Then all tasks
\* start.
BenchSetup ==
  /\ bench = "setup" /\ bench' = "run"
  /\ linked' \in (IF udp THEN BOOLEAN ELSE {FALSE})
  /\ \E n \in (IF udp THEN 0..MaxLate ELSE {0}) : asked' = [asked EXCEPT ![<<0, "connect">>] = n]
  /\ worker' = [w \in Worker |-> "top"]
  /\ UNCHANGED <<udp, halt, lap, outcome, socketOf, turn, box, begun, sum, tally, ledger>>

\* A socket cannot be bound, or the scenario refuses its arguments: run() returns.
BenchSetupFails ==
  /\ bench = "setup" /\ bench' = "failed"
  /\ UNCHANGED <<udp, halt, lap, worker, outcome, socketOf, turn, linked, asked, box, begun, sum, tally, ledger>>

\* Mutant of BenchProgress: the last interval is not the end of the run yet.
BenchProgressLate ==
  /\ bench \notin {"setup", "failed"} /\ lap < Duration /\ lap' = lap + 1 /\ halt' = (lap' > Duration)
  /\ UNCHANGED <<udp, bench, worker, outcome, socketOf, turn, linked, asked, box, begun, sum, tally, ledger>>

\* The progress task sees the end of the run only after its interval.
BenchProgress ==
  /\ bench \notin {"setup", "failed"} /\ lap < Duration /\ lap' = lap + 1 /\ halt' = (lap' = Duration)
  /\ UNCHANGED <<udp, bench, worker, outcome, socketOf, turn, linked, asked, box, begun, sum, tally, ledger>>

BenchStopSeen ==
  /\ bench = "run" /\ halt /\ bench' = "join"
  /\ UNCHANGED <<udp, halt, lap, worker, outcome, socketOf, turn, linked, asked, box, begun, sum, tally, ledger>>

BenchReport ==
  /\ bench = "join" /\ (\A w \in Worker : worker[w] = "exit") /\ bench' = "done"
  /\ ledger' = [total |-> sum, parts |-> tally]
  /\ UNCHANGED <<udp, halt, lap, worker, outcome, socketOf, turn, linked, asked, box, begun, sum, tally>>

-----------------------------------------------------------------------------
(* A worker *)

WorkerTo(w, at) == worker' = [worker EXCEPT ![w] = at]
EndAs(w, o) == outcome' = [outcome EXCEPT ![w] = o] /\ WorkerTo(w, "total")

\* The flag is looked at before the wait for the rate, not after it.
WorkerTop(w) ==
  /\ worker[w] = "top" /\ (halt \/ begun < MaxRequests)
  /\ IF halt THEN WorkerTo(w, "exit") /\ UNCHANGED begun
     ELSE WorkerTo(w, "send") /\ begun' = begun + 1
  /\ UNCHANGED <<udp, bench, halt, lap, outcome, socketOf, turn, linked, asked, box, sum, tally, ledger>>

Post(w, s, kind) == asked' = [asked EXCEPT ![<<s, kind>>] = @ + 1] /\ WorkerTo(w, kind)

WorkerSend(w) ==
  /\ worker[w] = "send" /\ udp
  /\ socketOf' = [socketOf EXCEPT ![w] = turn] /\ turn' = (turn + 1) % Pool
  /\ Post(w, turn, IF linked THEN "ask" ELSE "connect")
  /\ UNCHANGED <<udp, bench, halt, lap, outcome, linked, box, begun, sum, tally, ledger>>

\* The first datagram in the socket ends the wait: it may be the answer to a request
\* that has timed out, or to the other worker's.  A connect takes any that has 16
\* bytes, an announce or a scrape wants its own action.
Answer(w) ==
  LET s == socketOf[w] IN
  /\ worker[w] \in Datagrams /\ box[s] # <<>> /\ box' = [box EXCEPT ![s] = Tail(@)]
  /\ \/ worker[w] = "connect" /\ linked' = TRUE /\ Post(w, s, "ask") /\ UNCHANGED outcome
     \/ worker[w] = "ask" /\ EndAs(w, IF Head(box[s]) = "ask" THEN "ok" ELSE "failure")
          /\ UNCHANGED <<linked, asked>>
  /\ UNCHANGED <<udp, bench, halt, lap, socketOf, turn, begun, sum, tally, ledger>>

\* An error of the socket, or no answer within RESPONSE_TIMEOUT, fails the request; the engine's own
\* timeout, if it is the shorter, drops the request.
AnswerLate(w) ==
  /\ worker[w] \in Datagrams /\ box[socketOf[w]] = <<>>
  /\ \E o \in {"failure", "timeout"} : EndAs(w, o)
  /\ UNCHANGED <<udp, bench, halt, lap, socketOf, turn, linked, asked, box, begun, sum, tally, ledger>>

\* The HTTP scenario: the response, its status or the client decide (external).
HttpEnds(w) ==
  /\ worker[w] = "send" /\ ~udp /\ (\E o \in Outcomes : EndAs(w, o))
  /\ UNCHANGED <<udp, bench, halt, lap, socketOf, turn, linked, asked, box, begun, sum, tally, ledger>>

\* record_success(), record_failure() and record_timeout(): two counters, one at a time.
CountTotal(w) ==
  /\ worker[w] = "total" /\ sum' = sum + 1 /\ WorkerTo(w, "count")
  /\ UNCHANGED <<udp, bench, halt, lap, outcome, socketOf, turn, linked, asked, box, begun, tally, ledger>>

CountOutcome(w) ==
  /\ worker[w] = "count" /\ tally' = [tally EXCEPT ![outcome[w]] = @ + 1] /\ WorkerTo(w, "top")
  /\ UNCHANGED <<udp, bench, halt, lap, outcome, socketOf, turn, linked, asked, box, begun, sum, ledger>>

\* The server answers, in any order; what it never answers has been lost (external).
ServerStep(d) ==
  /\ asked[d] > 0 /\ asked' = [asked EXCEPT ![d] = @ - 1]
  /\ box' = [box EXCEPT ![d[1]] = Append(@, d[2])]
  /\ UNCHANGED <<udp, bench, halt, lap, worker, outcome, socketOf, turn, linked, begun, sum, tally, ledger>>

WorkerStep(w) ==
  WorkerTop(w) \/ WorkerSend(w) \/ Answer(w) \/ AnswerLate(w) \/ HttpEnds(w) \/ CountTotal(w) \/ CountOutcome(w)

EngineStep == BenchProgress \/ BenchStopSeen \/ BenchReport

BNNext ==
  \/ BenchSetup \/ BenchSetupFails \/ EngineStep
  \/ \E w \in Worker : WorkerStep(w)
  \/ \E d \in Sockets \X Datagrams : ServerStep(d)

BNSpec == BNInit /\ [][BNNext]_bnvars

\* Timers fire, and the tasks are scheduled.
BNFairness == WF_bnvars(BenchProgress) /\ WF_bnvars(BenchStopSeen) /\ WF_bnvars(BenchReport)
              /\ \A w \in Worker : WF_bnvars(WorkerStep(w))

BNFairSpec == BNSpec /\ BNFairness

-----------------------------------------------------------------------------

\* The report accounts for every request that was begun, each under one outcome, although
\* the counters are written one at a time and read without a lock.
ReportAddsUp ==
  bench = "done" =>
    /\ ledger.total = begun
    /\ ledger.total = ledger.parts["ok"] + ledger.parts["failure"] + ledger.parts["timeout"]

\* The run ends: the requests have a timeout, and every worker gets to see the flag.
BenchEnds == (bench = "run") ~> (bench = "done")
=============================================================================
