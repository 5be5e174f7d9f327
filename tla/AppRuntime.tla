----------------------------- MODULE AppRuntime -----------------------------
(***************************************************************************)
(* A component built with PnosApp (pnos-comm: lib.rs, registry.rs,         *)
(* lifecycle.rs, server.rs): init() registers it at the core service, the  *)
(* heartbeat loop keeps it registered, and a shutdown callback takes it    *)
(* out of service.  The core is external: it may stop and come back with   *)
(* an empty registry, and answers may be lost.  The component may crash.   *)
(***************************************************************************)
EXTENDS Naturals, FiniteSets

CONSTANTS
  Id, AppId,       \* component ids; the one that the program was given
  None,            \* no token, or no id in the file
  Threshold,       \* refused heartbeats before it registers again (6)
  MaxRestarts,     \* how often the core restarts
  MaxFaults        \* crashes, lost answers and failed writes, together

ASSUME AppIdIsId == AppId \in Id
ASSUME NoneIsNothing == None \notin Id \cup Nat
ASSUME LimitsNat == Threshold \in Nat \ {0} /\ MaxRestarts \in Nat /\ MaxFaults \in Nat

VARIABLES
  app,             \* init() and what follows: "down", "register", "pause",
                   \* "save", "up" or "failed"
  id,              \* RuntimeClient::component_id
  token, ready,    \* RuntimeClient::token, AppServer::ready
  file,            \* the component_id file
  beat, fails,     \* the heartbeat loop, and consecutive_failures up to Threshold
  callback,        \* the shutdown callback: "none", "spawned", "pushed" or "taken"
  leaves,          \* history: how often it was run in this life of the component
  closing,         \* the callers of shutdown: "none", "wait", "take", "leave", "done"
  server,          \* AppServer::serve of run(): "off", "up" or "failed"
  call,            \* the request each task waits for: "none", "sent", "yes", "no"
  core, epoch,     \* ids registered at the core, and how often it has restarted
  coreUp, issued,  \* the token that the core issued last
  first, torn,     \* history: the id it first had; a write of the file was cut short
  faults

Task == {"main", "beat", "user", "waiter"}
Closer == {"user", "waiter"}
Token == 0..MaxRestarts            \* a token is good for one run of the core

client == <<app, id, token, ready, beat, fails, callback, leaves, closing, server>>
remote == <<core, epoch, coreUp, issued>>
history == <<first, torn>>
vars == <<client, file, call, remote, history, faults>>

TypeOK ==
  /\ app \in {"down", "register", "pause", "save", "up", "failed"}
  /\ id \in Id \cup {None} /\ file \in Id \cup {None} /\ first \in Id \cup {None}
  /\ {token, issued} \subseteq Token \cup {None}
  /\ ready \in BOOLEAN /\ torn \in BOOLEAN /\ coreUp \in BOOLEAN
  /\ beat \in {"off", "sleep", "ask", "register", "pause"}
  /\ fails \in 0..Threshold
  /\ callback \in {"none", "spawned", "pushed", "taken"} /\ leaves \in Nat
  /\ closing \in [Closer -> {"none", "wait", "take", "leave", "done"}]
  /\ server \in {"off", "up", "failed"}
  /\ call \in [Task -> {"none", "sent", "yes", "no"}]
  /\ core \subseteq Id /\ epoch \in Token /\ faults \in 0..MaxFaults

Init ==
  /\ app = "down" /\ id = None /\ token = None /\ ready = FALSE
  /\ file \in {None, CHOOSE i \in Id : Id = {AppId} \/ i # AppId}
  /\ beat = "off" /\ fails = 0
  /\ callback = "none" /\ leaves = 0 /\ closing = [s \in Closer |-> "none"] /\ server = "off"
  /\ call = [t \in Task |-> "none"]
  /\ core = {} /\ epoch = 0 /\ coreUp = TRUE /\ issued = None
  /\ first = None /\ torn = FALSE /\ faults = 0

Fault == faults < MaxFaults /\ faults' = faults + 1

Send(t) == call' = [call EXCEPT ![t] = "sent"]
Return(t) == call' = [call EXCEPT ![t] = "none"]

-----------------------------------------------------------------------------
(* The core service *)

\* What a task is asking for.
Kind(t) ==
  IF t \in Closer THEN "unregister"
  ELSE IF t = "beat" /\ beat = "ask" THEN "heartbeat" ELSE "register"

CurrentId == id

\* The core knows a component by its id and by a token that it issued itself.
Known == CurrentId \in core /\ token = epoch

Handle(t) ==
  /\ call[t] = "sent" /\ coreUp
  /\ issued' = IF Kind(t) = "register" THEN epoch ELSE issued
  /\ CASE Kind(t) = "register" -> /\ core' = core \cup {id}
                                  /\ call' = [call EXCEPT ![t] = "yes"]
       [] Kind(t) = "heartbeat" -> /\ call' = [call EXCEPT ![t] = IF Known THEN "yes" ELSE "no"]
                                   /\ UNCHANGED core
       [] OTHER -> /\ core' = IF Known THEN core \ {CurrentId} ELSE core
                   /\ call' = [call EXCEPT ![t] = IF Known THEN "yes" ELSE "no"]
  /\ UNCHANGED <<client, file, epoch, coreUp, history, faults>>

Unreachable(t) ==
  /\ call[t] = "sent" /\ ~coreUp
  /\ call' = [call EXCEPT ![t] = "no"]
  /\ UNCHANGED <<client, file, remote, history, faults>>

\* The request or its answer is lost, or the core refuses it.
Lose(t) ==
  /\ call[t] \in {"sent", "yes"} /\ Fault
  /\ call' = [call EXCEPT ![t] = "no"]
  /\ UNCHANGED <<client, file, remote, history>>

CoreStops ==
  /\ coreUp /\ epoch < MaxRestarts
  /\ coreUp' = FALSE /\ core' = {}
  /\ UNCHANGED <<client, file, call, epoch, issued, history, faults>>

CoreStarts ==
  /\ ~coreUp
  /\ coreUp' = TRUE /\ epoch' = epoch + 1
  /\ UNCHANGED <<client, file, call, core, issued, history, faults>>

-----------------------------------------------------------------------------
(* init() *)

\* The id in the file comes first, the id of the program second.
Start ==
  /\ app = "down"
  /\ id' = IF file # None THEN file ELSE AppId
  /\ first' = IF first = None THEN id' ELSE first
  /\ app' = "register" /\ Send("main")
  /\ UNCHANGED <<token, ready, beat, fails, callback, leaves, closing, server, file, remote, torn, faults>>

\* register_with_retry(): after a failure it pauses, or has run out of time.
RegisterFails ==
  /\ app = "register" /\ call["main"] = "no" /\ Return("main")
  /\ app' \in {"pause", "failed"}
  /\ UNCHANGED <<id, token, ready, beat, fails, callback, leaves, closing, server, file, remote, history, faults>>

RegisterAgain ==
  /\ app = "pause" /\ Send("main")
  /\ app' = "register"
  /\ UNCHANGED <<id, token, ready, beat, fails, callback, leaves, closing, server, file, remote, history, faults>>

\* The token is stored and the component is ready; the file is cut to be rewritten.
Registered ==
  /\ app = "register" /\ call["main"] = "yes" /\ Return("main")
  /\ token' = issued /\ ready' = TRUE
  /\ file' = None
  /\ app' = "save"
  /\ UNCHANGED <<id, beat, fails, callback, leaves, closing, server, remote, history, faults>>

\* A failed write is only logged.  The callback is pushed by a task of its own.
Saved ==
  /\ app = "save"
  /\ \/ file' = id /\ UNCHANGED <<torn, faults>>
     \/ Fault /\ torn' = TRUE /\ UNCHANGED file
  /\ app' = "up" /\ beat' = "sleep" /\ callback' = "spawned"
  /\ UNCHANGED <<id, token, ready, fails, leaves, closing, server, call, remote, first>>

PushCallback ==
  /\ callback = "spawned" /\ callback' = "pushed"
  /\ UNCHANGED <<app, id, token, ready, beat, fails, leaves, closing, server, file, call, remote, history, faults>>

-----------------------------------------------------------------------------
(* The heartbeat loop *)

Beat ==
  /\ beat = "sleep" /\ Send("beat")
  /\ beat' = "ask"
  /\ UNCHANGED <<app, id, token, ready, fails, callback, leaves, closing, server, file, remote, history, faults>>

Accepted ==
  /\ beat = "ask" /\ call["beat"] = "yes" /\ Return("beat")
  /\ beat' = "sleep" /\ fails' = 0
  /\ UNCHANGED <<app, id, token, ready, callback, leaves, closing, server, file, remote, history, faults>>

\* Mutant of Refused: the counter starts again with each round.
RefusedForgotten ==
  /\ beat = "ask" /\ call["beat"] = "no" /\ Return("beat")
  /\ fails' = 1
  /\ beat' = "sleep"
  /\ UNCHANGED <<app, id, token, ready, callback, leaves, closing, server, file, remote, history, faults>>

Refused ==
  /\ beat = "ask" /\ call["beat"] = "no"
  /\ fails' = IF fails = Threshold THEN fails ELSE fails + 1
  /\ IF fails' = Threshold THEN beat' = "register" /\ Send("beat")
                           ELSE beat' = "sleep" /\ Return("beat")
  /\ UNCHANGED <<app, id, token, ready, callback, leaves, closing, server, file, remote, history, faults>>

\* Mutant of BeatRegistered: it reports itself ready again.
BeatRegisteredReady ==
  /\ beat = "register" /\ call["beat"] = "yes" /\ Return("beat")
  /\ token' = issued /\ fails' = 0 /\ ready' = TRUE
  /\ beat' = "sleep"
  /\ UNCHANGED <<app, id, callback, leaves, closing, server, file, remote, history, faults>>

BeatRegistered ==
  /\ beat = "register" /\ call["beat"] = "yes" /\ Return("beat")
  /\ token' = issued /\ fails' = 0
  /\ beat' = "sleep"
  /\ UNCHANGED <<app, id, ready, callback, leaves, closing, server, file, remote, history, faults>>

\* Out of time it goes back to sleep with its failures, and asks again first.
BeatRegisterFails ==
  /\ beat = "register" /\ call["beat"] = "no" /\ Return("beat")
  /\ beat' \in {"pause", "sleep"}
  /\ UNCHANGED <<app, id, token, ready, fails, callback, leaves, closing, server, file, remote, history, faults>>

BeatRegisterAgain ==
  /\ beat = "pause" /\ Send("beat")
  /\ beat' = "register"
  /\ UNCHANGED <<app, id, token, ready, fails, callback, leaves, closing, server, file, remote, history, faults>>

-----------------------------------------------------------------------------
(* run() and shutdown *)

\* The server is spawned, which fails if the port is taken, and run() waits.
Run ==
  /\ app = "up" /\ closing["waiter"] = "none"
  /\ closing' = [closing EXCEPT !["waiter"] = "wait"]
  /\ \/ server' = "up" /\ UNCHANGED faults
     \/ server' = "failed" /\ Fault
  /\ UNCHANGED <<app, id, token, ready, beat, fails, callback, leaves, file, call, remote, history>>

CtrlC ==
  /\ closing["waiter"] = "wait"
  /\ closing' = [closing EXCEPT !["waiter"] = "take"]
  /\ UNCHANGED <<app, id, token, ready, beat, fails, callback, leaves, server, file, call, remote, history, faults>>

\* shutdown() of the user also wakes run(), if that waits already.
Shutdown ==
  /\ app = "up" /\ closing["user"] = "none"
  /\ closing' = [s \in Closer |-> IF s = "user" \/ closing[s] = "wait" THEN "take" ELSE closing[s]]
  /\ UNCHANGED <<app, id, token, ready, beat, fails, callback, leaves, server, file, call, remote, history, faults>>

\* The caller that finds the callback runs it; the other one has nothing to do.
Take(s) ==
  /\ closing[s] = "take"
  /\ IF callback = "pushed"
     THEN /\ callback' = "taken" /\ leaves' = leaves + 1 /\ ready' = FALSE
          /\ closing' = [closing EXCEPT ![s] = "leave"] /\ Send(s)
     ELSE /\ closing' = [closing EXCEPT ![s] = "done"]
          /\ UNCHANGED <<callback, leaves, ready, call>>
  /\ UNCHANGED <<app, id, token, beat, fails, server, file, remote, history, faults>>

\* The answer to the request to unregister, or the end of its time.
Left(s) ==
  /\ closing[s] = "leave" /\ Return(s)
  /\ closing' = [closing EXCEPT ![s] = "done"]
  /\ UNCHANGED <<app, id, token, ready, beat, fails, callback, leaves, server, file, remote, history, faults>>

Ended ==
  /\ app' = "down" /\ id' = None /\ token' = None /\ ready' = FALSE
  /\ beat' = "off" /\ fails' = 0 /\ callback' = "none" /\ leaves' = 0 /\ server' = "off"
  /\ closing' = [s \in Closer |-> "none"] /\ call' = [t \in Task |-> "none"]

\* run() returns when the server does, and that serves for ever unless it failed.
RunReturns ==
  /\ closing["waiter"] = "done" /\ server = "failed" /\ Ended
  /\ UNCHANGED <<file, remote, history, faults>>

Crash ==
  /\ app \notin {"down"} /\ Fault /\ Ended
  /\ torn' = (torn \/ app = "save")
  /\ UNCHANGED <<file, remote, first>>

BeatStep == Beat \/ Accepted \/ Refused \/ BeatRegistered \/ BeatRegisterFails \/ BeatRegisterAgain
CloseStep(s) == Take(s) \/ Left(s)

Next ==
  \/ \E t \in Task : Handle(t) \/ Unreachable(t) \/ Lose(t)
  \/ CoreStops \/ CoreStarts
  \/ Start \/ RegisterFails \/ RegisterAgain \/ Registered \/ Saved \/ PushCallback
  \/ BeatStep
  \/ Run \/ CtrlC \/ Shutdown \/ RunReturns \/ Crash
  \/ \E s \in Closer : CloseStep(s)

Spec == Init /\ [][Next]_vars

\* Tasks are scheduled, answers come or the client's timeout ends the wait, and the
\* core is started again.  Nobody has to start, close or kill the component.
Fairness ==
  /\ \A t \in Task : WF_vars(Handle(t)) /\ WF_vars(Unreachable(t))
  /\ WF_vars(CoreStarts) /\ WF_vars(PushCallback) /\ WF_vars(BeatStep)
  /\ WF_vars(RegisterAgain \/ Registered \/ RegisterFails \/ Saved)
  /\ \A s \in Closer : WF_vars(CloseStep(s))
  /\ WF_vars(RunReturns)

FairSpec == Spec /\ Fairness

-----------------------------------------------------------------------------

\* A component that nobody has closed ends up registered, with a token the core
\* accepts and no failures counted, however often the core lost its registry
\* (lib.rs: heartbeats are answered FALSE and after six it registers again).
Settles ==
  <>[](app = "up" /\ (\A s \in Closer : closing[s] \in {"none", "wait"})
         => Known /\ fails = 0)

\* Once a shutdown has run the callback, /health/ready says 503 whatever the
\* heartbeat loop does later, and before that it says 200 only with a token.
ReadyIsTrue == ready => callback # "taken" /\ token # None

\* The component comes back under the id that it first had, unless a write of the
\* file was cut short: each start rewrites the file that holds it.
IdIsKept == app # "down" /\ ~torn => id = first

\* The callback runs at most once in each life, whichever of the user, Ctrl-C and a
\* late shutdown() come to it, one after the other or at once: lifecycle.rs:59-85 takes
\* it out before it runs it.
OneLeaves == leaves <= 1

\* "After a restart it registers again under its original id" (config.rs:143): the
\* write of the file is no exception there, but it truncates the file first.
IdSurvives == app # "down" => id = first

RuntimeSafe == TypeOK /\ ReadyIsTrue /\ IdIsKept /\ OneLeaves

\* run() comes back after Ctrl-C: lib.rs says that it unregisters and closes then.
RunEnds == closing["waiter"] = "take" ~> closing["waiter"] = "none"
=============================================================================
