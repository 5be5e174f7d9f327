------------------------------ MODULE CommProofs -----------------------------
(***************************************************************************)
(* Proofs about the parts of pnos-comm, for any ids, any threshold, any    *)
(* patterns, window and number of callers, and any number of restarts,     *)
(* faults, events, moves and calls.                                        *)
(***************************************************************************)
EXTENDS MCComm, FiniteSetTheorems, SequenceTheorems, TLAPS

-----------------------------------------------------------------------------
(* AppRuntime *)

\* What exists when: nothing but init() runs before it returned, and no request is
\* under way for a component that is down.
Lives ==
  /\ app # "down" => id \in Id /\ first \in Id
  /\ app = "down" => \A t \in Task : call[t] = "none"
  /\ app # "up" => beat = "off" /\ callback = "none" /\ \A s \in Closer : closing[s] = "none"
  /\ ready => app \in {"save", "up"}

\* A core that stopped has a restart left.
AppInv == TypeOK /\ Lives /\ (~coreUp => epoch < MaxRestarts)

\* A component that was never started has its types.
LEMMA AppTypeInit == Init => AppInv
<1> SUFFICES ASSUME Init PROVE AppInv
  OBVIOUS
<1>1. (CHOOSE i \in Id : Id = {AppId} \/ i # AppId) \in Id
  <2>1. \E i \in Id : Id = {AppId} \/ i # AppId
    BY AppIdIsId
  <2> QED  BY <2>1
<1>2. epoch \in Token /\ faults \in 0..MaxFaults /\ fails \in 0..Threshold
  BY LimitsNat DEF Init, Token
<1>3. file \in Id \cup {None} /\ id \in Id \cup {None} /\ first \in Id \cup {None}
  BY <1>1 DEF Init
<1> QED  BY <1>2, <1>3 DEF Init, AppInv, TypeOK, Lives

\* The steps of the core and of its requests keep the types.
LEMMA CoreTypeStep ==
  ASSUME AppInv,
         (\E t \in Task : Handle(t) \/ Unreachable(t) \/ Lose(t)) \/ CoreStops \/ CoreStarts
  PROVE AppInv'
<1> USE LimitsNat DEF AppInv, TypeOK, Lives, client, remote, history, Fault, Token
<1>1. ASSUME NEW t \in Task, Handle(t) PROVE AppInv'
  <2>1. core' \subseteq Id
    BY <1>1 DEF Handle, CurrentId
  <2>2. call' \in [Task -> {"none", "sent", "yes", "no"}]
    BY <1>1 DEF Handle
  <2>3. issued' \in Token \cup {None} /\ app # "down"
    BY <1>1 DEF Handle
  <2> QED  BY <1>1, <2>1, <2>2, <2>3 DEF Handle
<1>2. ASSUME NEW t \in Task, Unreachable(t) PROVE AppInv'
  BY <1>2 DEF Unreachable
<1>3. ASSUME NEW t \in Task, Lose(t) PROVE AppInv'
  BY <1>3 DEF Lose
<1>4. CASE CoreStops
  BY <1>4 DEF CoreStops
<1>5. CASE CoreStarts
  BY <1>5 DEF CoreStarts
<1> QED  BY <1>1, <1>2, <1>3, <1>4, <1>5

\* init(): registering, the id file, and the tasks it leaves running.
LEMMA InitTypeStep ==
  ASSUME AppInv, Start \/ RegisterFails \/ RegisterAgain \/ Registered \/ Saved \/ PushCallback
  PROVE AppInv'
<1> USE LimitsNat, AppIdIsId DEF AppInv, TypeOK, Lives, remote, history, Fault, Send, Return, Task
<1>1. CASE Start
  BY <1>1, NoneIsNothing DEF Start
<1>2. CASE RegisterFails
  BY <1>2 DEF RegisterFails
<1>3. CASE RegisterAgain
  BY <1>3 DEF RegisterAgain
<1>4. CASE Registered
  BY <1>4 DEF Registered
<1>5. CASE Saved
  <2>1. torn' \in BOOLEAN /\ faults' \in 0..MaxFaults
    <3>1. UNCHANGED <<torn, faults>> \/ (torn' = TRUE /\ faults < MaxFaults /\ faults' = faults + 1)
      BY <1>5, Zenon DEF Saved
    <3>2. torn' \in BOOLEAN
      BY <3>1
    <3>3. faults' \in 0..MaxFaults
      BY <3>1
    <3> QED  BY <3>2, <3>3
  <2>2. file' \in Id \cup {None} /\ id \in Id
    BY <1>5 DEF Saved
  <2> QED  BY <1>5, <2>1, <2>2 DEF Saved
<1>6. CASE PushCallback
  BY <1>6 DEF PushCallback
<1> QED  BY <1>1, <1>2, <1>3, <1>4, <1>5, <1>6

\* The heartbeat loop.
LEMMA BeatTypeStep == ASSUME AppInv, BeatStep PROVE AppInv'
<1> USE LimitsNat DEF AppInv, TypeOK, Lives, remote, history, Send, Return, Task
<1>1. CASE Beat
  BY <1>1 DEF Beat
<1>2. CASE Accepted
  BY <1>2 DEF Accepted
<1>3. CASE Refused
  BY <1>3 DEF Refused
<1>4. CASE BeatRegistered
  BY <1>4 DEF BeatRegistered
<1>5. CASE BeatRegisterFails
  BY <1>5 DEF BeatRegisterFails
<1>6. CASE BeatRegisterAgain
  BY <1>6 DEF BeatRegisterAgain
<1> QED  BY <1>1, <1>2, <1>3, <1>4, <1>5, <1>6 DEF BeatStep

\* run(), the ways to a shutdown, and the end of the process.
LEMMA CloseTypeStep ==
  ASSUME AppInv,
         Run \/ CtrlC \/ Shutdown \/ RunReturns \/ Crash \/ \E s \in Closer : CloseStep(s)
  PROVE AppInv'
<1> USE LimitsNat DEF AppInv, TypeOK, Lives, remote, history, Fault, Send, Return, Task, Closer
<1>1. CASE Run
  BY <1>1 DEF Run
<1>2. CASE CtrlC
  BY <1>2 DEF CtrlC
<1>3. CASE Shutdown
  BY <1>3 DEF Shutdown
<1>4. ASSUME Ended PROVE /\ id' \in Id \cup {None} /\ token' = None /\ Lives' /\ beat' = "off"
                         /\ fails' \in 0..Threshold
                         /\ closing' \in [Closer -> {"none", "wait", "take", "leave", "done"}]
                         /\ call' \in [Task -> {"none", "sent", "yes", "no"}]
  BY <1>4 DEF Ended
<1>5. CASE RunReturns \/ Crash
  <2>1. Ended /\ torn' \in BOOLEAN /\ faults' \in 0..MaxFaults
    <3>1. CASE RunReturns
      BY <3>1 DEF RunReturns
    <3>2. CASE Crash
      BY <3>2 DEF Crash
    <3> QED  BY <1>5, <3>1, <3>2
  <2>2. UNCHANGED <<file, core, epoch, coreUp, issued, first>>
    BY <1>5 DEF RunReturns, Crash
  <2>3. app' = "down" /\ ready' = FALSE /\ callback' = "none" /\ leaves' \in Nat /\ server' = "off"
    BY <2>1 DEF Ended
  <2> QED  BY <1>4, <2>1, <2>2, <2>3
<1>6. ASSUME NEW s \in Closer, Take(s) PROVE AppInv'
  <2>1. app = "up"
    BY <1>6 DEF Take
  <2>2. callback' \in {"none", "spawned", "pushed", "taken"} /\ ready' \in BOOLEAN /\ leaves' \in Nat
    <3>1. CASE callback = "pushed"
      <4>1. callback' = "taken" /\ leaves' = leaves + 1 /\ ready' = FALSE
        BY <1>6, <3>1 DEF Take
      <4>2. leaves + 1 \in Nat
        OBVIOUS
      <4>3. leaves' \in Nat
        BY <4>1, <4>2
      <4> QED  BY <4>1, <4>3
    <3>2. CASE callback # "pushed"
      BY <1>6, <3>2 DEF Take
    <3> QED  BY <3>1, <3>2
  <2>3. closing' \in [Closer -> {"none", "wait", "take", "leave", "done"}]
    BY <1>6 DEF Take
  <2>4. call' \in [Task -> {"none", "sent", "yes", "no"}]
    BY <1>6 DEF Take
  <2> QED  BY <1>6, <2>1, <2>2, <2>3, <2>4 DEF Take
<1>7. ASSUME NEW s \in Closer, Left(s) PROVE AppInv'
  BY <1>7 DEF Left
<1> QED  BY <1>1, <1>2, <1>3, <1>4, <1>5, <1>6, <1>7 DEF CloseStep

\* Every step keeps the types.
LEMMA AppTypeStep == AppInv /\ [Next]_vars => AppInv'
<1> SUFFICES ASSUME AppInv, [Next]_vars PROVE AppInv'
  OBVIOUS
<1>1. CASE UNCHANGED vars
  BY <1>1 DEF vars, client, remote, history, AppInv, TypeOK, Lives
<1> QED  BY <1>1, CoreTypeStep, InitTypeStep, BeatTypeStep, CloseTypeStep DEF Next

\* The variables of a component keep their types over all its lives.
THEOREM RuntimeTypeCorrect == Spec => []TypeOK
<1>1. AppInv => TypeOK
  BY DEF AppInv
<1> QED  BY <1>1, AppTypeInit, AppTypeStep, PTL DEF Spec
-----------------------------------------------------------------------------

\* A request to register that was answered has issued a token.
ReadyInv ==
  /\ ReadyIsTrue
  /\ call["main"] = "yes" => issued # None
  /\ call["beat"] = "yes" /\ beat # "ask" => issued # None

\* Tokens are no ids, and not None.
LEMMA EpochIsToken == AppInv => epoch # None
  BY NoneIsNothing, LimitsNat DEF AppInv, TypeOK, Token

\* No step reports a component ready whose callback has run or that has no token.
LEMMA ReadyStep == AppInv /\ ReadyInv /\ [Next]_vars => ReadyInv'
<1> SUFFICES ASSUME AppInv, ReadyInv, [Next]_vars PROVE ReadyInv'
  OBVIOUS
<1> USE DEF ReadyInv, ReadyIsTrue, client, remote, history, Send, Return
<1>0. /\ epoch # None /\ Lives
      /\ call \in [Task -> {"none", "sent", "yes", "no"}]
      /\ {"main", "beat"} \subseteq Task /\ Closer \subseteq Task \ {"main", "beat"}
  BY EpochIsToken DEF AppInv, TypeOK, Task, Closer
<1>1. ASSUME NEW t \in Task, Handle(t) PROVE ReadyInv'
  <2>1. CASE Kind(t) = "register"
    <3>1. issued' # None
      BY <1>0, <1>1, <2>1 DEF Handle
    <3> QED  BY <1>1, <3>1 DEF Handle
  <2>2. CASE Kind(t) # "register"
    <3>1. t # "main" /\ (t = "beat" => beat = "ask")
      BY <2>2 DEF Kind, Closer
    <3>2. \A u \in Task \ {t} : call'[u] = call[u]
      BY <1>0, <1>1, <2>2 DEF Handle
    <3> QED  BY <1>0, <1>1, <2>2, <3>1, <3>2 DEF Handle
  <2> QED  BY <2>1, <2>2
<1>2. ASSUME NEW t \in Task, Unreachable(t) \/ Lose(t) PROVE ReadyInv'
  BY <1>0, <1>2 DEF Unreachable, Lose
<1>3. CASE CoreStops \/ CoreStarts
  BY <1>3 DEF CoreStops, CoreStarts
<1>4. CASE Start \/ RegisterFails \/ RegisterAgain \/ PushCallback
  BY <1>0, <1>4 DEF Start, RegisterFails, RegisterAgain, PushCallback, Lives
<1>5. CASE Registered
  BY <1>0, <1>5 DEF Registered, Lives
<1>6. CASE Saved
  BY <1>0, <1>6 DEF Saved, Lives
<1>7. CASE BeatStep
  <2>1. CASE Beat \/ Accepted \/ BeatRegisterFails \/ BeatRegisterAgain
    BY <1>0, <2>1 DEF Beat, Accepted, BeatRegisterFails, BeatRegisterAgain
  <2>2. CASE Refused
    BY <1>0, <2>2 DEF Refused
  <2>3. CASE BeatRegistered
    BY <1>0, <2>3 DEF BeatRegistered
  <2> QED  BY <1>7, <2>1, <2>2, <2>3 DEF BeatStep
<1>8. CASE Run \/ CtrlC \/ Shutdown
  BY <1>8 DEF Run, CtrlC, Shutdown
<1>9. CASE RunReturns \/ Crash
  BY <1>0, <1>9 DEF RunReturns, Crash, Ended
<1>10. ASSUME NEW s \in Closer, Take(s) \/ Left(s) PROVE ReadyInv'
  BY <1>0, <1>10 DEF Take, Left
<1>11. CASE UNCHANGED vars
  BY <1>11 DEF vars
<1> QED
  BY <1>1, <1>2, <1>3, <1>4, <1>5, <1>6, <1>7, <1>8, <1>9, <1>10, <1>11 DEF Next, CloseStep

\* /health/ready says 200 only with a token and before the shutdown callback has run,
\* whatever the heartbeat loop does after it (server.rs, lib.rs:574-580).
THEOREM NeverReadyAfterShutdown == Spec => []ReadyIsTrue
<1>1. Init => ReadyInv
  BY DEF Init, ReadyInv, ReadyIsTrue, Task
<1>2. ReadyInv => ReadyIsTrue
  BY DEF ReadyInv
<1> QED  BY <1>1, <1>2, AppTypeInit, AppTypeStep, ReadyStep, PTL DEF Spec

-----------------------------------------------------------------------------

\* It was run in this life exactly if it is gone, and nobody unregisters without it.
LeaveInv ==
  /\ leaves = IF callback = "taken" THEN 1 ELSE 0
  /\ \A s \in Closer : closing[s] = "leave" => callback = "taken"

\* A callback that is gone is not put back before the component starts again.
LEMMA LeaveStep == AppInv /\ LeaveInv /\ [Next]_vars => LeaveInv'
<1> SUFFICES ASSUME AppInv, LeaveInv, [Next]_vars PROVE LeaveInv'
  OBVIOUS
<1> USE DEF LeaveInv, client
<1>0. /\ Lives /\ closing \in [Closer -> {"none", "wait", "take", "leave", "done"}]
  BY DEF AppInv, TypeOK
<1>1. CASE UNCHANGED <<callback, leaves, closing>>
  BY <1>1
<1>2. CASE Saved
  BY <1>0, <1>2 DEF Saved, Lives
<1>3. CASE PushCallback
  BY <1>3 DEF PushCallback
<1>4. CASE Run \/ CtrlC \/ Shutdown
  <2>1. /\ UNCHANGED <<callback, leaves>>
        /\ \A s \in Closer : closing'[s] = "leave" => closing[s] = "leave"
    BY <1>0, <1>4 DEF Run, CtrlC, Shutdown
  <2> QED  BY <2>1
<1>5. CASE RunReturns \/ Crash
  BY <1>5 DEF RunReturns, Crash, Ended
<1>6. ASSUME NEW s \in Closer, Take(s) PROVE LeaveInv'
  BY <1>0, <1>6 DEF Take
<1>7. ASSUME NEW s \in Closer, Left(s) PROVE LeaveInv'
  BY <1>0, <1>7 DEF Left
<1>8. ASSUME \/ \E t \in Task : Handle(t) \/ Unreachable(t) \/ Lose(t)
             \/ CoreStops \/ CoreStarts
      PROVE UNCHANGED <<callback, leaves, closing>>
  BY <1>8 DEF Handle, Unreachable, Lose, CoreStops, CoreStarts
<1>9. ASSUME Start \/ RegisterFails \/ RegisterAgain \/ Registered
      PROVE UNCHANGED <<callback, leaves, closing>>
  BY <1>9 DEF Start, RegisterFails, RegisterAgain, Registered
<1>10. ASSUME BeatStep PROVE UNCHANGED <<callback, leaves, closing>>
  BY <1>10 DEF BeatStep, Beat, Accepted, Refused, BeatRegistered, BeatRegisterFails, BeatRegisterAgain
<1>11. CASE UNCHANGED vars
  BY <1>11 DEF vars
<1> QED
  BY <1>1, <1>2, <1>3, <1>4, <1>5, <1>6, <1>7, <1>8, <1>9, <1>10, <1>11 DEF Next, CloseStep

\* In one life of a component the shutdown callback is run once at most, counted over
\* the whole life: not twice by callers that come together, nor by one that comes
\* when another is done (lifecycle.rs:59-85).
THEOREM UnregistersOnce == Spec => []OneLeaves
<1>1. Init => LeaveInv
  BY DEF Init, LeaveInv
<1>2. LeaveInv => OneLeaves
  BY DEF LeaveInv, OneLeaves
<1> QED  BY <1>1, <1>2, AppTypeInit, AppTypeStep, LeaveStep, PTL DEF Spec

-----------------------------------------------------------------------------

\* What the next start will read is the first id, but while the file is rewritten.
IdInv ==
  /\ IdIsKept
  /\ ~torn /\ app # "save" /\ first # None => first = IF file # None THEN file ELSE AppId

\* Only a start, the rewriting of the file and a crash have to do with it.
LEMMA IdStep == AppInv /\ IdInv /\ [Next]_vars => IdInv'
<1> SUFFICES ASSUME AppInv, IdInv, [Next]_vars PROVE IdInv'
  OBVIOUS
<1> USE DEF IdInv, IdIsKept, client, history
<1>0. Lives /\ AppId # None /\ None \notin Id
  BY AppIdIsId, NoneIsNothing DEF AppInv
<1>1. CASE Start
  BY <1>0, <1>1 DEF Start
<1>2. CASE Registered
  BY <1>2 DEF Registered
<1>3. CASE Saved
  <2>1. CASE file' = id /\ UNCHANGED torn
    BY <1>0, <1>3, <2>1 DEF Saved, Lives
  <2>2. CASE torn'
    BY <2>2
  <2> QED  BY <1>3, <2>1, <2>2 DEF Saved
<1>4. CASE RunReturns
  BY <1>0, <1>4 DEF RunReturns, Ended, Lives, Closer
<1>5. CASE Crash
  <2>1. app' = "down" /\ UNCHANGED <<file, first>> /\ (~torn' => ~torn /\ app # "save")
    BY <1>5 DEF Crash, Ended
  <2> QED  BY <2>1
<1>6. ASSUME UNCHANGED <<id, file, first, torn>>, app' # "down" => app # "down",
             app = "save" => app' = "save"
      PROVE IdInv'
  BY <1>6
<1>7. CASE RegisterFails \/ RegisterAgain
  BY <1>7, <1>6 DEF RegisterFails, RegisterAgain
<1>8. CASE UNCHANGED <<id, file, first, torn, app>>
  BY <1>8
<1>9. ASSUME \/ \E t \in Task : Handle(t) \/ Unreachable(t) \/ Lose(t)
             \/ CoreStops \/ CoreStarts \/ PushCallback
      PROVE UNCHANGED <<id, file, first, torn, app>>
  BY <1>9 DEF Handle, Unreachable, Lose, CoreStops, CoreStarts, PushCallback
<1>10. ASSUME BeatStep PROVE UNCHANGED <<id, file, first, torn, app>>
  BY <1>10 DEF BeatStep, Beat, Accepted, Refused, BeatRegistered, BeatRegisterFails, BeatRegisterAgain
<1>11. ASSUME Run \/ CtrlC \/ Shutdown \/ \E s \in Closer : CloseStep(s)
       PROVE UNCHANGED <<id, file, first, torn, app>>
  BY <1>11 DEF Run, CtrlC, Shutdown, CloseStep, Take, Left
<1>12. CASE UNCHANGED vars
  BY <1>12, <1>8 DEF vars
<1> QED
  BY <1>1, <1>2, <1>3, <1>4, <1>5, <1>7, <1>8, <1>9, <1>10, <1>11, <1>12 DEF Next

\* A component comes back under the id that it first had, however often it crashes,
\* unless the writing of the file was cut short (config.rs:143-157).
THEOREM ComesBackAsItself == Spec => []IdIsKept
<1>1. Init => IdInv
  BY DEF Init, IdInv, IdIsKept
<1>2. IdInv => IdIsKept
  BY DEF IdInv
<1> QED  BY <1>1, <1>2, AppTypeInit, AppTypeStep, IdStep, PTL DEF Spec
-----------------------------------------------------------------------------
(* Checkpoint *)

\* While the file is open: what is still on the pool for nobody was abandoned, what a
\* call found on the pool was abandoned before it, and the file holds what it may, or
\* what a call wrote whose user is about to be told.
KeptInv ==
  /\ open = "no" => task = {} /\ waiting = {}
  /\ answer # "none" => waiting # {} /\ waiting \cap task = {}
  /\ \A a, b \in waiting : a = b
  /\ open = "disk" => Values(task \ waiting) \subseteq may
  /\ open = "disk" /\ waiting # {} => task \subseteq over \cup waiting /\ Values(over) \subseteq may
  /\ IF open = "disk" /\ answer = "done" THEN disk \in Values(waiting \cup over)
                                            ELSE disk \in may

\* Each step of the store, its pool and its user.
LEMMA KeptStep == KeptInv /\ [CPNext]_cpvars => KeptInv'
<1> SUFFICES ASSUME KeptInv, [CPNext]_cpvars PROVE KeptInv'
  OBVIOUS
<1>1. CASE Open
  BY <1>1 DEF Open, KeptInv, Values
<1>2. ASSUME NEW c \in AnyCall, Ask(c) PROVE KeptInv'
  BY <1>2 DEF Ask, KeptInv, Values
<1>3. ASSUME NEW c \in AnyCall, Execute(c) PROVE KeptInv'
  <2>1. c \in task /\ task' = task \ {c} /\ UNCHANGED <<open, waiting, over, may>>
    BY <1>3 DEF Execute
  <2>2. /\ open = "disk" => Values(task' \ waiting) \subseteq may
        /\ open = "disk" /\ waiting # {} => task' \subseteq over \cup waiting /\ Values(over) \subseteq may
        /\ open = "no" => task' = {} /\ waiting = {}
    BY <2>1 DEF KeptInv, Values
  <2>3. answer' = answer \/ c \in waiting
    BY <1>3 DEF Execute
  <2>4. answer' # "none" => waiting # {} /\ waiting \cap task' = {}
    BY <2>1, <2>3 DEF KeptInv
  <2>5. IF open' = "disk" /\ answer' = "done" THEN disk' \in Values(waiting' \cup over')
                                               ELSE disk' \in may'
    <3>1. CASE disk' = disk /\ answer' = answer
      BY <2>1, <3>1 DEF KeptInv
    <3>2. CASE disk' = disk /\ open # "disk"
      BY <2>1, <3>2 DEF KeptInv
    <3>3. CASE disk' = disk /\ c \in waiting /\ answer' = "failed"
      BY <2>1, <3>3 DEF KeptInv
    <3>4. CASE open = "disk" /\ disk' = c.value /\ c \in waiting /\ answer' = "done"
      BY <2>1, <3>4 DEF Values
    <3>5. CASE open = "disk" /\ disk' = c.value /\ c \notin waiting /\ answer' = answer
      <4>1. c.value \in Values(task \ waiting)
        BY <2>1, <3>5 DEF Values
      <4>2. c.value \in may
        BY <3>5, <4>1 DEF KeptInv
      <4>3. answer = "done" => c \in over \cup waiting
        BY <2>1, <3>5 DEF KeptInv
      <4>4. answer = "done" => c.value \in Values(waiting \cup over)
        BY <4>3 DEF Values
      <4> QED  BY <2>1, <3>5, <4>2, <4>4
    <3>6. \/ disk' = disk /\ answer' = answer
          \/ disk' = disk /\ c \in waiting /\ answer' = "failed"
          \/ disk' = disk /\ open # "disk"
          \/ open = "disk" /\ disk' = c.value /\ answer' = IF c \in waiting THEN "done" ELSE answer
      BY <1>3 DEF Execute
    <3> QED  BY <3>1, <3>2, <3>3, <3>4, <3>5, <3>6
  <2> QED  BY <2>1, <2>2, <2>4, <2>5 DEF KeptInv
<1>4. CASE Answered
  <2>1. answer # "none" /\ waiting' = {} /\ answer' = "none" /\ UNCHANGED <<open, disk, task>>
    BY <1>4 DEF Answered
  <2>2. CASE waiting = {}
    BY <2>1, <2>2 DEF KeptInv
  <2>3. CASE waiting # {} /\ open = "disk" /\ answer = "done"
    <3>1. may' = Values(waiting \cup over)
      BY <1>4, <2>3 DEF Answered
    <3>2. task \subseteq waiting \cup over
      BY <2>3 DEF KeptInv
    <3>3. disk \in may'
      BY <2>3, <3>1 DEF KeptInv
    <3>4. Values(task) \subseteq may'
      BY <3>1, <3>2 DEF Values
    <3> QED  BY <2>1, <3>3, <3>4 DEF KeptInv, Values
  <2>4. CASE waiting # {} /\ ~(open = "disk" /\ answer = "done")
    <3>1. may' = may /\ disk \in may
      BY <1>4, <2>4 DEF Answered, KeptInv
    <3>2. open = "disk" => Values(task) \subseteq may
      <4>1. waiting \cap task = {}
        BY <2>1 DEF KeptInv
      <4>2. task \ waiting = task
        BY <4>1
      <4> QED  BY <4>2 DEF KeptInv
    <3> QED  BY <2>1, <3>1, <3>2 DEF KeptInv, Values
  <2> QED  BY <2>2, <2>3, <2>4
<1>5. CASE Abandon
  BY <1>5 DEF Abandon, KeptInv, Values
<1>6. CASE Die
  BY <1>6 DEF Die, KeptInv, Values
<1>7. CASE UNCHANGED cpvars
  BY <1>7 DEF cpvars, KeptInv, Values
<1> QED  BY <1>1, <1>2, <1>3, <1>4, <1>5, <1>6, <1>7 DEF CPNext

\* After any crash the file holds the last save or delete that was acknowledged while it
\* was open, or one whose user had stopped waiting for it (checkpoint.rs:3-6).
THEOREM CheckpointsAreKept == CPSpec => []CheckpointKept
<1>1. CPInit => KeptInv
  BY DEF CPInit, KeptInv, Values
<1>2. KeptInv => CheckpointKept
  BY DEF KeptInv, CheckpointKept
<1> QED  BY <1>1, <1>2, KeptStep, PTL DEF CPSpec

\* The calls of the user, and what they leave in the store.
LEMMA CallShape == \A c \in AnyCall : c.nr \in 1..MaxCalls /\ c.nr \in Version /\ c.value \in Version
<1> SUFFICES ASSUME NEW c \in AnyCall
             PROVE  c.nr \in 1..MaxCalls /\ c.nr \in Version /\ c.value \in Version
  OBVIOUS
<1>1. PICK n \in 1..MaxCalls : c \in CallOf(n)
  BY DEF AnyCall
<1>2. c.nr = n /\ (c.value = n \/ c.value = 0)
  BY <1>1 DEF CallOf
<1> QED  BY <1>2, StoreLimits DEF Version

\* The variables of the store keep their types.
LEMMA StoreTypeStep == CPTypeOK /\ [CPNext]_cpvars => CPTypeOK'
<1> SUFFICES ASSUME CPTypeOK, [CPNext]_cpvars PROVE CPTypeOK'
  OBVIOUS
<1> USE StoreLimits DEF CPTypeOK
<1>1. 0 \in Version /\ \A S : S \subseteq AnyCall => Values(S) \subseteq Version
  BY CallShape DEF Values, Version
<1>2. CASE Open
  BY <1>1, <1>2 DEF Open
<1>3. ASSUME NEW c \in AnyCall, Ask(c) PROVE CPTypeOK'
  BY <1>3, CallShape DEF Ask
<1>4. ASSUME NEW c \in AnyCall, Execute(c) PROVE CPTypeOK'
  BY <1>4, CallShape DEF Execute
<1>5. CASE Answered
  <2>1. waiting \cup over \subseteq AnyCall
    OBVIOUS
  <2>2. may' \subseteq Version
    BY <1>1, <1>5, <2>1 DEF Answered
  <2> QED  BY <1>5, <2>2 DEF Answered
<1>6. CASE Abandon
  <2>1. may' \subseteq Version
    BY <1>1, <1>6 DEF Abandon
  <2> QED  BY <1>6, <2>1 DEF Abandon
<1>7. CASE Die
  <2>1. may' \subseteq Version
    BY <1>1, <1>7 DEF Die
  <2> QED  BY <1>7, <2>1 DEF Die
<1>8. CASE UNCHANGED cpvars
  BY <1>8 DEF cpvars
<1> QED  BY <1>2, <1>3, <1>4, <1>5, <1>6, <1>7, <1>8 DEF CPNext

-----------------------------------------------------------------------------
(* Discovery *)

\* An attempt that is still to begin is one of the allowed number of retries.
CallInv == DCTypeOK /\ \A c \in Caller : phase[c] \in {"idle", "pause"} => tries[c] <= Retries

\* The cache, its refreshes and the callers keep their types, and nobody tries more
\* often than call_retries says.
LEMMA CallStepInv == CallInv /\ [DCNext]_dcvars => CallInv'
<1> SUFFICES ASSUME CallInv, [DCNext]_dcvars PROVE CallInv'
  OBVIOUS
<1> USE CallLimits DEF CallInv, DCTypeOK, Addr
<1>1. CASE Move
  BY <1>1 DEF Move
<1>2. CASE ComeBack
  BY <1>2 DEF ComeBack
<1>3. CASE Expire \/ Invalidate
  BY <1>3 DEF Expire, Invalidate
<1>4. ASSUME NEW c \in Caller, Begin(c) PROVE CallInv'
  BY <1>4 DEF Begin, Goto
<1>5. ASSUME NEW c \in Caller, Look(c) PROVE CallInv'
  BY <1>5 DEF Look, Goto
<1>6. ASSUME NEW c \in Caller, Fetched(c) PROVE CallInv'
  BY <1>6 DEF Fetched, Goto
<1>7. ASSUME NEW c \in Caller, Stored(c) PROVE CallInv'
  BY <1>7 DEF Stored, Goto
<1>8. ASSUME NEW c \in Caller, Sent(c) PROVE CallInv'
  BY <1>8 DEF Sent, Fail, Goto
<1>9. ASSUME NEW c \in Caller, Lost(c) PROVE CallInv'
  BY <1>9 DEF Lost, Fail, Goto
<1>10. ASSUME NEW c \in Caller, Again(c) PROVE CallInv'
  BY <1>10 DEF Again, Goto
<1>11. ASSUME NEW r \in Refresh, RefreshAnswered(r) PROVE CallInv'
  BY <1>11 DEF RefreshAnswered
<1>12. ASSUME NEW r \in Refresh, RefreshLost(r) PROVE CallInv'
  BY <1>12 DEF RefreshLost
<1>13. ASSUME NEW r \in Refresh, RefreshStored(r) PROVE CallInv'
  BY <1>13 DEF RefreshStored
<1>14. CASE UNCHANGED dcvars
  BY <1>14 DEF dcvars
<1> QED
  BY <1>1, <1>2, <1>3, <1>4, <1>5, <1>6, <1>7, <1>8, <1>9, <1>10, <1>11, <1>12, <1>13, <1>14
     DEF DCNext

-----------------------------------------------------------------------------
(* EventStream *)

\* An event that was handled is in the window, or was pushed out of it.
EventInv ==
  /\ StreamSafe
  /\ \A x \in Event \X Pattern :
       handled[x] > 0 => x[1] \in evicted \/ \E i \in DOMAIN seen : seen[i] = x[1]

\* What is sent first on a connection are events.
LEMMA ReplayShape ==
  ASSUME log \in 0..MaxEvents, NEW S, NEW q \in Replay(S)
  PROVE  q \in Seq(Event)
<1> DEFINE W == {e \in 1..log : Wanted(e, S)}
<1>1. log \in Nat /\ W \subseteq 1..log /\ W \subseteq Event
  BY StreamLimits DEF Event
<1>2. q \in [1..Cardinality(W) -> W]
  BY DEF Replay
<1> HIDE DEF W
<1>3. Cardinality(W) \in Nat
  <2>1. IsFiniteSet(1..log)
    BY <1>1, FS_Interval
  <2>2. IsFiniteSet(W)
    BY <1>1, <2>1, FS_Subset
  <2> QED  BY <2>2, FS_CardinalityType
<1>4. q \in [1..Cardinality(W) -> Event]
  BY <1>1, <1>2
<1> QED  BY <1>3, <1>4, SeqDef

\* The window after an event was marked.
LEMMA MarkedShape ==
  ASSUME EventInv, NEW e \in Event, New(e)
  PROVE  /\ Marked(e) \in Seq(Event) /\ Len(Marked(e)) <= Window
         /\ \A i, j \in DOMAIN Marked(e) : i # j => ~ SameKey(Marked(e)[i], Marked(e)[j])
         /\ \E i \in DOMAIN Marked(e) : Marked(e)[i] = e
         /\ \A i \in DOMAIN seen :
              \/ \E j \in DOMAIN Marked(e) : Marked(e)[j] = seen[i]
              \/ (Len(seen) >= Window /\ seen[i] = Head(seen))
<1>1. /\ seen \in Seq(Event) /\ Len(seen) \in Nat /\ DOMAIN seen = 1..Len(seen) /\ Len(seen) <= Window
      /\ Window \in Nat \ {0}
      /\ \A i, j \in 1..Len(seen) : i # j => ~ SameKey(seen[i], seen[j])
      /\ \A i \in 1..Len(seen) : ~ SameKey(seen[i], e)
  BY StreamLimits DEF EventInv, StreamSafe, ESTypeOK, WindowIsRecent, New
<1>0. Len(seen) \in Nat /\ Len(seen) <= Window /\ Window \in Nat /\ Window >= 1
  <2>1. Window \in Nat /\ Window >= 1
    BY StreamLimits
  <2> QED  BY <1>1, <2>1
<1>2. CASE Len(seen) < Window
  <2> DEFINE m == Append(seen, e)
             n == Len(seen)
  <2>1. /\ m \in Seq(Event) /\ Len(m) = n + 1 /\ DOMAIN m = 1..n + 1 /\ m[n + 1] = e
        /\ \A i \in 1..n : m[i] = seen[i]
    BY <1>1, AppendProperties
  <2>2. Marked(e) = m
    BY <1>2 DEF Marked
  <2> HIDE DEF m
  <2>3. \A i, j \in 1..n + 1 : i # j => ~ SameKey(m[i], m[j])
    BY <1>1, <2>1 DEF SameKey
  <2>4. \A i \in 1..n : i \in 1..n + 1 /\ n + 1 \in 1..n + 1
    BY <1>1
  <2>5. n + 1 \in 1..n + 1 /\ n + 1 <= Window
    BY <1>1, <1>2
  <2> QED  BY <1>1, <2>1, <2>2, <2>3, <2>4, <2>5
<1>3. CASE ~ (Len(seen) < Window)
  <2> DEFINE t == Tail(seen)
             m == Append(t, e)
             n == Len(seen)
  <2>1. n = Window /\ n >= 1 /\ seen # <<>>
    <3>1. n = Window /\ n >= 1
      BY <1>0, <1>3
    <3>2. Len(<<>>) = 0
      BY EmptySeq
    <3> QED  BY <3>1, <3>2
  <2>2. /\ t \in Seq(Event) /\ Len(t) = n - 1 /\ \A i \in 1..n - 1 : t[i] = seen[i + 1]
        /\ Head(seen) = seen[1]
    BY <1>1, <2>1, HeadTailProperties
  <2> HIDE DEF t
  <2>3. /\ m \in Seq(Event) /\ Len(m) = n /\ DOMAIN m = 1..n /\ m[n] = e
        /\ \A i \in 1..n - 1 : m[i] = t[i]
    BY <1>1, <2>1, <2>2, AppendProperties
  <2>4. Marked(e) = m
    BY <1>3 DEF Marked, t
  <2> HIDE DEF m
  <2>5. \A i \in 1..n - 1 : i + 1 \in 1..n /\ m[i] = seen[i + 1]
    BY <1>1, <2>2, <2>3
  <2>6. \A i, j \in 1..n : i # j => ~ SameKey(m[i], m[j])
    <3> SUFFICES ASSUME NEW i \in 1..n, NEW j \in 1..n, i # j PROVE ~ SameKey(m[i], m[j])
      OBVIOUS
    <3>1. CASE i \in 1..n - 1 /\ j \in 1..n - 1
      <4>1. i + 1 # j + 1
        OBVIOUS
      <4> QED  BY <1>1, <2>5, <3>1, <4>1
    <3>2. CASE i = n /\ j \in 1..n - 1
      <4>1. m[i] = e /\ m[j] = seen[j + 1] /\ j + 1 \in 1..n
        BY <2>3, <2>5, <3>2
      <4>2. ~ SameKey(seen[j + 1], e)
        BY <1>1, <4>1
      <4> QED  BY <4>1, <4>2 DEF SameKey
    <3>3. CASE j = n /\ i \in 1..n - 1
      <4>1. m[j] = e /\ m[i] = seen[i + 1] /\ i + 1 \in 1..n
        BY <2>3, <2>5, <3>3
      <4>2. ~ SameKey(seen[i + 1], e)
        BY <1>1, <4>1
      <4> QED  BY <4>1, <4>2 DEF SameKey
    <3>4. i = n \/ i \in 1..n - 1
      BY <1>0
    <3>5. j = n \/ j \in 1..n - 1
      BY <1>0
    <3> QED  BY <3>1, <3>2, <3>3, <3>4, <3>5
  <2>7. ASSUME NEW i \in 1..n PROVE (\E j \in 1..n : m[j] = seen[i]) \/ seen[i] = Head(seen)
    <3>1. CASE i = 1
      BY <2>2, <3>1
    <3>2. CASE i # 1
      <4>1. i - 1 \in 1..n - 1 /\ (i - 1) + 1 = i /\ i - 1 \in 1..n
        BY <1>1, <3>2
      <4> QED  BY <2>5, <4>1
    <3> QED  BY <3>1, <3>2
  <2>8. n \in 1..n /\ n <= Window /\ n >= Window
    BY <1>1, <2>1
  <2> HIDE DEF n
  <2>9. \A i \in DOMAIN seen : (\E j \in DOMAIN m : m[j] = seen[i]) \/ (n >= Window /\ seen[i] = Head(seen))
    <3>1. DOMAIN seen = 1..n /\ DOMAIN m = 1..n /\ n >= Window
      BY <1>1, <2>3, <2>8 DEF n
    <3>2. ASSUME NEW i \in 1..n
          PROVE  (\E j \in DOMAIN m : m[j] = seen[i]) \/ (n >= Window /\ seen[i] = Head(seen))
      BY <2>7, <3>1
    <3> QED  BY <3>1, <3>2
  <2>10. \E i \in DOMAIN m : m[i] = e
    BY <2>3, <2>8
  <2>11. \A i, j \in DOMAIN m : i # j => ~ SameKey(m[i], m[j])
    BY <2>3, <2>6
  <2>12. Len(m) <= Window /\ m \in Seq(Event)
    BY <2>3, <2>8
  <2> QED  BY <2>4, <2>9, <2>10, <2>11, <2>12 DEF n
<1> QED  BY <1>2, <1>3

\* Nothing is handled at the start.
LEMMA EventInit == ESInit => EventInv
<1> SUFFICES ASSUME ESInit PROVE EventInv
  OBVIOUS
<1>1. <<>> \in Seq(Event) /\ Len(<<>>) = 0 /\ DOMAIN <<>> = {}
  BY EmptySeq
<1>2. /\ seen = <<>> /\ DOMAIN seen = {} /\ handled \in [Event \X Pattern -> Nat]
      /\ \A x \in Event \X Pattern : handled[x] = 0
  BY <1>1 DEF ESInit
<1>3. ESTypeOK
  <2>1. Len(seen) <= Window /\ 0 \in 0..MaxEvents /\ 0 \in 0..MaxDrops
    BY <1>1, <1>2, StreamLimits
  <2> QED  BY <1>1, <1>2, <2>1 DEF ESInit, ESTypeOK
<1>4. \A x \in Event \X Pattern : ~ (handled[x] > 0) /\ ~ (handled[x] > 1)
  BY <1>2
<1> QED  BY <1>2, <1>3, <1>4 DEF EventInv, StreamSafe, HandledOnce, WindowIsRecent

\* The dispatcher: an event that is new to it is handled by each listener, one that it
\* handled before is new to it when it was pushed out of the window.
LEMMA DispatchStep == ASSUME EventInv, Dispatch PROVE EventInv'
<1>1. /\ ESTypeOK /\ HandledOnce /\ WindowIsRecent
      /\ handled \in [Event \X Pattern -> Nat] /\ evicted \subseteq Event /\ seen \in Seq(Event)
      /\ queue \in Seq(Event) /\ queue # <<>>
  BY DEF EventInv, StreamSafe, Dispatch, ESTypeOK
<1>2. Head(queue) \in Event /\ Tail(queue) \in Seq(Event)
  BY <1>1, HeadTailProperties
<1>0. PICK e \in Event : e = Head(queue)
  BY <1>2
<1>3. UNCHANGED <<ws, subs, served, log, net, pushing, listeners, shut, drops>> /\ queue' = Tail(queue)
  BY DEF Dispatch
<1>4. CASE New(e)
  <2>1. /\ seen' = Marked(e)
        /\ evicted' = IF Len(seen) < Window THEN evicted ELSE evicted \cup {Head(seen)}
        /\ handled' = [x \in Event \X Pattern |->
             IF x[1] = e /\ x[2] \in listeners /\ x \in Matches THEN handled[x] + 1 ELSE handled[x]]
    BY <1>0, <1>4 DEF Dispatch
  <2>2. /\ seen' \in Seq(Event) /\ Len(seen') <= Window /\ WindowIsRecent'
        /\ \E i \in DOMAIN seen' : seen'[i] = e
        /\ \A i \in DOMAIN seen : (\E j \in DOMAIN seen' : seen'[j] = seen[i])
                                  \/ (Len(seen) >= Window /\ seen[i] = Head(seen))
    <3> DEFINE m == Marked(e)
    <3>1. /\ m \in Seq(Event) /\ Len(m) <= Window
          /\ \A i, j \in DOMAIN m : i # j => ~ SameKey(m[i], m[j])
          /\ \E i \in DOMAIN m : m[i] = e
          /\ \A i \in DOMAIN seen : (\E j \in DOMAIN m : m[j] = seen[i])
                                    \/ (Len(seen) >= Window /\ seen[i] = Head(seen))
      BY <1>2, <1>4, MarkedShape
    <3>2. seen' = m
      BY <2>1
    <3> HIDE DEF m
    <3> QED  BY <3>1, <3>2 DEF WindowIsRecent
  <2>3. evicted \subseteq evicted' /\ (Len(seen) >= Window => Head(seen) \in evicted')
    BY <1>1, <2>1, StreamLimits
  <2>4. evicted' \subseteq Event
    <3>1. CASE Len(seen) < Window
      BY <1>1, <2>1, <3>1
    <3>2. CASE ~ (Len(seen) < Window)
      <4>1. seen # <<>>
        BY <3>2, StreamLimits, EmptySeq
      <4> QED  BY <1>1, <2>1, <4>1, HeadTailProperties
    <3> QED  BY <3>1, <3>2
  <2>5. handled' \in [Event \X Pattern -> Nat]
    BY <1>1, <2>1
  <2>6. ASSUME NEW x \in Event \X Pattern, handled'[x] > 0
        PROVE  x[1] \in evicted' \/ \E i \in DOMAIN seen' : seen'[i] = x[1]
    <3>1. CASE x[1] = e
      BY <2>2, <3>1
    <3>2. CASE x[1] # e
      <4>1. handled[x] > 0
        BY <2>1, <2>6, <3>2
      <4>2. x[1] \in evicted \/ \E i \in DOMAIN seen : seen[i] = x[1]
        BY <4>1 DEF EventInv
      <4> QED  BY <2>2, <2>3, <4>2
    <3> QED  BY <3>1, <3>2
  <2>7. ASSUME NEW x \in Event \X Pattern, handled'[x] > 1 PROVE x[1] \in evicted'
    <3>1. CASE x[1] = e
      <4>1. handled[x] > 0
        BY <1>1, <2>1, <2>7
      <4>2. x[1] \in evicted \/ \E i \in DOMAIN seen : seen[i] = x[1]
        BY <4>1 DEF EventInv
      <4> QED  BY <1>4, <2>3, <3>1, <4>2 DEF New, SameKey
    <3>2. CASE x[1] # e
      <4>1. handled[x] > 1
        BY <2>1, <2>7, <3>2
      <4> QED  BY <1>1, <2>3, <4>1 DEF HandledOnce
    <3> QED  BY <3>1, <3>2
  <2> QED  BY <1>1, <1>2, <1>3, <2>2, <2>4, <2>5, <2>6, <2>7
           DEF EventInv, StreamSafe, ESTypeOK, HandledOnce, Event
<1>5. CASE ~ New(e)
  <2>1. UNCHANGED <<seen, evicted, handled>>
    BY <1>0, <1>5 DEF Dispatch
  <2> QED  BY <1>2, <1>3, <2>1 DEF EventInv, StreamSafe, ESTypeOK, HandledOnce, WindowIsRecent, Event
<1> QED  BY <1>4, <1>5

\* Every step of the client and of the core.
LEMMA EventStep == EventInv /\ [ESNext]_esvars => EventInv'
<1> SUFFICES ASSUME EventInv, [ESNext]_esvars PROVE EventInv'
  OBVIOUS
<1> USE StreamLimits
<1>1. ESTypeOK
  BY DEF EventInv, StreamSafe
\* What the other steps leave alone.
<1>2. ASSUME ESTypeOK', UNCHANGED <<seen, handled, evicted>> PROVE EventInv'
  BY <1>2 DEF EventInv, StreamSafe, HandledOnce, WindowIsRecent
<1> USE DEF ESTypeOK
<1>3. CASE Publish
  <2>1. log' \in Event /\ log' \in 0..MaxEvents
    BY <1>1, <1>3 DEF Publish, Event
  <2>2. net' \in Seq(Event)
    <3>1. PICK e \in Event : e = log'
      BY <2>1
    <3>2. CASE net' = Append(net, e)
      BY <1>1, <3>2, AppendProperties
    <3>3. CASE net' = net
      BY <1>1, <3>3
    <3> QED  BY <1>3, <3>1, <3>2, <3>3 DEF Publish
  <2>3. ESTypeOK' /\ UNCHANGED <<seen, handled, evicted>>
    BY <1>1, <1>3, <2>1, <2>2 DEF Publish
  <2> QED  BY <1>2, <2>3
<1>4. CASE WsConnected
  <2>1. PICK q \in Replay(subs) : net' = q
    BY <1>4 DEF WsConnected
  <2>2. q \in Seq(Event)
    BY <1>1, <2>1, ReplayShape
  <2>3. ESTypeOK' /\ UNCHANGED <<seen, handled, evicted>>
    BY <1>1, <1>4, <2>1, <2>2 DEF WsConnected
  <2> QED  BY <1>2, <2>3
<1>5. CASE WsStart \/ WsReconnect
  BY <1>1, <1>2, <1>5 DEF WsStart, WsReconnect
<1>6. CASE WsBroken
  <2>1. <<>> \in Seq(Event)
    BY EmptySeq
  <2>2. ESTypeOK' /\ UNCHANGED <<seen, handled, evicted>>
    BY <1>1, <1>6, <2>1 DEF WsBroken
  <2> QED  BY <1>2, <2>2
<1>7. CASE Receive
  <2>1. PICK e \in Event : e = Head(net)
    BY <1>1, <1>7, HeadTailProperties DEF Receive
  <2>2. net' \in Seq(Event) /\ queue' \in Seq(Event)
    BY <1>1, <1>7, <2>1, HeadTailProperties, AppendProperties DEF Receive
  <2>3. ESTypeOK' /\ UNCHANGED <<seen, handled, evicted>>
    BY <1>1, <1>7, <2>2 DEF Receive
  <2> QED  BY <1>2, <2>3
<1>8. CASE WsShutdown
  <2>1. <<>> \in Seq(Event)
    BY EmptySeq
  <2>2. ws' \in {"off", "connect", "live", "backoff", "closed"} /\ served' \subseteq Pattern
        /\ net' \in Seq(Event)
    BY <1>1, <1>8, <2>1 DEF WsShutdown
  <2>3. ESTypeOK' /\ UNCHANGED <<seen, handled, evicted>>
    BY <1>1, <1>8, <2>2 DEF WsShutdown
  <2> QED  BY <1>2, <2>3
<1>9. ASSUME NEW p \in Pattern, Subscribe(p) \/ PushListener(p) \/ Unsubscribe(p) PROVE EventInv'
  <2>1. subs' \subseteq Pattern /\ pushing' \subseteq Pattern /\ listeners' \subseteq Pattern
    BY <1>1, <1>9 DEF Subscribe, PushListener, Unsubscribe
  <2>2. UNCHANGED <<ws, served, log, net, queue, seen, handled, evicted, shut, drops>>
    BY <1>9 DEF Subscribe, PushListener, Unsubscribe
  <2> QED  BY <1>1, <1>2, <2>1, <2>2 DEF Event
<1>10. CASE UNCHANGED esvars
  BY <1>1, <1>2, <1>10 DEF esvars, Event
<1> QED
  BY <1>3, <1>4, <1>5, <1>6, <1>7, <1>8, <1>9, <1>10, DispatchStep DEF ESNext

\* A listener sees an event once, however often a reconnect replays it, unless it was
\* pushed out of the window of the deduplicator meanwhile (events.rs:31-34); the window
\* itself never holds two events of one key.
THEOREM EventsHandledOnce == ESSpec => []StreamSafe
<1>1. EventInv => StreamSafe
  BY DEF EventInv
<1> QED  BY <1>1, EventInit, EventStep, PTL DEF ESSpec

-----------------------------------------------------------------------------
(* The parts side by side *)

CommInv ==
  /\ AppInv /\ ReadyInv /\ LeaveInv /\ IdInv
  /\ EventInv /\ CallInv /\ CPTypeOK /\ KeptInv

LEMMA CommInit == MCInit => CommInv
<1> SUFFICES ASSUME MCInit PROVE CommInv
  OBVIOUS
<1>1. Init /\ ESInit /\ DCInit /\ CPInit
  BY DEF MCInit
<1>2. AppInv
  BY <1>1, AppTypeInit
<1>3. ReadyInv /\ LeaveInv /\ IdInv
  BY <1>1 DEF Init, ReadyInv, ReadyIsTrue, Task, LeaveInv, IdInv, IdIsKept
<1>4. EventInv
  BY <1>1, EventInit
<1>5. CallInv
  <2>1. 0 \in Addr /\ 0 \in 0..MaxLost /\ 0 \in 0..Retries + 1
    BY CallLimits DEF Addr
  <2>2. DCTypeOK
    BY <1>1, <2>1 DEF DCInit, DCTypeOK
  <2>3. \A c \in Caller : tries[c] <= Retries
    BY <1>1, CallLimits DEF DCInit
  <2> QED  BY <2>2, <2>3 DEF CallInv
<1>6. CPTypeOK /\ KeptInv
  BY <1>1, StoreLimits DEF CPInit, CPTypeOK, KeptInv, Values, Version
<1> QED  BY <1>2, <1>3, <1>4, <1>5, <1>6 DEF CommInv

\* A step of one part is a step of it and leaves the others as they are.
LEMMA CommNext == CommInv /\ [MCNext]_mcvars => CommInv'
<1> SUFFICES ASSUME CommInv, [MCNext]_mcvars PROVE CommInv'
  OBVIOUS
<1>1. [Next]_vars /\ [ESNext]_esvars /\ [DCNext]_dcvars /\ [CPNext]_cpvars
  BY DEF MCNext, mcvars
<1> QED
  BY <1>1, AppTypeStep, ReadyStep, LeaveStep, IdStep, EventStep, CallStepInv, StoreTypeStep, KeptStep
     DEF CommInv

\* The safety of all parts of pnos-comm at once: what a component says of itself and
\* the id it comes back under, who unregisters it, what its listeners see, what its
\* callers try, and what its checkpoint file holds.
THEOREM CommIsSafe == MCSpec => []CommSafe
<1>1. CommInv => CommSafe
  BY DEF CommInv, CommSafe, RuntimeSafe, AppInv, ReadyInv, LeaveInv, OneLeaves, IdInv, EventInv, CallInv,
         KeptInv, CheckpointKept
<1> QED  BY <1>1, CommInit, CommNext, PTL DEF MCSpec
=============================================================================
