----------------------------- MODULE Keepalive -----------------------------
(***************************************************************************)
(* Both ends of one session with their keepalive (session/heartbeat.rs):   *)
(* the task tick() spawns for the session, the tracker of probes, and the  *)
(* receive loop that answers a probe before it reads on.                   *)
(*                                                                         *)
(* The two directions hold a bounded number of frames, so that a writer    *)
(* waits for the other end to read.  FrameStream has the bytes of one      *)
(* direction; here a frame is written and read whole.                      *)
(***************************************************************************)
EXTENDS Naturals, Sequences

CONSTANTS
  Node,        \* the two ends
  Tick,        \* one probe task each, of the rounds of tick() at either end
  Send,        \* calls of send() with a frame of the application
  End,         \* the end each of these tasks belongs to
  ProbeKind,   \* SessionConfig::heartbeat_kind
  ReplyKind,   \* SessionConfig::heartbeat_reply_kind
  DataKind,    \* any other kind
  Window,      \* the frames a direction holds until the other end reads
  None

Sender == Tick \cup Send
Loop == "loop"              \* the receive loop, as a holder of the writer lock

ASSUME TwoEnds == \A n \in Node : \E m \in Node : Node = {n, m} /\ n # m
ASSUME TasksHaveEnds == End \in [Sender -> Node]
ASSUME TasksDiffer == Tick \cap Send = {} /\ None \notin Sender \cup {Loop}
ASSUME DataIsNoKeepalive == DataKind \notin {ProbeKind, ReplyKind}
ASSUME WindowNat == Window \in Nat \ {0}

VARIABLES
  pc,          \* where each sending task stands
  lock,        \* the holder of each end's writer lock
  wire,        \* the frames each end has written and the other not read
  session,     \* "up" in the registry, "closing" when removed, "down" when shut
  loop,        \* the receive loop of each end
  answering,   \* the probe it is answering
  probe_sent   \* the HeartbeatTracker entry of this session: whose probe

vars == <<pc, lock, wire, session, loop, answering, probe_sent>>

Other(n) == CHOOSE m \in Node : m # n

Init ==
  /\ pc = [x \in Sender |-> "idle"]
  /\ lock = [n \in Node |-> None]
  /\ wire = [n \in Node |-> <<>>]
  /\ session = [n \in Node |-> "up"]
  /\ loop = [n \in Node |-> "read"]
  /\ answering = [n \in Node |-> None]
  /\ probe_sent = [n \in Node |-> None]

Goto(x, label) == pc' = [pc EXCEPT ![x] = label]

\* disconnect(), when the session is still in the registry.
Disconnected(n) == [session EXCEPT ![n] = IF @ = "up" THEN "closing" ELSE @]

-----------------------------------------------------------------------------
(* Sending: send(), and the probe of a round of tick() *)

\* send() finds the session; tick() has it in its snapshot, and nothing was sent
\* for heartbeat_interval.
Start(x) ==
  /\ pc[x] = "idle"
  /\ session[End[x]] = "up"
  /\ Goto(x, "lock")
  /\ UNCHANGED <<lock, wire, session, loop, answering, probe_sent>>

Acquire(x) ==
  /\ pc[x] = "lock"
  /\ lock[End[x]] = None
  /\ lock' = [lock EXCEPT ![End[x]] = x]
  /\ Goto(x, "write")
  /\ UNCHANGED <<wire, session, loop, answering, probe_sent>>

\* A frame, and the task that caused it: a reply carries that of the probe.
Frame(x) == [kind |-> IF x \in Tick THEN ProbeKind ELSE DataKind, of |-> x]

Room(n) == session[n] # "down" /\ Len(wire[n]) < Window

\* The write ends, the guard is dropped, and only then the probe is recorded.
Write(x) ==
  /\ pc[x] = "write"
  /\ Room(End[x])
  /\ wire' = [wire EXCEPT ![End[x]] = Append(@, Frame(x))]
  /\ lock' = [lock EXCEPT ![End[x]] = None]
  /\ Goto(x, IF x \in Tick THEN "mark" ELSE "done")
  /\ UNCHANGED <<session, loop, answering, probe_sent>>

\* Mutant of SendFails: the error is returned and the session kept.
SendFailsQuietly(x) ==
  /\ pc[x] = "write" \/ (x \in Tick /\ pc[x] = "lock")
  /\ lock' = [lock EXCEPT ![End[x]] = IF @ = x THEN None ELSE @]
  /\ Goto(x, "failed")
  /\ UNCHANGED <<wire, session, loop, answering, probe_sent>>

\* The write timeout or an error of the socket; a probe also times out while it
\* waits for the lock.  Both callers disconnect.
SendFails(x) ==
  /\ pc[x] = "write" \/ (x \in Tick /\ pc[x] = "lock")
  /\ lock' = [lock EXCEPT ![End[x]] = IF @ = x THEN None ELSE @]
  /\ Goto(x, "failed")
  /\ session' = Disconnected(End[x])
  /\ UNCHANGED <<wire, loop, answering, probe_sent>>

\* mark_probe
Mark(x) ==
  /\ pc[x] = "mark"
  /\ probe_sent' = [probe_sent EXCEPT ![End[x]] = x]
  /\ Goto(x, "done")
  /\ UNCHANGED <<lock, wire, session, loop, answering>>

\* disconnect() by the application, or by tick() after idle_timeout.
Disconnect(n) ==
  /\ session[n] = "up"
  /\ session' = Disconnected(n)
  /\ UNCHANGED <<pc, lock, wire, loop, answering, probe_sent>>

\* transport.close() waits for the writer lock.
Shut(n) ==
  /\ session[n] = "closing"
  /\ lock[n] = None
  /\ session' = [session EXCEPT ![n] = "down"]
  /\ UNCHANGED <<pc, lock, wire, loop, answering, probe_sent>>

-----------------------------------------------------------------------------
(* The receive loop and handle_keepalive() *)

\* Mutant of MustAnswer: every keepalive frame is answered, the answers too.
MustAnswerAny(frame) == frame.kind \in {ProbeKind, ReplyKind} /\ ReplyKind # None

MustAnswer(frame) ==
  /\ frame.kind = ProbeKind
  /\ ReplyKind # None
  /\ ReplyKind # frame.kind

\* take_probe: any keepalive frame ends the wait for an answer.
Read(n) ==
  /\ loop[n] = "read"
  /\ wire[Other(n)] # <<>>
  /\ LET frame == Head(wire[Other(n)])
         keepalive == frame.kind \in {ProbeKind, ReplyKind}
     IN /\ wire' = [wire EXCEPT ![Other(n)] = Tail(@)]
        /\ probe_sent' = [probe_sent EXCEPT ![n] = IF keepalive THEN None ELSE @]
        /\ IF MustAnswer(frame)
           THEN /\ loop' = [loop EXCEPT ![n] = "lock"]
                /\ answering' = [answering EXCEPT ![n] = frame.of]
           ELSE UNCHANGED <<loop, answering>>
  /\ UNCHANGED <<pc, lock, session>>

ReplyAcquire(n) ==
  /\ loop[n] = "lock"
  /\ lock[n] = None
  /\ lock' = [lock EXCEPT ![n] = Loop]
  /\ loop' = [loop EXCEPT ![n] = "write"]
  /\ UNCHANGED <<pc, wire, session, answering, probe_sent>>

ReplyDone(n) ==
  /\ lock' = [lock EXCEPT ![n] = None]
  /\ loop' = [loop EXCEPT ![n] = "read"]
  /\ answering' = [answering EXCEPT ![n] = None]

ReplyWrite(n) ==
  /\ loop[n] = "write"
  /\ Room(n)
  /\ wire' = [wire EXCEPT ![n] = Append(@, [kind |-> ReplyKind, of |-> answering[n]])]
  /\ ReplyDone(n)
  /\ UNCHANGED <<pc, session, probe_sent>>

\* Mutant of ReplyFails: the loop reads on with the writer lock in its hands.
ReplyFailsLocked(n) ==
  /\ loop[n] = "write"
  /\ loop' = [loop EXCEPT ![n] = "read"]
  /\ answering' = [answering EXCEPT ![n] = None]
  /\ UNCHANGED <<pc, lock, wire, session, probe_sent>>

\* A reply that cannot be written is logged, and the loop reads on.
ReplyFails(n) ==
  /\ loop[n] = "write"
  /\ ReplyDone(n)
  /\ UNCHANGED <<pc, wire, session, probe_sent>>

\* End of stream, or wait_closed: forget the probe, disconnect.
LoopEnds(n) ==
  /\ loop[n] = "read"
  /\ \/ session[n] # "up"
     \/ session[Other(n)] = "down" /\ wire[Other(n)] = <<>>
  /\ loop' = [loop EXCEPT ![n] = "ended"]
  /\ probe_sent' = [probe_sent EXCEPT ![n] = None]
  /\ session' = Disconnected(n)
  /\ UNCHANGED <<pc, lock, wire, answering>>

-----------------------------------------------------------------------------
SendStep(x)  == Write(x) \/ SendFails(x) \/ Mark(x)
ReplyStep(n) == ReplyWrite(n) \/ ReplyFails(n)

Next ==
  \/ \E x \in Sender : Start(x) \/ Acquire(x) \/ SendStep(x)
  \/ \E n \in Node :
       \/ Read(n) \/ ReplyAcquire(n) \/ ReplyStep(n) \/ LoopEnds(n)
       \/ Disconnect(n) \/ Shut(n)

Spec == Init /\ [][Next]_vars

\* The writer lock is fair, a write ends or times out, and a loop that has
\* something to read or a reason to end is polled.
Fairness ==
  /\ \A x \in Sender : SF_vars(Acquire(x)) /\ WF_vars(SendStep(x))
  /\ \A n \in Node :
       /\ SF_vars(ReplyAcquire(n)) /\ WF_vars(ReplyStep(n))
       /\ WF_vars(Read(n)) /\ WF_vars(LoopEnds(n))
       /\ SF_vars(Shut(n))

FairSpec == Spec /\ Fairness
-----------------------------------------------------------------------------
(* Properties *)

\* Keepalive frames do not breed keepalive frames: when the application has
\* nothing more to send, the link falls silent (heartbeat.rs:239-257).
LinkFallsSilent ==
  <>[](\A n \in Node : wire[n] = <<>> \/ loop[Other(n)] = "ended")

\* Whoever gives the session up, for whatever reason and however far the other
\* end is behind, the other end gives it up too (heartbeat.rs:60-73).
BothEndsEnd ==
  \A n \in Node : session[n] # "up" ~> \A m \in Node : session[m] = "down" /\ loop[m] = "ended"

\* A writer that a full window holds up brings the session down when it gives up.
StuckSendEndsSession ==
  \A x \in Sender :
    pc[x] = "write" ~> pc[x] \in {"mark", "done"} \/ session[End[x]] = "down"
=============================================================================
