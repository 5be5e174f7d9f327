---------------------------- MODULE FrameStream ----------------------------
(***************************************************************************)
(* One direction of a session's byte stream (session/frame.rs): the tasks  *)
(* that send frames through the writer lock, the bytes under way, and the  *)
(* receive loop at the other end that cuts them into frames again.         *)
(*                                                                         *)
(* Bytes are small numbers and the length field has two digits of a small  *)
(* base instead of four bytes, so that a header can arrive in pieces and a *)
(* length read at the wrong place is a number like any other.              *)
(***************************************************************************)
EXTENDS Naturals, Sequences, SequencesExt

CONSTANTS
  Sender,      \* one call of a sending function each
  Caller,      \* "send", "broadcast", "probe" or "reply": whose call it is
  Payload,     \* the payload of each call's frame, the kind byte in front
  Base,        \* of the digits of the length field
  MaxFrame,    \* MAX_FRAME_SIZE, counted without the length field
  MaxReadBuf,  \* MAX_READ_BUF
  Chunk,       \* the most one read() returns
  None

HeaderLen == 2                 \* the length field, FRAME_HEADER_SIZE - 1

ASSUME CallersKnown == Caller \in [Sender -> {"send", "broadcast", "probe", "reply"}]
ASSUME BytesAreDigits == \A s \in Sender : Payload[s] \in Seq(0..Base - 1) /\ Payload[s] # <<>>
ASSUME LengthFits == MaxFrame \in 1..(Base * Base - 1) /\ Chunk \in Nat \ {0}
\* The invariant frame.rs:35-40 asks for, the length field of a frame included.
ASSUME BufferHoldsAFrame == MaxReadBuf \in Nat /\ MaxReadBuf >= MaxFrame + HeaderLen
ASSUME BaseNat == Base \in Nat \ {0}
ASSUME NoneIsNothing == None \notin Sender \cup {"eof", "bad", "full", "left"}

VARIABLES
  pc,          \* where each call stands
  rest,        \* the bytes the call that is writing has still to write
  lock,        \* the holder of the writer lock
  wire,        \* bytes written and not yet read
  sent,        \* the calls whose frame was written in full, in order
  torn,        \* "no", "torn": a frame was cut short; "overrun": bytes followed
  session,     \* "up" in the registry, "closing" when removed, "down" when shut
  buf,         \* FrameReader::read_buf of the other end
  received,    \* the frames recv_frame has returned there
  reader       \* "reading", or how that loop ended: "eof", "bad", "full", "left"

sending   == <<pc, rest, lock, sent, torn>>
receiving == <<buf, received, reader>>
vars == <<sending, wire, session, receiving>>

-----------------------------------------------------------------------------
(* The wire format *)

FrameOf(s) ==
  LET n == Len(Payload[s]) IN <<n \div Base, n % Base>> \o Payload[s]

\* Mutant of FrameSize: FRAME_HEADER_SIZE + length, without the - 1.
FrameSizeLong(data) ==
  IF Len(data) < HeaderLen THEN 0
  ELSE LET total == HeaderLen + 1 + data[1] * Base + data[2] IN
       IF Len(data) >= total THEN total ELSE 0

\* frame_size_in_buffer: 0 when more bytes are needed.
FrameSize(data) ==
  IF Len(data) < HeaderLen THEN 0
  ELSE LET total == HeaderLen + data[1] * Base + data[2] IN
       IF Len(data) >= total THEN total ELSE 0

BadLength(data) ==
  /\ Len(data) >= HeaderLen
  /\ data[1] * Base + data[2] \notin 1..MaxFrame

-----------------------------------------------------------------------------
Init ==
  /\ pc = [s \in Sender |-> "idle"]
  /\ rest = [s \in Sender |-> <<>>]
  /\ lock = None
  /\ wire = <<>>
  /\ sent = <<>>
  /\ torn = "no"
  /\ session = "up"
  /\ buf = <<>>
  /\ received = <<>>
  /\ reader = "reading"

Goto(s, label) == pc' = [pc EXCEPT ![s] = label]

\* The guard of the writer lock is dropped when the sending function returns.
Unlock(s) == lock' = IF lock = s THEN None ELSE lock

-----------------------------------------------------------------------------
(* Sending *)

\* The session is looked up, or, for a reply, is the receive loop's own; a frame
\* that is too long is refused before the lock is taken.
Start(s) ==
  /\ pc[s] = "idle"
  /\ session = "up" \/ Caller[s] = "reply"
  /\ Goto(s, IF Len(Payload[s]) > MaxFrame THEN "refused" ELSE "lock")
  /\ UNCHANGED <<rest, lock, sent, torn, wire, session, receiving>>

NoSession(s) ==
  /\ pc[s] = "idle"
  /\ session # "up"
  /\ Caller[s] # "reply"
  /\ Goto(s, "refused")
  /\ UNCHANGED <<rest, lock, sent, torn, wire, session, receiving>>

\* lock().await, or one of the try_lock() of a high-priority frame.
Acquire(s) ==
  /\ pc[s] = "lock"
  /\ lock = None
  /\ lock' = s
  /\ rest' = [rest EXCEPT ![s] = FrameOf(s)]
  /\ Goto(s, "write")
  /\ UNCHANGED <<sent, torn, wire, session, receiving>>

\* write_all takes as many bytes as the socket has room for.
Write(s) ==
  /\ pc[s] = "write"
  /\ session # "down"
  /\ \E k \in 1..Len(rest[s]) :
       /\ wire' = wire \o SubSeq(rest[s], 1, k)
       /\ rest' = [rest EXCEPT ![s] = SubSeq(@, k + 1, Len(@))]
       /\ IF k = Len(rest[s])
          THEN Goto(s, "sent") /\ Unlock(s) /\ sent' = Append(sent, s)
          ELSE UNCHANGED <<pc, lock, sent>>
  /\ torn' = IF torn = "no" THEN "no" ELSE "overrun"
  /\ UNCHANGED <<session, receiving>>

\* Mutant of WriteFails: the error path keeps the guard.
WriteFailsLocked(s) ==
  /\ pc[s] = "write"
  /\ Goto(s, "failed")
  /\ torn' = IF torn = "no" /\ rest[s] # FrameOf(s) THEN "torn" ELSE torn
  /\ rest' = [rest EXCEPT ![s] = <<>>]
  /\ UNCHANGED <<lock, sent, wire, session, receiving>>

\* The write timeout, or an error of the socket; what was written stays written.
WriteFails(s) ==
  /\ pc[s] = "write"
  /\ Goto(s, "failed")
  /\ Unlock(s)
  /\ torn' = IF torn = "no" /\ rest[s] # FrameOf(s) THEN "torn" ELSE torn
  /\ rest' = [rest EXCEPT ![s] = <<>>]
  /\ UNCHANGED <<sent, wire, session, receiving>>

\* PROBE_SEND_TIMEOUT drops the whole send, wherever it is waiting.
ProbeTimeout(s) ==
  /\ Caller[s] = "probe"
  /\ pc[s] = "lock"
  /\ Goto(s, "failed")
  /\ UNCHANGED <<rest, lock, sent, torn, wire, session, receiving>>

\* Mutant of Teardown: the error is only returned to the caller of send.
TeardownForgotten(s) ==
  /\ pc[s] = "failed"
  /\ Goto(s, "done")
  /\ session' = IF Caller[s] = "probe" /\ session = "up" THEN "closing" ELSE session
  /\ UNCHANGED <<rest, lock, sent, torn, wire, receiving>>

\* send and tick disconnect the session; broadcast and the reply to a probe
\* leave it to the receive loop.
Teardown(s) ==
  /\ pc[s] = "failed"
  /\ Goto(s, "done")
  /\ session' = IF Caller[s] \in {"send", "probe"} /\ session = "up" THEN "closing"
                                                                     ELSE session
  /\ UNCHANGED <<rest, lock, sent, torn, wire, receiving>>

\* disconnect() for any other reason.
Disconnect ==
  /\ session = "up"
  /\ session' = "closing"
  /\ UNCHANGED <<sending, wire, receiving>>

\* transport.close() waits for the writer lock like any sender.
CloseTransport ==
  /\ session = "closing"
  /\ lock = None
  /\ session' = "down"
  /\ UNCHANGED <<sending, wire, receiving>>

-----------------------------------------------------------------------------
(* Receiving: recv_frame in the loop at the other end *)

Deliver ==
  /\ reader = "reading"
  /\ FrameSize(buf) > 0 /\ ~ BadLength(buf)
  /\ received' = Append(received, SubSeq(buf, HeaderLen + 1, FrameSize(buf)))
  /\ buf' = SubSeq(buf, FrameSize(buf) + 1, Len(buf))
  /\ UNCHANGED <<sending, wire, session, reader>>

\* Mutant of Ending: a limit below the longest frame, as frame.rs:38-41 warns.
EndingTight ==
  IF BadLength(buf) THEN "bad"
  ELSE IF FrameSize(buf) > 0 THEN None
  ELSE IF Len(buf) > MaxFrame THEN "full"
  ELSE IF session = "down" /\ wire = <<>> THEN "eof" ELSE None

\* The errors of recv_frame, in the order it looks for them.
Ending ==
  IF BadLength(buf) THEN "bad"
  ELSE IF FrameSize(buf) > 0 THEN None
  ELSE IF Len(buf) > MaxReadBuf THEN "full"
  ELSE IF session = "down" /\ wire = <<>> THEN "eof" ELSE None

\* Mutant of Read: reads first, and looks for frames afterwards.
ReadFirst ==
  /\ reader = "reading"
  /\ Ending = None
  /\ \E k \in 1..Chunk :
       /\ k <= Len(wire)
       /\ buf' = buf \o SubSeq(wire, 1, k)
       /\ wire' = SubSeq(wire, k + 1, Len(wire))
  /\ UNCHANGED <<sending, session, received, reader>>

\* Only while no frame is complete.
Read ==
  /\ reader = "reading"
  /\ FrameSize(buf) = 0 /\ Ending = None
  /\ \E k \in 1..Chunk :
       /\ k <= Len(wire)
       /\ buf' = buf \o SubSeq(wire, 1, k)
       /\ wire' = SubSeq(wire, k + 1, Len(wire))
  /\ UNCHANGED <<sending, session, received, reader>>

ReaderEnds ==
  /\ reader = "reading"
  /\ Ending # None
  /\ reader' = Ending
  /\ UNCHANGED <<sending, wire, session, buf, received>>

\* The loop of the other end stops whatever has arrived: the connection is lost,
\* and with it what was under way, or the session is shut down or closed there.
ReaderLeaves ==
  /\ reader = "reading"
  /\ reader' = "left"
  /\ UNCHANGED <<sending, wire, session, buf, received>>

-----------------------------------------------------------------------------
SendStep(s) == Write(s) \/ WriteFails(s) \/ Teardown(s)
ReaderStep  == Deliver \/ Read \/ ReaderEnds

Next ==
  \/ \E s \in Sender :
       Start(s) \/ NoSession(s) \/ Acquire(s) \/ ProbeTimeout(s) \/ SendStep(s)
  \/ Disconnect \/ CloseTransport
  \/ ReaderStep \/ ReaderLeaves

Spec == Init /\ [][Next]_vars

\* The lock is handed on in the order of its waiters, a write that makes no
\* progress times out, and the receive loop reads what has arrived.
Fairness ==
  /\ \A s \in Sender : SF_vars(Acquire(s)) /\ WF_vars(SendStep(s))
  /\ SF_vars(CloseTransport)
  /\ WF_vars(ReaderStep)

FairSpec == Spec /\ Fairness
-----------------------------------------------------------------------------
(* Properties *)

\* The types, and what recv_frame may hold: one read beyond an unfinished frame,
\* whatever the other end sends (frame.rs:36-42).
TypeOK ==
  /\ pc \in [Sender -> {"idle", "refused", "lock", "write", "sent", "failed", "done"}]
  /\ lock \in Sender \cup {None}
  /\ torn \in {"no", "torn", "overrun"}
  /\ session \in {"up", "closing", "down"}
  /\ reader \in {"reading", "eof", "bad", "full", "left"}
  /\ sent \in Seq(Sender)
  /\ buf \in Seq(0..Base - 1) /\ Len(buf) < MaxFrame + HeaderLen + Chunk

Frames(calls) == [i \in DOMAIN calls |-> Payload[calls[i]]]

\* As long as nothing was written after a frame that was cut short, the other
\* end gets the frames that were written in full, whole and in order, however
\* the writes of several tasks and the reads are cut up, and its loop does not
\* take a legal stream for a bad one (frame.rs:30-40, 127-146, 301-329).
FramesIntact ==
  torn # "overrun" => IsPrefix(received, Frames(sent)) /\ reader \notin {"bad", "full"}

\* ... and it gets all of them as long as it listens: Ok from a send says only that
\* the local transport took the bytes, and the frame then arrives, a close of the
\* sender's end notwithstanding, unless the connection is lost or the other end
\* leaves its receive loop first (frame.rs:301-329, acceptor.rs:151-181).
SentArrives ==
  \A s \in Sender :
    pc[s] = "sent" ~> \/ torn = "overrun" \/ reader = "left"
                      \/ \E i \in DOMAIN received : sent[i] = s

\* Every call that is waiting for the lock or for the socket comes back.
SendsReturn == \A s \in Sender : pc[s] \in {"lock", "write", "failed"}
                                   ~> pc[s] \in {"sent", "done"}

\* "A write timeout or IO error means the state of the frame is unknown; the
\* session must be torn down so that both ends rebuild it" (mod.rs:478-480):
\* when a send() or a probe gave up, wherever it was waiting, the session comes
\* down.  Of broadcast() and of a reply this does not hold: they log the error.
FailedSendEndsSession ==
  \A s \in Sender : Caller[s] \in {"send", "probe"} /\ pc[s] = "failed" ~> session = "down"
=============================================================================
