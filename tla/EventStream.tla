----------------------------- MODULE EventStream ----------------------------
(***************************************************************************)
(* Events of a component (pnos-comm: ws.rs, events.rs, lib.rs init steps   *)
(* 14 to 17).  The WebSocket task connects, sends what is subscribed, and  *)
(* queues what arrives; the dispatcher drops what it has seen before and   *)
(* spawns the handlers.  The core is external: it sends what was asked of  *)
(* it on this connection, and after a reconnect it sends it all again      *)
(* (events.rs:31).                                                         *)
(***************************************************************************)
EXTENDS Naturals, Sequences, FiniteSets

CONSTANTS
  Pattern,         \* the patterns given to on_event()
  Matches,         \* the pairs <<event, pattern>> for which dispatch() runs a handler
  KeyOf,           \* type:source:timestamp of each event: not all of them differ
  Window,          \* EventDeduplicator::max_size (10000)
  MaxEvents,       \* events that the core publishes
  MaxDrops         \* connections that fail or break

ASSUME StreamLimits == Window \in Nat \ {0} /\ MaxEvents \in Nat /\ MaxDrops \in Nat
\* The type is a part of the key.
ASSUME KeysMatch ==
  \A d, e \in DOMAIN KeyOf : KeyOf[d] = KeyOf[e] =>
    \A p \in Pattern : <<d, p>> \in Matches <=> <<e, p>> \in Matches

VARIABLES
  ws,              \* WsClient::run: "off", "connect", "live", "backoff" or "closed"
  subs,            \* WsClient::subscriptions
  served,          \* what the core was asked for on this connection
  log,             \* how many events the core has published: 1..log
  net,             \* messages under way on this connection
  queue,           \* the unbounded channel to the dispatcher
  seen,            \* EventDeduplicator::seen, an event standing for its key
  pushing,         \* patterns whose listener a spawned task has yet to push
  listeners,       \* patterns in EventDispatcher::listeners
  handled,         \* history: the handlers spawned for an event and a pattern
  evicted,         \* history: events that fell out of the window
  shut, drops

esvars == <<ws, subs, served, log, net, queue, seen, pushing, listeners, handled, evicted, shut, drops>>

Event == 1..MaxEvents

ESTypeOK ==
  /\ ws \in {"off", "connect", "live", "backoff", "closed"}
  /\ subs \subseteq Pattern /\ served \subseteq Pattern
  /\ pushing \subseteq Pattern /\ listeners \subseteq Pattern
  /\ log \in 0..MaxEvents /\ drops \in 0..MaxDrops /\ shut \in BOOLEAN
  /\ net \in Seq(Event) /\ queue \in Seq(Event) /\ seen \in Seq(Event)
  /\ Len(seen) <= Window
  /\ handled \in [Event \X Pattern -> Nat] /\ evicted \subseteq Event

ESInit ==
  /\ ws = "off" /\ subs = {} /\ served = {} /\ log = 0
  /\ net = <<>> /\ queue = <<>> /\ seen = <<>>
  /\ pushing = {} /\ listeners = {}
  /\ handled = [x \in Event \X Pattern |-> 0] /\ evicted = {}
  /\ shut = FALSE /\ drops = 0

Wanted(e, S) == \E p \in S : <<e, p>> \in Matches

-----------------------------------------------------------------------------
(* The core (external) *)

Publish ==
  /\ ws # "off" /\ log < MaxEvents
  /\ log' = log + 1
  /\ net' = IF ws = "live" /\ Wanted(log', served) THEN Append(net, log') ELSE net
  /\ UNCHANGED <<ws, subs, served, queue, seen, pushing, listeners, handled, evicted, shut, drops>>

\* What is sent first on a connection: everything published that was asked for, the
\* oldest first (the one sequence of these events in which they grow).
Replay(S) ==
  LET W == {e \in 1..log : Wanted(e, S)} IN
  {q \in [1..Cardinality(W) -> W] : \A i, j \in DOMAIN q : i < j => q[i] < q[j]}

-----------------------------------------------------------------------------
(* The WebSocket task *)

\* init() starts it once a token is there.
WsStart ==
  /\ ws = "off" /\ ws' = "connect"
  /\ UNCHANGED <<subs, served, log, net, queue, seen, pushing, listeners, handled, evicted, shut, drops>>

\* Mutant of WsConnected: only what was subscribed on the first connection is asked for.
WsConnectedOnce ==
  /\ ws = "connect"
  /\ ws' = "live" /\ served' = (IF drops = 0 THEN subs ELSE {})
  /\ net' \in Replay(served')
  /\ UNCHANGED <<subs, log, queue, seen, pushing, listeners, handled, evicted, shut, drops>>

\* The subscriptions of this moment are sent, and no others on this connection.
WsConnected ==
  /\ ws = "connect"
  /\ ws' = "live" /\ served' = subs /\ net' \in Replay(subs)
  /\ UNCHANGED <<subs, log, queue, seen, pushing, listeners, handled, evicted, shut, drops>>

\* Connecting, a ping, a read or the core fails; what is under way is lost.
WsBroken ==
  /\ ws \in {"connect", "live"} /\ drops < MaxDrops
  /\ ws' = "backoff" /\ drops' = drops + 1
  /\ served' = {} /\ net' = <<>>
  /\ UNCHANGED <<subs, log, queue, seen, pushing, listeners, handled, evicted, shut>>

WsReconnect ==
  /\ ws = "backoff" /\ ws' = "connect"
  /\ UNCHANGED <<subs, served, log, net, queue, seen, pushing, listeners, handled, evicted, shut, drops>>

\* handle_text_message()
Receive ==
  /\ ws = "live" /\ net # <<>>
  /\ net' = Tail(net) /\ queue' = Append(queue, Head(net))
  /\ UNCHANGED <<ws, subs, served, log, seen, pushing, listeners, handled, evicted, shut, drops>>

\* notify_waiters() wakes the task where it waits for the signal; in the pause
\* before a reconnect it does not wait, and the signal is lost.
WsShutdown ==
  /\ ws # "off" /\ ~shut
  /\ shut' = TRUE
  /\ IF ws \in {"connect", "live"}
     THEN ws' = "closed" /\ served' = {} /\ net' = <<>>
     ELSE UNCHANGED <<ws, served, net>>
  /\ UNCHANGED <<subs, log, queue, seen, pushing, listeners, handled, evicted, drops>>

-----------------------------------------------------------------------------
(* Subscriptions and listeners *)

\* init() records the pattern, and spawns a task that pushes its listener.
Subscribe(p) ==
  /\ ws # "off" /\ p \notin pushing \cup listeners
  /\ subs' = subs \cup {p} /\ pushing' = pushing \cup {p}
  /\ UNCHANGED <<ws, served, log, net, queue, seen, listeners, handled, evicted, shut, drops>>

PushListener(p) ==
  /\ p \in pushing
  /\ pushing' = pushing \ {p} /\ listeners' = listeners \cup {p}
  /\ UNCHANGED <<ws, subs, served, log, net, queue, seen, handled, evicted, shut, drops>>

\* The core is not told, and the listener stays.
Unsubscribe(p) ==
  /\ p \in subs /\ p \in listeners
  /\ subs' = subs \ {p}
  /\ UNCHANGED <<ws, served, log, net, queue, seen, pushing, listeners, handled, evicted, shut, drops>>

-----------------------------------------------------------------------------
(* The dispatcher *)

SameKey(d, e) == KeyOf[d] = KeyOf[e]

\* check_and_mark() knows an event by its key alone.
New(e) == \A i \in DOMAIN seen : ~SameKey(seen[i], e)

\* The oldest entry goes when there are too many.
Marked(e) == IF Len(seen) < Window THEN Append(seen, e) ELSE Append(Tail(seen), e)

\* An event is marked first, then it goes to the listeners there are.
Dispatch ==
  /\ queue # <<>> /\ queue' = Tail(queue)
  /\ LET e == Head(queue) IN
     IF New(e)
     THEN /\ seen' = Marked(e)
          /\ evicted' = IF Len(seen) < Window THEN evicted ELSE evicted \cup {Head(seen)}
          /\ handled' = [x \in Event \X Pattern |->
                IF x[1] = e /\ x[2] \in listeners /\ x \in Matches THEN handled[x] + 1 ELSE handled[x]]
     ELSE UNCHANGED <<seen, evicted, handled>>
  /\ UNCHANGED <<ws, subs, served, log, net, pushing, listeners, shut, drops>>

ESNext ==
  \/ Publish \/ WsStart \/ WsConnected \/ WsBroken \/ WsReconnect \/ Receive \/ WsShutdown
  \/ \E p \in Pattern : Subscribe(p) \/ PushListener(p) \/ Unsubscribe(p)
  \/ Dispatch

ESSpec == ESInit /\ [][ESNext]_esvars

\* The tasks are scheduled, and a core that is up takes the connection.
ESFairness ==
  /\ WF_esvars(WsConnected) /\ WF_esvars(WsReconnect)
  /\ WF_esvars(Receive) /\ WF_esvars(Dispatch)
  /\ \A p \in Pattern : WF_esvars(PushListener(p))

ESFairSpec == ESSpec /\ ESFairness

-----------------------------------------------------------------------------

\* A listener sees an event once, however often a reconnect replays it, unless
\* as many other events as the window holds came in between (events.rs:31-34).
HandledOnce == \A x \in Event \X Pattern : handled[x] > 1 => x[1] \in evicted

\* The window forgets an event before another of its key can be handled.
WindowIsRecent == \A i, j \in DOMAIN seen : i # j => ~SameKey(seen[i], seen[j])

StreamSafe == ESTypeOK /\ HandledOnce /\ WindowIsRecent

\* An event that was published for a subscription whose listener was there, and
\* that was not yet dispatched, reaches its handler across broken connections and
\* replays, as long as the subscription stays and the client is not closed: it, or
\* another event with the same key, for one of those is all that gets through.
EventsArrive ==
  \A x \in Event \X Pattern :
    (/\ x \in Matches /\ x[1] <= log /\ x[2] \in listeners /\ x[2] \in served
     /\ New(x[1]) /\ \A e \in evicted : ~SameKey(e, x[1]))
      ~> \/ \E e \in Event : SameKey(e, x[1]) /\ handled[<<e, x[2]>>] > 0
         \/ x[2] \notin subs \/ ws = "closed"

\* "True means a new event, false a repeated one" (events.rs:49-50), which it tells
\* by an event_id according to events.rs:31-34: what the dispatcher drops is an event
\* that it has marked before.
OnlyRepeatsDropped ==
  [][queue # <<>> /\ queue' = Tail(queue) /\ seen' = seen
       => \E i \in DOMAIN seen : seen[i] = Head(queue)]_esvars

\* A pattern recorded while the connection is up is sent on it: ws.rs:68-69 says
\* that run() does the sending.
SubscriptionsSent ==
  \A p \in Pattern : (p \in subs /\ ws = "live") ~> (p \in served \/ p \notin subs \/ ws # "live")
=============================================================================
