------------------------------ MODULE Discovery -----------------------------
(***************************************************************************)
(* Calling another component (pnos-comm: discovery.rs, client.rs and       *)
(* RuntimeClient::discover).  The address of the component comes from a    *)
(* cache: a fresh entry is used, an expired one is used too while a task   *)
(* of its own fetches the address anew, and without an entry the caller    *)
(* fetches it.  The core and the component are external: the component     *)
(* moves to other addresses, and it may be gone.                           *)
(***************************************************************************)
EXTENDS Naturals, FiniteSets

CONSTANTS
  Caller,          \* concurrent users of the client
  Refresh,         \* slots for background refreshes: a bound on the tasks spawned
  Retries,         \* call_retries (2)
  MaxMoves,        \* how often the component registers under another address
  MaxLost,         \* requests lost on the way, or answered with an error status
  Gone,            \* no address
  Free, Asking        \* a refresh slot without a task, and one that waits for the core

ASSUME CallLimits == Retries \in Nat /\ MaxMoves \in Nat /\ MaxLost \in Nat

VARIABLES
  addr,            \* where the component is: 0..MaxMoves, or Gone
  moves,
  entry,           \* the cache entry: an address, or Gone when there is none
  fresh,           \* it is younger than the TTL
  refresh,         \* what each refresh does: Free, Asking, or the address it was given
  phase,           \* what each caller does: "idle", "look", "ask", "have", "send",
                   \* "pause", "done" or "error"
  url,             \* the address a caller was given
  tries,           \* attempts of send_with_retry() so far
  lost

dcvars == <<addr, moves, entry, fresh, refresh, phase, url, tries, lost>>

Addr == 0..MaxMoves

DCTypeOK ==
  /\ addr \in Addr \cup {Gone} /\ moves \in Addr
  /\ entry \in Addr \cup {Gone} /\ fresh \in BOOLEAN
  /\ refresh \in [Refresh -> Addr \cup {Free, Asking}]
  /\ phase \in [Caller -> {"idle", "look", "ask", "have", "send", "pause", "done", "error"}]
  /\ url \in [Caller -> Addr \cup {Gone}]
  /\ tries \in [Caller -> 0..Retries + 1]
  /\ lost \in 0..MaxLost

DCInit ==
  /\ addr = 0 /\ moves = 0 /\ entry = Gone /\ fresh = FALSE
  /\ refresh = [r \in Refresh |-> Free]
  /\ phase = [c \in Caller |-> "idle"] /\ url = [c \in Caller |-> Gone]
  /\ tries = [c \in Caller |-> 0] /\ lost = 0

Goto(c, s) == phase' = [phase EXCEPT ![c] = s]

-----------------------------------------------------------------------------
(* The component and the clock *)

\* It restarts under another address, after it was gone or at once.
Move ==
  /\ moves < MaxMoves
  /\ moves' = moves + 1 /\ addr' \in {moves', Gone}
  /\ UNCHANGED <<entry, fresh, refresh, phase, url, tries, lost>>

ComeBack ==
  /\ addr = Gone /\ addr' = moves
  /\ UNCHANGED <<moves, entry, fresh, refresh, phase, url, tries, lost>>

Expire ==
  /\ fresh /\ fresh' = FALSE
  /\ UNCHANGED <<addr, moves, entry, refresh, phase, url, tries, lost>>

-----------------------------------------------------------------------------
(* DiscoveryCache *)

\* A caller starts, or tries again: each attempt looks the address up.
Begin(c) ==
  /\ phase[c] \in {"idle", "pause"}
  /\ tries' = [tries EXCEPT ![c] = @ + 1]
  /\ Goto(c, "look")
  /\ UNCHANGED <<addr, moves, entry, fresh, refresh, url, lost>>

\* discover(): every caller that finds the entry expired spawns a refresh.
Look(c) ==
  /\ phase[c] = "look"
  /\ IF entry = Gone
     THEN Goto(c, "ask") /\ UNCHANGED <<url, refresh>>
     ELSE /\ Goto(c, "send") /\ url' = [url EXCEPT ![c] = entry]
          /\ IF fresh THEN UNCHANGED refresh
             ELSE \E r \in Refresh :
               /\ refresh[r] = Free
               /\ refresh' = [refresh EXCEPT ![r] = Asking]
  /\ UNCHANGED <<addr, moves, entry, fresh, tries, lost>>

\* The core answers the caller, or does not know the component, which ends the
\* call; a request that fails on the way is tried again.
Fetched(c) ==
  /\ phase[c] = "ask"
  /\ IF addr = Gone THEN Goto(c, "error") /\ UNCHANGED url
     ELSE Goto(c, "have") /\ url' = [url EXCEPT ![c] = addr]
  /\ UNCHANGED <<addr, moves, entry, fresh, refresh, tries, lost>>

Stored(c) ==
  /\ phase[c] = "have" /\ Goto(c, "send")
  /\ entry' = url[c] /\ fresh' = TRUE
  /\ UNCHANGED <<addr, moves, refresh, url, tries, lost>>

\* A refresh that fails leaves the entry as it is.
RefreshAnswered(r) ==
  /\ refresh[r] = Asking
  /\ refresh' = [refresh EXCEPT ![r] = IF addr = Gone THEN Free ELSE addr]
  /\ UNCHANGED <<addr, moves, entry, fresh, phase, url, tries, lost>>

RefreshLost(r) ==
  /\ refresh[r] = Asking /\ lost < MaxLost
  /\ refresh' = [refresh EXCEPT ![r] = Free] /\ lost' = lost + 1
  /\ UNCHANGED <<addr, moves, entry, fresh, phase, url, tries>>

\* Mutant of RefreshStored: an entry that is there is left alone.
RefreshStoredOnce(r) ==
  /\ refresh[r] \in Addr
  /\ refresh' = [refresh EXCEPT ![r] = Free]
  /\ IF entry = Gone
     THEN entry' = refresh[r] /\ fresh' = TRUE ELSE UNCHANGED <<entry, fresh>>
  /\ UNCHANGED <<addr, moves, phase, url, tries, lost>>

\* The answer goes into the cache, whatever happened to the entry meanwhile.
RefreshStored(r) ==
  /\ refresh[r] \in Addr
  /\ refresh' = [refresh EXCEPT ![r] = Free]
  /\ entry' = refresh[r] /\ fresh' = TRUE
  /\ UNCHANGED <<addr, moves, phase, url, tries, lost>>

\* invalidate() or clear() by the user.
Invalidate ==
  /\ entry # Gone /\ entry' = Gone /\ fresh' = FALSE
  /\ UNCHANGED <<addr, moves, refresh, phase, url, tries, lost>>

-----------------------------------------------------------------------------
(* RequestBuilder *)

Fail(c) == Goto(c, IF tries[c] > Retries THEN "error" ELSE "pause")

\* The request reaches the component, or nobody is at that address any more.  The
\* cache keeps an address that did not answer.
Sent(c) ==
  /\ phase[c] = "send"
  /\ IF url[c] = addr THEN Goto(c, "done") ELSE Fail(c)
  /\ UNCHANGED <<addr, moves, entry, fresh, refresh, url, tries, lost>>

\* The request is lost, or answered with an error status: of the core that means there
\* is no such component, which is not tried again.
Lost(c) ==
  /\ phase[c] \in {"ask", "send"} /\ lost < MaxLost /\ lost' = lost + 1
  /\ Fail(c) \/ (phase[c] = "ask" /\ Goto(c, "error"))
  /\ UNCHANGED <<addr, moves, entry, fresh, refresh, url, tries>>

\* The caller has its answer and may call again.
Again(c) ==
  /\ phase[c] \in {"done", "error"} /\ Goto(c, "idle")
  /\ url' = [url EXCEPT ![c] = Gone] /\ tries' = [tries EXCEPT ![c] = 0]
  /\ UNCHANGED <<addr, moves, entry, fresh, refresh, lost>>

CallStep(c) == Look(c) \/ Fetched(c) \/ Stored(c) \/ Sent(c) \/ (phase[c] = "pause" /\ Begin(c))

DCNext ==
  \/ Move \/ ComeBack \/ Expire \/ Invalidate
  \/ \E c \in Caller : Begin(c) \/ Look(c) \/ Fetched(c) \/ Stored(c) \/ Sent(c) \/ Lost(c) \/ Again(c)
  \/ \E r \in Refresh : RefreshAnswered(r) \/ RefreshLost(r) \/ RefreshStored(r)

DCSpec == DCInit /\ [][DCNext]_dcvars

\* Tasks run, requests are answered or time out, entries grow old, and a component
\* that is gone comes back.  Nobody has to call.
DCFairness ==
  /\ WF_dcvars(ComeBack) /\ WF_dcvars(Expire)
  /\ \A c \in Caller : WF_dcvars(CallStep(c)) /\ WF_dcvars(Again(c))
  /\ \A r \in Refresh : WF_dcvars(RefreshAnswered(r)) /\ WF_dcvars(RefreshStored(r))

DCFairSpec == DCSpec /\ DCFairness

-----------------------------------------------------------------------------

\* A caller that keeps calling gets the component's last address into the cache
\* for good, whatever refreshes of older answers are still under way when it moved.
CacheCatchesUp ==
  (\A c \in Caller : []<>(phase[c] = "look")) => <>[](entry \in {addr, Gone})
=============================================================================
