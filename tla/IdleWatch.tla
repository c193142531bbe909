----------------------------- MODULE IdleWatch -----------------------------
(***************************************************************************)
(* Watching a mailbox while its user looks at the thread list: a refresh   *)
(* has the long poller watch each IMAP and JMAP exchange for some minutes  *)
(* and queue a dispatch, which fetches from the cursor, for what it sees.  *)
(*                                                                         *)
(* The mails of the mailbox are numbered in the order they arrive, and a   *)
(* dispatch that runs reaches all that have arrived.                       *)
(***************************************************************************)
EXTENDS Naturals, FiniteSets

CONSTANTS
  Platforms,    \* of "imap" and "jmap"
  Iterations,   \* JMAP_POLL_ITERATIONS
  MaxMails, MaxRefreshes, MaxFaults

VARIABLES
  platform,
  push,         \* a JMAP push subscription is active
  arrived,      \* mails that have arrived
  reached,      \* mails a dispatch has reached: where the cursor of the row stands
  synced,       \* lastSyncAt is less than RECENT_SYNC_THRESHOLD_MS ago
  dispatches,   \* dispatch messages on their way
  refreshes,    \* idle messages on their way
  asked,        \* refreshes so far
  session,      \* of the long poller
  gap,          \* history: mails that arrived after the catch-up ran, before IDLE began
  faulted,      \* history: a request or a send of this session failed
  faults

vars == <<platform, push, arrived, reached, synced, dispatches, refreshes, asked, session, gap,
          faulted, faults>>

Closed == [pc |-> "closed", cursor |-> 0, polls |-> 0, until |-> 0]

Init ==
  /\ platform \in Platforms
  /\ push \in IF platform = "jmap" THEN BOOLEAN ELSE {FALSE}
  /\ arrived = 0 /\ reached = 0 /\ synced = FALSE
  /\ dispatches = 0 /\ refreshes = 0 /\ asked = 0
  /\ session = Closed /\ gap = 0 /\ faulted = FALSE /\ faults = 0

Fault == faults < MaxFaults /\ faults' = faults + 1 /\ faulted' = TRUE
fixed == <<platform, push>>
calm == <<faulted, faults>>

-----------------------------------------------------------------------------
(* Around the session. *)

SendToLongPoller == refreshes' = refreshes + 1

\* GET threads with the refresh parameter; a failure to queue the message is logged.
Refresh ==
  /\ asked < MaxRefreshes /\ asked' = asked + 1
  /\ SendToLongPoller
  /\ UNCHANGED <<fixed, arrived, reached, synced, dispatches, session, gap, calm>>

\* The IDLE session hears of a mail that arrives while it is open.
Arrive ==
  /\ arrived < MaxMails /\ arrived' = arrived + 1
  /\ gap' = IF session.pc = "open" /\ dispatches = 0 THEN gap + 1 ELSE gap
  /\ session' = IF session.pc = "idle" THEN [session EXCEPT !.pc = "heard"] ELSE session
  /\ UNCHANGED <<fixed, reached, synced, dispatches, refreshes, asked, calm>>

\* A dispatch runs, as module Exchanges has it; here it succeeds.
RunDispatch ==
  /\ dispatches > 0 /\ dispatches' = dispatches - 1
  /\ reached' = arrived /\ synced' = TRUE
  /\ UNCHANGED <<fixed, arrived, refreshes, asked, session, gap, calm>>

FiveMinutesPass ==
  /\ synced /\ synced' = FALSE
  /\ UNCHANGED <<fixed, arrived, reached, dispatches, refreshes, asked, session, gap, calm>>

-----------------------------------------------------------------------------
(* The worker.  What was synced within minutes, and JMAP with push, is left alone. *)

Skipped == synced \/ push

Start ==
  /\ session.pc \in {"closed", "timeout", "error", "told"} /\ refreshes > 0
  /\ refreshes' = refreshes - 1
  /\ session' = IF Skipped THEN Closed
                ELSE [Closed EXCEPT !.pc = IF platform = "imap" THEN "catchup" ELSE "poll",
                                    !.cursor = reached, !.polls = Iterations]
  /\ gap' = 0 /\ faulted' = FALSE
  /\ UNCHANGED <<fixed, arrived, reached, synced, dispatches, asked, faults>>

Ends(how) == session' = [session EXCEPT !.pc = how, !.until = arrived]

Queue(n) == dispatches' = dispatches + n

\* A send that fails is logged.
CatchUpDispatch == (Queue(1) /\ UNCHANGED calm) \/ (Queue(0) /\ Fault)

CatchUp ==
  /\ session.pc = "catchup"
  /\ CatchUpDispatch
  /\ session' = [session EXCEPT !.pc = "open"]
  /\ UNCHANGED <<fixed, arrived, reached, synced, refreshes, asked, gap>>

\* Connecting and taking the lock, and IDLE: from now on arrivals are heard.
OpenIdle ==
  /\ session.pc = "open"
  /\ \/ session' = [session EXCEPT !.pc = "idle"] /\ UNCHANGED calm
     \/ Fault /\ Ends("error")
  /\ UNCHANGED <<fixed, arrived, reached, synced, dispatches, refreshes, asked, gap>>

IdleTimeout ==
  /\ session.pc = "idle"
  /\ Ends("timeout")
  /\ UNCHANGED <<fixed, arrived, reached, synced, dispatches, refreshes, asked, gap, calm>>

\* The poll saw nothing: there is another, a minute later, or the session is over.
PollAgain == IF session.polls = 1 THEN Ends("timeout") ELSE session' = [session EXCEPT !.polls = @ - 1]

\* Email/queryChanges from the cursor of the row as it was read, with maxChanges 1: the server
\* refuses to tell of more than one, and the session ends with that as an error.
Poll ==
  /\ session.pc = "poll"
  /\ LET new == arrived - session.cursor IN
       \/ new = 0 /\ PollAgain /\ UNCHANGED calm
       \/ new = 1 /\ session' = [session EXCEPT !.pc = "heard"] /\ UNCHANGED calm
       \/ new > 1 /\ Ends("error") /\ UNCHANGED calm
       \/ Fault /\ PollAgain
       \/ Fault /\ Ends("error")
       \/ Fault /\ session' = [session EXCEPT !.pc = "heard"]
  /\ UNCHANGED <<fixed, arrived, reached, synced, dispatches, refreshes, asked, gap>>

\* New mail was seen: the dispatch that fetches it is queued.
Dispatch ==
  /\ session.pc = "heard"
  /\ \/ Queue(1) /\ UNCHANGED calm
     \/ Queue(0) /\ Fault
  /\ Ends("told")
  /\ UNCHANGED <<fixed, arrived, reached, synced, refreshes, asked, gap>>

Next ==
  \/ Refresh \/ Arrive \/ RunDispatch \/ FiveMinutesPass
  \/ Start \/ CatchUp \/ OpenIdle \/ IdleTimeout \/ Poll \/ Dispatch

Spec == Init /\ [][Next]_vars

-----------------------------------------------------------------------------
TypeOK ==
  /\ session.pc \in {"closed", "catchup", "open", "idle", "poll", "heard", "timeout", "error", "told"}
  /\ {arrived, reached, dispatches, refreshes, gap} \subseteq Nat
  /\ reached <= arrived

\* When a session has ended without an error and its dispatches have run, the only mails it
\* left behind are those that arrived between the run of the catch-up and the start of IDLE.
WatchedIsFetched ==
  session.pc \in {"timeout", "told"} /\ dispatches = 0 /\ ~faulted
    => session.until <= reached + gap
=============================================================================
