-------------------------- MODULE MCConversations --------------------------
(***************************************************************************)
(* Threads for TLC, in three scopes: two invocations race over a           *)
(* conversation of two mails, both of which yield its key or neither; one  *)
(* at a time sees the hours of three requests about a single mail go by,   *)
(* or of one request and two mails of any kind.  A behaviour stays in the  *)
(* scope that `part` names.                                                *)
(***************************************************************************)
EXTENDS Threads, TLC

VARIABLE part

\* So many mails, invocations at once, requests and faults, and so much time.
Within(mails, invocations, asked, failed, time) ==
  /\ Cardinality({m \in Mails : received'[m] # 0}) <= mails
  /\ Cardinality({i \in Lambdas : lambda'[i] # Idle}) <= invocations
  /\ requests' <= asked /\ faults' <= failed /\ hour' <= time

MCInit ==
  /\ part \in {"raced", "snoozed", "revived"} /\ Init
  /\ part = "raced" => keyed \in {{}, Mails}

MCNext ==
  \/ part = "raced"   /\ Next /\ Within(2, 2, 1, 1, 1) /\ UNCHANGED part
  \/ part = "snoozed" /\ Next /\ Within(1, 1, 3, 0, 2) /\ UNCHANGED part
  \/ part = "revived" /\ Next /\ Within(2, 1, 1, 0, 2) /\ UNCHANGED part

MCSpec == MCInit /\ [][MCNext]_<<part, vars>>

Symmetry == Permutations(Mails) \union Permutations(Lambdas)

\* A conversation's mails are under one thread, races excepted (findThreadByGroupingKey,
\* createThread).
OneThread == TypeOK /\ SplitsNeedRaces

\* The lists show every mail, overwritten rows excepted (updateThread, repairThreadRecency).
MailIsListed == ListsShowMail

\* One approval of a sender reaches all of its mails that were listed (quarantineResponse).
SiblingsAnswered == SiblingsFollow

\* A snoozed thread comes back (scheduler-client, followup-handler).
SnoozeEnds == SnoozeHasAlarm

\* Alarms, handlers and mail do not revive what the user deleted or reported.
UserIsHeard == UserDecisionHolds
=============================================================================
