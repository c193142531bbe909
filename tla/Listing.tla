------------------------------- MODULE Listing ------------------------------
(***************************************************************************)
(* How a client pages through a list: the threads of an account, the       *)
(* signals of a thread, the held-back mails, the resources.  Every one of  *)
(* them queries one row more than the page holds, cuts that row off, and   *)
(* continues from the key the query ended at, while mails come in and rows *)
(* move or go between two pages.  A row's place in the index is a time;    *)
(* the resources' order, oldest first, is the same seen backwards.  A      *)
(* page limit of zero, and one that is no number, are left out.            *)
(***************************************************************************)
EXTENDS Naturals, FiniteSets

CONSTANTS
  Rows,
  MaxLimit,
  MaxChanges     \* bound: rows added, moved, changed or removed

VARIABLES
  index,         \* [at, match]: the row's place (0: not in the partition), and whether it passes the filter
  clock,
  reader,        \* of the client: what it asked for, the page's limit, its cursor and what it was shown
  touched,       \* rows that changed since the client began
  cut            \* rows a query returned beyond its page

vars == <<index, clock, reader, touched, cut>>

NoCursor == 0
Filters == {"none", "before", "after", "merged"}
Idle == [phase |-> "idle", filter |-> "none", limit |-> 1, cursor |-> NoCursor, shown |-> {}, again |-> {}]

Init ==
  /\ index \in [Rows -> [at : {0}, match : BOOLEAN]]
  /\ clock = 0 /\ reader = Idle /\ touched = {} /\ cut = {}

Present == {r \in Rows : index[r].at > 0}
TheNewest(n, S) == {r \in S : Cardinality({q \in S : index[q].at > index[r].at}) < n}

\* A mail arrives, or a later one moves its row to the front with what the filter now says of it.
Move(r) ==
  /\ clock < MaxChanges /\ clock' = clock + 1
  /\ \E m \in BOOLEAN : index' = [index EXCEPT ![r] = [at |-> clock + 1, match |-> m]]
  /\ touched' = touched \union {r}
  /\ UNCHANGED <<reader, cut>>

\* The row is deleted, or leaves the partition with its status.
Leave(r) ==
  /\ r \in Present /\ clock < MaxChanges /\ clock' = clock + 1
  /\ index' = [index EXCEPT ![r].at = 0]
  /\ touched' = touched \union {r}
  /\ UNCHANGED <<reader, cut>>

\* The client asks for the first page.  "before" is a list of threads of one status, with or
\* without a label or workflow; "merged" the list of threads of no status, which reads all three
\* and takes no cursor; "after" the held-back mails and the resources, filtered once cut; "none"
\* a thread's signals and the audit events.
Ask(filter, limit) ==
  /\ reader.phase = "idle"
  /\ reader' = [Idle EXCEPT !.phase = "reading", !.filter = filter, !.limit = limit]
  /\ touched' = {} /\ cut' = {}
  /\ UNCHANGED <<index, clock>>

Behind(cursor) == {r \in Present : cursor = NoCursor \/ index[r].at < cursor}

\* The rows a query evaluates: one more than the page takes.
Queried == TheNewest(reader.limit + 1, Behind(reader.cursor))

\* The key the query ended at, there when it was stopped by its limit.
LastEvaluatedKey ==
  IF Cardinality(Queried) <= reader.limit \/ reader.filter = "merged" THEN NoCursor
  ELSE CHOOSE t \in 1..clock : \E r \in Queried : index[r].at = t /\ \A q \in Queried : index[q].at >= t

\* What is left to be cut into a page.
Items == IF reader.filter \in {"before", "merged"} THEN {r \in Queried : index[r].match} ELSE Queried
PageOf(S) == TheNewest(reader.limit, S)

\* What was read only to learn whether there is more.
LookedAhead == Items \ PageOf(Items)

Answered(S) == IF reader.filter = "after" THEN {r \in S : index[r].match} ELSE S

NextPage ==
  /\ reader.phase = "reading"
  /\ LET page == PageOf(Items)
         shown == Answered(page)
         cursor == IF Cardinality(Items) > reader.limit THEN LastEvaluatedKey ELSE NoCursor
     IN  /\ reader' = [reader EXCEPT !.shown = @ \union shown,
                                     !.again = @ \union (reader.shown \intersect shown),
                                     !.cursor = cursor,
                                     !.phase = IF cursor = NoCursor THEN "done" ELSE "reading"]
         /\ cut' = cut \union LookedAhead
  /\ UNCHANGED <<index, clock, touched>>

\* The client has shown the list and may ask anew.
Close ==
  /\ reader.phase = "done"
  /\ reader' = Idle
  /\ UNCHANGED <<index, clock, touched, cut>>

Next ==
  \/ \E r \in Rows : Move(r) \/ Leave(r)
  \/ \E f \in Filters, n \in 1..MaxLimit : Ask(f, n)
  \/ NextPage \/ Close

Spec == Init /\ [][Next]_vars

TypeOK ==
  /\ index \in [Rows -> [at : 0..MaxChanges, match : BOOLEAN]] /\ clock \in 0..MaxChanges
  /\ reader.phase \in {"idle", "reading", "done"} /\ reader.filter \in Filters
  /\ reader.limit \in 1..MaxLimit /\ reader.cursor \in 0..MaxChanges
  /\ reader.shown \subseteq Rows /\ reader.again \subseteq reader.shown
  /\ touched \subseteq Rows /\ cut \subseteq Rows

-----------------------------------------------------------------------------
Unfiltered == reader.filter \in {"none", "after"}
Wanted(r) == r \in Present \ touched /\ (reader.filter # "none" => index[r].match)
Unseen == {r \in Rows : Wanted(r) /\ r \notin reader.shown}

\* A row is on two pages of one list only when it moved in between.
ShownTwiceMoved == reader.again \subseteq touched

\* Once the list of a client ends, every row that stayed in place was on one of its pages, but for
\* the rows that were read only to learn whether there is more.
OnlyLookaheadIsLost == reader.phase = "done" /\ Unfiltered => Unseen \subseteq cut

\* A client that follows the cursor to the end has been shown every row that stayed in place.
CursorReachesAll == reader.phase = "done" /\ reader.filter # "merged" => Unseen = {}
=============================================================================
