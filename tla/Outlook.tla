------------------------------ MODULE Outlook ------------------------------
(***************************************************************************)
(* The exchanges of one Outlook mailbox.  Mail is heard of through a       *)
(* subscription at Microsoft Graph, which lives 23 hours and is extended   *)
(* by the sweep that comes every 15 minutes and looks 12 hours ahead.      *)
(* Nothing ever asks Graph for what a subscription did not tell.           *)
(*                                                                         *)
(* A unit of time is 12 hours: calls, requests and sweeps take none.       *)
(***************************************************************************)
EXTENDS Integers, FiniteSets

CONSTANTS
  Ids,           \* ids of exchange rows
  None,
  Lambdas,       \* concurrent API requests, webhook calls and sweeps
  MaxSubs,       \* bound on the subscriptions ever created
  MaxMails, MaxTime,
  MaxEvents      \* bound on failures and deletions, taken together

VARIABLES
  now,
  graph,         \* Graph: [subscription -> None or when it expires]
  notices,       \* Graph: <<subscription, mail>> it has yet to deliver
  arrived,       \* mails so far: 1, 2, ...
  row,           \* [id -> None or the exchange: its subscription, None in a remnant,
                 \*  and its nextSyncTime]
  index,         \* the rows as gsi1 has them
  lambda, events,
  queued,        \* mails for which an emx_inbound was queued
  swept,         \* exchanges renewed, or tried, since the clock moved
  heard,         \* history: notices of a subscription some exchange had
  unread,        \* history: notices whose lookup failed, or was too early for gsi1
  unrenewed,     \* history: subscriptions a sweep missed or failed to extend, or a DELETE ended
  raced          \* history: two POSTs overlapped, or could not list the exchanges

vars == <<now, graph, notices, arrived, row, index, lambda, events, queued, swept, heard,
          unread, unrenewed, raced>>

Subs == 1 .. MaxSubs
Life == 2      \* 23 hours
Horizon == 1   \* 12 hours

Idle == [pc |-> "idle"]
Goto(i, w) == lambda' = [lambda EXCEPT ![i] = w]
Event == events < MaxEvents /\ events' = events + 1
Live(s) == graph[s] # None /\ graph[s] > now
Subscribed == {row[id].sub : id \in {x \in Ids : row[x] # None}} \ {None}
graphVars == <<now, graph, notices, arrived, index>>
pastVars == <<heard, unread, unrenewed>>

Init ==
  /\ now = 0 /\ graph = [s \in Subs |-> None] /\ notices = {} /\ arrived = 0
  /\ row = [id \in Ids |-> None] /\ index = row
  /\ lambda = [i \in Lambdas |-> Idle]
  /\ events = 0
  /\ queued = {} /\ swept = {} /\ heard = {} /\ unread = {} /\ unrenewed = {} /\ raced = FALSE

-----------------------------------------------------------------------------
(* Graph and the clock.                                                      *)

\* Each live subscription is told.
Arrive ==
  LET told == {s \in Subs : Live(s)} \X {arrived + 1} IN
  /\ arrived < MaxMails /\ arrived' = arrived + 1
  /\ notices' = notices \union told
  /\ heard' = heard \union {n \in told : n[1] \in Subscribed}
  /\ UNCHANGED <<now, graph, row, index, lambda, events, queued, swept, unread, unrenewed,
                 raced>>

\* listExchangesDue of what is to expire within the horizon.
Due(id) == row[id] # None /\ row[id].next <= now + Horizon

\* No sweep is missed without an event.
Tick ==
  LET missed == {id \in Ids : Due(id) /\ id \notin swept} IN
  /\ now < MaxTime /\ now' = now + 1
  /\ \A i \in Lambdas : lambda[i] = Idle
  /\ IF missed = {} THEN UNCHANGED events ELSE Event
  /\ swept' = {}
  /\ unrenewed' = unrenewed \union {row[id].sub : id \in missed}
  /\ UNCHANGED <<graph, notices, arrived, row, index, lambda, queued, heard, unread, raced>>

-----------------------------------------------------------------------------
(* POST of a linked identity.                                                *)

\* activate: the baseline is read, then the subscription is created.
Activate(i) ==
  \E s \in Subs :
    /\ lambda[i] = Idle
    /\ graph[s] = None /\ \A t \in Subs : t < s => graph[t] # None
    /\ graph' = [graph EXCEPT ![s] = now + Life]
    /\ Goto(i, [pc |-> "list", sub |-> s])
    /\ raced' = (raced \/ \E j \in Lambdas : lambda[j].pc \in {"list", "save"})
    /\ UNCHANGED <<now, notices, arrived, row, index, events, queued, swept, pastVars>>

\* The mailbox's address cannot be had, or another account has it: the subscription
\* stays behind.
RefuseMailbox(i) ==
  /\ lambda[i].pc = "list" /\ Event
  /\ Goto(i, Idle)
  /\ UNCHANGED <<graphVars, row, queued, swept, pastVars, raced>>

Whole(id) == row[id] # None /\ row[id].sub # None

\* Mutant: an exchange there is already is not looked for.
ListNothing(i, failed) ==
  /\ lambda[i].pc = "list"
  /\ IF failed THEN Event ELSE UNCHANGED events
  /\ raced' = (raced \/ failed)
  /\ \E id \in Ids : row[id] = None /\ Goto(i, [pc |-> "save", id |-> id, sub |-> lambda[i].sub])
  /\ UNCHANGED <<graphVars, row, queued, swept, pastVars>>

\* The exchange of this address is looked for; when the list cannot be had, there is
\* taken to be none.
ListExchanges(i, failed) ==
  LET existing == IF failed THEN {} ELSE {id \in Ids : Whole(id)} IN
  /\ lambda[i].pc = "list"
  /\ IF failed THEN Event ELSE UNCHANGED events
  /\ raced' = (raced \/ failed)
  /\ \E id \in IF existing = {} THEN {x \in Ids : row[x] = None} ELSE existing :
       Goto(i, [pc |-> "save", id |-> id, sub |-> lambda[i].sub])
  /\ UNCHANGED <<graphVars, row, queued, swept, pastVars>>

\* updateExternalExchange or createExternalExchange; a dispatch is queued, which will
\* renew.
SaveExchange(i) ==
  LET w == lambda[i] IN
  /\ w.pc = "save" /\ Goto(i, Idle)
  /\ row' = [row EXCEPT ![w.id] = [sub |-> w.sub, next |-> graph[w.sub]]]
  /\ UNCHANGED <<graphVars, events, queued, swept, pastVars, raced>>

-----------------------------------------------------------------------------
(* Renewal.                                                                  *)

\* emx_dispatch: the sweep, or the one a POST asked for.
Dispatch(i, id) ==
  /\ lambda[i] = Idle
  /\ Whole(id)
  /\ Due(id) \/ row[id].next = now + Life
  /\ id \notin swept
  /\ swept' = swept \union {id}
  /\ Goto(i, [pc |-> "renew", id |-> id, sub |-> row[id].sub])
  /\ UNCHANGED <<graphVars, row, events, queued, pastVars, raced>>

\* Graph extends a subscription that still lives; no token, or no answer, ends the
\* renewal.  The exchange stays active whatever happens.
Renew(i, failed) ==
  LET w == lambda[i] IN
  /\ w.pc = "renew"
  /\ IF failed THEN Event ELSE UNCHANGED events
  /\ IF ~failed /\ Live(w.sub)
       THEN /\ graph' = [graph EXCEPT ![w.sub] = now + Life]
            /\ Goto(i, [w EXCEPT !.pc = "renewed"])
            /\ UNCHANGED unrenewed
       ELSE Goto(i, Idle) /\ unrenewed' = unrenewed \union {w.sub} /\ UNCHANGED graph
  /\ UNCHANGED <<now, notices, arrived, row, index, queued, swept, heard, unread, raced>>

\* updateExternalExchange sets what it is given, on whatever is there.
Upsert(id, next) == row' = [row EXCEPT ![id] = [sub |-> IF @ = None THEN None ELSE @.sub, next |-> next]]

\* A write that fails is logged.
SaveExpiry(i, failed) ==
  LET w == lambda[i] IN
  /\ w.pc = "renewed" /\ Goto(i, Idle)
  /\ IF failed THEN Event /\ UNCHANGED row ELSE Upsert(w.id, now + Life) /\ UNCHANGED events
  /\ UNCHANGED <<graphVars, queued, swept, pastVars, raced>>

-----------------------------------------------------------------------------
(* The webhook.                                                              *)

\* Graph delivers notices together, and again those it had no answer to.
Receive(i, batch) ==
  /\ lambda[i] = Idle /\ batch # {}
  /\ Goto(i, [pc |-> "lookup", batch |-> batch, left |-> batch, mails |-> {}, touched |-> {}])
  /\ UNCHANGED <<graphVars, row, events, queued, swept, pastVars, raced>>

\* gsi1 follows the table.
CatchUp(id) ==
  /\ index[id] # row[id] /\ index' = [index EXCEPT ![id] = row[id]]
  /\ UNCHANGED <<now, graph, notices, arrived, row, lambda, events, queued, swept, pastVars,
                 raced>>

\* findExternalExchangeBySubscriptionId, for one after the other, in gsi1.  A notice whose
\* exchange is not found, or cannot be looked up, is passed over.
Lookup(i, n, failed) ==
  LET w == lambda[i]
      found == {id \in Ids : index[id] # None /\ index[id].sub = n[1]} IN
  /\ w.pc = "lookup" /\ n \in w.left
  /\ IF failed THEN Event ELSE UNCHANGED events
  /\ unread' = IF failed \/ (found = {} /\ n[1] \in Subscribed) THEN unread \union {n} ELSE unread
  /\ IF failed \/ found = {}
       THEN Goto(i, [w EXCEPT !.left = @ \ {n}])
       ELSE \E id \in found :
              Goto(i, [w EXCEPT !.left = @ \ {n}, !.mails = @ \union {n[2]},
                                !.touched = {t \in @ : t[1] # id} \union {<<id, index[id].next>>}])
  /\ UNCHANGED <<graphVars, row, queued, swept, heard, unrenewed, raced>>

\* Mutant: a batch taken in part is answered like any other.
EnqueueAnyway(i) ==
  LET w == lambda[i] IN
  /\ w.pc = "lookup" /\ w.left = {}
  /\ \E sent \in SUBSET w.mails :
       /\ queued' = queued \union sent
       /\ IF sent = w.mails THEN UNCHANGED events ELSE Event
       /\ Goto(i, [w EXCEPT !.pc = "touch"])
  /\ UNCHANGED <<graphVars, row, swept, pastVars, raced>>

\* sendBatch: when SQS takes but a part, the answer is 500 and Graph tries again.
Enqueue(i) ==
  LET w == lambda[i] IN
  /\ w.pc = "lookup" /\ w.left = {}
  /\ \E sent \in SUBSET w.mails :
       /\ queued' = queued \union sent
       /\ IF sent = w.mails
            THEN Goto(i, [w EXCEPT !.pc = "touch"]) /\ UNCHANGED events
            ELSE Goto(i, Idle) /\ Event
  /\ UNCHANGED <<graphVars, row, swept, pastVars, raced>>

\* lastSyncAt is written, and with it the nextSyncTime read before.
Touch(i, t) ==
  LET w == lambda[i] IN
  /\ w.pc = "touch" /\ t \in w.touched
  /\ Upsert(t[1], t[2])
  /\ Goto(i, [w EXCEPT !.touched = @ \ {t}])
  /\ UNCHANGED <<graphVars, events, queued, swept, pastVars, raced>>

\* 202: Graph is done with them.
Answer(i) ==
  LET w == lambda[i] IN
  /\ w.pc = "touch" /\ w.touched = {}
  /\ notices' = notices \ w.batch
  /\ Goto(i, Idle)
  /\ UNCHANGED <<now, graph, arrived, row, index, events, queued, swept, pastVars, raced>>

-----------------------------------------------------------------------------
(* DELETE.                                                                   *)

\* deactivate is best effort.
Deactivate(i, id, failed) ==
  /\ lambda[i] = Idle /\ Whole(id)
  /\ Event
  /\ graph' = IF failed THEN graph ELSE [graph EXCEPT ![row[id].sub] = 0]
  /\ unrenewed' = unrenewed \union {row[id].sub}
  /\ Goto(i, [pc |-> "delete", id |-> id])
  /\ UNCHANGED <<now, notices, arrived, row, index, queued, swept, heard, unread, raced>>

DeleteExchange(i) ==
  /\ lambda[i].pc = "delete" /\ Goto(i, Idle)
  /\ row' = [row EXCEPT ![lambda[i].id] = None]
  /\ UNCHANGED <<graphVars, events, queued, swept, pastVars, raced>>

\* The invocation ends.
Crash(i) ==
  /\ lambda[i] # Idle /\ Event
  /\ Goto(i, Idle)
  /\ unrenewed' = IF lambda[i].pc = "renew" THEN unrenewed \union {lambda[i].sub} ELSE unrenewed
  /\ UNCHANGED <<graphVars, row, queued, swept, heard, unread, raced>>

Step(i) ==
  \/ Activate(i) \/ RefuseMailbox(i) \/ SaveExchange(i)
  \/ \E failed \in BOOLEAN :
       \/ ListExchanges(i, failed) \/ Renew(i, failed) \/ SaveExpiry(i, failed)
       \/ \E n \in notices : Lookup(i, n, failed)
       \/ \E id \in Ids : Deactivate(i, id, failed)
  \/ \E id \in Ids : Dispatch(i, id)
  \/ \E batch \in SUBSET notices : Receive(i, batch)
  \/ \E t \in Ids \X (0 .. MaxTime + Life) : Touch(i, t)
  \/ Enqueue(i) \/ Answer(i) \/ DeleteExchange(i) \/ Crash(i)

Next == Arrive \/ Tick \/ (\E id \in Ids : CatchUp(id)) \/ \E i \in Lambdas : Step(i)

Spec == Init /\ [][Next]_vars

-----------------------------------------------------------------------------
TypeOK ==
  /\ \A id \in Ids : row[id] # None => row[id].sub \in Subs \union {None} /\ row[id].next \in 0 .. MaxTime + Life
  /\ \A s \in Subs : graph[s] # None => graph[s] \in 0 .. MaxTime + Life
  /\ notices \subseteq Subs \X (1 .. arrived)

\* The mailbox is not connected twice unless two POSTs overlapped or one could not list
\* the exchanges.
OneExchange == Cardinality({id \in Ids : Whole(id)}) > 1 => raced

\* The subscription of an exchange lives, unless a sweep was missed or failed, or a
\* DELETE that ended it did not come to the row.
SubscriptionLives ==
  \A id \in Ids : Whole(id) => Live(row[id].sub) \/ row[id].sub \in unrenewed

\* Mail an exchange was told of is queued in the end: the notice stays with Graph until
\* then, unless its exchange could not be looked up, was not yet in the index, or has
\* gone on to another subscription.
NoticeIsQueued ==
  \A n \in heard : n \in notices \union unread \/ n[2] \in queued \/ n[1] \notin Subscribed
=============================================================================
