----------------------------- MODULE Exchanges -----------------------------
(***************************************************************************)
(* One external mail exchange: the row that says which mailbox to pull     *)
(* from and how far it was read, the dispatch runs and webhooks that read  *)
(* the mailbox, queue what is new and move the cursor, and the API         *)
(* requests that point the exchange at another mailbox or delete it.       *)
(*                                                                         *)
(* Every write of the row is an unconditional update that also writes the  *)
(* status its caller read before.  A mailbox hands out 1, 2, 3, ... as its *)
(* message ids; a rebuilt mailbox no longer honours cursors it gave out    *)
(* (UIDVALIDITY, cannotCalculateChanges, an expired historyId).            *)
(*                                                                         *)
(* Sweeps and targeted dispatches may run at any time: the schedule, the   *)
(* IDLE sessions and the webhooks that trigger them only say when.         *)
(***************************************************************************)
EXTENDS Naturals, FiniteSets

CONSTANTS
  Platforms,   \* of "imap", "jmap" and "gmail", the ones to consider
  PushServers, \* whether a JMAP server supports push
  Mailboxes,   \* mailboxes the exchange may be pointed at
  Home,        \* the one it was created for
  Runs,        \* concurrent dispatch runs and webhook calls
  Requests,    \* concurrent API requests
  Batch,       \* mails queued by one run (500)
  HistoryPage, \* mails on a page of Gmail's history
  Overlap,     \* already read mails a run checks again (10)
  OldMails,    \* bound on the mails a mailbox has to begin with
  MaxMails,    \* bound on the mails of each mailbox
  MaxEvents    \* bound on failed calls, crashes, API requests, rebuilt mailboxes
               \* and lost push subscriptions, taken together

ASSUME ExchangesAssumption ==
  /\ Platforms \subseteq {"imap", "jmap", "gmail"}
  /\ PushServers \subseteq BOOLEAN
  /\ Home \in Mailboxes
  /\ {Batch, HistoryPage} \subseteq Nat \ {0}
  /\ MaxMails \in [Mailboxes -> Nat]
  /\ {Overlap, OldMails, MaxEvents} \subseteq Nat
  /\ \A m \in Mailboxes : OldMails <= MaxMails[m]

VARIABLES
  platform,     \* of the exchange
  supportsPush, \* the JMAP server does
  arrived,      \* mails of each mailbox so far
  epoch,        \* a mailbox honours the cursors of its epoch
  subscribed,   \* the JMAP server knows the push subscription
  row,          \* the exchange in the table
  recheck,      \* a dispatch with includeOverlap is in the queue
  run,          \* dispatch runs and webhook calls
  req,          \* API requests
  queued,       \* history: mails for which an emx_inbound was queued
  passed,       \* history: mails a new cursor was set beyond
  lost,         \* history: mails a push sync failed to queue, or a Gmail cursor
                \* was set beyond unread
  failed,       \* history: failed renewals, up to Strikes
  gone,         \* history: the exchange was deleted
  events

mailboxVars == <<platform, supportsPush, arrived, epoch>>
historyVars == <<queued, passed, lost, failed, gone>>
vars == <<mailboxVars, subscribed, row, recheck, run, req, historyVars,
          events>>

Positions == UNION {0..MaxMails[m] : m \in Mailboxes}
Mails == Mailboxes \X Positions
UpTo(m, n) == {<<m, u>> : u \in 1..n}
Strikes == 3  \* failed renewals after which an exchange is deactivated

Cursors == [box : Mailboxes, epoch : 0..(MaxEvents + 1), pos : Positions]
NoCursor == [box |-> Home, epoch |-> 0, pos |-> 0]

\* What activate() reports: the last UID, or the server's state token.
Fresh(m) == [box |-> m, epoch |-> epoch[m], pos |-> arrived[m]]

\* A "partial" row is what an update of a deleted exchange leaves: neither an id
\* nor a platform.
Rows == [kind : {"none", "full", "partial"},
         status : {"active", "activation_failed"},
         config : Mailboxes,
         cursor : Cursors,
         failures : 0..Strikes,
         push : BOOLEAN]
NewRow(status, cursor) ==
  [kind |-> "full", status |-> status, config |-> Home, cursor |-> cursor,
   failures |-> 0, push |-> FALSE]
NoRow == [NewRow("active", NoCursor) EXCEPT !.kind = "none"]

\* What a run holds: the row it read, how it syncs, and what it found.
IdleRun == [pc |-> "idle", emx |-> NoRow, mode |-> "poll", overlap |-> FALSE,
            found |-> {}, to |-> NoCursor, skip |-> {}]
IdleRequest == [pc |-> "idle", status |-> "active", box |-> Home, cursor |-> NoCursor]

\* POST has activated the exchange, or could not.
Init ==
  /\ platform \in Platforms
  /\ supportsPush \in (IF platform = "jmap" THEN PushServers ELSE {FALSE})
  /\ arrived \in [Mailboxes -> 0..OldMails]
  /\ epoch = [m \in Mailboxes |-> 1]
  /\ subscribed = FALSE
  /\ row \in {NewRow("active", Fresh(Home))} \union
             (IF platform = "gmail" THEN {}
              ELSE {NewRow("activation_failed", NoCursor)})
  /\ recheck = FALSE
  /\ run = [r \in Runs |-> IdleRun]
  /\ req = [q \in Requests |-> IdleRequest]
  /\ queued = {}
  /\ passed = UpTo(Home, row.cursor.pos)
  /\ lost = {}
  /\ failed = 0
  /\ gone = FALSE
  /\ events = 0

Event == events < MaxEvents /\ events' = events + 1

\* An update without a condition: it creates the row if there is none.
Upsert(new) ==
  row' = [new EXCEPT !.kind = IF @ = "none" THEN "partial" ELSE @]

\* An update whose failure is only logged.
TryUpsert(new) ==
  \/ Upsert(new) /\ UNCHANGED events
  \/ Event /\ row' = row

-----------------------------------------------------------------------------
(* The mailbox server.                                                      *)

Arrive(m) ==
  /\ arrived[m] < MaxMails[m]
  /\ arrived' = [arrived EXCEPT ![m] = @ + 1]
  /\ UNCHANGED <<platform, supportsPush, epoch, subscribed, row, recheck, run,
                 req, historyVars, events>>

Rebuild(m) ==
  /\ Event
  /\ epoch' = [epoch EXCEPT ![m] = @ + 1]
  /\ UNCHANGED <<platform, supportsPush, arrived, subscribed, row, recheck, run,
                 req, historyVars>>

ForgetSubscription ==
  /\ subscribed
  /\ Event
  /\ subscribed' = FALSE
  /\ UNCHANGED <<mailboxVars, row, recheck, run, req, historyVars>>

-----------------------------------------------------------------------------
(* Dispatch runs and webhook calls.                                         *)

Step(r, new) == run' = [run EXCEPT ![r] = new]
Finish(r) == Step(r, IdleRun)
runFrame == <<mailboxVars, req, gone>>

\* A row without a platform has no adapter, a row that is not active is skipped.
Dispatchable == row.kind = "full" /\ row.status = "active"

\* emx_dispatch: a sweep, or a targeted message.
Dispatch(r, overlap) ==
  /\ run[r].pc = "idle"
  /\ Dispatchable
  /\ overlap => recheck
  /\ recheck' = (recheck /\ ~overlap)
  /\ Step(r, [IdleRun EXCEPT
                !.pc = CASE platform = "gmail" -> "watch"
                         [] platform # "gmail" /\ (supportsPush \/ row.push) -> "push"
                         [] OTHER -> "search",
                !.emx = row,
                !.overlap = overlap])
  /\ UNCHANGED <<runFrame, subscribed, row, queued, passed, lost, failed, events>>

\* Gmail: renew() extends the watch, and writes nothing but timing and status.
RenewWatch(r) ==
  /\ run[r].pc = "watch"
  /\ TryUpsert([row EXCEPT !.status = run[r].emx.status])
  /\ Finish(r)
  /\ UNCHANGED <<runFrame, subscribed, recheck, queued, passed, lost, failed>>

\* Gmail: the webhook finds the exchange among the active ones by its address.
Notify(r) ==
  /\ run[r].pc = "idle"
  /\ platform = "gmail"
  /\ Dispatchable
  /\ Step(r, [IdleRun EXCEPT !.pc = "search", !.emx = row, !.mode = "webhook"])
  /\ UNCHANGED <<runFrame, subscribed, row, recheck, queued, passed, lost, failed,
                 events>>

\* JMAP: handlePushSubscription registers, verifies or clears.
Push(r) ==
  LET emx == run[r].emx
      Sync(mode) == Step(r, [run[r] EXCEPT !.pc = "search", !.mode = mode])
  IN /\ run[r].pc = "push"
     /\ \/ /\ ~emx.push                                       \* register
           /\ subscribed' = TRUE
           /\ TryUpsert([row EXCEPT !.status = emx.status, !.push = TRUE,
                                    !.failures = 0])
           /\ Sync("push")
        \/ /\ ~emx.push                                       \* not accepted
           /\ Event
           /\ UNCHANGED <<subscribed, row>>
           /\ Sync("poll")
        \/ /\ emx.push /\ subscribed                          \* still active
           /\ TryUpsert([row EXCEPT !.status = emx.status, !.failures = 0])
           /\ UNCHANGED subscribed
           /\ Sync("push")
        \/ /\ emx.push                                        \* gone, or no answer
           /\ \/ ~subscribed /\ TryUpsert([row EXCEPT !.status = emx.status,
                                                      !.push = FALSE])
              \/ subscribed /\ Event /\ Upsert([row EXCEPT !.status = emx.status,
                                                           !.push = FALSE])
           /\ UNCHANGED subscribed
           /\ Sync("poll")
     /\ UNCHANGED <<runFrame, recheck, queued, passed, lost, failed>>

\* What is left to know of the row that was read: its status, and its count to
\* add to.
Holding(r, label) ==
  [run[r] EXCEPT !.pc = label,
                 !.overlap = FALSE,
                 !.emx = [NoRow EXCEPT
                            !.status = run[r].emx.status,
                            !.failures = IF label = "fail" THEN run[r].emx.failures
                                         ELSE 0]]

\* IMAP compares the UIDVALIDITY alone; the other cursors are tokens of their mailbox.
Honoured(emx) ==
  /\ emx.cursor.epoch = epoch[emx.config]
  /\ platform = "imap" \/ emx.cursor.box = emx.config

\* The mails above position n, the lowest Batch of them.
Above(m, n) ==
  {<<m, u>> : u \in {v \in 1..arrived[m] : v > n /\ v <= n + Batch}}

\* The newest Batch mails.
Newest(m) == {<<m, u>> : u \in {v \in 1..arrived[m] : v + Batch > arrived[m]}}

Start(emx, overlap) ==
  IF overlap
  THEN (IF emx.cursor.pos > Overlap THEN emx.cursor.pos - Overlap ELSE 0)
  ELSE emx.cursor.pos

\* Mutant: the next cursor is where the mailbox is, not where the batch ends.
SearchToEnd(r) ==
  LET emx == run[r].emx
      from == Start(emx, run[r].overlap)
  IN /\ platform = "imap"
     /\ Honoured(emx)
     /\ Step(r, [Holding(r, "enqueue") EXCEPT
                   !.found = Above(emx.config, from),
                   !.to = Fresh(emx.config),
                   !.skip = IF emx.cursor.box = emx.config THEN {}
                            ELSE UpTo(emx.config, from)])

\* IMAP: the UIDs above the cursor, and the highest of the batch as the next one.
SearchUids(r) ==
  LET emx == run[r].emx
      m == emx.config
      from == Start(emx, run[r].overlap)
      found == Above(m, from)
  IN /\ platform = "imap"
     /\ Honoured(emx)
     /\ Step(r, [Holding(r, "enqueue") EXCEPT
                   !.found = found,
                   !.to = IF found = {} THEN emx.cursor
                          ELSE [Fresh(m) EXCEPT !.pos = from + Cardinality(found)],
                   !.skip = IF emx.cursor.box = m THEN {} ELSE UpTo(m, from)])

\* JMAP: what was added since the cursor, and the mailbox's state now. The answer
\* is an error if that is more than maxChanges.
QueryChanges(r) ==
  LET emx == run[r].emx
      m == emx.config
  IN /\ platform = "jmap"
     /\ Honoured(emx)
     /\ arrived[m] <= emx.cursor.pos + Batch
     /\ Step(r, [Holding(r, "enqueue") EXCEPT
                   !.found = UpTo(m, arrived[m]) \ UpTo(m, emx.cursor.pos),
                   !.to = Fresh(m)])

\* Gmail: the first page of what was added since the cursor. The nextPageToken is
\* not followed, and the answer's historyId is that of the mailbox now.
ListHistory(r) ==
  LET emx == run[r].emx
      m == emx.config
      page == UpTo(m, emx.cursor.pos + HistoryPage)
  IN /\ platform = "gmail"
     /\ Honoured(emx)
     /\ Step(r, [Holding(r, "enqueue") EXCEPT
                   !.found = (UpTo(m, arrived[m]) \intersect page)
                             \ UpTo(m, emx.cursor.pos),
                   !.to = Fresh(m),
                   !.skip = UpTo(m, arrived[m]) \ page])

\* JMAP, polling: cannotCalculateChanges is answered by a query of the newest mails.
Fallback(r) ==
  LET m == run[r].emx.config
  IN /\ platform = "jmap" /\ run[r].mode = "poll"
     /\ ~Honoured(run[r].emx)
     /\ Step(r, [Holding(r, "enqueue") EXCEPT
                   !.found = Newest(m),
                   !.to = Fresh(m),
                   !.skip = UpTo(m, arrived[m]) \ Newest(m)])

\* Mutant: a failure is not counted.
GiveUpQuietly(r) == Finish(r)

\* IMAP and JMAP count a failure of a polling run; push syncs and webhooks do not.
GiveUp(r) ==
  IF run[r].mode = "poll" THEN Step(r, Holding(r, "fail")) ELSE Finish(r)

Refused(emx) ==
  IF Honoured(emx)
  THEN platform = "jmap" /\ arrived[emx.config] > emx.cursor.pos + Batch
  ELSE TRUE

Search(r) ==
  /\ run[r].pc = "search"
  /\ \/ /\ SearchUids(r) \/ QueryChanges(r) \/ ListHistory(r) \/ Fallback(r)
        /\ UNCHANGED events
     \/ /\ Refused(run[r].emx)
        /\ ~(platform = "jmap" /\ run[r].mode = "poll" /\ ~Honoured(run[r].emx))
        /\ GiveUp(r)
        /\ UNCHANGED events
     \/ Event /\ GiveUp(r)
  /\ UNCHANGED <<runFrame, subscribed, row, recheck, queued, passed, lost, failed>>

\* Mutant: every platform goes on to move the cursor.
EnqueueAnyway(r) ==
  /\ run[r].pc = "enqueue"
  /\ \E some \in SUBSET run[r].found :
       /\ IF some = run[r].found THEN UNCHANGED events ELSE Event
       /\ queued' = queued \union some
       /\ lost' = lost \union (run[r].found \ some)
  /\ Step(r, [run[r] EXCEPT !.pc = "save"])
  /\ UNCHANGED <<runFrame, subscribed, row, recheck, passed, failed>>

\* sendBatch: SQS takes all of it, or an error is returned when it took some.
\* A push sync logs that error and goes on to move the cursor.
Enqueue(r) ==
  /\ run[r].pc = "enqueue"
  /\ \/ /\ queued' = queued \union run[r].found
        /\ Step(r, [run[r] EXCEPT !.pc = "save"])
        /\ UNCHANGED <<lost, events>>
     \/ \E some \in SUBSET run[r].found \ {run[r].found} :
          /\ Event
          /\ queued' = queued \union some
          /\ IF run[r].mode = "push"
             THEN /\ lost' = lost \union (run[r].found \ some)
                  /\ Step(r, [run[r] EXCEPT !.pc = "save"])
             ELSE /\ lost' = lost
                  /\ Finish(r)
  /\ UNCHANGED <<runFrame, subscribed, row, recheck, passed, failed>>

\* The new cursor. An IMAP run that found nothing writes its timing only.
Synced(r) ==
  [row EXCEPT !.status = run[r].emx.status,
              !.cursor = IF platform = "imap" /\ run[r].found = {} THEN @
                         ELSE run[r].to,
              !.failures = IF run[r].mode = "poll" THEN 0 ELSE @]

Save(r) ==
  /\ run[r].pc = "save"
  /\ \/ /\ Upsert(Synced(r))
        /\ IF platform = "gmail"
           THEN /\ lost' = lost \union run[r].skip
                /\ passed' = passed
           ELSE /\ passed' = passed \union run[r].skip
                /\ lost' = lost
        /\ UNCHANGED events
     \/ /\ Event
        /\ UNCHANGED <<row, passed, lost>>
  /\ Finish(r)
  /\ UNCHANGED <<runFrame, subscribed, recheck, queued, failed>>

Count(n) == IF n < Strikes THEN n + 1 ELSE n

\* Mutant: deactivated one failure early.
DeactivateEarly(r) ==
  LET emx == run[r].emx
      failures == Count(emx.failures)
  IN /\ run[r].pc = "fail"
     /\ TryUpsert([row EXCEPT
                     !.failures = failures,
                     !.status = IF failures >= Strikes - 1 THEN "activation_failed"
                                ELSE emx.status])
     /\ failed' = Count(failed)
     /\ Finish(r)
     /\ UNCHANGED <<runFrame, subscribed, recheck, queued, passed, lost>>

HandleRenewalFailure(r) ==
  LET emx == run[r].emx
      failures == Count(emx.failures)
  IN /\ run[r].pc = "fail"
     /\ TryUpsert([row EXCEPT
                     !.failures = failures,
                     !.status = IF failures >= Strikes THEN "activation_failed"
                                ELSE emx.status])
     /\ failed' = Count(failed)
     /\ Finish(r)
     /\ UNCHANGED <<runFrame, subscribed, recheck, queued, passed, lost>>

\* The invocation ends, or a step fails that renew() does not count.
Crash(r) ==
  /\ run[r].pc # "idle"
  /\ Event
  /\ Finish(r)
  /\ UNCHANGED <<runFrame, subscribed, row, recheck, queued, passed, lost, failed>>

-----------------------------------------------------------------------------
(* API requests.                                                            *)

Go(q, label) == req' = [req EXCEPT ![q].pc = label]
Answer(q) == req' = [req EXCEPT ![q] = IdleRequest]
requestFrame == <<mailboxVars, subscribed, run, queued, lost, failed>>

\* PATCH reads the row and tests the merged configuration: activate() answers
\* with where the mailbox is now. POST of a Gmail mailbox that has an exchange does
\* the same with its linked identity; if the exchange is gone by then, it creates
\* another one.
Patch(q, m) ==
  /\ req[q].pc = "idle"
  /\ Event
  /\ row.kind = "full"
  /\ platform = "gmail" => m = row.config
  /\ req' = [req EXCEPT ![q] = [pc |-> "activate", status |-> row.status,
                                box |-> m, cursor |-> NoCursor]]
  /\ UNCHANGED <<requestFrame, row, recheck, passed, gone>>

Activate(q) ==
  /\ req[q].pc = "activate"
  /\ IF platform = "gmail" /\ row.kind # "full"
     THEN Answer(q)
     ELSE req' = [req EXCEPT ![q].cursor = Fresh(req[q].box),
                             ![q].pc = IF platform = "gmail" THEN "reconnect"
                                       ELSE "config"]
  /\ UNCHANGED <<requestFrame, row, recheck, passed, gone, events>>

PatchConfig(q) ==
  /\ req[q].pc = "config"
  /\ Upsert([row EXCEPT !.status = req[q].status, !.config = req[q].box])
  /\ Go(q, "timing")
  /\ UNCHANGED <<requestFrame, recheck, passed, gone, events>>

\* Mail older than the new cursor is passed over, but for the overlap.
Passing(q) == passed' = passed \union UpTo(req[q].box, req[q].cursor.pos)

PatchTiming(q) ==
  /\ req[q].pc = "timing"
  /\ \/ /\ Upsert([row EXCEPT !.status = req[q].status, !.cursor = req[q].cursor])
        /\ Passing(q)
        /\ UNCHANGED events
     \/ /\ Event
        /\ UNCHANGED <<row, passed>>
  /\ Go(q, IF req[q].status = "activation_failed" THEN "reactivate" ELSE "trigger")
  /\ UNCHANGED <<requestFrame, recheck, gone>>

Reactivate(q) ==
  /\ req[q].pc = "reactivate"
  /\ Upsert([row EXCEPT !.status = "active", !.failures = 0])
  /\ Go(q, "trigger")
  /\ UNCHANGED <<requestFrame, recheck, passed, gone, events>>

Reconnect(q) ==
  /\ req[q].pc = "reconnect"
  /\ Upsert([row EXCEPT !.status = "active", !.failures = 0,
                        !.cursor = req[q].cursor])
  /\ Passing(q)
  /\ Go(q, "trigger")
  /\ UNCHANGED <<requestFrame, recheck, gone, events>>

TriggerDispatch(q) ==
  /\ req[q].pc = "trigger"
  /\ recheck' = (recheck \/ platform = "imap")
  /\ Answer(q)
  /\ UNCHANGED <<requestFrame, row, passed, gone, events>>

Delete(q) ==
  /\ req[q].pc = "idle"
  /\ Event
  /\ row.kind # "none"
  /\ Go(q, "delete")
  /\ UNCHANGED <<requestFrame, row, recheck, passed, gone>>

DeleteRow(q) ==
  /\ req[q].pc = "delete"
  /\ row' = NoRow
  /\ gone' = TRUE
  /\ Answer(q)
  /\ UNCHANGED <<requestFrame, recheck, passed, events>>

\* The connection test or a write fails, or the request dies.
Abort(q) ==
  /\ req[q].pc # "idle"
  /\ Event
  /\ Answer(q)
  /\ UNCHANGED <<requestFrame, row, recheck, passed, gone>>

-----------------------------------------------------------------------------

RunStep(r) ==
  \/ Dispatch(r, FALSE)
  \/ Dispatch(r, TRUE)
  \/ RenewWatch(r)
  \/ Notify(r)
  \/ Push(r)
  \/ Search(r)
  \/ Enqueue(r)
  \/ Save(r)
  \/ HandleRenewalFailure(r)

RequestStep(q) ==
  \/ Activate(q)
  \/ PatchConfig(q)
  \/ PatchTiming(q)
  \/ Reactivate(q)
  \/ Reconnect(q)
  \/ TriggerDispatch(q)
  \/ DeleteRow(q)

Next ==
  \/ \E m \in Mailboxes : Arrive(m) \/ Rebuild(m)
  \/ ForgetSubscription
  \/ \E r \in Runs : RunStep(r) \/ Crash(r)
  \/ \E q \in Requests : \/ RequestStep(q)
                         \/ \E m \in Mailboxes : Patch(q, m)
                         \/ Delete(q)
                         \/ Abort(q)

Spec == Init /\ [][Next]_vars

\* The sweep comes every 15 minutes, and a Lambda that does not crash goes on.
FairSpec ==
  /\ Spec
  /\ \A r \in Runs : WF_vars(RunStep(r))
  /\ \A q \in Requests : WF_vars(RequestStep(q))

-----------------------------------------------------------------------------

RunTypes ==
  [pc : {"idle", "watch", "push", "search", "enqueue", "save", "fail"},
   emx : Rows, mode : {"poll", "push", "webhook"}, overlap : BOOLEAN,
   found : SUBSET Mails, to : Cursors, skip : SUBSET Mails]

RequestTypes ==
  [pc : {"idle", "activate", "config", "timing", "reactivate", "reconnect",
         "trigger", "delete"},
   status : {"active", "activation_failed"}, box : Mailboxes, cursor : Cursors]

\* Every variable holds a value of its kind.
TypeOK ==
  /\ platform \in {"imap", "jmap", "gmail"}
  /\ supportsPush \in BOOLEAN
  /\ arrived \in [Mailboxes -> Positions]
  /\ epoch \in [Mailboxes -> 1..(MaxEvents + 1)]
  /\ subscribed \in BOOLEAN
  /\ row \in Rows
  /\ recheck \in BOOLEAN
  /\ run \in [Runs -> RunTypes]
  /\ req \in [Requests -> RequestTypes]
  /\ queued \subseteq Mails
  /\ passed \subseteq Mails
  /\ lost \subseteq Mails
  /\ failed \in 0..Strikes
  /\ gone \in BOOLEAN
  /\ events \in 0..MaxEvents

\* The cursor never moves beyond a mail that was not queued, however runs with
\* old snapshots and failing calls interleave: what it leaves behind was queued,
\* was older than a cursor set anew (a PATCH, a fallback, a cursor of another
\* mailbox), belongs to a push sync whose batch failed, or stood behind the first
\* page of a Gmail history.
CursorFollowsQueue ==
  UpTo(row.cursor.box, row.cursor.pos) \subseteq queued \union passed \union lost

\* Mail u of mailbox m came behind a full page, and that page was queued.
BehindPage(m, u) ==
  \E n \in Positions : /\ n + HistoryPage < u
                        /\ UpTo(m, n + HistoryPage) \ UpTo(m, n) \subseteq queued

\* Mail is lost in two ways only. A JMAP push sync moves the cursor past a batch
\* that failed; Gmail's webhook moves it past what did not fit on the first page,
\* and has queued that page. When sendBatch fails, a polling run and Gmail's
\* webhook keep the cursor where it was.
LossesHaveCauses ==
  \A mail \in lost :
    \/ supportsPush
    \/ platform = "gmail" /\ BehindPage(mail[1], mail[2])

\* handleRenewalFailure deactivates an exchange after three failed renewals, and
\* concurrent runs that count on from old rows never make it fewer.
ThreeStrikes ==
  [][UNCHANGED req /\ row.status = "active" /\ row'.status = "activation_failed"
       => failed' = Strikes]_vars

Silent == \A r \in Runs : run[r].pc = "idle"

\* An update that lands after the DELETE leaves a partial row in the index of
\* active exchanges, but once the runs of the old exchange are over none starts.
DeletedStaysSilent == [][gone /\ Silent => Silent']_vars

\* A run that read an exchange before the user deleted it, or before another run
\* changed its failure count, brings it neither back to life nor to an early end:
\* a deleted exchange stays deleted, and one is deactivated only on a third
\* failure.
EndsForCause == DeletedStaysSilent /\ ThreeStrikes

Followed(m) ==
  /\ Dispatchable
  /\ row.config = m
  /\ row.cursor.box = m

Owed(m, u) == u <= arrived[m] /\ <<m, u>> \notin queued \union passed

\* Mail of a mailbox that is polled (IMAP, or a JMAP server without push) is
\* queued in the end, as long as the exchange stays active and on that mailbox.
PolledMailIsQueued ==
  \A m \in Mailboxes, u \in Positions \ {0} :
    (Followed(m) /\ Owed(m, u) /\ platform # "gmail" /\ ~supportsPush)
      ~> (~Owed(m, u) \/ ~Followed(m))

\* The same of a JMAP server with push: renew() "does the cursor-aware catch-up".
\* It fails: a push sync moves the cursor past a batch that could not be queued.
PushedMailIsQueued ==
  \A m \in Mailboxes, u \in Positions \ {0} :
    (Followed(m) /\ Owed(m, u) /\ supportsPush) ~> (~Owed(m, u) \/ ~Followed(m))
=============================================================================
