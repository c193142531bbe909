# TLA+ verification of the SES e-mail adapter

Specifications of the parts of this repository whose correctness depends on the
order in which things happen, the configurations that model-check them with TLC,
and proofs of the properties that matter most, checked by TLAPS. Line numbers
refer to the files under `src/`; `PROJECT.json` maps every definition to the
lines it models.

## 1. The system

An e-mail arrives through SES and SNS on an SQS queue; a Lambda (`src/handler.ts`)
takes records from the queue in batches and processes each one. The same Lambda
serves the REST API, the delayed messages of the undo-send feature, SES
feedback, the schedulers and the periodic jobs. State lives in DynamoDB (signals,
threads, accounts), Aurora (vectors), S3 (raw mail) and in SQS itself. Nothing is
transactional: every flow is a sequence of single-row writes separated by awaits,
made safe by their order, by idempotency keys, and by retries of SQS.

| Component | State it keeps | Operations | Interacts with | Hard behaviour | Correct when |
|---|---|---|---|---|---|
| Inbound pipeline (`processor/incoming-email-processor.ts`) | signal and thread rows, vectors | dedup or resume, match, rules, save, count, calendar, index, dispatch | queue, both databases, Aurora | redelivery, two messages of one mail, failure between any two writes | leaf rows first, dispatch gated by the vectors, no admitted mail without its side effects |
| Draft send (`api/threadsApi.ts`, `processor/draft-send-worker.ts`) | one outbound signal, delayed messages | create, edit, send, undo, delete, worker run, bounce | API, queue, SES | stale GSI reads, unconditional writes, duplicates, staleness | no mail without a pending send, no resurrection, sends settle |
| Side effects (`processSideEffect`) | none of its own | forward, notify, workflow handler, pong, auto-draft, forward invitation | SES, account and thread rows, devices | retried as a whole; critical and best-effort effects mixed; targets change meanwhile | critical effects happen, and repeat only for a cause |
| Rules engine (`api/rulesApi.ts`, `applyRules`, `deriveOutcome`) | rule rows and system-rule overrides | create, patch, delete; list, match, trace, decide | pipeline, isolated user code | rows changed during an evaluation, a failing function, conflicting actions, a trace that is read again later | one outcome, the same for pipeline and side effects |
| Threads, matching, quarantine, follow-ups (`database/thread-database.ts`, `database/thread-matcher.ts`, `scheduler/`) | thread rows, vectors, schedules | match, create, update, approve, snooze, reprocess, list | pipeline, API, EventBridge | unconditional writes on earlier reads, alarms that come late or twice | one thread per conversation, mail is listed, snoozes end, the user's word stands |
| Aliases, senders, domains (`database/account-database.ts`, `api/aliasesApi.ts`, `api/domainsApi.ts`) | rows, links, SES identities | create, rename, block, register, drop | pipeline, exchanges, SES | several calls per request, none of them conditional | blocks hold, links live, one owner per domain |
| Account, forwarding targets, onboarding | digest, targets, flags | verify, choose, delete, onboard | API, Step Functions, feedback | two writers of one map, a token against a deletion | mail goes only where its owner agreed; choices stand |
| Statistics, domain health, health checks | day rows, snapshots | count, trim, sum up, validate | pipeline, daily jobs | retries past midnight, trimmed keys, moving recency | each message counts once, totals are sums, alarms are real |
| Feedback, devices, digest | suppression list, connections, digest messages | suppress, revert, notify, dispatch, send, unsubscribe | SES, API Gateway, SQS | late, repeated and partial deliveries | reports take effect, the open device hears, one digest a day |
| Calendar | event rows, answers, reminders | parse, save, answer, relay, remind, collapse | pipeline, mail, scheduler | racing answers and updates | an answer survives updates, reminders are true |
| Classifier (`classifier/`) | none | classify, coerce, resolve links and zones, deduplicate | language model, pipeline, resources | an answer may be anything; leap days, years left out, zones with several meanings | no answer fails a mail; no reference is shown, a link is offered once, a date is the one meant |
| Resources, settings | items per mail, views, labels, templates | merge, patch, edit | pipeline, API | groups that change, deletes during a PATCH | a status reaches the whole group, no remnants |
| Forwarding and reply sending | forwarding targets | verify, remove, forward, reply | side effects, draft send, SES | permanent rejections, answers to answers | mail goes only where its owner agreed; no endless exchange |
| External exchanges (`external-exchanges/`, `api/externalExchangesApi.ts`) | exchange rows with their cursor | sync, push registration, webhook, IDLE, fetch, send, create, patch, delete | mail servers, queue, API | overlapping runs with old snapshots, partial batches, rebuilt mailboxes, a dropped subscription, an unanswered send | the cursor leaves no unqueued mail behind, polled mail arrives, three failures deactivate, a refused mail was not sent |
| Reindex, retention | segments, vectors, raw mails | dispatch, scan, copy, retain, expire | Aurora, S3 | rows that move, partial failure | done means copied; what is kept can be read |
| Lists (`listThreads`, `listSignals`, ...) | none | page, filter | API | rows that move between two pages | every row is shown |

`PROJECT.json` lists every component with its files and status, and the hazards
of the code at their lines.

## 2. Modules

| Module | Models | State corresponds to |
|---|---|---|
| `InboundPipeline` | one account's mails from SQS to the side-effect message | `visibility`, `received`: SQS; `pc`, `msg`, `retry`, `sig`, `upserted`: the locals of an invocation; `threads`, `signals`: DynamoDB; `vectors`: Aurora; `statKeys`, `tally`: statistics; `carries`: which mail each message holds |
| `MailIntake` | what the pipeline promises (abstract): decision, searchable, released, per mail | |
| `DraftSend` | one outbound signal, its REST handlers, worker and bounces | `row`/`index`: the table and its GSI; `request`: what a handler has decided to write; `queue`: the delayed messages; `worker`: `DraftSendWorker.process`; `mails`: what SES accepted |
| `RuleOutcome` | the pure part of the rules: trace, outcome, fate | |
| `Rules` | the rule rows, their handlers, and the evaluation of one mail | `rows`: the table; `request`: what a handler has decided to write; `todo`, `trace`, `workflow`: the locals of `applyRules`; `fired`: history of every rule that held |
| `SideEffects` | the side-effect message of one active mail | `message`, `receives`: SQS; `pc`, `next`, `recency`, `critical`: the locals of `processSideEffect`; `target`, `onboarded`, `fresh`, `thread`: rows it reads; `forwarded` ... `invites`: the effects; `skipped`, `past`, `causes`: history |
| `ReplyLoop` | accounts that answer each other | `mails`: with the headers that bound an exchange; `outbox`: pending drafts |
| `Exchanges` | one external mail exchange | `row`: the table; `run`: the locals of `renew()` and of the Gmail webhook; `req`: what an API request has decided to write; `recheck`: a queued dispatch with overlap; `arrived`, `epoch`, `subscribed`: the mail server; `queued`, `passed`, `lost`, `failed`, `gone`: history |
| `Threads` | thread rows of one account and everyone who writes them | `threads`, `signals`: DynamoDB; `vectors`: Aurora; `alarms`, `schedule`: the queue and EventBridge; `codes`: side-effect messages of auth mails; `lambda`: what each invocation has read and decided |
| `Aliases` | aliases, senders, their domain and the mailbox link | `alias` (the linked exchange or 0), `sender`, `domain`, `exchanges` |
| `Domains` | one domain name, its registrants and its SES identity | `row` per account, `index`: gsi1, `ses`: which of the calls SES has seen, `dns` |
| `Account` | forwarding targets, digest, onboarding | `target`, `digest`, `calendar`, `flags`, `rule`; `mailed`, `workflow`, `nudges`: what is on its way |
| `Settings` | views, labels, templates | `view` (a position), `label`, `template`, `audit` |
| `Resources` | the resources of one thread | `item`: by key; `seen`: ids the client holds |
| `Classifier` | what becomes of the model's answer, a pure function | `answer` |
| `Dates` | the dates of an event, from the mail to the resource, a pure function | `mail`: when it came, what it states and how, the account |
| `Stats` | day rows, their history, monthly snapshots | `diff`, `snapshot`, `job`, `lambda` |
| `HealthCheck` | the daily self-test and what it looks for | `mail`, `row`, `created`, `vectors`; the platform checks |
| `Listing` | paging | `index`: the place of each row; `reader`: cursor, limit, pages so far |
| `Collapse` | the cards of calendar events, a pure function | `loaded`: the snapshots |
| `Calendar` | one event, its answers, relays and reminders | `row`, `replies`, `alarms`, `lambda` |
| `Feedback` | bounces and complaints | `list`: suppression; `draft`, `ruled`, `surfaced` |
| `Devices` | WebSocket connections and notices | `socket`: API Gateway; `row`: the device store; `notices` |
| `Digest` | daily dispatch, worker, unsubscribe | `account`, `queue`, `sent`, `token` |
| `Outlook` | subscriptions of one Outlook mailbox | `graph`: Microsoft Graph; `row`: exchanges; `index`: gsi1; `notices` |
| `Fetch` | a queued mail to its signal | `queue`, `raw`: S3; `signal`, `box` |
| `IdleWatch` | the long poller of IMAP and JMAP | `session`, `dispatches`, `refreshes` |
| `SendContract` | what the send path relies on (abstract) | `result`, `taken`, `repeated`, `attempts` |
| `Providers` | sendMessage of the four providers, with retries | `pc`: the request that is next; `repeats`: in this attempt; `sent`, `drafts` |
| `Reindex` | filling a vector cluster; retention of raw mails | `message`, `task`, `vectors`, `object`, `tagged` |
| `ProvedComponents` | `Aliases`, `Domains`, `Account`, `Settings`, `Feedback`, `Devices` and `Digest` side by side | `part`: whose behaviour it is |
| `MC...` | values and symmetry for TLC; `MCConversations` bounds `Threads` in three ways, `MCComponents` adds the other components to `ProvedComponents` | `part`: which scope, or whose behaviour |
| `InboundProofs`, `InboundDeliveryProofs`, `DraftSendProofs`, `SideEffectsProofs`, `ExchangesProofs`, `ThreadsProofs`, `ComponentsProofs`, `ProvidersProofs` | theorems | |

How they fit together: `InboundPipeline` takes any outcome of the rules and ends
with the dispatch of one side-effect message per active signal; `Rules` is where
the outcome comes from and `SideEffects` what becomes of the message, whose
automatic draft is the row that `DraftSend` follows. `ReplyLoop` closes the
circle: mail sent by one account's side effects arrives at another's. `Exchanges`
is the other source of mail: what it queues enters the pipeline once `Fetch` has
fetched it. `Threads` takes the pipeline's view of a thread apart, `Aliases` and
`Domains` its view of a recipient, `Calendar` its calendar step, `Stats` its
counter, `Devices` its notification. `Providers` is the other end of `DraftSend`
when a draft leaves through the user's own mailbox, and `SendContract` what lies
between them; `Feedback` is what comes back.

An action is what the code does between two awaits on shared state. A handler
that reads, decides and writes without a condition is therefore two actions, the
second of which no longer looks. Nondeterminism stands for data: which thread
the matcher returns, what the rules of a mail are, which embedding models answer.

### What is read

A secondary index of DynamoDB follows its table with a delay. Where a decision hangs
on it, the models have the delay: `DraftSend` (gsi1, less than the undo window), `Domains`
and `Outlook` (an `index` of their own, which `CatchUp` brings level whenever it likes),
and `Threads`, where a lookup by grouping key, by the answered mail or by vector may
miss what is there, and the list of an approval may lack any of the mails.
Elsewhere a read is one look at the current rows:

- of a row by its key, though it is not asked to be consistent;
- in `Threads`, of the row that a lookup did find, of a thread's signals, and of the
  lists that clients see; an entry that has left a partition is gone at once;
- in `Exchanges`, of the exchanges that are due (gsi1): what a run does with the row it
  read comes any time after, so most stale answers are an earlier read, and an exchange
  that is missed is due again at the next sweep;
- of the rules (gsi1) and of the lists in `Aliases`, `Settings` and `Account`.

Pages are modelled where clients or workers go from one to the next (`Listing`,
`Reindex`) and where only the first is read (`ListHistory`, `ListSiblings`, `IsRead`);
a list that the code reads to its end in one go is one read.

### InboundPipeline

One account. The recipient of a mail keeps resolving to it. `ensureAlias`, the
sender and reputation writes, S3 retention and the notice signals about invalid
rule functions are left out: no property depends on them. The ids of withheld
signals are not tracked. `dispatched` is a set, so a side-effect message sent
twice for one signal is one element; repetition is a matter of `SideEffects`.
The statistics history is not trimmed here (`Stats` does that), and the forced
reprocess is in `Threads`. One mail can be carried by several messages (`carries`, chosen in `Init`), and a
message can be redelivered while it is in flight.

### DraftSend

One signal. Content is a number that changes with every edit. The GSI lags
behind the table, but less than the shortest undo window (10 s) and the
visibility timeout (120 s): `DelayElapses` and `Reappear` wait for it. Updates of
paths below `#data` are refused for a missing item, as DynamoDB does; a PATCH
without content sets `updatedAt` only and so leaves a ghost of a deleted item.
Four hours pass (`Age`) only when no request of then is still running. `Reject`
is a permanent rejection by SES, which the reply sender reports as a success.

### Rules

A rule is a body (a condition, fixed actions and, for a js rule, the actions its
code may return), chosen once in `Init`; conditions are sets of thread workflows,
the one thing that changes while the rules of a mail run. Every API request is a
`Begin` (what it reads) and a `Finish` (its unconditional write), so requests
interleave with each other and with the evaluation. A row is absent, a rule, a
stub (the attribute an update leaves of a missing item) or a fragment (one that
carries the index key and so appears in the list, without an id). The index is
taken to be up to date (see "What is read"). The policy for
unknown senders is read when it is needed, in `Decide`.

### SideEffects

One mail whose rules have decided; the stages follow the code in order. A
critical failure (`Critical`) is remembered and gives the message back in `End`;
a best-effort failure is recorded in the history variable `skipped`. An effect
counts as happened when its message was accepted or its row written, which a
failing call may or may not have managed: both outcomes are in the failure
actions. `causes` counts what another run of the message is due to. The retention
period of the queue is a number of receives. Only targets the mail asks for are
followed. Template functions and notices are left out.

### ReplyLoop

Only the hop count and the Auto-Submitted header are kept. Drafts are sent at
once. The limit is 3 instead of 100: the count restarts with every automatic
draft, so any limit is passed.

### Exchanges

One exchange on IMAP, JMAP or Gmail, chosen in `Init` after its POST; Gmail
differs in that only its webhook reads mail. A mailbox numbers its mails; a cursor
is a position in a mailbox of an epoch, and `Honoured` says whether the server
still takes it. IMAP compares the UIDVALIDITY alone, which two servers may share,
so a cursor of another mailbox can be taken for one of this. A run holds the row
it read (`emx`), since every update writes that row's status back; an update of a
missing row creates a `partial` one without an id or a platform. JMAP answers an
error when more than `maxChanges` mails are new (RFC 8620, 5.6). Gmail's webhook reads
one page of the history (`ListHistory`, of `HistoryPage` mails; 100 in Gmail) and goes on
from where the mailbox is now; mail behind the page is `lost`. A JMAP server supports
push when it offers any capability with that name, or JMAP's core: all of them offer
the latter, so the case without push, which `PolledMailIsQueued` is about for JMAP, is
one the code provides for and seldom meets. Sweeps, IDLE
sessions, polling and the JMAP webhook only decide when a dispatch runs, so
`Dispatch` may happen at any time; the fairness is the sweep's. Outlook, the
fetching of a queued mail, sending, IDLE and the alias link have modules of their
own; `nextSyncTime` is left out here.

### Threads

The mails of one sender to one alias. A mail's run reads the policy, matches,
writes the thread, saves the signal and indexes it, one call after the other;
REST requests, the follow-up handler, reprocessing and the handler of auth mails
read, decide and write without a condition as well. Recency is the rank of the
newest mail; 0 is the epoch that lists leave out. A row whose time to live ends
(`Expire`) counts as a fault; an update of a missing row makes a partial one, which
no index holds (`Updated`). Exceptions of the properties are history variables:
`stale` names threads written on an older read, `late` mails in flight when the
policy changed, `unlisted` those that the list of an approval left out (one page of
100 of the account's quarantine, or none when the list fails), `raced` that a thread
was created by a run whose lookup was over before another thread came under the
grouping key, had failed, or had missed the thread in an index that was behind. A run remembers
for that what the index of keys held when it looked (`seen`); a row that it saw
without a key does not count, since it may expire and be created again with one.
A new signal id costs a request or a failure, so ids are bounded by `MaxTries`, a
bound no behaviour reaches.

### Aliases, Domains, Account, Settings

Each REST request is split at its awaits. `Aliases`: a rename saves the senders
anew without their policy, so a block is lost (`lifted`); a PATCH of a missing
alias creates it without a look at the domain (`strays`); a disconnect unlinks
whichever exchange the alias names. `totalAliases` is left out. `Domains`: the
registration is five calls to SES in a row, and `AlreadyExistsException` of the
first ends it as a success; the daily job does not touch the setup flags. The owner is
looked up in gsi1 (`Owner`), which may not have the first registrant's row yet: `contested`
records that such a POST went on. The DNS answers are chosen freely. `Account`: verification mails, onboarding tasks and
digests are messages that arrive at any later time; users and invitations are
Authress's and left out. `Settings`: positions of views are numbers, `Broken` the
position of a remnant; the user configuration row is left out.

### Calendar, Collapse

One event; revision n has SEQUENCE n. The step saves with a condition on the
version read and tries again (`SamePrior`), answers go through the same row. A relay
that failed may be tried again by the user while the mail's own retry is under way, so
`RowSaysWhatWasTold` excepts answers that overlapped. A day is the unit of time.
PUBLISH behaves like CANCEL for relays and reminders.
Rows never expire. `Collapse` is the pure function behind the cards, checked over
all sequences of up to three snapshots of an event.

### Stats, HealthCheck

`Stats` counts one metric. A key is counted when the day's row does not have it;
the history is cut by `TrimBy` beyond `HistoryMax` (1 and 1 here, 100 and more in
the code). A snapshot is the last one plus the days of the month before. GET reads the
newest `ReadMax` rows (2 here, 400 in the code): an account without a domain gets no
snapshot, and its totals forget what is older (`CutOff`).
`HealthCheck` follows a self-sent mail through thread, signal and vector, and asks
what `validate` and `validateLatest` would report. The recency of a thread moves
with later mails, which is what the lookup by day must survive.

### Feedback, Devices, Digest

Reports, notices and digests are messages that are delivered again when a run
ends in an error. A report names the attempt it is about (`outdated` when the
draft has been sent since). A WebSocket's row is written before it opens, so a
write may find it "gone" and remove it. No code path saves a mobile device, so
that branch is left out. An account may be without a digest from the start. A
digest's message carries the day it was queued on only in the model: the worker
asks whether today fits.

### Resources, Listing

`Resources` keeps the items of one kind that is merged, by the names their mails
give the event; an id of the API stands for a group and is resolved at each
request. `updatedAt` of the items of one PATCH is taken as one instant. `Listing`
abstracts a list to rows with a place in the index; `filter` says where the code
filters, before or after it cuts the page.

### Classifier, Dates

Both are pure functions with one step, the arrival of an answer or a mail.
`Classifier` takes a text as a sequence of links, references and words, and puts
the same text in a field for a link and in a plain one; a value is one of the
kinds of JSON that the coercion tells apart. It ends where `buildSignal` has taken
out the actions whose link stands elsewhere. `Dates` takes a date as the parts a
mail states (a day, an hour, a zone, its form), so that what the coercion makes of
it can be compared with the day that was meant; which phrases of which language
luxon reads is left out, and Luxon's calendar is external. Three abbreviations
stand for those with one offset, with several, and with none. `ShownAsMeant` and
the others name the exceptions the code admits: both numbers below 13, a day
without a year that is over or too far away, a leap day without its year, a zone
without a time.

### Outlook, Fetch, IdleWatch

`Outlook`: notices look their exchange up in gsi1, page after page, which is one read
of `index`. A unit of time is 12 hours, a subscription lives for two (23 hours
in the code), the sweep looks one ahead. `Fetch`: one mailbox address,
two mailboxes it may be pointed at, ids that are UIDs or not. `processInbound` is
one step, which may fail. `IdleWatch`: a session is a catch-up dispatch, the IDLE
or poll and the dispatch for what it saw; the properties say what it may miss.

### SendContract, Providers

`SendContract` has four variables: a refused mail was not taken, but with a request
that the adapter repeated by itself, an accepted one was, a failed attempt leaves it
open and may be made again. `Providers` has the requests each adapter makes in order
(token, draft or upload, send) and the classification of every answer; a status of 500
or none leaves it open whether the request had its effect. JMAP's adapter makes a
request up to five times (`Repeat`, `MaxRepeats`), the one that imports and submits the
mail included, so one attempt may send several mails and end in a refusal.
`ContractKept` says that it implements the contract.

### Reindex

Rows are threaded mails, mails that were held back, or signals of other types.
A segment's message is given back when any of its rows failed. `VectorsOf` is what
reprocessing removes when it empties a thread. Retention is per plan; `Age` moves
all mails past the horizons of the bucket's lifecycle rules.

### MCConversations, ProvedComponents, MCComponents

Components that share no state are checked in one run: the state is that of the
instance `part` names, `Init` chooses among them, and the other variables stay 0.
The sum of the instances' state spaces is explored, never their product. The
components with theorems are in a module of their own, since the provers carry
the definitions of every instance along; their constants are those of
`ProvedComponents`, and `MCComponents` gives the others their values in place.

Some bounds concern only TLC and are conjuncts of `MCNext`, so a theorem is about
more than the run: `Within` (how many mails, invocations, requests, faults and
hours a scope of `MCConversations` has), `OneDigest` and `OneDay` (which accounts
and days `Digest` goes through).

## 3. Runs

| Run | Bounds | Shows |
|---|---|---|
| `Inbound` | 2 messages that carry 1 mail or 2, 2 clusters, 2 invocations, 1 failure, 1 duplicate in flight | `ThreadBeforeSignal`, `AuroraGate`, `WritesAgree`, `NoLostSideEffects`, `VacantThreadsNeedFaults` |
| `InboundIntake` | 2 mails, 1 invocation, 2 failures, fairness | refinement of `MailIntake`, liveness included |
| `DraftSend` | 2 requests, 2 workers, 2 sends, 1 failure, 1 duplicate | `OnlyArmedSendsMail`, `DuplicateMailsNeedFaults`, `DeletedStaysDeleted` |
| `DraftSettles` | 1 request, 1 worker, 2 sends, 1 edit, 1 failure, 1 bounce, fairness | `PendingSendSettles` |
| `Rules` | 1 system rule, 2 user rules, 2 requests, orders 1 and 2, 2 workflows | `TraceIsFaithful`, `StatusIsSettledOnce`, `SignalFollowsThread` |
| `SideEffects` | 5 mails, 2 targets of which SES refuses one, 2 invocations, 3 receives, 1 failure, 1 duplicate, 1 later mail | `DeletedMeansDone`, `RepeatsNeedCauses`, `OnlyVerifiedForwarded`, `ExpiryIsExplained` |
| `Exchanges` | 3 platforms, 2 mailboxes of 2 and 1 mails, 2 runs, 1 request, batches and pages of 1, 2 events | `CursorFollowsQueue`, `LossesHaveCauses`, `EndsForCause` |
| `ExchangesPolled` | IMAP, and JMAP without push; 1 mailbox of 2 mails, 2 runs, 2 events, fairness | `PolledMailIsQueued` |
| `Conversations` | `Threads` in three scopes: 2 mails that have a grouping key both or neither, 2 invocations, 1 request, 1 failure over 2 hours; 1 mail, 3 requests over 3 hours; 2 mails, 1 request over 3 hours | `OneThread`, `MailIsListed`, `SiblingsAnswered`, `SnoozeEnds`, `UserIsHeard` |
| `Components` | twenty-two instances, see below | one property per component, which conjoins the invariants of its module; `ContractKept`: refinement of `SendContract` |
| `ReplyLoop`, `ListingPaged` | as small as the scenario allows | what a comment or requirement promises and the code does not do (see `findings`) |

`WritesAgree`, `StatusIsSettledOnce` and `EndsForCause` are conjunctions of
invariants that are stated and explained in the module itself.

The instances of `Components`. Two invocations and one failure where nothing else
is said:

| Module | Bounds |
|---|---|
| `Aliases` | 1 own address, 1 mailbox, 4 requests, 1 exchange |
| `Domains` | 2 accounts, 3 POSTs, 1 health check, 1 change of DNS |
| `Account` | 3 targets (the owner's, a stranger's, a webhook), 3 requests |
| `Settings` | 3 views, 1 label, 1 template with 2 function bodies, 4 requests |
| `Resources` | 2 names of one event and another event, 2 mails, 2 PATCHes, 1 expiry |
| `Stats` | 2 keys, 3 days, months of 1 day, a history of 1, 2 rows read, 2 tries |
| `HealthCheck` | 4 days, rows kept 2, a window of 2 |
| `Listing` | 3 rows, pages of 1 or 2, 4 changes |
| `Dates` | 3 moments (before and after the leap day of a leap year, and New Year's Eve of the year before), 5 days with that year's leap day, 1 hour; every form, order, zone and setting |
| `Classifier` | 7 texts (links, references with and without a link, mixtures), up to 2 actions; every failure, type and value |
| `Collapse` | all sequences of 3 snapshots over 2 sequence numbers, 2 times, 2 values |
| `Calendar` | 2 revisions and 2 answers without failures; 2 threads, 1 invocation, 1 answer and 1 failure |
| `Feedback` | 2 recipients, 2 reports of 2 tries, 2 sends, 1 expiry |
| `Devices` | 2 connections, 2 notices of 2 tries, 2 failures |
| `Digest` | 1 account with a digest at a time, over 2 days of which 1 is a Sunday; 2 accounts on one day in batches of 1, 1 invocation; 2 receives |
| `Outlook` | 2 exchanges, 2 subscriptions, 1 mail, 24 hours, 1 request or failure, 1 invocation |
| `Fetch` | 2 mailboxes, 1 UID, 2 messages of 2 receives, 2 events |
| `IdleWatch` | IMAP and JMAP, 2 mails, 2 refreshes, 3 polls |
| `Providers` | 4 platforms, 4 attempts, 5 requests that go wrong |
| `Reindex` | 1 signal that moves between 2 threads; 2 signals of one segment |

Larger instances of the same modules were run on their own while they were
written, with the same result: `Calendar` with 6.9 million distinct states,
`Outlook` 2.8 million, `Digest` 4.6 million, `Reindex` 514 thousand, `HealthCheck`
457 thousand.

The bounds are enough because each hazard needs at most two actors on one row
and one failure or duplicate between them; a second mail, rule, failure or send
lets the cases combine. In `Rules`, three rules are the least in which a third
sees both what a first settled and what a second changed; the bodies are chosen
so that statuses, approvals, labels and workflows meet. In `SideEffects`, the
five mails are those whose effects depend on each other (a live and a dead
target, one target twice, the owner's test mail, an owner's code that archives
the thread before the pong is considered, an automated mail); the third receive
is the one at which retention ends the retries. In `Exchanges` an event is a failed
call, a crash, an API request, a rebuilt mailbox or a lost subscription; two are
enough for a PATCH or DELETE with a fault beside it, and one rebuild is enough for
three failures. A batch of one leaves the second mail for the next run. In the
components, the second request, mail or day is the one that meets what the first
left or is still about to write; the third view, target, row or snapshot is what
lies between two others. `CHECK_DEADLOCK FALSE`
throughout: every message is deleted or expires in the end, evaluations finish,
and users may leave drafts and rules alone.

`NoLostSideEffects` is claimed for behaviours without duplicates in flight
(`duplicates = 0` in its statement): when a message is redelivered while it is
still being worked on, and the worker that finishes is not the one whose signal
is stored, a failure of the other can leave the stored signal undispatched.
Nothing in the code excludes that combination; the visibility timeout (120 s
against a Lambda timeout of 60 s) makes it rare.

`SignalFollowsThread` excepts rules that assign two workflows: the thread takes
the first of them and the signal the last. `RepeatsNeedCauses` counts causes per
message: a critical failure repeats every effect that had happened, which is what
the code does, since nothing records which effects were done.

Fairness. SQS offers a visible message again and again (strong fairness of
`Receive`, per message, since messages go back and forth between visible and in
flight), and an invocation that does not fail runs to its end (weak fairness of
its steps). Failures are bounded: an environment that fails for ever gets nothing
done. Delays and visibility timeouts elapse, the GSI catches up. Users owe
nothing. For exchanges it is the EventBridge schedule that sweeps every 15 minutes
(`deploy/external_mail_ingestion.tf`): weak fairness of the steps of each run, the
dispatch included. All other runs state safety only: what would have to happen
there rests on users, providers or the environment.

### Where the code differs from what is said of it

Two disagreements have a run (`findings`): automatic answers between two accounts
never end (`ReplyLoop`), and a list's cursor skips the row that was cut off its
page (`ListingPaged`). In the second, a list queries one row more than it shows,
and goes on from the key of that row instead of the last one shown. With a filter
on label, workflow or recency, a page that comes out short ends the list early.

Formulas that state what is said and that TLC refutes are kept in the modules,
with the reason, and belong to no run:

| Formula | Said | What happens |
|---|---|---|
| `DraftSend!SentWasMailed` | a rejected message goes back to the draft | a permanent rejection by SES is reported as a success |
| `Rules!DeletedRuleIsGone` | "Rule deleted" | a PATCH that read the rule before puts a remnant back |
| `Exchanges!PushedMailIsQueued` | `renew()` "does the cursor-aware catch-up" | a push sync moves the cursor past a batch that was not queued |
| `Threads!ApprovalActivates` | an approved mail "must end up active on a thread no matter what" (`api/signalsApi.ts`) | the thread it joins may have been archived or deleted since it was read |
| `Calendar!LatestSequenceWins` | "higher SEQUENCE wins" (`api/calendar-collapse.ts:66`) | rows are overwritten in the order mails are processed in, so the collapse never sees two |
| `Aliases!ActiveMailboxIsLinked` | `emxId` "must be kept in step with the exchange lifecycle" | a PATCH of the alias drops the link |
| `Resources!IdSelfCorrects` | "A reshuffled group self-corrects" | the id of an answer may name no group the list shows |
| `Feedback!HardBounceStays` | "A permanent bounce is suppressed indefinitely" | an address that bounced softly before keeps the ttl of that entry |

Others are in the models without a formula:

- Inbound: a retry of a blocked or quarantined mail is refused, since it has no
  thread (`RefuseResume`, against the comment at
  `processor/incoming-email-processor.ts:1074`). A retry resumes past the calendar
  step (against the comment at line 1984); `post-approval-handler.ts` is called
  nowhere. A notice about an invalid rule may name a thread that is never saved.
- Draft send: an undo that lands between the worker's check and SES does not stop
  the mail (`Send`, against `api/threadsApi.ts:539`); an edit may land after the
  send it was checked against.
- Threads: two concurrent first mails create two threads under one key, which the
  reader calls a "data integrity bug" (`database/thread-database.ts:398`), and so do two
  that follow each other faster than the index; an answer about a sender reaches the
  mails on the first page of the quarantine alone;
  `hasSignals` counts threads; `listActiveThreadsSince` has no upper bound.
- Aliases and domains: a rename loses the policies of its senders, a rename to the
  same address deletes the alias, and one to another's address replaces it; a
  stale approval overwrites a block; a domain's `AlreadyExistsException` stands for
  a whole registration; a revived domain gets a new creation time; `deregister` is
  never called.
- Account: a PATCH "triggers an immediate digest" that the worker drops unless
  today is one of its days; DELETE of a target does not look at the calendar
  default; verify's Put can bring a deleted target back; onboarding re-adds a digest
  the user removed; the workflow starts even when the account was not created.
- Settings: PATCH of a label stores colour and icon only, PATCH of a view not its
  layout; a view without a position makes every new one `NaN`; `reorderViews` is
  unused; PUT of a template keeps its old functions.
- Statistics: a retry after midnight counts twice, so does one whose key was
  trimmed; a write that straddles the end of a month is in no total, nor is what is
  older than 400 rows of an account without a domain.
- Feedback: a suppressed address is only logged ("Proceeding with send anyway");
  recipients who bounce in separate reports never revert the draft; a late report
  takes a draft back that was sent anew.
- Devices: a device found gone counts as delivered; a row whose save failed is
  never written again; the authorizer does not check the account.
- Digest: an unsubscribe link works for 60 days, also after the user has switched
  the digest on again.
- Resources: a merged resource that was completed reappears with the next mail
  (against `resource/resource-database.ts:44`); a failed save is never repeated; an
  older mail that comes late overwrites the date.
- Dates: 29 February without a year, when it has passed in a leap year, is shown as
  "Invalid DateTime" where it is written in words (`coerceDate` promises null on
  failure, but the day of the next year is not looked at,
  `classifier/coerce-workflow-data.ts:723`); a time later on the same day is put a year
  off (against "next future occurrence", line 424); a date with slashes loses the
  offset it states, so the account's zone takes its place (against
  `classifier/display-to-instant.ts:18`); IST is Israel's summer time for an account
  in Jerusalem.
- Classifier: `eventUrl` is missing from the list of fields that actions are compared
  with, and an overlap of a field and the way to unsubscribe is logged and left
  (against `processor/incoming-email-processor.ts:2421`); an answer that names the
  health check's workflow is accepted, which the registry forbids
  (`types/workflow-registry.ts:48`).
- Calendar: the bounce of a relayed answer finds no row after an update (against
  `database/thread-database.ts:253`); the reminder of a row that was replaced is
  logged as a "data-integrity fault"; rows of different recurrences share a
  `veventUid`, so an instance takes the place of its master's card.
- Exchanges: a PATCH to another mailbox reuses UIDs under the same key
  (`external-exchanges/emx-inbound-worker.ts:50-53`); a mail whose token expired is
  dropped without a retry, one that was not found is retried to the dead letters; a
  failed lookup skips an Outlook notice and still answers 202; a failed activation
  leaves a subscription behind; an expired subscription is never made anew; Gmail's
  expired history is answered with 200, and mail behind its first page is never queued
  (`external-exchanges/gmail-provider.ts:336`).
- Providers: 408, 429 and Gmail's 403 count as permanent; JMAP's invalid
  credentials are retried; drafts are left in the mailbox; JMAP's submission is repeated
  within an attempt, so a mail may go out several times and be reported as refused
  (`external-exchanges/jmap-adapter.ts:66`).
- IDLE: a JMAP poll asks for one change at most, so two new mails are an error that
  ends the session without a dispatch (`external-exchanges/jmap-adapter.ts:698`).
- Reindex: one row without a raw mail makes its segment fail on every delivery;
  the results of the dispatcher's sends are ignored; the vector of a mail that
  moved stays; a retention that failed is only logged.
- Health checks: `hasEmbedding` takes any vector of the thread; the ttl of a row is
  set once, so a long-lived health-check thread disappears and raises an alarm.

### Hazards without a property

One: the calendar step that a retry goes past. The model has it, and no document
promises otherwise of such an invitation. The notice signals of rules are not
modelled. Two concurrent overrides of one system rule of which one is lost, an
auto-draft whose dispatch failed and which stays pending, an undo over a newer
pending send, and a PATCH of an exchange that passes over the mail of an outage
are in the models; the code promises nothing about them.

## 4. Proofs

For all values of the constants:

- `TypeCorrect` (`InboundProofs`, `DraftSendProofs`) and
  `SideEffectsTypeCorrect`: the type invariants, strengthened by what idle
  workers, drafts and history variables must look like.
- `ThreadAlwaysFirst`: `ThreadBeforeSignal`. It is not inductive: a worker about
  to save a signal must hold one whose thread is saved, and a resumed signal is
  as good as its row. The strengthening says so for each value of `pc`.
- `DispatchIsGated`: `AuroraGate` and `OnlyActiveDispatched`. The strengthening:
  past the count a worker holds an active signal, and what it believes upserted
  is in the cluster.
- `OnlyArmedSends`: the action property `OnlyArmedSendsMail`. The invariant
  relates tokens of requests and workers to `fate`: a token in the table, in the
  GSI or in a worker about to call SES is armed.
- `NoResurrection`: the action property `DeletedStaysDeleted`.
- `AutomatedMailUnanswered` and `ForwardsNeedConsent`: the gates of
  `SideEffects`. `CheckedInv` carries what `shouldPong` and the look-up of a
  target have found to the step that acts on it: the target may have been removed
  meanwhile, so what survives is that it was verified once.
- `DeletedMessageIsDone`: `DeletedMeansDone`. The strengthening, `Progress`, says
  of every worker without a critical failure that the stages behind it have done
  their work; `Steady` says that a step undoes no effect and that a target which
  was once unverified has been so for good, so the work of every other worker
  stands. Every step is then the step of one worker among standing ones
  (`OneMoves`).
- `ImplementsContract`: `ContractKept`, for every adapter and any number of
  attempts; `RefusedWasNotSent` and `RepeatsNeedSilence`: `RefusedIsNotSent` and
  `TwiceNeedsSilence` of `Providers`. The strengthening, `AttemptInv`: an attempt has
  a result exactly when it is done, an open or refused one has handed nothing
  over unless it is JMAP's and a request of it was repeated, and the mails sent exceed
  the unanswered requests only once one was accepted. Without the last part a retry could
  follow a mail that went out.

- `CountedOncePerMessage` (`InboundDeliveryProofs`): a mail's tally is exactly the
  number of its messages that hold a counter key (`TallyInv`), since the key is
  written in the step that counts.
- `SideEffectsAreOwed`: `NoLostSideEffects`, through `DeliveryInv`: `SafetyInv` and,
  as long as no duplicate was delivered, that a message in a worker's hands is hidden
  and held by that worker alone (`HolderInv`) and that a mail whose side effects are
  owed has a message outstanding that will release them (`RetryInv`): one in the queue
  that was received before, or one with a worker on its way to the dispatch.
- `WritesAlwaysAgree`: `WritesAgree`. Its claim about vectors is for mails with one
  message each and no duplicate (`SoleDelivery`), and so for one worker to a mail;
  `OrderInv` says what holds then: what a worker remembers is what the row holds
  (`RowInv`), an id belongs to one signal (`IdInv`), and vectors and dispatches are
  of stored signals (`IndexInv`).
- `VacantThreadsHaveCauses`: `VacantThreadsNeedFaults`. `VacancyInv` counts: the vacant
  threads that no worker is about to give a signal to, the workers and the waiting
  messages that may still store one, and the mails that are settled are together at
  most the faults, the duplicates and the messages. A thread is left alone by a fault,
  or by a second signal for its mail, and whoever writes that one was counted until
  then. Every mail is settled or has a writer or a message to come, so the messages
  beyond one per mail are what is left for repeats.
- `IntakeImplemented`: every step of the pipeline is a step of `MailIntake` or
  leaves it alone, whenever each mail has one message and one worker (`OneAtATime`,
  a hypothesis on the behaviour: it is what the visibility timeout is for). Without
  it the refinement fails, as two messages of one mail may both be admitted.
- `CursorNeverRunsAhead`, `LossesAreAccountedFor`, `EndsOnlyForCause`
  (`ExchangesProofs`): `ExchangeInv` follows the mailbox, the epoch and the cursor
  from the row to every run and request that read it, since each writes them back.
  What a run has passed is queued, lost, or behind an epoch that is over; and what is lost
  was in a batch of a JMAP push sync, or stands behind a page of Gmail's history that
  was queued.
- `SecondMailNeedsFault`: `DuplicateMailsNeedFaults`, by counting: mails that went
  out, workers that may still send and messages that may start one are together at
  most one more than lost answers and duplicates.
- `RepeatsHaveCauses` and `ExpiryHasCauses`: `RepeatsNeedCauses` and
  `ExpiryIsExplained`, from a count again: receives, a waiting message and one about
  to return are at most one more than the causes.
- `OneThreadPerConversation` (`ThreadsProofs`): `OneThread`. Until somebody has
  raced, all threads under the key are one, and a run that decides on a new one
  found none because there was none (`SplitInv`). The proof found that the property was false as it first
  stood: see `seen` in section 2.
- `ApprovalReachesSiblings`: `SiblingsAnswered`. Whatever mail is still in
  quarantine for an allowed sender, and that the list did not leave out, has an
  invocation that is bound to reach it (`Covers`): the approving run, which lists the others when it is done, the list, or
  the run of another of them, which hands the rest on. A run that knew no policy once there is
  one is in `late` (`UnknownAreLate`).
- `ListsShowEveryMail`: `MailIsListed`. A thread that somebody has emptied is being
  filled or looked after (`Fills`), a mail without its vector is about to get one, or
  to leave (`Indexes`); and every writer of a row keeps the recency it read
  (`Rewrites`), takes that of a mail, or wakes a snoozed thread.

- `SnoozesEnd`: `SnoozeEnds`. The proof is of more, that an alarm comes no earlier
  than the date in the row (`RowsArmed`): whoever is about to write a date has made
  a schedule at least as late (`JobsArmed`), unless another snooze of the thread moved
  it, which then has its own write before it. Two snoozes that overlap may leave the
  earlier date's schedule under the later date, so the thread counts as `stale`.
- `UserStaysHeard`: `UserIsHeard`. A run that goes on without a policy after the user
  blocked the sender is one of a mail in flight (`Barred`); an alarm's run has read an
  archived thread; and nobody holds a snapshot of a deleted thread that it will write
  back (`Decided`), which needs that a mail has one run at a time. The claim about
  reported threads was restated for it: a thread is reported only together with the
  sender's block.
- `DomainsAreOwned` (`ComponentsProofs`, as all that follow): `DomainsHold`. Unless
  POSTs overlapped or looked up an owner that the index did not have, all rows and
  registrations are one account's (`OneClaimant`), the index has rows of registrants
  only (`IndexFollows`), and
  a registration under way has made exactly the calls of SES before its own
  (`InSequence`).
- `NotificationsAreKept`: `NotificationsHold`. A reported address is listed from the
  moment its report has passed it, as only a soft bounce gives an entry an end
  (`StaysListed`); its count is at most the tries of the reports that are through with
  it (`CountsTries`, by the cardinality of a set of tries); the signal is shown before
  the report is done (`ShownFirst`); and what is given back is of this send
  (`OfThisSend`). A connection's row is there from before it opens until after it
  closed (`ListedWhileOpen`), and a success leaves its trace (`OkIsHeard`).
- `AliasesAreKept`: `AliasesHold`. `LinksHeld` extends `LinksLive` to exchanges about to
  be deleted, whose alias has been unlinked before; `Sound` says what each request
  holds while it goes through its stages.
- `SettingsAreKept`: `SettingsHold`. A PATCH that goes on after a DELETE has its row on
  record (`ReadersKnow`), the place of a view about to be put is free, or shared
  with another's (`PlacesFree`), and functions are in the audit log
  before they are in a row (`AuditedFirst`).
- `AccountIsKept`: `AccountHolds`. A token is one target's, in its row, its mail or a
  request about to save it, so whoever presents it has read that mail (`Consented`);
  a target that is put back was not deleted meanwhile, unless the two requests met
  (`Met`, `Referred`); flags only grow (`Flagged`), and the digest that onboarding
  fills in was not chosen (`Chosen`).
- `DigestsAreKept`: `DigestHolds`. A message is held by one invocation (`Kept`), and
  messages of one dispatch for one account are of different tries (`TriesDiffer`), so
  that without a fault each account is queued, and sent, once (`OnceEach`); the
  worker's reading of the account is as old as the changes it counted (`Silent`); and
  the digest of a day is sent, excused, or owed by a message or a dispatch that is
  still there (`Owed`). The last is why `NobodyForgotten`, a claim about days that are
  over, holds: the dispatch is given back as long as one batch failed.

The assumptions are those of the modules (`...Assumption`): bounds are natural
numbers, mails are finitely many and well formed, `None` is none of the values it
stands in for (`NoneAssumption`), the user's own address may be a target
(`LoginAssumption`), the mailbox's address is on a domain of another's
(`MailboxAssumption`), the rows of settings are told apart by their kind
(`KindsAssumption`). TLC evaluates them in the runs. Theorems about `Threads` are of
`MCSpec`, of which every scope is a part of `Threads!Spec`; those of
`ComponentsProofs` are of `ProvedSpec`, whose behaviours include all that the run
`Components` has of these parts.

Some proofs failed for a reason, and the models changed: a CASE whose arms overlap
means the first arm to TLC and any arm to the semantics, so `Dispatch` of `Exchanges`,
`LoadAccount` of `Digest`, `StatusChange` of `RuleOutcome` and others now have arms that exclude each
other, as the `if` chains they stand for do.

`TypeCorrect`, `CountedOncePerMessage`, `AutomatedMailUnanswered`, `RefusedWasNotSent`
and `RepeatsNeedSilence` are proved and not part of a run.

Model-checked only:

- liveness and the refinement of `MailIntake` under fairness (`PendingSendSettles`,
  `PolledMailIsQueued`, the fair part of `ImplementsIntake`): out of the prover's reach;
- `TraceIsFaithful`, `StatusIsSettledOnce` and `SignalFollowsThread` of `Rules`, and
  `ListsHold`: what they say is the result of a fold over a sequence, or of a recursion
  over a list, of any length;
- `ResourcesHold`, of which two parts are functions of one answer or mail: TLC's
  check of all inputs is what a case distinction would repeat;
- `CountsHold` (sums over days), `AnswerIsKept`, `RemindersAreTrue`, `MailboxesHold` but
  for `Providers`, and `ReindexHolds`: not yet proved.

## 5. Plan

Done: every component of section 1, the refinements of `MailIntake` and
`SendContract`, and proofs about the pipeline, drafts, side effects, exchanges,
threads, providers, and seven of the smaller components. To come, in this order:

1. Proofs of `ReindexHolds`, of `AnswerSurvivesUpdates` and `RemindersArmed` of
   `Calendar`, of `PatchReachesAll` of `Resources` and `NoticeIsQueued` of `Outlook`.
2. An abstract inbox that `Threads` refines, and the composition of `Fetch` with
   the pipeline's deduplication.

### Not modelled

The content sanitizer and the isolated user code are stateless transformations,
and so are the phrases of each language a date may be written in. Of the
classifier the prompts, the diagnostic second call and currency codes are left
out. Billing is one conditional update per webhook; authorization is an external
service; the logger, the migrations and the wiring have no behaviour beyond
construction and output. Of the REST API, the reads and the validation of requests
are left out, of the account database the user configuration.
