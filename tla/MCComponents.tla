---------------------------- MODULE MCComponents ---------------------------
(***************************************************************************)
(* The components that share no state, side by side for TLC: those of      *)
(* ProvedComponents and, in the same way, the others, each with its        *)
(* values.  Lambdas are interchangeable.                                   *)
(***************************************************************************)
EXTENDS ProvedComponents, FiniteSets, TLC

CONSTANTS i1, i2, i3, a1, a2, a3, b1, c1, f1, f2, t1, t2

Re == INSTANCE Resources WITH
        Names <- {1, 2}, Tickets <- {3}, Lambdas <- {i1, i2}, MaxMails <- 2, MaxPatches <- 2,
        MaxFaults <- 1, MaxExpiries <- 1, item <- v1, clock <- v2, seen <- v3, lambda <- v4,
        mails <- v5, patches <- v6, faults <- v7, expiries <- v8, set <- v9
St == INSTANCE Stats WITH
        Keys <- {a1, a2}, Lambdas <- {i1, i2}, Days <- 3, PerMonth <- 1, HistoryMax <- 1,
        TrimBy <- 1, ReadMax <- 2, MaxTries <- 2, MaxFaults <- 1, day <- v1, diff <- v2, snapshot <- v3,
        job <- v4, lambda <- v5, tries <- v6, faults <- v7, trimmed <- v8, straddled <- v9,
        late <- v10, gap <- v11
He == INSTANCE HealthCheck WITH
        Days <- 4, Retention <- 2, Lookback <- 2, MaxFaults <- 1, today <- v1, mail <- v2,
        threadOf <- v3, row <- v4, created <- v5, vectors <- v6, dns <- v7, delegation <- v8,
        ses <- v9, faults <- v10
Li == INSTANCE Listing WITH
        Rows <- {a1, a2, a3}, MaxLimit <- 2, MaxChanges <- 4, index <- v1, clock <- v2,
        reader <- v3, touched <- v4, cut <- v5
Co == INSTANCE Collapse WITH
        Events <- {1}, Sequence <- {0, 1}, Times <- {1, 2}, Fields <- {1, 2}, None <- 0,
        MaxLoaded <- 3, loaded <- v1
An == INSTANCE Calendar WITH
        Threads <- {t1}, Lambdas <- {i1, i2}, MaxRevisions <- 2, MaxAnswers <- 2,
        MaxFaults <- 0, MaxDay <- 2, now <- v1, revisions <- v2, mails <- v3, row <- v4,
        minted <- v5, alarms <- v6, replies <- v7, lambda <- v8, answers <- v9, faults <- v10,
        told <- v11, recorded <- v12, overlapped <- v13, unrecorded <- v14, unheard <- v15,
        unarmed <- v16
Mo == INSTANCE Calendar WITH
        Threads <- {t1, t2}, Lambdas <- {i3}, MaxRevisions <- 2, MaxAnswers <- 1,
        MaxFaults <- 1, MaxDay <- 2, now <- v1, revisions <- v2, mails <- v3, row <- v4,
        minted <- v5, alarms <- v6, replies <- v7, lambda <- v8, answers <- v9, faults <- v10,
        told <- v11, recorded <- v12, overlapped <- v13, unrecorded <- v14, unheard <- v15,
        unarmed <- v16
Ou == INSTANCE Outlook WITH
        Ids <- {a1, a2}, Lambdas <- {i3}, MaxSubs <- 2, MaxMails <- 1, MaxTime <- 2,
        MaxEvents <- 1, now <- v1, graph <- v2, notices <- v3, arrived <- v4, row <- v5,
        lambda <- v6, events <- v7, queued <- v8, swept <- v9, heard <- v10, unread <- v11,
        unrenewed <- v12, raced <- v13, index <- v14
Ft == INSTANCE Fetch WITH
        Kinds <- BOOLEAN, Boxes <- {a1, a2}, Uids <- {1}, Lambdas <- {i1, i2}, MaxQueued <- 2,
        MaxReceives <- 2, MaxEvents <- 2, uids <- v1, box <- v2, alias <- v3, expunged <- v4,
        queue <- v5, lambda <- v6, raw <- v7, signal <- v8, used <- v9, skipped <- v10,
        dead <- v11, moved <- v12, queuedCount <- v13, events <- v14
Id == INSTANCE IdleWatch WITH
        Platforms <- {"imap", "jmap"}, Iterations <- 3, MaxMails <- 2, MaxRefreshes <- 2,
        MaxFaults <- 1, platform <- v1, push <- v2, arrived <- v3, reached <- v4, synced <- v5,
        dispatches <- v6, refreshes <- v7, asked <- v8, session <- v9, gap <- v10,
        faulted <- v11, faults <- v12
Rx == INSTANCE Reindex WITH
        Signals <- {a1}, Segments <- {1}, Threads <- {t1, t2}, Lambdas <- {i3},
        MaxReceives <- 2, MaxFaults <- 1, MaxMoves <- 1, segmentOf <- v1, kind <- v2,
        thread <- v3, cached <- v4, plan <- v5, object <- v6, tagged <- v7, age <- v8,
        vectors <- v9, message <- v10, receives <- v11, task <- v12, stale <- v13,
        removed <- v14, kept <- v15, faults <- v16, moves <- v17
Ry == INSTANCE Reindex WITH
        Signals <- {a1, a2}, Segments <- {1}, Threads <- {t1}, Lambdas <- {i3},
        MaxReceives <- 2, MaxFaults <- 1, MaxMoves <- 0, segmentOf <- v1, kind <- v2,
        thread <- v3, cached <- v4, plan <- v5, object <- v6, tagged <- v7, age <- v8,
        vectors <- v9, message <- v10, receives <- v11, task <- v12, stale <- v13,
        removed <- v14, kept <- v15, faults <- v16, moves <- v17
Pr == INSTANCE Providers WITH
        Platforms <- {"gmail", "outlook", "jmap", "imap"}, MaxAttempts <- 4, MaxEvents <- 5,
        platform <- v1, pc <- v2, result <- v3, taken <- v4, attempts <- v5, sent <- v6,
        drafts <- v7, threadable <- v8, unclear <- v9, events <- v10, repeats <- v11
On(y, m, d) == [year |-> y, month |-> m, day |-> d]
Da == INSTANCE Dates WITH
        Moments <- {[day |-> On(28, 2, 3), hour |-> 10], [day |-> On(27, 12, 31), hour |-> 0],
                    [day |-> On(28, 3, 10), hour |-> 10]},
        Days <- {On(27, 12, 30), On(28, 2, 3), On(28, 2, 29), On(28, 12, 25), On(29, 1, 2)},
        Hours <- {18}, mail <- v1
Cl == INSTANCE Classifier WITH
        Texts <- {<<"a.example">>, <<"b.example">>, <<"[link-1]">>, <<"[link-9]">>,
                  <<"word", "[link-1]">>, <<"b.example", "[link-9]">>, <<"[link-2]", "[link-9]">>},
        answer <- v1

\* Digests of one account over all days, and those of all accounts on one day by one
\* invocation.
OneDigest == part = "digest" => Cardinality({a \in Accounts : v2[a] # None}) <= 1
OneDay == v1 = 1 /\ Cardinality({i \in Lambdas : v4[i] # Di!Idle}) <= 1

MCInit ==
  \/ ProvedInit /\ OneDigest
  \/ part = "resources" /\ Re!Init /\ Unused9
  \/ part = "stats" /\ St!Init /\ Unused11
  \/ part = "healthcheck" /\ He!Init /\ Unused10
  \/ part = "listing" /\ Li!Init /\ Unused5
  \/ part = "collapse" /\ Co!Init /\ Unused1
  \/ part = "dates" /\ Da!Init /\ Unused1
  \/ part = "classifier" /\ Cl!Init /\ Unused1
  \/ part = "answered" /\ An!Init /\ Unused16
  \/ part = "moved" /\ Mo!Init /\ Unused16
  \/ part = "digests" /\ Di!Init /\ Unused11
  \/ part = "outlook" /\ Ou!Init /\ Unused14
  \/ part = "fetch" /\ Ft!Init /\ Unused14
  \/ part = "idle" /\ Id!Init /\ Unused12
  \/ part = "reindex" /\ Rx!Init /\ Unused17
  \/ part = "reindexes" /\ Ry!Init /\ Unused17
  \/ part = "providers" /\ Pr!Init /\ Unused11

MCNext ==
  \/ ProvedNext /\ OneDigest'
  \/ part = "resources" /\ Re!Next /\ UNCHANGED Rest9
  \/ part = "stats" /\ St!Next /\ UNCHANGED Rest11
  \/ part = "healthcheck" /\ He!Next /\ UNCHANGED Rest10
  \/ part = "listing" /\ Li!Next /\ UNCHANGED Rest5
  \/ part = "collapse" /\ Co!Next /\ UNCHANGED Rest1
  \/ part = "dates" /\ Da!Next /\ UNCHANGED Rest1
  \/ part = "classifier" /\ Cl!Next /\ UNCHANGED Rest1
  \/ part = "answered" /\ An!Next /\ UNCHANGED Rest16
  \/ part = "moved" /\ Mo!Next /\ UNCHANGED Rest16
  \/ part = "digests" /\ Di!Next /\ UNCHANGED Rest11 /\ OneDay'
  \/ part = "outlook" /\ Ou!Next /\ UNCHANGED Rest14
  \/ part = "fetch" /\ Ft!Next /\ UNCHANGED Rest14
  \/ part = "idle" /\ Id!Next /\ UNCHANGED Rest12
  \/ part = "reindex" /\ Rx!Next /\ UNCHANGED Rest17
  \/ part = "reindexes" /\ Ry!Next /\ UNCHANGED Rest17
  \/ part = "providers" /\ Pr!Next /\ UNCHANGED Rest11

MCSpec == MCInit /\ [][MCNext]_values

Symmetry == Permutations(Lambdas)

-----------------------------------------------------------------------------
\* A date is shown as it was meant, whatever the model answers about a mail leaves fields of their
\* types and links offered once, no resource is a fragment, and a user's word on one reaches every
\* item that is shown as it (classifier, coerce-workflow-data, resource-api, resource-database).
ResourcesHold ==
  /\ part = "dates" => Da!TypeOK /\ Da!ShownAsMeant /\ Da!ReadableIsShown /\ Da!OffsetIsKept /\ Da!DueAtTheEnd
  /\ part = "classifier" => Cl!TypeOK /\ Cl!NoReferenceIsShown /\ Cl!OfferedOnce /\ Cl!NoLinkIsLost /\ Cl!FieldsAreTyped
  /\ part = "resources" => Re!TypeOK /\ Re!NoPartialItem /\ Re!PatchReachesAll

\* What is counted is counted once and totals are sums of days; an alarm of the health check is about
\* a mail that did not get through (stats-writer, domain-health-job, healthcheck-validator).
CountsHold ==
  /\ part = "stats" => St!TypeOK /\ St!CountedOnce /\ St!TotalsAreSums
  /\ part = "healthcheck" => He!TypeOK /\ He!JobAlarmsAreReal /\ He!LatestAlarmsAreReal

\* A list shows a row once, and loses none but those it read ahead; an event's card is its latest
\* state (thread-database, calendar-collapse).
ListsHold ==
  /\ part = "listing" => Li!TypeOK /\ Li!ShownTwiceMoved /\ Li!OnlyLookaheadIsLost
  /\ part = "collapse" => Co!TypeOK /\ Co!CancelledIsLatest /\ Co!ChangeIsFromThePrior

\* An answer to an invitation survives the event's updates, and the row says what the organizer
\* was told (saveCalendarEventSignal, setCalendarEventRsvp).
AnswerIsKept ==
  /\ part = "answered" => An!TypeOK /\ An!AnswerSurvivesUpdates /\ An!RowSaysWhatWasTold
  /\ part = "moved" => Mo!TypeOK /\ Mo!AnswerSurvivesUpdates /\ Mo!RowSaysWhatWasTold

\* An unanswered event has its reminder, and no reminder is about an event as it no longer is
\* (rsvp-reminder, rsvp-reminder-handler).
RemindersAreTrue ==
  /\ part = "answered" => An!RemindersArmed /\ An!NoStaleReminder
  /\ part = "moved" => Mo!RemindersArmed /\ Mo!NoStaleReminder

\* New mail of a mailbox is noticed, queued and fetched, and what is fetched is that mail; a mail sent
\* from it goes out twice only when an answer was lost (the providers, emx-inbound-worker).
MailboxesHold ==
  /\ part = "outlook" => Ou!TypeOK /\ Ou!OneExchange /\ Ou!SubscriptionLives /\ Ou!NoticeIsQueued
  /\ part = "fetch" => Ft!TypeOK /\ Ft!RawIsItsMail /\ Ft!NothingVanishes /\ Ft!DeadNeedsCauses
  /\ part = "idle" => Id!TypeOK /\ Id!WatchedIsFetched
  /\ part = "providers" => Pr!TypeOK /\ Pr!RefusedIsNotSent /\ Pr!TwiceNeedsSilence

\* A segment that is done is copied, a thread that was emptied is not matched, and what is kept of a
\* mail can be read (reindex-worker, retention-tier).
ReindexHolds ==
  /\ part = "reindex" => Rx!TypeOK /\ Rx!DoneMeansCopied /\ Rx!EmptiedIsUnmatched /\ Rx!SavedIsReadable
  /\ part = "reindexes" => Ry!TypeOK /\ Ry!DoneMeansCopied /\ Ry!EmptiedIsUnmatched /\ Ry!SavedIsReadable

\* Each provider keeps the contract the send path relies on: what it calls refused was not sent but
\* with a request it repeated, and only an open answer is retried (sendMessage of the four providers).
Contract == INSTANCE SendContract WITH
  MaxAttempts <- 4,
  result <- IF part = "providers" THEN v3 ELSE "pending",
  taken <- IF part = "providers" THEN v4 ELSE FALSE,
  repeated <- IF part = "providers" THEN v11 > 0 ELSE FALSE,
  attempts <- IF part = "providers" THEN v5 ELSE 1
ContractKept == Contract!Spec
=============================================================================
