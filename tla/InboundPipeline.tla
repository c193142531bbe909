-------------------------- MODULE InboundPipeline --------------------------
(***************************************************************************)
(* The inbound e-mail pipeline: SQS delivery of an inbound message to the  *)
(* one Lambda (handler.ts), and IncomingEmailProcessor.processInbound, from*)
(* the dedup lookup to the dispatch of the side-effect message.            *)
(*                                                                         *)
(* One account is followed.  A mail is an e-mail of that account, named by *)
(* its composite mail message id: the partition key of its signal row.  A  *)
(* message is an SQS message that carries a mail; SES, SNS and SQS deliver *)
(* at least once, so several messages may carry one mail.  A worker is a   *)
(* Lambda invocation working on one record.  Each action is one step       *)
(* between two awaits on state that other workers share.                   *)
(*                                                                         *)
(* The content of the mail, the classifier, the rules and the embedding    *)
(* models appear only through what they decide: the disposition of the     *)
(* mail, the thread it is matched to, the clusters it has a vector for.    *)
(* They are re-run on every fresh attempt and owe the same answer to no    *)
(* two attempts, so each decision is a nondeterministic choice.            *)
(***************************************************************************)
EXTENDS Naturals, FiniteSets

CONSTANTS
  Mails,          \* composite mail message ids
  Messages,       \* SQS messages carrying them
  Invites,        \* the mails with a valid calendar (.ics) attachment
  Clusters,       \* active Aurora clusters (CLUSTER_REGISTRY)
  Primary,        \* the cluster thread matching reads from
  Workers,        \* concurrent Lambda invocations
  NoMessage,      \* an idle worker's message
  MaxFaults,      \* bound on abandoned deliveries (error, crash or timeout)
  MaxDuplicates   \* bound on deliveries of a message that is still in flight

ASSUME InboundAssumption ==
  /\ IsFiniteSet(Messages)
  /\ Invites \subseteq Mails
  /\ Primary \in Clusters
  /\ NoMessage \notin Messages
  /\ MaxFaults \in Nat
  /\ MaxDuplicates \in Nat

VARIABLES
  carries,      \* the mail each message carries, given once for all
  visibility,   \* SQS: "visible", "hidden" (in flight) or "deleted" per message
  received,     \* SQS: ApproximateReceiveCount > 0, per message
  pc,           \* where each worker stands in the handler
  msg,          \* the message it works on
  retry,        \* receiveCount > 1, read when the message was received
  sig,          \* the signal object it holds in memory
  upserted,     \* clusters whose upsert has returned ok to it
  threads,      \* DynamoDB: ids of the thread rows
  signals,      \* DynamoDB: the signal row of each mail
  vectors,      \* Aurora: the (thread, signal) rows of each cluster
  calendared,   \* mails processCalendarAttachment has run to its end for
  statKeys,     \* idempotency keys (SQS message ids) in the stats history
  tally,        \* stats: increments counted for each mail
  dispatched,   \* side-effect messages sent: the signals they carry
  nextId,       \* the next signal id to be generated
  faults, duplicates

queueVars  == <<carries, visibility, received, duplicates>>
workerVars == <<pc, msg, retry, sig, upserted>>
tableVars  == <<threads, signals, vectors, calendared, statKeys, tally>>
vars == <<queueVars, workerVars, tableVars, dispatched, nextId, faults>>

-----------------------------------------------------------------------------
(* Signal records.  Ids are naturals, 0 for "none"; the id of a new thread  *)
(* is derived from the id of the signal that creates it, so both are drawn  *)
(* from the same numbers.                                                   *)

Statuses == {"none", "blocked", "quarantined", "active"}

Signal == [id : Nat, thread : Nat, status : Statuses, embedded : SUBSET Clusters]

NoSignal == [id |-> 0, thread |-> 0, status |-> "none", embedded |-> {}]

\* A signal kept out of the inbox (block_* or quarantine_*): no thread, no
\* vectors, and an id nothing refers to.
Withheld(status) ==
  [id |-> 0, thread |-> 0, status |-> status, embedded |-> {}]

\* buildActiveThread derives the thread id from the signal id when none matched.
Threaded(match, embedded) ==
  [id |-> nextId, thread |-> IF match = 0 THEN nextId ELSE match,
   status |-> "active", embedded |-> embedded]

VectorRow(s) == <<s.thread, s.id>>

Labels == {"idle", "lookup", "match", "saveThread", "saveSignal", "count",
           "calendar", "index", "deduped", "ok"}

MailAt(w) == carries[msg[w]]
SavedSignal(w) == signals[MailAt(w)]

Goto(w, label) == pc' = [pc EXCEPT ![w] = label]

Init ==
  /\ carries \in [Messages -> Mails]
  /\ visibility = [m \in Messages |-> "visible"]
  /\ received = [m \in Messages |-> FALSE]
  /\ pc = [w \in Workers |-> "idle"]
  /\ msg = [w \in Workers |-> NoMessage]
  /\ retry = [w \in Workers |-> FALSE]
  /\ sig = [w \in Workers |-> NoSignal]
  /\ upserted = [w \in Workers |-> {}]
  /\ threads = {}
  /\ signals = [e \in Mails |-> NoSignal]
  /\ vectors = [c \in Clusters |-> {}]
  /\ calendared = {}
  /\ statKeys = {}
  /\ tally = [e \in Mails |-> 0]
  /\ dispatched = {}
  /\ nextId = 1
  /\ faults = 0
  /\ duplicates = 0

-----------------------------------------------------------------------------
(* SQS.                                                                     *)

\* An idle invocation receives a visible message; the receive count it is
\* given tells a first delivery from a retry.
Receive(w, m) ==
  /\ pc[w] = "idle"
  /\ visibility[m] = "visible"
  /\ visibility' = [visibility EXCEPT ![m] = "hidden"]
  /\ received' = [received EXCEPT ![m] = TRUE]
  /\ Goto(w, "lookup")
  /\ msg' = [msg EXCEPT ![w] = m]
  /\ retry' = [retry EXCEPT ![w] = received[m]]
  /\ UNCHANGED <<carries, duplicates, sig, upserted, tableVars, dispatched, nextId,
                 faults>>

\* SQS hands out a message again while an invocation still works on it.
Redeliver(m) ==
  /\ visibility[m] = "hidden"
  /\ duplicates < MaxDuplicates
  /\ visibility' = [visibility EXCEPT ![m] = "visible"]
  /\ duplicates' = duplicates + 1
  /\ UNCHANGED <<carries, received, workerVars, tableVars, dispatched, nextId, faults>>

\* The invocation forgets the record it was working on.
Forget(w) ==
  /\ Goto(w, "idle")
  /\ msg' = [msg EXCEPT ![w] = NoMessage]
  /\ retry' = [retry EXCEPT ![w] = FALSE]
  /\ sig' = [sig EXCEPT ![w] = NoSignal]
  /\ upserted' = [upserted EXCEPT ![w] = {}]

\* The record goes back to the queue, unless it has been deleted meanwhile.
ReturnToQueue(w) ==
  visibility' = [visibility EXCEPT
                   ![msg[w]] = IF @ = "deleted" THEN @ ELSE "visible"]

\* The record is not in batchItemFailures: the event source deletes it.
Ack(w) ==
  /\ pc[w] \in {"ok", "deduped"}
  /\ visibility' = [visibility EXCEPT ![msg[w]] = "deleted"]
  /\ Forget(w)
  /\ UNCHANGED <<carries, received, tableVars, dispatched, nextId, faults, duplicates>>

\* A call fails and the record is reported in batchItemFailures, or the
\* invocation crashes or times out, or another record of its batch does: what
\* it held in memory is lost and the message becomes visible again.
Abandon(w) ==
  /\ pc[w] # "idle"
  /\ faults < MaxFaults
  /\ faults' = faults + 1
  /\ ReturnToQueue(w)
  /\ Forget(w)
  /\ UNCHANGED <<carries, received, tableVars, dispatched, nextId, duplicates>>

-----------------------------------------------------------------------------
(* The dedup lookup, which is also the retry-resume checkpoint.             *)

\* The existing signal can be resumed from: its thread row is there.
CanResume(s) == s.thread \in threads

\* Mutant: retries are skipped like first deliveries.
DedupSkipRetries(w) ==
  /\ pc[w] = "lookup"
  /\ SavedSignal(w) # NoSignal
  /\ Goto(w, "deduped")
  /\ UNCHANGED <<queueVars, msg, retry, sig, upserted, tableVars, dispatched,
                 nextId, faults>>

\* First delivery: taken for a duplicate of a mail processed before.
DedupSkip(w) ==
  /\ pc[w] = "lookup"
  /\ SavedSignal(w) # NoSignal
  /\ ~retry[w]
  /\ Goto(w, "deduped")
  /\ UNCHANGED <<queueVars, msg, retry, sig, upserted, tableVars, dispatched, nextId, faults>>

\* Mutant: a retry that finds the signal saved takes the mail for processed.
ResumeWithNothing(w) ==
  /\ pc[w] = "lookup"
  /\ SavedSignal(w) # NoSignal
  /\ retry[w]
  /\ CanResume(SavedSignal(w))
  /\ Goto(w, "ok")
  /\ UNCHANGED <<queueVars, msg, retry, sig, upserted, tableVars, dispatched,
                 nextId, faults>>

\* The retry takes the stored signal and goes on from the convergence point.
Resume(w) ==
  /\ pc[w] = "lookup"
  /\ SavedSignal(w) # NoSignal
  /\ retry[w]
  /\ CanResume(SavedSignal(w))
  /\ sig' = [sig EXCEPT ![w] = SavedSignal(w)]
  /\ Goto(w, "index")
  /\ UNCHANGED <<queueVars, msg, retry, upserted, tableVars, dispatched, nextId, faults>>

\* "signal missing threadId on retry" / "thread not found on retry".
RefuseResume(w) ==
  /\ pc[w] = "lookup"
  /\ SavedSignal(w) # NoSignal
  /\ retry[w]
  /\ ~CanResume(SavedSignal(w))
  /\ ReturnToQueue(w)
  /\ Forget(w)
  /\ UNCHANGED <<carries, received, tableVars, dispatched, nextId, faults, duplicates>>

\* Mutant: every attempt runs the whole pipeline, as a forced reprocess does.
StartFreshAlways(w) ==
  /\ pc[w] = "lookup"
  /\ Goto(w, "match")
  /\ UNCHANGED <<queueVars, msg, retry, sig, upserted, tableVars, dispatched,
                 nextId, faults>>

StartFresh(w) ==
  /\ pc[w] = "lookup"
  /\ SavedSignal(w) = NoSignal
  /\ Goto(w, "match")
  /\ UNCHANGED <<queueVars, msg, retry, sig, upserted, tableVars, dispatched, nextId, faults>>

-----------------------------------------------------------------------------
(* The fresh run, up to the save of the signal.                             *)

\* An incoming DSN is handed to the bounce handler and leaves no signal.
AbsorbBounce(w) ==
  /\ pc[w] = "match"
  /\ Goto(w, "ok")
  /\ UNCHANGED <<queueVars, msg, retry, sig, upserted, tableVars, dispatched,
                 nextId, faults>>

\* Mutant: the thread shell is persisted before the signal is kept out of it.
WithholdAfterThread(w, status) ==
  /\ pc[w] = "match"
  /\ threads' = threads \union {nextId}
  /\ nextId' = nextId + 1
  /\ sig' = [sig EXCEPT ![w] = Withheld(status)]
  /\ Goto(w, "saveSignal")
  /\ UNCHANGED <<queueVars, msg, retry, upserted, signals, vectors, calendared,
                 statKeys, tally, dispatched, faults>>

\* The signal is built without a thread and saved next.
Withhold(w, status) ==
  /\ pc[w] = "match"
  /\ sig' = [sig EXCEPT ![w] = Withheld(status)]
  /\ Goto(w, "saveSignal")
  /\ UNCHANGED <<queueVars, msg, retry, upserted, tableVars, dispatched, nextId, faults>>

\* DKIM or DMARC verdict FAIL; the sender's policy for the alias, before the
\* classifier or after the match; a rule, or the alias's policy for strangers.
RejectSpoofed(w) == Withhold(w, "blocked")
BlockSender(w) == Withhold(w, "blocked")
BlockByRule(w) == Withhold(w, "blocked")
Quarantine(w) == Withhold(w, "quarantined")

\* Mutant: the signal is saved without its thread.
AdmitWithoutThread(w, match, embedded) ==
  /\ pc[w] = "match"
  /\ Primary \in embedded
  /\ sig' = [sig EXCEPT ![w] = Threaded(match, embedded)]
  /\ nextId' = nextId + 1
  /\ Goto(w, "saveSignal")
  /\ UNCHANGED <<queueVars, msg, retry, upserted, tableVars, dispatched, faults>>

\* No rule keeps the mail out.  It is matched to an existing thread (match) or to
\* none (0), and its signal is built in memory, under a new id.  It has a vector
\* for the primary cluster (without it, there is no match); the other models may
\* fail to give one.
Admit(w, match, embedded) ==
  /\ pc[w] = "match"
  /\ Primary \in embedded
  /\ sig' = [sig EXCEPT ![w] = Threaded(match, embedded)]
  /\ nextId' = nextId + 1
  /\ Goto(w, "saveThread")
  /\ UNCHANGED <<queueVars, msg, retry, upserted, tableVars, dispatched, faults>>

\* updateThread or createThread.
SaveThread(w) ==
  /\ pc[w] = "saveThread"
  /\ threads' = threads \union {sig[w].thread}
  /\ Goto(w, "saveSignal")
  /\ UNCHANGED <<queueVars, msg, retry, sig, upserted, signals, vectors,
                 calendared, statKeys, tally, dispatched, nextId, faults>>

\* An unconditional put under the mail's key.
SaveSignal(w) ==
  /\ pc[w] = "saveSignal"
  /\ signals' = [signals EXCEPT ![MailAt(w)] = sig[w]]
  /\ Goto(w, "count")
  /\ UNCHANGED <<queueVars, msg, retry, sig, upserted, threads, vectors,
                 calendared, statKeys, tally, dispatched, nextId, faults>>

-----------------------------------------------------------------------------
(* After the save.                                                          *)

\* writeDiffMetric is conditional on the key's absence from the history.
KeyIsNew(m) == m \notin statKeys

AfterCount(w) == Goto(w, IF sig[w].status = "active" THEN "calendar" ELSE "ok")

Count(w) ==
  /\ pc[w] = "count"
  /\ KeyIsNew(msg[w])
  /\ statKeys' = statKeys \union {msg[w]}
  /\ tally' = [tally EXCEPT ![MailAt(w)] = @ + 1]
  /\ AfterCount(w)
  /\ UNCHANGED <<queueVars, msg, retry, sig, upserted, threads, signals, vectors,
                 calendared, dispatched, nextId, faults>>

\* The key was there already, or the write failed: logged, never an error.
CountNothing(w) ==
  /\ pc[w] = "count"
  /\ AfterCount(w)
  /\ UNCHANGED <<queueVars, msg, retry, sig, upserted, tableVars, dispatched,
                 nextId, faults>>

\* processCalendarAttachment, run to its end.
Calendar(w) ==
  /\ pc[w] = "calendar"
  /\ calendared' = calendared \union ({MailAt(w)} \intersect Invites)
  /\ Goto(w, "index")
  /\ UNCHANGED <<queueVars, msg, retry, sig, upserted, threads, signals, vectors,
                 statKeys, tally, dispatched, nextId, faults>>

\* One of the parallel upserts of executeAuroraUpserts succeeds.
UpsertVector(w, c) ==
  /\ pc[w] = "index"
  /\ c \in sig[w].embedded \ upserted[w]
  /\ vectors' = [vectors EXCEPT ![c] = @ \union {VectorRow(sig[w])}]
  /\ upserted' = [upserted EXCEPT ![w] = @ \union {c}]
  /\ UNCHANGED <<queueVars, pc, msg, retry, sig, threads, signals,
                 calendared, statKeys, tally, dispatched, nextId, faults>>

\* Mutant: only the primary cluster gates the dispatch.
PrimaryUpserted(w) == Primary \in upserted[w]

\* No cluster the signal has a vector for is still to be written.
AllUpserted(w) == sig[w].embedded \subseteq upserted[w]

DispatchSideEffects(w) ==
  /\ pc[w] = "index"
  /\ AllUpserted(w)
  /\ dispatched' = dispatched \union {sig[w]}
  /\ Goto(w, "ok")
  /\ UNCHANGED <<queueVars, msg, retry, sig, upserted, tableVars, nextId, faults>>

-----------------------------------------------------------------------------
(* One record of the event source, from receipt to acknowledgement.         *)

Fresh(w) ==
  \/ AbsorbBounce(w)
  \/ RejectSpoofed(w)
  \/ BlockSender(w)
  \/ BlockByRule(w)
  \/ Quarantine(w)
  \/ \E match \in threads \union {0}, embedded \in SUBSET Clusters :
       Admit(w, match, embedded)
  \/ SaveThread(w)
  \/ SaveSignal(w)

Process(w) ==
  \/ DedupSkip(w)
  \/ Resume(w)
  \/ RefuseResume(w)
  \/ StartFresh(w)
  \/ Fresh(w)
  \/ Count(w)
  \/ CountNothing(w)
  \/ Calendar(w)
  \/ \E c \in Clusters : UpsertVector(w, c)
  \/ DispatchSideEffects(w)
  \/ Ack(w)

Next ==
  \/ \E w \in Workers, m \in Messages : Receive(w, m)
  \/ \E m \in Messages : Redeliver(m)
  \/ \E w \in Workers : Process(w)
  \/ \E w \in Workers : Abandon(w)

Spec == Init /\ [][Next]_vars

\* The event source keeps invoking the Lambda for visible messages, and an
\* invocation that neither fails nor crashes runs on to its end.
Fairness ==
  /\ \A m \in Messages : SF_vars(\E w \in Workers : Receive(w, m))
  /\ \A w \in Workers : WF_vars(Process(w))

FairSpec == Spec /\ Fairness

-----------------------------------------------------------------------------
(* Properties.                                                              *)

\* Every row and every worker's memory is well formed, an invocation has a
\* record exactly while it is busy, and a message it holds has been received.
TypeOK ==
  /\ carries \in [Messages -> Mails]
  /\ visibility \in [Messages -> {"visible", "hidden", "deleted"}]
  /\ received \in [Messages -> BOOLEAN]
  /\ pc \in [Workers -> Labels]
  /\ msg \in [Workers -> Messages \union {NoMessage}]
  /\ retry \in [Workers -> BOOLEAN]
  /\ sig \in [Workers -> Signal]
  /\ upserted \in [Workers -> SUBSET Clusters]
  /\ threads \subseteq Nat
  /\ signals \in [Mails -> Signal]
  /\ vectors \in [Clusters -> SUBSET (Nat \X Nat)]
  /\ calendared \subseteq Invites
  /\ statKeys \subseteq Messages
  /\ tally \in [Mails -> Nat]
  /\ dispatched \subseteq Signal
  /\ nextId \in Nat \ {0}
  /\ faults \in Nat
  /\ duplicates \in Nat
  /\ \A w \in Workers : pc[w] = "idle" <=> msg[w] = NoMessage
  /\ \A w \in Workers : msg[w] # NoMessage => received[msg[w]]

\* Leaf before dependent: a saved signal that names a thread never outruns
\* the thread's row (the comment on the save of the thread), whatever crashes
\* and whichever duplicate overwrites it.
ThreadBeforeSignal ==
  \A e \in Mails : signals[e].thread # 0 => signals[e].thread \in threads

\* The side-effect message of a signal leaves only when every cluster the
\* signal has a vector for holds its row ("Aurora upserts gate dispatch").
AuroraGate ==
  \A s \in dispatched : \A c \in s.embedded : VectorRow(s) \in vectors[c]

\* Side effects are never released for a mail kept out of the inbox.
OnlyActiveDispatched == \A s \in dispatched : s.status = "active"

CarriersOf(e) == {m \in Messages : carries[m] = e}

\* When SQS holds no message of a mail any more, nothing will retry it: the
\* signal stored for it, if it is an active one, has been dispatched, in whatever
\* order its messages failed and were retried, as long as none was delivered
\* again while it was in flight.
NoLostSideEffects ==
  duplicates = 0 =>
    \A e \in Mails :
      (signals[e].status = "active"
         /\ \A m \in CarriersOf(e) : visibility[m] = "deleted")
      => signals[e] \in dispatched

\* The dashboard never counts a mail more often than SQS messages carried it:
\* redeliveries and concurrent deliveries of one message count once.
StatsOncePerMessage ==
  \A e \in Mails : tally[e] <= Cardinality(CarriersOf(e))

\* Search never returns a signal the inbox does not have: when every mail comes
\* in one message that is in flight once at a time, each vector row is the row
\* of a saved signal, however often the attempts fail and resume.
OneMessagePerMail == \A e \in Mails : Cardinality(CarriersOf(e)) <= 1

VectorsHaveSignals ==
  (OneMessagePerMail /\ duplicates = 0) =>
    \A c \in Clusters : vectors[c] \subseteq {VectorRow(signals[e]) : e \in Mails}

\* What a mail leaves in the other stores agrees with its signals: as long as a
\* mail has one message, which is not delivered again in flight, a vector belongs
\* to a saved signal; the statistics count a message at most once; and only an
\* active signal was handed to the side effects.  (saveSignal, upsertVector,
\* recordMessage and the dispatch are separate writes of one invocation.)
WritesAgree == VectorsHaveSignals /\ StatsOncePerMessage /\ OnlyActiveDispatched

\* A thread row to which no saved signal belongs is what a failed or repeated
\* attempt leaves behind: there are no more of them than attempts that were
\* abandoned or doubled, and the ones in progress.
InProgress == {w \in Workers : pc[w] = "saveSignal"}
VacantThreads == threads \ {signals[e].thread : e \in Mails}
VacantThreadsNeedFaults ==
  Cardinality(VacantThreads)
    <= faults + duplicates + Cardinality(InProgress)
         + Cardinality(Messages) - Cardinality({carries[m] : m \in Messages})

\* The pipeline implements the intake it promises: a mail's decision is the
\* signal stored for it, it is searchable once all its vectors are written.
Searchable(e) ==
  /\ signals[e].status = "active"
  /\ \A c \in signals[e].embedded : VectorRow(signals[e]) \in vectors[c]

Intake == INSTANCE MailIntake WITH
  Decisions <- Signal,
  NoDecision <- NoSignal,
  Admitted <- {s \in Signal : s.status = "active"},
  decision <- signals,
  searchable <- {e \in Mails : Searchable(e)},
  released <- {e \in Mails : signals[e] \in dispatched}

ImplementsIntake == Intake!FairSpec
=============================================================================
