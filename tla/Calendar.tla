------------------------------ MODULE Calendar ------------------------------
(***************************************************************************)
(* One calendar event of one account: the invitations, updates and         *)
(* cancellations its organizer mails, the one row they share in DynamoDB   *)
(* (the lookup id is stable per event), the user's answers by the API and  *)
(* by the REPLY mails of a calendar client, their relay to the organizer,  *)
(* and the reminders the scheduler holds.                                  *)
(*                                                                         *)
(* Revision n of the event has SEQUENCE n.  A day is the unit of time: a   *)
(* reminder is due one day before the event starts.  Answers are numbered  *)
(* as the user gives them.                                                 *)
(***************************************************************************)
EXTENDS Naturals, Sequences, FiniteSets

CONSTANTS
  Threads,       \* threads the pipeline files the event's mails under
  None,
  Lambdas,       \* concurrent invocations
  MaxRevisions, MaxAnswers, MaxFaults,
  MaxDay         \* events start on the days 1 .. MaxDay

VARIABLES
  now,
  revisions,     \* what the organizer has sent so far: method and start
  mails,         \* the mails whose calendar step is still to run
  row,           \* the calendar_event row
  minted,        \* the last calendarSignalId given out
  alarms,        \* reminders the scheduler holds
  replies,       \* REPLY mails on the queue: thread and numbered answers
  lambda,
  answers, faults,
  told,          \* history: the answer the organizer heard last
  recorded,      \* history: the last answer written to the row
  overlapped,    \* history: two answers were on their way at once
  unrecorded,    \* history: answers relayed whose record failed
  unheard,       \* history: answers whose last attempt at a relay failed
  unarmed        \* history: signals whose reminder could not be scheduled

clock == <<now, alarms>>
post  == <<revisions, mails>>
past  == <<told, recorded, overlapped, unrecorded, unheard, unarmed>>
vars  == <<clock, post, row, minted, replies, lambda, answers, faults, past>>

Numbers == 1 .. MaxAnswers
Idle == [job |-> "idle"]
Goto(i, job) == lambda' = [lambda EXCEPT ![i] = job]
Fault == faults < MaxFaults /\ faults' = faults + 1
Upcoming(event) == event.start > now

Init ==
  /\ now = 0
  /\ revisions = <<>> /\ mails = {}
  /\ row = None /\ minted = 0
  /\ alarms = {} /\ replies = {}
  /\ lambda = [i \in Lambdas |-> Idle]
  /\ answers = 0 /\ faults = 0
  /\ told = 0 /\ recorded = 0 /\ overlapped = FALSE
  /\ unrecorded = {} /\ unheard = {} /\ unarmed = {}

-----------------------------------------------------------------------------
(* The calendar step of the pipeline.                                        *)

\* collapseCalendarEvents: the highest SEQUENCE of the records in one mail is
\* the snapshot; any CANCEL among them marks it cancelled, whatever its place.
Snapshot(bundle) ==
  LET top == CHOOSE n \in bundle : \A k \in bundle : k <= n IN
  [seq |-> top, method |-> revisions[top].method, start |-> revisions[top].start,
   cancelled |-> \E n \in bundle : revisions[n].method = "CANCEL"]

\* The organizer mails a revision, perhaps with an earlier one attached too.
Organize(method, start, thread) ==
  /\ Len(revisions) < MaxRevisions
  /\ start > now
  /\ method = "CANCEL" => revisions # <<>>
  /\ revisions' = Append(revisions, [method |-> method, start |-> start])
  /\ \E old \in SUBSET DOMAIN revisions :
       mails' = mails \union {[bundle |-> old \union {Len(revisions')}, thread |-> thread]}
  /\ UNCHANGED <<clock, row, minted, replies, lambda, answers, faults, past>>

\* The step runs after the mail's signal is saved, so a retry of the mail never
\* comes back to it: a crash at the storing of the .ics loses the event.  A
\* second fresh run of the mail repeats it.
StartStep(i, m) ==
  /\ lambda[i] = Idle /\ m \in mails
  /\ minted' = minted + 1
  /\ Goto(i, [job |-> "step", pc |-> "read", mail |-> m, id |-> minted', prior |-> None, tries |-> 1])
  /\ \/ mails' = mails \ {m} /\ UNCHANGED faults
     \/ Fault /\ UNCHANGED mails
  /\ UNCHANGED <<clock, revisions, row, replies, answers, past>>

CrashStep(i) ==
  /\ lambda[i].job = "step" /\ lambda[i].pc = "read"
  /\ Fault /\ Goto(i, Idle)
  /\ UNCHANGED <<clock, post, row, minted, replies, answers, past>>

ReadPrior(i) ==
  LET step == lambda[i] IN
  /\ step.job = "step" /\ step.pc = "read"
  /\ Goto(i, [step EXCEPT !.pc = "save", !.prior = IF row = None THEN None ELSE row.rsvp])
  /\ UNCHANGED <<clock, post, row, minted, replies, answers, faults, past>>

\* Mutant: the answer is carried over without a condition.
CarryOver(prior) == TRUE
\* The answer on the row is the one that was read.
SamePrior(prior) == prior = IF row = None THEN None ELSE row.rsvp

\* saveCalendarEventSignal: the snapshot that comes last wins, whatever its
\* SEQUENCE; of the row before only the answer is kept.
SaveEvent(i) ==
  LET step == lambda[i] IN
  /\ step.job = "step" /\ step.pc = "save"
  /\ IF SamePrior(step.prior)
     THEN /\ row' = [event |-> Snapshot(step.mail.bundle), id |-> step.id,
                     thread |-> step.mail.thread, rsvp |-> step.prior, message |-> 0]
          /\ Goto(i, [step EXCEPT !.pc = "arm"])
     ELSE /\ UNCHANGED row
          /\ Goto(i, IF step.tries < 3 THEN [step EXCEPT !.pc = "read", !.tries = @ + 1] ELSE Idle)
  /\ UNCHANGED <<clock, post, minted, replies, answers, faults, past>>

\* A failed read or write is logged and the event skipped.
SkipEvent(i) ==
  /\ lambda[i].job = "step" /\ lambda[i].pc = "save"
  /\ Fault /\ Goto(i, Idle)
  /\ UNCHANGED <<clock, post, row, minted, replies, answers, past>>

\* A REQUEST more than a day ahead has a reminder, under its signal's own id.
Reminders(step, event) ==
  IF event.method = "REQUEST" /\ event.start > now + 1
  THEN {[id |-> step.id, thread |-> step.mail.thread, due |-> event.start - 1]} ELSE {}

ArmReminder(i) ==
  LET step == lambda[i]
      new == Reminders(step, Snapshot(step.mail.bundle)) IN
  /\ step.job = "step" /\ step.pc = "arm"
  /\ Goto(i, Idle)
  /\ \/ alarms' = alarms \union new /\ UNCHANGED <<faults, unarmed>>
     \/ new # {} /\ Fault /\ unarmed' = unarmed \union {step.id} /\ UNCHANGED alarms
  /\ UNCHANGED <<now, post, row, minted, replies, answers, told, recorded, overlapped,
                 unrecorded, unheard>>

-----------------------------------------------------------------------------
(* Answers.  Both entry points load the event, relay the answer, and record  *)
(* it: send first, record second.                                            *)

Answering == {i \in Lambdas : lambda[i].job = "rsvp"}
Outstanding == Answering # {} \/ replies # {}

Rsvp(by, pc, thread, url, todo) ==
  [job |-> "rsvp", by |-> by, pc |-> pc, thread |-> thread, url |-> url, todo |-> todo,
   rest |-> todo, failed |-> FALSE, seen |-> None, event |-> None, message |-> 0]

\* POST .../signals/{id}/rsvp, for the event as the user's page shows it.
AnswerByApi(i) ==
  /\ lambda[i] = Idle /\ row # None /\ answers < MaxAnswers
  /\ answers' = answers + 1
  /\ Goto(i, Rsvp("api", "signal", row.thread, row.id, <<answers'>>))
  /\ overlapped' = (overlapped \/ Outstanding)
  /\ UNCHANGED <<clock, post, row, minted, replies, faults, told, recorded, unrecorded, unheard, unarmed>>

\* The user answers in a calendar client that was forwarded the invitation: the
\* proxy UID names the thread of then.  One mail may carry two answers.
AnswerByMail(n) ==
  /\ row # None /\ answers + n <= MaxAnswers
  /\ answers' = answers + n
  /\ replies' = replies \union {[thread |-> row.thread, todo |-> [k \in 1 .. n |-> answers + k]]}
  /\ overlapped' = (overlapped \/ Outstanding \/ n > 1)
  /\ UNCHANGED <<clock, post, row, minted, lambda, faults, told, recorded, unrecorded, unheard, unarmed>>

ReceiveReply(i, mail) ==
  /\ lambda[i] = Idle /\ mail \in replies
  /\ replies' = replies \ {mail}
  /\ Goto(i, Rsvp("mail", "group", mail.thread, 0, mail.todo))
  /\ UNCHANGED <<clock, post, row, minted, answers, faults, past>>

\* getSignalById looks the id up among the thread's signals.
LoadSignal(i) ==
  LET job == lambda[i] IN
  /\ job.job = "rsvp" /\ job.pc = "signal"
  /\ Goto(i, IF row.id = job.url /\ row.thread = job.thread
             THEN [job EXCEPT !.pc = "group", !.seen = row.event] ELSE Idle)
  /\ UNCHANGED <<clock, post, row, minted, replies, answers, faults, past>>

\* What becomes of a message after one of its answers: the other answers of a
\* REPLY mail are tried too, and if any failed the whole mail is retried.
Continue(i, failed) ==
  LET job == lambda[i]
      bad == job.failed \/ failed
      more == Len(job.rest) > 1
      retried == ~more /\ bad /\ job.by = "mail" IN
  /\ Goto(i, IF more THEN [job EXCEPT !.pc = "group", !.rest = Tail(@), !.failed = bad, !.message = 0] ELSE Idle)
  /\ replies' = replies \union {[thread |-> k.thread, todo |-> k.todo] : k \in {j \in {job} : retried}}

\* The thread's calendar events with the UID, collapsed: there is at most the
\* one row.  If it has moved to another thread meanwhile, the API goes by the
\* signal it read and the REPLY mail is dropped.
LoadGroup(i) ==
  LET job == lambda[i] IN
  /\ job.job = "rsvp" /\ job.pc = "group"
  /\ \/ /\ row.thread = job.thread \/ job.by = "api"
        /\ Goto(i, [job EXCEPT !.pc = "send",
                               !.event = IF row.thread = job.thread THEN row.event ELSE job.seen])
        /\ UNCHANGED replies
     \/ row.thread # job.thread /\ job.by = "mail" /\ Continue(i, FALSE)
  /\ UNCHANGED <<clock, post, row, minted, answers, faults, past>>

\* sendRsvpToOrganizer relays an answer to a REQUEST only.
Relayable(event) == event.method = "REQUEST"

Relay(i) ==
  LET job == lambda[i]
      n == Head(job.rest) IN
  /\ job.job = "rsvp" /\ job.pc = "send"
  /\ Relayable(job.event)
  /\ told' = n /\ unheard' = unheard \ {n}
  /\ Goto(i, [job EXCEPT !.pc = "record", !.message = n])
  /\ UNCHANGED <<clock, post, row, minted, replies, answers, faults, recorded, overlapped,
                 unrecorded, unarmed>>

\* The answer is accepted without a relay: the event is not open to answers, or
\* SES rejects the mail for good.
AcceptUnrelayed(i) ==
  LET job == lambda[i] IN
  /\ job.job = "rsvp" /\ job.pc = "send"
  /\ IF Relayable(job.event) THEN Fault ELSE UNCHANGED faults
  /\ unheard' = unheard \ {Head(job.rest)}
  /\ Goto(i, [job EXCEPT !.pc = "record"])
  /\ UNCHANGED <<clock, post, row, minted, replies, answers, told, recorded, overlapped,
                 unrecorded, unarmed>>

\* 422 for the API; the next answer, and a retry in the end, for a mail.
GiveUp(i) == Continue(i, TRUE)

RelayFails(i) ==
  LET job == lambda[i] IN
  /\ job.job = "rsvp" /\ job.pc = "send" /\ Relayable(job.event)
  /\ Fault
  /\ unheard' = unheard \union {Head(job.rest)}
  /\ GiveUp(i)
  /\ UNCHANGED <<clock, post, row, minted, answers, told, recorded, overlapped, unrecorded, unarmed>>

\* setCalendarEventRsvp: an update of the row, whatever snapshot it holds now.
Record(i) ==
  LET job == lambda[i]
      n == Head(job.rest) IN
  /\ job.job = "rsvp" /\ job.pc = "record"
  /\ row' = [row EXCEPT !.rsvp = n, !.message = IF job.message = 0 THEN @ ELSE n]
  /\ recorded' = n /\ unrecorded' = unrecorded \ {n}
  /\ IF job.by = "api"
     THEN Goto(i, [job EXCEPT !.pc = "disarm"]) /\ UNCHANGED replies
     ELSE Continue(i, FALSE)
  /\ UNCHANGED <<clock, post, minted, answers, faults, told, overlapped, unheard, unarmed>>

RecordFails(i) ==
  LET job == lambda[i] IN
  /\ job.job = "rsvp" /\ job.pc = "record"
  /\ Fault
  /\ unrecorded' = unrecorded \union {Head(job.rest)}
  /\ Continue(i, TRUE)
  /\ UNCHANGED <<clock, post, row, minted, answers, told, recorded, overlapped, unheard, unarmed>>

\* The API deletes the reminder of the signal in its URL; a failure is logged.
Disarm(i) ==
  LET job == lambda[i] IN
  /\ job.job = "rsvp" /\ job.pc = "disarm"
  /\ Goto(i, Idle)
  /\ \/ /\ alarms' = IF Upcoming(job.seen) THEN {a \in alarms : a.id # job.url} ELSE alarms
        /\ UNCHANGED faults
     \/ Upcoming(job.seen) /\ Fault /\ UNCHANGED alarms
  /\ UNCHANGED <<now, post, row, minted, replies, answers, past>>

-----------------------------------------------------------------------------
(* The reminder.                                                             *)

Tick ==
  /\ now < MaxDay /\ now' = now + 1
  /\ UNCHANGED <<alarms, post, row, minted, replies, lambda, answers, faults, past>>

StartReminder(i, a) ==
  /\ lambda[i] = Idle /\ a \in alarms /\ a.due <= now
  /\ alarms' = alarms \ {a}
  /\ Goto(i, [job |-> "reminder", pc |-> "read", alarm |-> a, event |-> None])
  /\ UNCHANGED <<now, post, row, minted, replies, answers, faults, past>>

\* Mutant: the reminder is looked up by its event rather than by its signal.
OfEvent(a) == row # None
\* The signal the reminder was scheduled for, among the signals of its thread.
Found(a) == row # None /\ row.id = a.id /\ row.thread = a.thread

CheckReminder(i) ==
  LET job == lambda[i] IN
  /\ job.job = "reminder" /\ job.pc = "read"
  /\ Goto(i, IF Found(job.alarm) /\ Upcoming(row.event) /\ row.rsvp = None
             THEN [job EXCEPT !.pc = "notify", !.event = row.event] ELSE Idle)
  /\ UNCHANGED <<clock, post, row, minted, replies, answers, faults, past>>

\* A failed read or notification puts the message back.
RemindUser(i) ==
  LET job == lambda[i] IN
  /\ job.job = "reminder"
  /\ \/ job.pc = "notify" /\ UNCHANGED <<alarms, faults>>
     \/ Fault /\ alarms' = alarms \union {job.alarm}
  /\ Goto(i, Idle)
  /\ UNCHANGED <<now, post, row, minted, replies, answers, past>>

Step(i) ==
  \/ \E m \in mails : StartStep(i, m)
  \/ CrashStep(i) \/ ReadPrior(i) \/ SaveEvent(i) \/ SkipEvent(i) \/ ArmReminder(i)
  \/ AnswerByApi(i)
  \/ \E mail \in replies : ReceiveReply(i, mail)
  \/ LoadSignal(i) \/ LoadGroup(i) \/ Relay(i) \/ AcceptUnrelayed(i) \/ RelayFails(i)
  \/ Record(i) \/ RecordFails(i) \/ Disarm(i)
  \/ \E a \in alarms : StartReminder(i, a)
  \/ CheckReminder(i) \/ RemindUser(i)

Next ==
  \/ \E m \in {"REQUEST", "CANCEL"}, s \in 1 .. MaxDay, t \in Threads : Organize(m, s, t)
  \/ \E n \in 1 .. 2 : AnswerByMail(n)
  \/ Tick
  \/ \E i \in Lambdas : Step(i)

Spec == Init /\ [][Next]_vars

-----------------------------------------------------------------------------
Event == [seq : 1 .. MaxRevisions, method : {"REQUEST", "CANCEL"}, start : 1 .. MaxDay,
          cancelled : BOOLEAN]

TypeOK ==
  /\ now \in 0 .. MaxDay
  /\ row # None => /\ row.event \in Event /\ row.id \in 1 .. minted /\ row.thread \in Threads
                   /\ row.rsvp \in Numbers \union {None} /\ row.message \in 0 .. MaxAnswers
  /\ alarms \subseteq [id : 1 .. minted, thread : Threads, due : 1 .. MaxDay]
  /\ told \in 0 .. MaxAnswers /\ recorded \in 0 .. MaxAnswers
  /\ unrecorded \union unheard \subseteq Numbers
  /\ unarmed \subseteq 1 .. minted

\* "A plain put would erase an RSVP recorded against an earlier snapshot": no
\* update or cancellation takes an answer away, however the saves and the answers
\* interleave (saveCalendarEventSignal).
AnswerSurvivesUpdates == recorded # 0 => row.rsvp = recorded

\* What the row says the user answered is what the organizer heard last, unless
\* the answer was not for relaying, two answers overlapped or the record failed;
\* and an answer whose relay failed is not recorded, unless a retry of it overlapped.
RowSaysWhatWasTold ==
  row # None /\ row.rsvp # None =>
    /\ overlapped \/ row.rsvp \notin unheard
    /\ told > row.rsvp =>
         \/ overlapped
         \/ told \in unrecorded
         \/ \E i \in Answering : lambda[i].pc = "record" /\ Head(lambda[i].rest) = told

\* An unanswered event more than a day ahead has its reminder, whatever became of
\* the snapshots before it, unless the scheduler refused.
Arming == {lambda[i].id : i \in {j \in Lambdas : lambda[j].job = "step"}}
RemindersArmed ==
  row # None /\ row.event.method = "REQUEST" /\ row.event.start > now + 1
    /\ row.rsvp = None /\ row.id \notin Arming \union unarmed =>
  [id |-> row.id, thread |-> row.thread, due |-> row.event.start - 1] \in alarms

\* The user is never reminded of an event as it no longer is: the reminder of an
\* event that was moved or cancelled before it fired stays silent.
NoStaleReminder ==
  \A i \in Lambdas : lambda[i].job = "reminder" /\ lambda[i].pc = "notify" =>
    /\ lambda[i].event.method = "REQUEST"
    /\ lambda[i].event.start = lambda[i].alarm.due + 1

\* Of the snapshots of an event "higher SEQUENCE wins": once all its mails are
\* processed without a fault, the event is the one the organizer sent last.
\* It fails: the row is overwritten in the order the mails are processed in.
LatestSequenceWins ==
  mails = {} /\ Arming = {} /\ faults = 0 /\ row # None => row.event.seq = Len(revisions)
=============================================================================
