----------------------------- MODULE DraftSend -----------------------------
(***************************************************************************)
(* Sending a draft with an undo window: the REST handlers that send, edit, *)
(* undo and delete one outbound signal (threadsApi.ts), the delayed SQS    *)
(* message, DraftSendWorker, and the bounce that reverts a sent mail.      *)
(*                                                                         *)
(* A handler reads the signal through the GSI (getSignalById), decides,    *)
(* and writes later and unconditionally; so each is a read step that checks*)
(* and a write step that no longer looks.  The GSI follows the table with  *)
(* a lag.  A token is a sendInitiatedAt: one per send request, and one SQS *)
(* message carries it.                                                     *)
(***************************************************************************)
EXTENDS Naturals, FiniteSets

CONSTANTS
  Requests,     \* concurrent REST requests (slots, reused)
  Workers,      \* concurrent DraftSendWorker invocations
  MaxSends,     \* bound on send requests (tokens)
  MaxEdits,     \* bound on edits
  MaxBounces,   \* bound on bounce notifications processed
  MaxFaults,    \* bound on failed or crashed worker runs
  MaxDuplicates \* bound on deliveries of a message that is still in flight

ASSUME DraftSendAssumption ==
  /\ MaxSends \in Nat
  /\ MaxEdits \in Nat
  /\ MaxBounces \in Nat
  /\ MaxFaults \in Nat
  /\ MaxDuplicates \in Nat

Tokens == 1..MaxSends

VARIABLES
  row,          \* the signal's row in DynamoDB
  index,        \* the row as the GSI shows it
  request,      \* what each REST request is about to do
  queue,        \* the SQS message of each token: not sent yet ("none"), delayed,
                \* visible, in flight ("hidden"), waiting for the visibility
                \* timeout ("returned"), deleted ("gone")
  worker,       \* what each worker is about to do
  mails,        \* how many times SES accepted the mail of each token
  bounces,      \* notifications of a bounce for every recipient, processed
  aged,         \* tokens more than PENDING_SEND_STALE_HOURS old
  sends, edits, faults, duplicates,
  lost,         \* history: worker runs that ended between SES and the sent status
  fate          \* history: "new", "armed" or "withdrawn", per token

dataVars == <<row, index>>
apiVars  == <<request, sends, edits>>
sqsVars  == <<queue, faults, lost, duplicates>>
mailVars == <<mails, bounces>>
vars == <<dataVars, apiVars, sqsVars, mailVars, worker, aged, fate>>

-----------------------------------------------------------------------------
Statuses == {"none", "ghost", "draft", "pending_send", "sent"}
Row == [status : Statuses, token : Nat, body : Nat]

NoRow == [status |-> "none", token |-> 0, body |-> 0]
Ghost == [status |-> "ghost", token |-> 0, body |-> 0]
Draft(body) == [status |-> "draft", token |-> 0, body |-> body]
Pending(token, body) == [status |-> "pending_send", token |-> token, body |-> body]

\* A ghost is an item that has its key, updatedAt and nothing else: it has no
\* #data to update, and is in no index.
Exists(r) == r.status \notin {"none", "ghost"}
Indexed(r) == IF Exists(r) THEN r ELSE NoRow
CaughtUp == index = Indexed(row)

\* coerceStaleStatus: a send pending for too long reads as a draft.
Shown(r) ==
  IF r.status = "pending_send" /\ r.token \in aged THEN "draft" ELSE r.status

RequestSteps == {"idle", "auto", "dispatch", "arm", "edit", "touch", "undo",
                 "delete"}
WorkerSteps == {"idle", "read", "send", "mark", "done"}

Idle == [pc |-> "idle", token |-> 0]
At(step, token) == [pc |-> step, token |-> token]

\* Mutant: the update is an upsert.
Upsert(new) == row' = new

\* updateSignalSendStatus and updateSignal set paths below #data, which
\* DynamoDB rejects when the item is not there or has no #data: an update of the
\* content or of the send status never creates a row.
Update(new) == Exists(row) /\ row' = new

\* The user's draft at rest; or the auto-draft rule's, saved as pending and
\* about to be dispatched by the side-effect handler.
Init ==
  /\ \/ /\ row = Draft(0)
        /\ request = [r \in Requests |-> Idle]
        /\ sends = 0
        /\ fate = [t \in Tokens |-> "new"]
     \/ /\ MaxSends > 0
        /\ row = Pending(1, 0)
        /\ \E r \in Requests :
             request = [q \in Requests |-> IF q = r THEN At("auto", 1) ELSE Idle]
        /\ sends = 1
        /\ fate = [t \in Tokens |-> IF t = 1 THEN "armed" ELSE "new"]
  /\ index = row
  /\ queue = [t \in Tokens |-> "none"]
  /\ worker = [w \in Workers |-> Idle]
  /\ mails = [t \in Tokens |-> 0]
  /\ bounces = 0
  /\ aged = {}
  /\ edits = 0
  /\ faults = 0
  /\ lost = 0
  /\ duplicates = 0

-----------------------------------------------------------------------------
(* The REST handlers.                                                       *)

\* Every handler first reads the signal and checks the status it shows.
Begin(r, status, next) ==
  /\ request[r] = Idle
  /\ Shown(index) = status
  /\ request' = [request EXCEPT ![r] = next]
  /\ UNCHANGED <<dataVars, edits, sqsVars, mailVars, worker, aged>>

Finish(r) == request' = [request EXCEPT ![r] = Idle]

\* POST .../send: only a draft can be sent; sendInitiatedAt is taken now.
BeginSend(r) ==
  /\ sends < MaxSends
  /\ sends' = sends + 1
  /\ Begin(r, "draft", At("dispatch", sends + 1))

\* The delayed message is queued before the row is written.
Dispatch(r) ==
  /\ request[r].pc = "dispatch"
  /\ queue' = [queue EXCEPT ![request[r].token] = "delayed"]
  /\ request' = [request EXCEPT ![r] = At("arm", request[r].token)]
  /\ UNCHANGED <<dataVars, sends, edits, faults, lost, duplicates, mailVars, worker, aged>>

Arm(r) ==
  /\ request[r].pc = "arm"
  /\ Update(Pending(request[r].token, row.body))
  /\ Finish(r)
  /\ UNCHANGED <<index, sends, edits, sqsVars, mailVars, worker, aged>>

\* The auto-draft rule has saved its draft as pending; now it dispatches.
AutoDispatch(r) ==
  /\ request[r].pc = "auto"
  /\ queue' = [queue EXCEPT ![request[r].token] = "delayed"]
  /\ Finish(r)
  /\ UNCHANGED <<dataVars, sends, edits, faults, lost, duplicates, mailVars, worker, aged>>

\* PUT, or PATCH of a draft.
BeginEdit(r) ==
  /\ edits < MaxEdits
  /\ Begin(r, "draft", At("edit", 0))
  /\ UNCHANGED sends

Edit(r) ==
  /\ request[r].pc = "edit"
  /\ edits < MaxEdits
  /\ edits' = edits + 1
  /\ Update([row EXCEPT !.body = edits + 1])
  /\ Finish(r)
  /\ UNCHANGED <<index, sends, sqsVars, mailVars, worker, aged>>

\* PATCH of a draft with no content field, as a repeated undo is ("status":
\* "draft" alone): updateSignal sets updatedAt and nothing else, which creates
\* the item when it has been deleted meanwhile.
BeginTouch(r) ==
  /\ Begin(r, "draft", At("touch", 0))
  /\ UNCHANGED sends

Touch(r) ==
  /\ request[r].pc = "touch"
  /\ row' = IF row = NoRow THEN Ghost ELSE row
  /\ Finish(r)
  /\ UNCHANGED <<index, sends, edits, sqsVars, mailVars, worker, aged>>

\* PATCH of a pending signal back to draft.
BeginUndo(r) ==
  /\ Begin(r, "pending_send", At("undo", 0))
  /\ UNCHANGED sends

Undo(r) ==
  /\ request[r].pc = "undo"
  /\ Update([row EXCEPT !.status = "draft", !.token = 0])
  /\ Finish(r)
  /\ UNCHANGED <<index, sends, edits, sqsVars, mailVars, worker, aged>>

BeginDelete(r) ==
  /\ Begin(r, "draft", At("delete", 0))
  /\ UNCHANGED sends

Delete(r) ==
  /\ request[r].pc = "delete"
  /\ row' = NoRow
  /\ Finish(r)
  /\ UNCHANGED <<index, sends, edits, sqsVars, mailVars, worker, aged>>

\* The request dies, or the call it was about to make fails.
Drop(r) ==
  /\ request[r] # Idle
  /\ Finish(r)
  /\ UNCHANGED <<dataVars, sends, edits, sqsVars, mailVars, worker, aged>>

Api(r) ==
  \/ BeginSend(r) \/ Dispatch(r) \/ Arm(r) \/ AutoDispatch(r)
  \/ BeginEdit(r) \/ Edit(r)
  \/ BeginTouch(r) \/ Touch(r)
  \/ BeginUndo(r) \/ Undo(r)
  \/ BeginDelete(r) \/ Delete(r)
  \/ Drop(r)

-----------------------------------------------------------------------------
(* The worker.                                                              *)

\* The undo window is over; even the shortest (10 s) outlasts the GSI's lag.
DelayElapses(t) ==
  /\ queue[t] = "delayed"
  /\ CaughtUp
  /\ queue' = [queue EXCEPT ![t] = "visible"]
  /\ UNCHANGED <<dataVars, apiVars, faults, lost, duplicates, mailVars, worker, aged>>

Receive(w, t) ==
  /\ worker[w] = Idle
  /\ queue[t] = "visible"
  /\ queue' = [queue EXCEPT ![t] = "hidden"]
  /\ worker' = [worker EXCEPT ![w] = At("read", t)]
  /\ UNCHANGED <<dataVars, apiVars, faults, lost, duplicates, mailVars, aged>>

\* SQS hands out a message again while a worker still has it.
Redeliver(t) ==
  /\ queue[t] = "hidden"
  /\ duplicates < MaxDuplicates
  /\ duplicates' = duplicates + 1
  /\ queue' = [queue EXCEPT ![t] = "visible"]
  /\ UNCHANGED <<dataVars, apiVars, faults, lost, mailVars, worker, aged>>

WorkerGoto(w, step) == worker' = [worker EXCEPT ![w] = At(step, @.token)]

\* Mutants: sendInitiatedAt is not compared; the status is not checked.
StillPendingAnySend(token) == Shown(index) = "pending_send"
StillThisSend(token) == index.token = token

\* The signal is still pending, and pending for this very send.
StillPending(token) == Shown(index) = "pending_send" /\ index.token = token

Check(w) ==
  /\ worker[w].pc = "read"
  /\ WorkerGoto(w, IF StillPending(worker[w].token) THEN "send" ELSE "done")
  /\ UNCHANGED <<dataVars, apiVars, sqsVars, mailVars, aged>>

\* SES accepts the mail.
Send(w) ==
  /\ worker[w].pc = "send"
  /\ mails' = [mails EXCEPT ![worker[w].token] = @ + 1]
  /\ WorkerGoto(w, "mark")
  /\ UNCHANGED <<dataVars, apiVars, sqsVars, bounces, aged>>

\* SES rejects the mail for good: sendViaSes reports a success without an id.
Reject(w) ==
  /\ worker[w].pc = "send"
  /\ WorkerGoto(w, "mark")
  /\ UNCHANGED <<dataVars, apiVars, sqsVars, mailVars, aged>>

\* No MX for a recipient, an address that cannot send, or a permanent rejection
\* by a provider: back to draft, with a reason.
Park(w) ==
  /\ worker[w].pc = "send"
  /\ Update([row EXCEPT !.status = "draft", !.token = 0])
  /\ WorkerGoto(w, "done")
  /\ UNCHANGED <<index, apiVars, sqsVars, mailVars, aged>>

\* The transition to sent touches neither sendInitiatedAt nor the content.
MarkSent(w) ==
  /\ worker[w].pc = "mark"
  /\ Update([row EXCEPT !.status = "sent"])
  /\ WorkerGoto(w, "done")
  /\ UNCHANGED <<index, apiVars, sqsVars, mailVars, aged>>

\* Mutant: a failed run is acknowledged.
DropFromQueue(t) == queue' = [queue EXCEPT ![t] = "gone"]

ReturnToQueue(t) ==
  queue' = [queue EXCEPT ![t] = IF @ = "gone" THEN @ ELSE "returned"]

\* The visibility timeout (two minutes) is over; the GSI has long caught up.
Reappear(t) ==
  /\ queue[t] = "returned"
  /\ CaughtUp
  /\ queue' = [queue EXCEPT ![t] = "visible"]
  /\ UNCHANGED <<dataVars, apiVars, faults, lost, duplicates, mailVars, worker, aged>>

Release(w) == worker' = [worker EXCEPT ![w] = Idle]

\* The row has been deleted under the worker: its update fails.
UpdateRefused(w) ==
  /\ worker[w].pc \in {"send", "mark"}
  /\ ~Exists(row)
  /\ ReturnToQueue(worker[w].token)
  /\ Release(w)
  /\ UNCHANGED <<dataVars, apiVars, faults, lost, duplicates, mailVars, aged>>

\* A transient error, a crash or a timeout.
Abandon(w) ==
  /\ worker[w] # Idle
  /\ faults < MaxFaults
  /\ faults' = faults + 1
  /\ lost' = lost + (IF worker[w].pc = "mark" THEN 1 ELSE 0)
  /\ ReturnToQueue(worker[w].token)
  /\ Release(w)
  /\ UNCHANGED <<dataVars, apiVars, duplicates, mailVars, aged>>

Ack(w) ==
  /\ worker[w].pc = "done"
  /\ queue' = [queue EXCEPT ![worker[w].token] = "gone"]
  /\ Release(w)
  /\ UNCHANGED <<dataVars, apiVars, faults, lost, duplicates, mailVars, aged>>

Work(w) ==
  \/ Check(w) \/ Send(w) \/ Reject(w) \/ Park(w) \/ MarkSent(w)
  \/ UpdateRefused(w) \/ Ack(w)

-----------------------------------------------------------------------------
(* The environment.                                                         *)

\* The GSI catches up with the table.
Replicate ==
  /\ ~CaughtUp
  /\ index' = Indexed(row)
  /\ UNCHANGED <<row, apiVars, sqsVars, mailVars, worker, aged>>

\* Every recipient of a mail bounced for good: the feedback processor finds the
\* signal by its tag and BounceHandler reverts it, whatever it is by then.  A
\* notification may come more than once.
Bounce(t) ==
  /\ mails[t] > 0
  /\ bounces < MaxBounces
  /\ bounces' = bounces + 1
  /\ Exists(index)
  /\ Update([row EXCEPT !.status = "draft", !.token = 0])
  /\ UNCHANGED <<index, apiVars, sqsVars, mails, worker, aged>>

\* Four hours pass since the send; no request of then is still running.
Age(t) ==
  /\ t <= sends
  /\ t \notin aged
  /\ queue[t] # "delayed"
  /\ \A r \in Requests : request[r] = Idle
  /\ CaughtUp
  /\ aged' = aged \union {t}
  /\ UNCHANGED <<dataVars, apiVars, sqsVars, mailVars, worker>>

Step ==
  \/ \E r \in Requests : Api(r)
  \/ \E t \in Tokens : DelayElapses(t) \/ Redeliver(t) \/ Reappear(t)
                         \/ Bounce(t) \/ Age(t)
  \/ \E w \in Workers, t \in Tokens : Receive(w, t)
  \/ \E w \in Workers : Work(w) \/ Abandon(w)
  \/ Replicate

\* A send is live while the table or its GSI names it, or a worker has checked
\* it and not yet called SES.  It is armed by the write that makes it pending,
\* and withdrawn once it is live no more.
Live(t) ==
  \/ row.token = t
  \/ index.token = t
  \/ \E w \in Workers : worker[w] = At("send", t)

Track ==
  fate' = [t \in Tokens |->
             CASE fate[t] = "new" /\ row'.token = t -> "armed"
               [] fate[t] = "armed" /\ ~Live(t)'    -> "withdrawn"
               [] OTHER                             -> fate[t]]

Next == Step /\ Track

Spec == Init /\ [][Next]_vars

\* Delays elapse, the GSI catches up, a visible message is received sooner or
\* later, and a worker that does not fail runs on.  Users owe nothing.
Fairness ==
  /\ \A t \in Tokens : WF_vars((DelayElapses(t) \/ Reappear(t)) /\ Track)
  /\ \A t \in Tokens : SF_vars(\E w \in Workers : Receive(w, t) /\ Track)
  /\ \A w \in Workers : WF_vars(Work(w) /\ Track)
  /\ WF_vars(Replicate /\ Track)

FairSpec == Spec /\ Fairness

-----------------------------------------------------------------------------
(* Properties.                                                              *)

\* Rows, requests and workers are well formed; a draft carries no token and a
\* pending row carries one.
TypeOK ==
  /\ row \in Row /\ index \in Row
  /\ request \in [Requests -> [pc : RequestSteps, token : Tokens \union {0}]]
  /\ worker \in [Workers -> [pc : WorkerSteps, token : Tokens \union {0}]]
  /\ queue \in [Tokens -> {"none", "delayed", "visible", "hidden", "returned", "gone"}]
  /\ mails \in [Tokens -> Nat]
  /\ bounces \in 0..MaxBounces
  /\ aged \subseteq Tokens
  /\ sends \in 0..MaxSends
  /\ edits \in 0..MaxEdits
  /\ faults \in Nat
  /\ lost \in Nat
  /\ duplicates \in Nat
  /\ fate \in [Tokens -> {"new", "armed", "withdrawn"}]
  /\ \A s \in {row, index} :
       /\ s.status = "draft" => s.token = 0
       /\ s.status = "pending_send" => s.token \in Tokens

\* SES is called only for a send whose pending state reached the table, and
\* that was not withdrawn since: a failed send request mails nothing although
\* its message is in the queue already, and once an undo (or a park, a bounce,
\* a delete, another send) has taken a send out of the table and of the GSI
\* before a worker checked it, no redelivery and no late write brings it back.
OnlyArmedSendsMail ==
  [][\A t \in Tokens : mails'[t] # mails[t] => fate[t] = "armed"]_vars

\* One send mails once, and again only for a message delivered twice or a worker
\* run lost before the sent status was written: failures before the call to SES
\* and after the status never cause a second mail, nor does a deleted row.
DuplicateMailsNeedFaults ==
  \A t \in Tokens : mails[t] <= 1 + lost + duplicates

\* A deleted draft stays deleted: no late update of a request, a worker or a
\* bounce gives it back a status or a content, though a late touch may leave a
\* ghost of it.
DeletedStaysDeleted == [][Exists(row') => Exists(row)]_vars

\* A send that is pending before its undo window is over is settled: sent, or
\* back to draft (too old for a send, at worst), deleted, or replaced by another
\* send.
PendingSendSettles ==
  \A t \in Tokens :
    (row.status = "pending_send" /\ row.token = t /\ queue[t] = "delayed")
    ~> ~(Shown(row) = "pending_send" /\ row.token = t)

-----------------------------------------------------------------------------
(* What the send-flow design says, and the code does not do.                *)

\* "The message itself is the problem - a retry sends the same bytes to the same
\* rejection. Park the draft with the reason so the user can fix and resend": a
\* signal becomes sent only when some mail of it has gone out.
SentWasMailed ==
  [][(row.status # "sent" /\ row'.status = "sent") => \E t \in Tokens : mails[t] > 0]_vars
=============================================================================
