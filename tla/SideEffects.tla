---------------------------- MODULE SideEffects ----------------------------
(***************************************************************************)
(* The side effects of one active mail: SQS delivers the side_effect       *)
(* message at least once, and processSideEffect forwards, notifies, runs   *)
(* the workflow handler, pongs, drafts and forwards the invitation, one    *)
(* after the other.  A critical failure is remembered, the rest still run, *)
(* and the message goes back to the queue; a best-effort failure is logged.*)
(* Nothing records which effects were done: a retry repeats them all.      *)
(*                                                                         *)
(* An effect has happened when its message was accepted or its row was     *)
(* written, which the caller does not always learn of.  What the rules     *)
(* ask for is the mail's, given once for all; conditions the code reads    *)
(* while it runs (forwarding targets, the account, the thread) change.     *)
(***************************************************************************)
EXTENDS Naturals, Sequences, FiniteSets

CONSTANTS
  Mails,        \* what the mail may be and what its rules may ask for
  Targets,      \* forwarding targets of the account
  Rejecting,    \* targets SES refuses mail to for good
  Workers,      \* concurrent Lambda invocations
  MaxReceives,  \* receives that fit in the retention period of the queue
  MaxFaults,    \* bound on failed calls and crashes
  MaxDuplicates,\* bound on deliveries of a message that is still in flight
  MaxArrivals   \* bound on later mails in the thread

Replies == {"none", "draft", "send"}
Mail == [forwards : Seq(Targets),  \* the targets of the forward actions, in order
         quiet : BOOLEAN,          \* suppress_notification or skipNotify
         otp : BOOLEAN,            \* an auth thread, and the mail has a code
         own : BOOLEAN,            \* the sender belongs to the account
         test : BOOLEAN,           \* the classifier says it is a test mail
         automated : BOOLEAN,      \* Auto-Submitted, or no return path
         reply : Replies,          \* its auto_draft action
         safe : BOOLEAN,           \* its Reply-To is trusted
         invite : BOOLEAN]         \* forwardCalendarInvite, with an event to forward

ASSUME SideEffectsAssumption ==
  /\ Mails \subseteq Mail
  /\ Rejecting \subseteq Targets
  /\ MaxReceives \in Nat \ {0}
  /\ MaxFaults \in Nat
  /\ MaxDuplicates \in Nat
  /\ MaxArrivals \in Nat

VARIABLES
  mail,        \* the mail
  message,     \* SQS: "visible", "hidden", "deleted" or "expired"
  receives,    \* SQS: ApproximateReceiveCount
  pc,          \* where each worker stands in processSideEffect
  next,        \* which forward action is its next
  recency,     \* lastSignalAt of the thread it holds in memory
  critical,    \* it remembers a critical failure
  target,      \* status of each forwarding target: "pending", "verified", "none"
  onboarded,   \* the account has seen its first test mail
  fresh,       \* the account is young and has no other active thread
  thread,      \* the thread row: its status and lastSignalAt
  forwarded,   \* how many times each target was sent the mail
  notices,     \* notifications shown
  pongs,       \* pongs sent
  drafts,      \* drafts saved as drafts
  pending,     \* drafts saved as pending_send
  invites,     \* invitations sent to the user's calendar
  skipped,     \* history: effects given up after a best-effort failure
  past,        \* history: the statuses each target has had
  faults, duplicates, arrivals,
  causes       \* history: critical failures, crashes and duplicates

queueVars   == <<message, receives, duplicates, causes>>
workerVars  == <<pc, next, recency, critical>>
accountVars == <<target, past, onboarded, fresh, thread, arrivals>>
effectVars  == <<forwarded, notices, pongs, drafts, pending, invites, skipped>>
vars == <<mail, queueVars, workerVars, accountVars, effectVars, faults>>

Labels == {"idle", "load", "forward", "send", "notify", "workflow", "shouldPong",
           "pong", "mark", "draft", "dispatch", "invite", "end"}

Goto(w, label) == pc' = [pc EXCEPT ![w] = label]
Fault == faults < MaxFaults /\ faults' = faults + 1
Skipping(effect) == skipped' = skipped \union {effect}

\* Only the targets that are asked for are followed, and the account only where
\* the mail may be answered by a pong.
Asked(t) == Cardinality({i \in DOMAIN mail.forwards : mail.forwards[i] = t})

Init ==
  /\ mail \in Mails
  /\ message = "visible"
  /\ receives = 0
  /\ pc = [w \in Workers |-> "idle"]
  /\ next = [w \in Workers |-> 1]
  /\ recency = [w \in Workers |-> 0]
  /\ critical = [w \in Workers |-> FALSE]
  /\ target \in {f \in [Targets -> {"pending", "verified", "none"}] :
                  \A t \in Targets : f[t] = "none" <=> Asked(t) = 0}
  /\ past = [t \in Targets |-> {target[t]}]
  /\ onboarded \in BOOLEAN
  /\ fresh \in BOOLEAN
  /\ ~mail.own => onboarded /\ ~fresh
  /\ thread = [status |-> "active", last |-> 0]
  /\ forwarded = [t \in Targets |-> 0]
  /\ notices = 0
  /\ pongs = 0
  /\ drafts = 0
  /\ pending = 0
  /\ invites = 0
  /\ skipped = {}
  /\ faults = 0
  /\ duplicates = 0
  /\ arrivals = 0
  /\ causes = 0

-----------------------------------------------------------------------------
(* SQS.                                                                     *)

Receive(w) ==
  /\ pc[w] = "idle"
  /\ message = "visible"
  /\ receives < MaxReceives
  /\ message' = "hidden"
  /\ receives' = receives + 1
  /\ Goto(w, IF receives = 0 THEN "forward" ELSE "load")
  /\ next' = [next EXCEPT ![w] = 1]
  /\ recency' = [recency EXCEPT ![w] = 0]
  /\ critical' = [critical EXCEPT ![w] = FALSE]
  /\ UNCHANGED <<mail, duplicates, causes, accountVars, effectVars, faults>>

\* SQS delivers a message again while an invocation still works on it.
Redeliver ==
  /\ message = "hidden"
  /\ duplicates < MaxDuplicates
  /\ duplicates' = duplicates + 1
  /\ causes' = causes + 1
  /\ message' = "visible"
  /\ UNCHANGED <<mail, receives, workerVars, accountVars, effectVars, faults>>

\* There is no dead-letter queue: the retention period ends the retries.
Expire ==
  /\ message = "visible"
  /\ receives = MaxReceives
  /\ message' = "expired"
  /\ UNCHANGED <<mail, receives, duplicates, causes, workerVars, accountVars,
                 effectVars, faults>>

ReturnMessage == message' = IF message = "hidden" THEN "visible" ELSE message

\* What another run of the message is due to.
Cause == causes' = causes + 1

\* The invocation dies, or an await outside of a try throws.
Crash(w) ==
  /\ pc[w] # "idle"
  /\ Fault
  /\ Cause
  /\ Goto(w, "idle")
  /\ ReturnMessage
  /\ UNCHANGED <<mail, receives, duplicates, next, recency, critical, accountVars,
                 effectVars>>

-----------------------------------------------------------------------------
(* processSideEffect.                                                       *)

\* A retry takes the thread from the database, not from the message.
Load(w) ==
  /\ pc[w] = "load"
  /\ recency' = [recency EXCEPT ![w] = thread.last]
  /\ Goto(w, "forward")
  /\ UNCHANGED <<mail, queueVars, next, critical, accountVars, effectVars, faults>>

LoadFails(w) ==
  /\ pc[w] = "load"
  /\ Fault
  /\ Cause
  /\ Goto(w, "idle")
  /\ ReturnMessage
  /\ UNCHANGED <<mail, receives, duplicates, next, recency, critical, accountVars,
                 effectVars>>

Critical(w) == critical' = [critical EXCEPT ![w] = TRUE] /\ Cause

\* The next forward action: its target is looked up, then the mail is sent.
NextTarget(w) == mail.forwards[next[w]]

\* Mutant: a forward to a target that is not verified is an error.
UnverifiedFails(w) ==
  /\ pc[w] = "forward"
  /\ next[w] <= Len(mail.forwards)
  /\ IF target[NextTarget(w)] = "verified"
     THEN Goto(w, "send") /\ UNCHANGED <<next, critical>>
     ELSE next' = [next EXCEPT ![w] = @ + 1] /\ critical' = [critical EXCEPT ![w] = TRUE] /\ UNCHANGED pc
  /\ UNCHANGED <<mail, queueVars, recency, accountVars, effectVars, faults>>

\* Mutant: the status of the target is not looked at.
LookUpAny(w) ==
  /\ pc[w] = "forward"
  /\ next[w] <= Len(mail.forwards)
  /\ Goto(w, "send")
  /\ UNCHANGED <<mail, queueVars, next, recency, critical, accountVars, effectVars,
                 faults>>

LookUpTarget(w) ==
  /\ pc[w] = "forward"
  /\ next[w] <= Len(mail.forwards)
  /\ IF target[NextTarget(w)] = "verified"
     THEN Goto(w, "send") /\ UNCHANGED next
     ELSE next' = [next EXCEPT ![w] = @ + 1] /\ UNCHANGED pc
  /\ UNCHANGED <<mail, queueVars, recency, critical, accountVars, effectVars, faults>>

LookUpFails(w) ==
  /\ pc[w] = "forward"
  /\ next[w] <= Len(mail.forwards)
  /\ Fault
  /\ Critical(w)
  /\ next' = [next EXCEPT ![w] = @ + 1]
  /\ UNCHANGED <<mail, message, receives, duplicates, pc, recency, accountVars, effectVars>>

SendForward(w) ==
  /\ pc[w] = "send"
  /\ NextTarget(w) \notin Rejecting
  /\ forwarded' = [forwarded EXCEPT ![NextTarget(w)] = @ + 1]
  /\ next' = [next EXCEPT ![w] = @ + 1]
  /\ Goto(w, "forward")
  /\ UNCHANGED <<mail, queueVars, recency, critical, accountVars, notices, pongs,
                 drafts, pending, invites, skipped, faults>>

\* Mutant: the failure of a forward is logged and no more.
ForwardFailureLogged(w) ==
  /\ pc[w] = "send"
  /\ Fault
  /\ \/ forwarded' = [forwarded EXCEPT ![NextTarget(w)] = @ + 1]
     \/ UNCHANGED forwarded
  /\ next' = [next EXCEPT ![w] = @ + 1]
  /\ Goto(w, "forward")
  /\ UNCHANGED <<mail, queueVars, recency, critical, accountVars, notices, pongs,
                 drafts, pending, invites, skipped>>

\* The call fails, the mail being sent or not.
ForwardFails(w) ==
  /\ pc[w] = "send"
  /\ NextTarget(w) \notin Rejecting
  /\ Fault
  /\ Critical(w)
  /\ \/ forwarded' = [forwarded EXCEPT ![NextTarget(w)] = @ + 1]
     \/ UNCHANGED forwarded
  /\ next' = [next EXCEPT ![w] = @ + 1]
  /\ Goto(w, "forward")
  /\ UNCHANGED <<mail, message, receives, duplicates, recency, accountVars, notices, pongs, drafts,
                 pending, invites, skipped>>

\* forwardEmail hands a permanent rejection on like any other error.
ForwardRejected(w) ==
  /\ pc[w] = "send"
  /\ NextTarget(w) \in Rejecting
  /\ Critical(w)
  /\ next' = [next EXCEPT ![w] = @ + 1]
  /\ Goto(w, "forward")
  /\ UNCHANGED <<mail, message, receives, duplicates, recency, accountVars, effectVars, faults>>

ForwardsDone(w) ==
  /\ pc[w] = "forward"
  /\ next[w] > Len(mail.forwards)
  /\ Goto(w, IF mail.quiet THEN "workflow" ELSE "notify")
  /\ UNCHANGED <<mail, queueVars, next, recency, critical, accountVars, effectVars,
                 faults>>

Notify(w) ==
  /\ pc[w] = "notify"
  /\ notices' = notices + 1
  /\ Goto(w, "workflow")
  /\ UNCHANGED <<mail, queueVars, next, recency, critical, accountVars, forwarded,
                 pongs, drafts, pending, invites, skipped, faults>>

\* Mutant: a failed notification forces a retry.
NotifyForcesRetry(w) ==
  /\ pc[w] = "notify"
  /\ Fault
  /\ critical' = [critical EXCEPT ![w] = TRUE]
  /\ Goto(w, "workflow")
  /\ UNCHANGED <<mail, queueVars, next, recency, accountVars, effectVars>>

NotifyFails(w) ==
  /\ pc[w] = "notify"
  /\ Fault
  /\ Skipping("notify")
  /\ Goto(w, "workflow")
  /\ UNCHANGED <<mail, queueVars, next, recency, critical, accountVars, forwarded,
                 notices, pongs, drafts, pending, invites>>

\* The handler of auth threads pushes the code and archives the thread, with
\* the recency it holds; its failures are logged.
RunWorkflow(w) ==
  /\ pc[w] = "workflow"
  /\ thread' = IF mail.otp THEN [status |-> "archived", last |-> recency[w]] ELSE thread
  /\ Goto(w, "shouldPong")
  /\ UNCHANGED <<mail, queueVars, next, recency, critical, target, past,
                 onboarded, fresh, arrivals, effectVars, faults>>

WorkflowFails(w) ==
  /\ pc[w] = "workflow"
  /\ mail.otp
  /\ Fault
  /\ Goto(w, "shouldPong")
  /\ UNCHANGED <<mail, queueVars, next, recency, critical, accountVars, effectVars>>

\* A human sender of the account's own, and the moment of a test: the mail is one,
\* or the account has seen none, or it is young and has no active thread.
PongDue ==
  /\ mail.own
  /\ ~mail.automated
  /\ mail.test \/ ~onboarded \/ (fresh /\ thread.status # "active")

ShouldPong(w) ==
  /\ pc[w] = "shouldPong"
  /\ Goto(w, IF PongDue THEN "pong" ELSE "draft")
  /\ UNCHANGED <<mail, queueVars, next, recency, critical, accountVars, effectVars,
                 faults>>

ShouldPongFails(w) ==
  /\ pc[w] = "shouldPong"
  /\ Fault
  /\ Skipping("pong")
  /\ Goto(w, "draft")
  /\ UNCHANGED <<mail, queueVars, next, recency, critical, accountVars, forwarded,
                 notices, pongs, drafts, pending, invites>>

\* sendReply takes a permanent rejection by SES for a success.
SendPong(w) ==
  /\ pc[w] = "pong"
  /\ \/ pongs' = pongs + 1 /\ UNCHANGED <<skipped, faults>>
     \/ Fault /\ Skipping("pong") /\ UNCHANGED pongs
  /\ Goto(w, "mark")
  /\ UNCHANGED <<mail, queueVars, next, recency, critical, accountVars, forwarded,
                 notices, drafts, pending, invites>>

PongFails(w) ==
  /\ pc[w] = "pong"
  /\ Fault
  /\ Critical(w)
  /\ pongs' \in {pongs, pongs + 1}
  /\ Goto(w, "draft")
  /\ UNCHANGED <<mail, message, receives, duplicates, next, recency, accountVars, forwarded, notices,
                 drafts, pending, invites, skipped>>

\* markTestEmailReceived; a failure is logged.
MarkTestEmailReceived(w) ==
  /\ pc[w] = "mark"
  /\ \/ onboarded' = TRUE /\ UNCHANGED faults
     \/ Fault /\ UNCHANGED onboarded
  /\ Goto(w, "draft")
  /\ UNCHANGED <<mail, queueVars, next, recency, critical, target, past,
                 fresh, thread, arrivals, effectVars>>

\* The gates of an automatic send: its functions must have run, the domain be set
\* up for sending, the Reply-To be trusted and the mail be written by a human.
MayAutoSend == mail.reply = "send" /\ mail.safe /\ ~mail.automated

SaveDraft(w) ==
  /\ pc[w] = "draft"
  /\ mail.reply # "none"
  /\ \/ /\ MayAutoSend
        /\ pending' = pending + 1
        /\ Goto(w, "dispatch")
        /\ UNCHANGED drafts
     \/ /\ drafts' = drafts + 1
        /\ Goto(w, "invite")
        /\ UNCHANGED pending
  /\ UNCHANGED <<mail, queueVars, next, recency, critical, accountVars, forwarded,
                 notices, pongs, invites, skipped, faults>>

SaveDraftFails(w) ==
  /\ pc[w] = "draft"
  /\ mail.reply # "none"
  /\ Fault
  /\ Critical(w)
  /\ \/ drafts' = drafts + 1
     \/ UNCHANGED drafts
  /\ Goto(w, "invite")
  /\ UNCHANGED <<mail, message, receives, duplicates, next, recency, accountVars, forwarded, notices,
                 pongs, pending, invites, skipped>>

\* The template cannot be read, or the rendering throws.
DraftGivenUp(w) ==
  /\ pc[w] = "draft"
  /\ mail.reply # "none"
  /\ Fault
  /\ Skipping("draft")
  /\ Goto(w, "invite")
  /\ UNCHANGED <<mail, queueVars, next, recency, critical, accountVars, forwarded,
                 notices, pongs, drafts, pending, invites>>

NoDraft(w) ==
  /\ pc[w] = "draft"
  /\ mail.reply = "none"
  /\ Goto(w, "invite")
  /\ UNCHANGED <<mail, queueVars, next, recency, critical, accountVars, effectVars,
                 faults>>

\* The delayed draft_send message; without it the draft stays pending.
DispatchDraft(w) ==
  /\ pc[w] = "dispatch"
  /\ \/ UNCHANGED <<faults, skipped>>
     \/ Fault /\ Skipping("dispatch")
  /\ Goto(w, "invite")
  /\ UNCHANGED <<mail, queueVars, next, recency, critical, accountVars, forwarded,
                 notices, pongs, drafts, pending, invites>>

ForwardInvite(w) ==
  /\ pc[w] = "invite"
  /\ invites' = invites + (IF mail.invite THEN 1 ELSE 0)
  /\ Goto(w, "end")
  /\ UNCHANGED <<mail, queueVars, next, recency, critical, accountVars, forwarded,
                 notices, pongs, drafts, pending, skipped, faults>>

\* The send fails for now; a lookup that fails, and a rejection, are only logged.
ForwardInviteFails(w) ==
  /\ pc[w] = "invite"
  /\ mail.invite
  /\ Fault
  /\ \/ Critical(w) /\ invites' \in {invites, invites + 1} /\ UNCHANGED skipped
     \/ Skipping("invite") /\ UNCHANGED <<critical, causes, invites>>
  /\ Goto(w, "end")
  /\ UNCHANGED <<mail, message, receives, duplicates, next, recency, accountVars, forwarded, notices,
                 pongs, drafts, pending>>

\* A critical failure gives the message back; otherwise it is deleted.
End(w) ==
  /\ pc[w] = "end"
  /\ Goto(w, "idle")
  /\ IF critical[w] THEN ReturnMessage
     ELSE message' = "deleted"
  /\ UNCHANGED <<mail, receives, duplicates, causes, next, recency, critical, accountVars,
                 effectVars, faults>>

-----------------------------------------------------------------------------
(* The rest of the system.                                                  *)

\* The owner of a target opens the link; the user removes a target.
Verify(t) ==
  /\ target[t] = "pending"
  /\ target' = [target EXCEPT ![t] = "verified"]
  /\ past' = [past EXCEPT ![t] = @ \union {"verified"}]
  /\ UNCHANGED <<mail, queueVars, workerVars, onboarded, fresh, thread, arrivals,
                 effectVars, faults>>

Remove(t) ==
  /\ target[t] # "none"
  /\ target' = [target EXCEPT ![t] = "none"]
  /\ past' = [past EXCEPT ![t] = @ \union {"none"}]
  /\ UNCHANGED <<mail, queueVars, workerVars, onboarded, fresh, thread,
                 arrivals, effectVars, faults>>

\* A later mail joins the thread.
Arrive ==
  /\ arrivals < MaxArrivals
  /\ arrivals' = arrivals + 1
  /\ thread' = [status |-> "active", last |-> arrivals + 1]
  /\ UNCHANGED <<mail, queueVars, workerVars, target, past, onboarded, fresh,
                 effectVars, faults>>

Forwarding(w) ==
  \/ LookUpTarget(w) \/ LookUpFails(w) \/ SendForward(w) \/ ForwardFails(w)
  \/ ForwardRejected(w) \/ ForwardsDone(w)

Ponging(w) ==
  \/ ShouldPong(w) \/ ShouldPongFails(w) \/ SendPong(w) \/ PongFails(w)
  \/ MarkTestEmailReceived(w)

Drafting(w) ==
  \/ SaveDraft(w) \/ SaveDraftFails(w) \/ DraftGivenUp(w) \/ NoDraft(w)
  \/ DispatchDraft(w)

ProcessSideEffect(w) ==
  \/ Load(w) \/ LoadFails(w)
  \/ Forwarding(w)
  \/ Notify(w) \/ NotifyFails(w)
  \/ RunWorkflow(w) \/ WorkflowFails(w)
  \/ Ponging(w)
  \/ Drafting(w)
  \/ ForwardInvite(w) \/ ForwardInviteFails(w)
  \/ End(w)

Next ==
  \/ \E w \in Workers : Receive(w) \/ ProcessSideEffect(w) \/ Crash(w)
  \/ Redeliver
  \/ Expire
  \/ \E t \in Targets : Verify(t) \/ Remove(t)
  \/ Arrive

Spec == Init /\ [][Next]_vars

-----------------------------------------------------------------------------
(* Properties.                                                              *)

\* Workers, message, account and effects are well formed.
TypeOK ==
  /\ mail \in Mails
  /\ message \in {"visible", "hidden", "deleted", "expired"}
  /\ receives \in 0..MaxReceives
  /\ pc \in [Workers -> Labels]
  /\ next \in [Workers -> 1..(Len(mail.forwards) + 1)]
  /\ \A w \in Workers : pc[w] = "send" => next[w] <= Len(mail.forwards)
  /\ target \in [Targets -> {"pending", "verified", "none"}]
  /\ forwarded \in [Targets -> Nat]
  /\ thread \in [status : {"active", "archived"}, last : 0..MaxArrivals]

\* "Forward (critical - recipient loses the email if this fails)": once the
\* message is deleted, every target that was verified all along has the mail, and
\* the draft and the invitation exist unless a best-effort step failed.
DeletedMeansDone ==
  message = "deleted" =>
    /\ \A t \in Targets :
         (Asked(t) > 0 /\ past[t] = {"verified"}) => forwarded[t] > 0
    /\ mail.reply # "none" => drafts + pending > 0 \/ "draft" \in skipped
    /\ mail.invite => invites > 0 \/ "invite" \in skipped

\* No effect happens more often than the mail asks for it, times one run and one
\* more for every critical failure, crash and duplicate: a "best-effort" failure
\* repeats nothing.
RepeatsNeedCauses ==
  /\ \A t \in Targets : forwarded[t] <= Asked(t) * (1 + causes)
  /\ pongs <= 1 + causes
  /\ drafts + pending <= 1 + causes

\* "never auto-respond to a message that is itself automated": neither a pong nor
\* a draft that sends itself.
AutomatedStaysUnanswered == mail.automated => pongs = 0 /\ pending = 0

\* A target gets mail only if its owner has agreed to it at some time.
OnlyVerifiedForwarded ==
  \A t \in Targets : forwarded[t] > 0 => "verified" \in past[t]

\* The retention period ends the retries only where faults, duplicates or a
\* target that SES rejects account for every one of them.
ExpiryIsExplained ==
  message = "expired" =>
    \/ causes >= MaxReceives
    \/ \E i \in DOMAIN mail.forwards : mail.forwards[i] \in Rejecting
=============================================================================
