------------------------- MODULE SideEffectsProofs -------------------------
(***************************************************************************)
(* Proofs about SideEffects, for any mail, set of targets and of workers,  *)
(* and any bound on receives, faults, duplicates and later mails.          *)
(***************************************************************************)
EXTENDS SideEffects, FiniteSetTheorems, TLAPS

-----------------------------------------------------------------------------
(* The inductive invariant.                                                 *)

TypeInv ==
  /\ TypeOK
  /\ recency \in [Workers -> 0..MaxArrivals]
  /\ critical \in [Workers -> BOOLEAN]
  /\ past \in [Targets -> SUBSET {"pending", "verified", "none"}]
  /\ \A t \in Targets : target[t] \in past[t]
  /\ arrivals \in 0..MaxArrivals
  /\ pongs \in Nat
  /\ drafts \in Nat
  /\ pending \in Nat
  /\ invites \in Nat

\* A worker about to send was told that the target is verified, and one about to
\* pong that the mail is not automated.
CheckedInv ==
  \A w \in Workers :
    /\ pc[w] = "send" => "verified" \in past[NextTarget(w)]
    /\ pc[w] = "pong" => ~mail.automated

GateInv == TypeInv /\ CheckedInv /\ AutomatedStaysUnanswered /\ OnlyVerifiedForwarded

-----------------------------------------------------------------------------
(* Type correctness.                                                        *)

\* A mail's forward actions are a list of targets.
LEMMA MailShape ==
  ASSUME mail \in Mails
  PROVE  /\ Len(mail.forwards) \in Nat
         /\ DOMAIN mail.forwards = 1..Len(mail.forwards)
         /\ \A i \in 1..Len(mail.forwards) : mail.forwards[i] \in Targets
         /\ mail.automated \in BOOLEAN
BY SideEffectsAssumption DEF Mail

LEMMA InitType == Init => TypeInv
<1> SUFFICES ASSUME Init PROVE TypeInv
  OBVIOUS
<1> USE SideEffectsAssumption
<1>1. Len(mail.forwards) \in Nat
  BY MailShape DEF Init
<1>2. TypeOK
  BY <1>1 DEF Init, TypeOK, Labels
<1>3. QED
  BY <1>2 DEF Init, TypeInv

\* The steps that work on the list of forwards.
LEMMA ForwardingType ==
  ASSUME TypeInv, NEW w \in Workers, Forwarding(w)
  PROVE  TypeInv'
<1> USE SideEffectsAssumption
<1> USE DEF TypeInv, TypeOK, Labels, Goto, queueVars, workerVars, accountVars, effectVars
<1>0. Len(mail.forwards) \in Nat
  BY MailShape
<1>1. CASE LookUpTarget(w)
  <2>1. CASE target[NextTarget(w)] = "verified"
    BY <1>0, <1>1, <2>1 DEF LookUpTarget
  <2>2. CASE target[NextTarget(w)] # "verified"
    <3>1. next' = [next EXCEPT ![w] = next[w] + 1] /\ pc' = pc
      BY <1>1, <2>2 DEF LookUpTarget
    <3>2. next[w] + 1 \in 1..(Len(mail.forwards) + 1)
      BY <1>0, <1>1 DEF LookUpTarget
    <3>3. next' \in [Workers -> 1..(Len(mail.forwards) + 1)]
      BY <3>1, <3>2
    <3>4. \A v \in Workers : pc'[v] = "send" => next'[v] <= Len(mail.forwards)
      BY <1>1, <3>1 DEF LookUpTarget
    <3>5. QED
      BY <1>1, <3>1, <3>3, <3>4 DEF LookUpTarget
  <2>3. QED
    BY <2>1, <2>2
<1>2. CASE LookUpFails(w)
  BY SMTT(30), <1>0, <1>2 DEF LookUpFails, Fault, Critical, Cause
<1>3. CASE SendForward(w)
  <2>1. NextTarget(w) \in Targets
    BY <1>3, MailShape DEF SendForward, NextTarget
  <2>2. forwarded' \in [Targets -> Nat]
    BY <1>3, <2>1 DEF SendForward
  <2>3. QED
    BY <1>0, <1>3, <2>2 DEF SendForward
<1>4. CASE ForwardFails(w)
  <2>1. NextTarget(w) \in Targets
    BY <1>4, MailShape DEF ForwardFails, NextTarget
  <2>2. forwarded' \in [Targets -> Nat]
    <3>1. CASE forwarded' = [forwarded EXCEPT ![NextTarget(w)] = @ + 1]
      BY <2>1, <3>1
    <3>2. CASE UNCHANGED forwarded
      BY <3>2
    <3>3. QED
      BY <1>4, <3>1, <3>2 DEF ForwardFails
  <2>3. QED
    <3>1. next[w] + 1 \in 1..(Len(mail.forwards) + 1)
      BY <1>0, <1>4 DEF ForwardFails
    <3>2. /\ pc' = [pc EXCEPT ![w] = "forward"]
          /\ next' = [next EXCEPT ![w] = next[w] + 1]
          /\ critical' = [critical EXCEPT ![w] = TRUE]
      BY <1>4 DEF ForwardFails, Critical
    <3>3. next' \in [Workers -> 1..(Len(mail.forwards) + 1)]
      BY <3>1, <3>2
    <3>4. \A v \in Workers : pc'[v] = "send" => next'[v] <= Len(mail.forwards)
      BY <3>2
    <3>5. QED
      BY <1>4, <2>2, <3>2, <3>3, <3>4 DEF ForwardFails
<1>5. CASE ForwardRejected(w)
  BY <1>0, <1>5 DEF ForwardRejected, Critical, Cause
<1>6. CASE ForwardsDone(w)
  BY <1>0, <1>6 DEF ForwardsDone
<1>7. QED
  BY <1>1, <1>2, <1>3, <1>4, <1>5, <1>6 DEF Forwarding

LEMMA RepliesType ==
  ASSUME TypeInv, NEW w \in Workers, Ponging(w) \/ Drafting(w)
  PROVE  TypeInv'
<1> USE SideEffectsAssumption
<1> USE DEF TypeInv, TypeOK, Labels, Goto, queueVars, workerVars, accountVars, effectVars
<1>1. CASE ShouldPong(w) \/ ShouldPongFails(w)
  <2>1. CASE ShouldPong(w)
    BY SMTT(30), <2>1 DEF ShouldPong
  <2>2. CASE ShouldPongFails(w)
    BY SMTT(30), <2>2 DEF ShouldPongFails, Fault, Skipping
  <2>3. QED
    BY <1>1, <2>1, <2>2
<1>2. CASE SendPong(w)
  BY <1>2 DEF SendPong, Fault, Skipping
<1>3. CASE PongFails(w)
  BY <1>3 DEF PongFails, Fault, Critical, Cause
<1>4. CASE MarkTestEmailReceived(w)
  BY <1>4 DEF MarkTestEmailReceived, Fault
<1>5. CASE SaveDraft(w)
  <2>1. drafts' \in Nat /\ pending' \in Nat
    BY <1>5 DEF SaveDraft
  <2>2. pc' = [pc EXCEPT ![w] = "dispatch"] \/ pc' = [pc EXCEPT ![w] = "invite"]
    BY <1>5 DEF SaveDraft
  <2>3. QED
    BY <1>5, <2>1, <2>2 DEF SaveDraft
<1>6. CASE SaveDraftFails(w)
  <2>1. drafts' \in Nat
    BY <1>6 DEF SaveDraftFails
  <2>2. QED
    BY <1>6, <2>1 DEF SaveDraftFails, Critical
<1>7. CASE DraftGivenUp(w) \/ NoDraft(w) \/ DispatchDraft(w)
  BY <1>7 DEF DraftGivenUp, NoDraft, DispatchDraft, Fault, Skipping
<1>8. QED
  BY <1>1, <1>2, <1>3, <1>4, <1>5, <1>6, <1>7 DEF Ponging, Drafting

LEMMA OtherStepsType ==
  ASSUME TypeInv, NEW w \in Workers,
         \/ Receive(w) \/ Crash(w) \/ Load(w) \/ LoadFails(w)
         \/ Notify(w) \/ NotifyFails(w) \/ RunWorkflow(w) \/ WorkflowFails(w)
         \/ ForwardInvite(w) \/ ForwardInviteFails(w) \/ End(w)
  PROVE  TypeInv'
<1> USE SideEffectsAssumption
<1> USE DEF TypeInv, TypeOK, Labels, Goto, queueVars, workerVars, accountVars, effectVars
<1>0. Len(mail.forwards) \in Nat
  BY MailShape
<1>1. CASE Receive(w)
  BY <1>0, <1>1 DEF Receive
<1>2. CASE Crash(w) \/ LoadFails(w)
  BY <1>2 DEF Crash, LoadFails, Fault, Cause, ReturnMessage
<1>3. CASE Load(w)
  BY <1>3 DEF Load
<1>4. CASE Notify(w) \/ NotifyFails(w) \/ WorkflowFails(w)
  <2>1. CASE Notify(w)
    BY SMTT(30), <2>1 DEF Notify
  <2>2. CASE NotifyFails(w)
    BY SMTT(30), <2>2 DEF NotifyFails, Fault, Skipping
  <2>3. CASE WorkflowFails(w)
    BY SMTT(30), <2>3 DEF WorkflowFails, Fault, Skipping
  <2>4. QED
    BY <1>4, <2>1, <2>2, <2>3
<1>5. CASE RunWorkflow(w)
  BY <1>5 DEF RunWorkflow
<1>6. CASE ForwardInvite(w)
  BY <1>6 DEF ForwardInvite
<1>7. CASE ForwardInviteFails(w)
  <2>1. invites' \in Nat
    BY <1>7 DEF ForwardInviteFails
  <2>2. critical' \in [Workers -> BOOLEAN]
    BY <1>7 DEF ForwardInviteFails, Critical
  <2>3. QED
    BY <1>7, <2>1, <2>2 DEF ForwardInviteFails
<1>8. CASE End(w)
  BY <1>8 DEF End, ReturnMessage
<1>9. QED
  BY <1>1, <1>2, <1>3, <1>4, <1>5, <1>6, <1>7, <1>8

LEMMA EnvironmentType ==
  ASSUME TypeInv,
         Redeliver \/ Expire \/ Arrive \/ \E t \in Targets : Verify(t) \/ Remove(t)
  PROVE  TypeInv'
<1> USE SideEffectsAssumption
<1> USE DEF TypeInv, TypeOK, Labels, queueVars, workerVars, accountVars, effectVars
<1>1. CASE Redeliver \/ Expire
  BY <1>1 DEF Redeliver, Expire
<1>2. CASE Arrive
  <2>1. arrivals + 1 \in 0..MaxArrivals
    BY <1>2 DEF Arrive
  <2>2. thread' \in [status : {"active", "archived"}, last : 0..MaxArrivals]
    BY <1>2, <2>1 DEF Arrive
  <2>3. QED
    BY <1>2, <2>1, <2>2 DEF Arrive
<1>3. ASSUME NEW t \in Targets, Verify(t) \/ Remove(t) PROVE TypeInv'
  <2>1. CASE Verify(t)
    BY <1>3, <2>1 DEF Verify
  <2>2. CASE Remove(t)
    BY <1>3, <2>2 DEF Remove
  <2>3. QED
    BY <1>3, <2>1, <2>2
<1>4. QED
  BY <1>1, <1>2, <1>3

LEMMA NextType == TypeInv /\ [Next]_vars => TypeInv'
<1> SUFFICES ASSUME TypeInv, [Next]_vars PROVE TypeInv'
  OBVIOUS
<1>1. ASSUME NEW w \in Workers, Receive(w) \/ ProcessSideEffect(w) \/ Crash(w)
      PROVE  TypeInv'
  BY <1>1, ForwardingType, RepliesType, OtherStepsType DEF ProcessSideEffect
<1>2. CASE Redeliver \/ Expire \/ Arrive \/ \E t \in Targets : Verify(t) \/ Remove(t)
  BY <1>2, EnvironmentType
<1>3. CASE UNCHANGED vars
  BY <1>3 DEF TypeInv, TypeOK, vars, queueVars, workerVars, accountVars, effectVars
<1>4. QED
  BY <1>1, <1>2, <1>3 DEF Next

\* The workers of processSideEffect, the message, the account's rows and the
\* effects stay well formed.
THEOREM SideEffectsTypeCorrect == Spec => []TypeOK
<1>1. TypeInv => TypeOK
  BY DEF TypeInv
<1>2. QED
  BY InitType, NextType, <1>1, PTL DEF Spec

-----------------------------------------------------------------------------
(* What may be sent: the gates.                                             *)

LEMMA InitGate == Init => GateInv
<1> SUFFICES ASSUME Init PROVE GateInv
  OBVIOUS
<1>1. CheckedInv
  BY DEF Init, CheckedInv
<1>2. AutomatedStaysUnanswered /\ OnlyVerifiedForwarded
  BY DEF Init, AutomatedStaysUnanswered, OnlyVerifiedForwarded
<1>3. QED
  BY <1>1, <1>2, InitType DEF GateInv

\* A target that has been verified has been for good.
LEMMA PastGrows ==
  ASSUME TypeInv, [Next]_vars
  PROVE  \A t \in Targets : past[t] \subseteq past'[t]
<1>1. ASSUME NEW w \in Workers, Receive(w) \/ ProcessSideEffect(w) \/ Crash(w)
      PROVE  past' = past
  <2>1. CASE Receive(w) \/ Crash(w) \/ Load(w) \/ LoadFails(w) \/ End(w)
    BY <2>1 DEF Receive, Crash, Load, LoadFails, End, accountVars
  <2>2. CASE Forwarding(w)
    BY <2>2 DEF Forwarding, LookUpTarget, LookUpFails, SendForward, ForwardFails,
                ForwardRejected, ForwardsDone, accountVars
  <2>3. CASE Notify(w) \/ NotifyFails(w) \/ RunWorkflow(w) \/ WorkflowFails(w)
             \/ ForwardInvite(w) \/ ForwardInviteFails(w)
    BY <2>3 DEF Notify, NotifyFails, RunWorkflow, WorkflowFails, ForwardInvite,
                ForwardInviteFails, accountVars
  <2>4. CASE Ponging(w) \/ Drafting(w)
    BY <2>4 DEF Ponging, ShouldPong, ShouldPongFails, SendPong, PongFails,
                MarkTestEmailReceived, Drafting, SaveDraft, SaveDraftFails,
                DraftGivenUp, NoDraft, DispatchDraft, accountVars
  <2>5. QED
    BY <1>1, <2>1, <2>2, <2>3, <2>4 DEF ProcessSideEffect
<1>2. CASE Redeliver \/ Expire \/ Arrive \/ UNCHANGED vars
  BY <1>2 DEF Redeliver, Expire, Arrive, vars, accountVars
<1>3. ASSUME NEW t \in Targets, Verify(t) \/ Remove(t)
      PROVE  \A u \in Targets : past[u] \subseteq past'[u]
  BY <1>3 DEF Verify, Remove, TypeInv
<1>4. QED
  BY <1>1, <1>2, <1>3 DEF Next

\* Looking up and sending: the only steps that bring a worker to "send", and the
\* only ones that forward.
LEMMA ForwardingGate ==
  ASSUME GateInv, NEW w \in Workers, Forwarding(w), TypeInv'
  PROVE  CheckedInv' /\ AutomatedStaysUnanswered' /\ OnlyVerifiedForwarded'
<1> USE DEF GateInv, Goto, queueVars, workerVars, accountVars, effectVars
<1>0. mail' = mail /\ past' = past /\ pongs' = pongs /\ pending' = pending
  BY DEF Forwarding, LookUpTarget, LookUpFails, SendForward, ForwardFails,
         ForwardRejected, ForwardsDone
<1>1. AutomatedStaysUnanswered'
  BY <1>0 DEF AutomatedStaysUnanswered
<1>2. ASSUME NEW v \in Workers, v # w
      PROVE  pc'[v] = pc[v] /\ next'[v] = next[v]
  BY <1>2 DEF Forwarding, LookUpTarget, LookUpFails, SendForward, ForwardFails,
              ForwardRejected, ForwardsDone, TypeInv, TypeOK
<1>3. /\ pc'[w] = "send" => "verified" \in past'[NextTarget(w)']
      /\ pc'[w] # "pong"
  <2>1. CASE LookUpTarget(w)
    <3>1. CASE target[NextTarget(w)] = "verified"
      <4>1. NextTarget(w) \in Targets
        BY <2>1, MailShape DEF LookUpTarget, NextTarget, TypeInv, TypeOK
      <4>2. NextTarget(w)' = NextTarget(w) /\ pc'[w] = "send"
        BY <1>0, <2>1, <3>1 DEF LookUpTarget, NextTarget, TypeInv, TypeOK
      <4>3. QED
        BY <1>0, <3>1, <4>1, <4>2 DEF TypeInv
    <3>2. CASE target[NextTarget(w)] # "verified"
      BY <2>1, <3>2 DEF LookUpTarget
    <3>3. QED
      BY <3>1, <3>2
  <2>2. CASE LookUpFails(w)
    BY <2>2 DEF LookUpFails
  <2>3. CASE SendForward(w) \/ ForwardFails(w) \/ ForwardRejected(w)
    BY <2>3 DEF SendForward, ForwardFails, ForwardRejected, TypeInv, TypeOK
  <2>4. CASE ForwardsDone(w)
    BY <2>4 DEF ForwardsDone, TypeInv, TypeOK
  <2>5. QED
    BY <2>1, <2>2, <2>3, <2>4 DEF Forwarding
<1>4. CheckedInv'
  BY <1>0, <1>2, <1>3 DEF CheckedInv, NextTarget
<1>5. OnlyVerifiedForwarded'
  <2>1. CASE SendForward(w) \/ ForwardFails(w)
    <3>1. "verified" \in past[NextTarget(w)] /\ NextTarget(w) \in Targets
      BY SMTT(30), <2>1, MailShape
         DEF SendForward, ForwardFails, CheckedInv, NextTarget, TypeInv, TypeOK
    <3>2. \/ forwarded' = [forwarded EXCEPT ![NextTarget(w)] = @ + 1]
          \/ forwarded' = forwarded
      BY <2>1 DEF SendForward, ForwardFails
    <3>3. QED
      BY SMTT(30), <1>0, <3>1, <3>2 DEF OnlyVerifiedForwarded, TypeInv, TypeOK
  <2>2. CASE LookUpTarget(w) \/ LookUpFails(w) \/ ForwardRejected(w) \/ ForwardsDone(w)
    <3>1. forwarded' = forwarded
      BY <2>2 DEF LookUpTarget, LookUpFails, ForwardRejected, ForwardsDone
    <3>2. QED
      BY <1>0, <3>1 DEF OnlyVerifiedForwarded
  <2>3. QED
    BY <2>1, <2>2 DEF Forwarding
<1>6. QED
  BY <1>1, <1>4, <1>5

\* Ponging and drafting: the only steps that answer.
LEMMA RepliesGate ==
  ASSUME GateInv, NEW w \in Workers, Ponging(w) \/ Drafting(w)
  PROVE  CheckedInv' /\ AutomatedStaysUnanswered' /\ OnlyVerifiedForwarded'
<1> USE DEF GateInv, Goto, queueVars, workerVars, accountVars, effectVars
<1>0. /\ mail' = mail /\ past' = past /\ forwarded' = forwarded /\ next' = next
      /\ pc'[w] # "send"
      /\ \A v \in Workers \ {w} : pc'[v] = pc[v]
  BY DEF Ponging, ShouldPong, ShouldPongFails, SendPong, PongFails,
         MarkTestEmailReceived, Drafting, SaveDraft, SaveDraftFails, DraftGivenUp,
         NoDraft, DispatchDraft, TypeInv, TypeOK
<1>1. pc'[w] = "pong" => ~mail.automated
  BY DEF Ponging, ShouldPong, ShouldPongFails, SendPong, PongFails, PongDue,
         MarkTestEmailReceived, Drafting, SaveDraft, SaveDraftFails, DraftGivenUp,
         NoDraft, DispatchDraft, TypeInv, TypeOK
<1>2. CheckedInv'
  BY <1>0, <1>1 DEF CheckedInv, NextTarget
<1>3. OnlyVerifiedForwarded'
  BY <1>0 DEF OnlyVerifiedForwarded
<1>4. mail.automated => pongs' = pongs /\ pending' = pending
  BY DEF Ponging, ShouldPong, ShouldPongFails, SendPong, PongFails,
         MarkTestEmailReceived, Drafting, SaveDraft, SaveDraftFails, DraftGivenUp,
         NoDraft, DispatchDraft, MayAutoSend, CheckedInv
<1>5. AutomatedStaysUnanswered'
  BY <1>0, <1>4 DEF AutomatedStaysUnanswered
<1>6. QED
  BY <1>2, <1>3, <1>5

LEMMA OtherStepsGate ==
  ASSUME GateInv, NEW w \in Workers,
         \/ Receive(w) \/ Crash(w) \/ Load(w) \/ LoadFails(w)
         \/ Notify(w) \/ NotifyFails(w) \/ RunWorkflow(w) \/ WorkflowFails(w)
         \/ ForwardInvite(w) \/ ForwardInviteFails(w) \/ End(w)
  PROVE  CheckedInv' /\ AutomatedStaysUnanswered' /\ OnlyVerifiedForwarded'
<1> USE DEF GateInv, Goto, queueVars, workerVars, accountVars, effectVars
<1>1. /\ mail' = mail /\ past' = past /\ forwarded' = forwarded
      /\ pongs' = pongs /\ pending' = pending
  BY DEF Receive, Crash, Load, LoadFails, Notify, NotifyFails, RunWorkflow,
         WorkflowFails, ForwardInvite, ForwardInviteFails, End
<1>2. /\ pc'[w] \notin {"send", "pong"}
      /\ \A v \in Workers \ {w} : pc'[v] = pc[v] /\ next'[v] = next[v]
  BY DEF Receive, Crash, Load, LoadFails, Notify, NotifyFails, RunWorkflow,
         WorkflowFails, ForwardInvite, ForwardInviteFails, End, TypeInv, TypeOK
<1>3. CheckedInv'
  BY <1>1, <1>2 DEF CheckedInv, NextTarget
<1>4. QED
  BY <1>1, <1>3 DEF AutomatedStaysUnanswered, OnlyVerifiedForwarded

LEMMA EnvironmentGate ==
  ASSUME GateInv, [Next]_vars,
         \/ Redeliver \/ Expire \/ Arrive \/ UNCHANGED vars
         \/ \E t \in Targets : Verify(t) \/ Remove(t)
  PROVE  CheckedInv' /\ AutomatedStaysUnanswered' /\ OnlyVerifiedForwarded'
<1> USE DEF GateInv
<1>1. /\ mail' = mail /\ forwarded' = forwarded /\ pc' = pc /\ next' = next
      /\ pongs' = pongs /\ pending' = pending
  BY DEF Redeliver, Expire, Arrive, Verify, Remove, vars, queueVars, workerVars,
         accountVars, effectVars
<1>2. \A t \in Targets : past[t] \subseteq past'[t]
  BY PastGrows
<1>3. CheckedInv'
  <2>1. \A v \in Workers : pc[v] = "send" => NextTarget(v) \in Targets
    BY MailShape DEF NextTarget, TypeInv, TypeOK
  <2>2. QED
    BY <1>1, <1>2, <2>1 DEF CheckedInv, NextTarget
<1>4. QED
  BY <1>1, <1>2, <1>3 DEF AutomatedStaysUnanswered, OnlyVerifiedForwarded

LEMMA NextGate == GateInv /\ [Next]_vars => GateInv'
<1> SUFFICES ASSUME GateInv, [Next]_vars PROVE GateInv'
  OBVIOUS
<1>1. TypeInv'
  BY NextType DEF GateInv
<1>2. ASSUME NEW w \in Workers, Receive(w) \/ ProcessSideEffect(w) \/ Crash(w)
      PROVE  CheckedInv' /\ AutomatedStaysUnanswered' /\ OnlyVerifiedForwarded'
  BY <1>1, <1>2, ForwardingGate, RepliesGate, OtherStepsGate DEF ProcessSideEffect
<1>3. CheckedInv' /\ AutomatedStaysUnanswered' /\ OnlyVerifiedForwarded'
  BY <1>2, EnvironmentGate DEF Next
<1>4. QED
  BY <1>1, <1>3 DEF GateInv

\* shouldPong and the gates of the automatic send: no pong and no draft that sends
\* itself answers an automated mail.
THEOREM AutomatedMailUnanswered == Spec => []AutomatedStaysUnanswered
<1>1. GateInv => AutomatedStaysUnanswered
  BY DEF GateInv
<1>2. QED
  BY InitGate, NextGate, <1>1, PTL DEF Spec

\* A mail is forwarded to no target whose owner has never agreed, however often
\* targets are removed between the rule's match, the look-up and the send.
THEOREM ForwardsNeedConsent == Spec => []OnlyVerifiedForwarded
<1>1. GateInv => OnlyVerifiedForwarded
  BY DEF GateInv
<1>2. QED
  BY InitGate, NextGate, <1>1, PTL DEF Spec

-----------------------------------------------------------------------------
(* What a deleted message has done.                                         *)

\* The forwards before the worker's next one reached the targets that were
\* verified all along.
ForwardsMade(w) ==
  \A i \in 1..(next[w] - 1) :
    past[mail.forwards[i]] = {"verified"} => forwarded[mail.forwards[i]] > 0

DraftMade == mail.reply # "none" => drafts + pending > 0 \/ "draft" \in skipped
InviteMade == mail.invite => invites > 0 \/ "invite" \in skipped

\* A run without a critical failure has done the effects it has passed.
Progress(w) ==
  pc[w] # "idle" /\ ~critical[w] =>
    /\ ForwardsMade(w)
    /\ pc[w] \notin {"load", "forward", "send"} => next[w] > Len(mail.forwards)
    /\ pc[w] \in {"dispatch", "invite", "end"} => DraftMade
    /\ pc[w] = "end" => InviteMade

DoneInv == TypeInv /\ (\A w \in Workers : Progress(w)) /\ DeletedMeansDone

\* Effects stay done, and a target that has once been unverified has been so for good.
Steady ==
  /\ mail' = mail
  /\ \A t \in Targets : forwarded'[t] >= forwarded[t] /\ past[t] \subseteq past'[t]
  /\ drafts' + pending' >= drafts + pending
  /\ invites' >= invites
  /\ skipped \subseteq skipped'

LEMMA StepSteady == TypeInv /\ [Next]_vars => Steady
<1> SUFFICES ASSUME TypeInv, [Next]_vars PROVE Steady
  OBVIOUS
<1> USE DEF Goto, queueVars, workerVars, accountVars, effectVars
<1>1. \A t \in Targets : past[t] \subseteq past'[t]
  BY PastGrows
<1>2. ASSUME UNCHANGED <<mail, forwarded, drafts, pending, invites>>,
             skipped \subseteq skipped'
      PROVE  Steady
  BY <1>1, <1>2 DEF Steady, TypeInv, TypeOK
<1>3. ASSUME NEW w \in Workers, Forwarding(w) PROVE Steady
  <2>1. CASE SendForward(w) \/ ForwardFails(w)
    <3>1. /\ UNCHANGED <<mail, drafts, pending, invites, skipped>>
          /\ \/ forwarded' = [forwarded EXCEPT ![NextTarget(w)] = @ + 1]
             \/ forwarded' = forwarded
      BY <2>1 DEF SendForward, ForwardFails
    <3>2. NextTarget(w) \in Targets
      BY <2>1, MailShape DEF SendForward, ForwardFails, NextTarget, TypeInv, TypeOK
    <3>3. \A t \in Targets : forwarded'[t] >= forwarded[t]
      <4>1. forwarded \in [Targets -> Nat]
        BY DEF TypeInv, TypeOK
      <4>2. CASE forwarded' = [forwarded EXCEPT ![NextTarget(w)] = @ + 1]
        BY <3>2, <4>1, <4>2
      <4>3. CASE forwarded' = forwarded
        BY <4>1, <4>3
      <4>4. QED
        BY <3>1, <4>2, <4>3
    <3>4. QED
      BY <1>1, <3>1, <3>3 DEF Steady, TypeInv
  <2>2. CASE LookUpTarget(w) \/ LookUpFails(w) \/ ForwardRejected(w) \/ ForwardsDone(w)
    BY <1>2, <2>2 DEF LookUpTarget, LookUpFails, ForwardRejected, ForwardsDone
  <2>3. QED
    BY <1>3, <2>1, <2>2 DEF Forwarding
<1>4. ASSUME NEW w \in Workers, Ponging(w) PROVE Steady
  BY <1>2, <1>4 DEF Ponging, ShouldPong, ShouldPongFails, SendPong, PongFails,
                    MarkTestEmailReceived, Skipping
<1>5. ASSUME NEW w \in Workers, Drafting(w) PROVE Steady
  <2>1. CASE SaveDraft(w)
    BY <1>1, <2>1 DEF SaveDraft, Steady, TypeInv, TypeOK
  <2>2. CASE SaveDraftFails(w)
    BY <1>1, <2>2 DEF SaveDraftFails, Steady, TypeInv, TypeOK
  <2>3. CASE DraftGivenUp(w) \/ NoDraft(w) \/ DispatchDraft(w)
    BY <1>2, <2>3 DEF DraftGivenUp, NoDraft, DispatchDraft, Skipping
  <2>4. QED
    BY <1>5, <2>1, <2>2, <2>3 DEF Drafting
<1>6. ASSUME NEW w \in Workers,
             \/ Receive(w) \/ Crash(w) \/ Load(w) \/ LoadFails(w)
             \/ Notify(w) \/ NotifyFails(w) \/ RunWorkflow(w) \/ WorkflowFails(w)
             \/ End(w)
      PROVE  Steady
  BY <1>2, <1>6 DEF Receive, Crash, Load, LoadFails, Notify, NotifyFails,
                    RunWorkflow, WorkflowFails, End, Skipping
<1>7. ASSUME NEW w \in Workers, ForwardInvite(w) \/ ForwardInviteFails(w) PROVE Steady
  <2>1. invites' >= invites
    BY <1>7 DEF ForwardInvite, ForwardInviteFails, TypeInv
  <2>2. UNCHANGED <<mail, forwarded, drafts, pending>> /\ skipped \subseteq skipped'
    BY <1>7 DEF ForwardInvite, ForwardInviteFails, Skipping
  <2>3. QED
    BY <1>1, <2>1, <2>2 DEF Steady, TypeInv, TypeOK
<1>8. CASE \/ Redeliver \/ Expire \/ Arrive \/ UNCHANGED vars
           \/ \E t \in Targets : Verify(t) \/ Remove(t)
  BY <1>2, <1>8 DEF Redeliver, Expire, Arrive, Verify, Remove, vars
<1>9. QED
  BY <1>3, <1>4, <1>5, <1>6, <1>7, <1>8 DEF Next, ProcessSideEffect

LEMMA ForwardKept ==
  ASSUME TypeInv, TypeInv', Steady, NEW t \in Targets, forwarded[t] > 0
  PROVE  forwarded'[t] > 0
<1>1. forwarded[t] \in Nat /\ forwarded'[t] \in Nat
  BY DEF TypeInv, TypeOK
<1>2. forwarded'[t] >= forwarded[t]
  BY DEF Steady
<1>3. QED
  BY <1>1, <1>2

LEMMA AlwaysVerified ==
  ASSUME TypeInv, Steady, NEW t \in Targets, past'[t] = {"verified"}
  PROVE  past[t] = {"verified"}
BY DEF Steady, TypeInv

LEMMA DraftKept ==
  ASSUME TypeInv, TypeInv', Steady
  PROVE  DraftMade => DraftMade'
<1> SUFFICES ASSUME DraftMade, mail'.reply # "none", "draft" \notin skipped'
             PROVE  drafts' + pending' > 0
  BY DEF DraftMade
<1>1. mail.reply # "none" /\ "draft" \notin skipped
  BY DEF Steady
<1>2. drafts + pending > 0
  BY <1>1 DEF DraftMade
<1>3. drafts' + pending' >= drafts + pending
  BY DEF Steady
<1>4. /\ drafts \in Nat /\ pending \in Nat
      /\ drafts' \in Nat /\ pending' \in Nat
  BY DEF TypeInv
<1>5. \A a, b, c, d \in Nat : a + b > 0 /\ c + d >= a + b => c + d > 0
  OBVIOUS
<1>6. QED
  BY <1>2, <1>3, <1>4, <1>5

LEMMA InviteKept ==
  ASSUME TypeInv, TypeInv', Steady
  PROVE  InviteMade => InviteMade'
<1>1. invites \in Nat /\ invites' \in Nat /\ mail'.invite = mail.invite
  BY DEF TypeInv, Steady
<1>2. invites' >= invites /\ skipped \subseteq skipped'
  BY DEF Steady
<1>3. QED
  BY <1>1, <1>2 DEF InviteMade

\* A worker whose next forward stays the same keeps the forwards it has made.
LEMMA ForwardsKept ==
  ASSUME TypeInv, TypeInv', Steady, NEW w \in Workers, ForwardsMade(w),
         next'[w] = next[w]
  PROVE  ForwardsMade(w)'
<1> SUFFICES ASSUME NEW i \in 1..(next[w] - 1), past'[mail.forwards[i]] = {"verified"}
             PROVE  forwarded'[mail.forwards[i]] > 0
  BY DEF ForwardsMade, Steady
<1>1. mail.forwards[i] \in Targets
  BY SMTT(30), MailShape DEF TypeInv, TypeOK
<1>2. past[mail.forwards[i]] = {"verified"}
  BY <1>1, AlwaysVerified
<1>3. forwarded[mail.forwards[i]] > 0
  BY <1>2 DEF ForwardsMade
<1>4. QED
  BY <1>1, <1>3, ForwardKept

\* A worker the step leaves alone keeps what it has done.
LEMMA ProgressKept ==
  ASSUME TypeInv, TypeInv', Steady, NEW v \in Workers, Progress(v),
         pc'[v] = pc[v], next'[v] = next[v], critical'[v] = critical[v]
  PROVE  Progress(v)'
<1>1. mail' = mail
  BY DEF Steady
<1>2. QED
  BY <1>1, ForwardsKept, DraftKept, InviteKept DEF Progress

\* What is done stays done for the deleted message.
LEMMA DeletedKept ==
  ASSUME TypeInv, TypeInv', Steady, DeletedMeansDone,
         message' = "deleted" => message = "deleted"
  PROVE  DeletedMeansDone'
<1> SUFFICES ASSUME message' = "deleted" PROVE DeletedMeansDone'
  BY DEF DeletedMeansDone
<1>1. ASSUME NEW t \in Targets, Asked(t)' > 0, past'[t] = {"verified"}
      PROVE  forwarded'[t] > 0
  <2>1. Asked(t)' = Asked(t)
    BY DEF Asked, Steady
  <2>2. past[t] = {"verified"}
    BY <1>1, AlwaysVerified
  <2>3. forwarded[t] > 0
    BY <1>1, <2>1, <2>2 DEF DeletedMeansDone
  <2>4. QED
    BY <2>3, ForwardKept
<1>2. DraftMade' /\ InviteMade'
  BY DraftKept, InviteKept DEF DeletedMeansDone, DraftMade, InviteMade
<1>3. QED
  BY <1>1, <1>2 DEF DeletedMeansDone, DraftMade, InviteMade

\* A step of one worker that does not delete the message.
LEMMA OneMoves ==
  ASSUME DoneInv, TypeInv', Steady, NEW w \in Workers, Progress(w)',
         \A v \in Workers \ {w} :
           pc'[v] = pc[v] /\ next'[v] = next[v] /\ critical'[v] = critical[v],
         message' = "deleted" => message = "deleted"
  PROVE  DoneInv'
<1>1. ASSUME NEW v \in Workers PROVE Progress(v)'
  BY ProgressKept DEF DoneInv
<1>2. QED
  BY <1>1, DeletedKept DEF DoneInv

\* The look-up passes over a target only if it has been unverified, and the send
\* passes it once the mail was accepted.
LEMMA ForwardPassed ==
  ASSUME DoneInv, TypeInv', Steady, NEW w \in Workers, ~critical[w],
         \/ LookUpTarget(w) /\ target[NextTarget(w)] # "verified"
         \/ SendForward(w)
  PROVE  pc'[w] = "forward" /\ ForwardsMade(w)'
<1> USE DEF Goto
<1>1. /\ pc[w] \in {"forward", "send"} /\ pc'[w] = "forward"
      /\ next'[w] = next[w] + 1
      /\ next[w] <= Len(mail.forwards)
  BY DEF LookUpTarget, SendForward, DoneInv, TypeInv, TypeOK
<1>2. NextTarget(w) \in Targets
  BY <1>1, MailShape DEF NextTarget, DoneInv, TypeInv, TypeOK
<1>3. past'[NextTarget(w)] = {"verified"} => forwarded'[NextTarget(w)] > 0
  <2>1. CASE LookUpTarget(w) /\ target[NextTarget(w)] # "verified"
    <3>1. past[NextTarget(w)] # {"verified"}
      BY <1>2, <2>1 DEF DoneInv, TypeInv
    <3>2. QED
      BY <1>2, <3>1, AlwaysVerified DEF DoneInv
  <2>2. CASE SendForward(w)
    <3>1. forwarded \in [Targets -> Nat]
      BY DEF DoneInv, TypeInv, TypeOK
    <3>2. forwarded' = [forwarded EXCEPT ![NextTarget(w)] = @ + 1]
      BY <2>2 DEF SendForward
    <3>3. QED
      BY <1>2, <3>1, <3>2
  <2>3. QED
    BY <2>1, <2>2
<1>4. ASSUME NEW i \in 1..next[w], past'[mail.forwards[i]] = {"verified"}
      PROVE  forwarded'[mail.forwards[i]] > 0
  <2>1. CASE i = next[w]
    BY <1>3, <1>4, <2>1 DEF NextTarget
  <2>2. CASE i # next[w]
    <3>1. i \in 1..(next[w] - 1) /\ mail.forwards[i] \in Targets
      <4>1. /\ next[w] \in Nat /\ Len(mail.forwards) \in Nat
            /\ \A j \in 1..Len(mail.forwards) : mail.forwards[j] \in Targets
        BY SMTT(30), MailShape DEF DoneInv, TypeInv, TypeOK
      <4>2. QED
        BY <1>1, <2>2, <4>1
    <3>2. past[mail.forwards[i]] = {"verified"}
      BY <1>4, <3>1, AlwaysVerified DEF DoneInv
    <3>3. forwarded[mail.forwards[i]] > 0
      BY <1>1, <3>1, <3>2 DEF DoneInv, Progress, ForwardsMade
    <3>4. QED
      BY <3>1, <3>3, ForwardKept DEF DoneInv
  <2>3. QED
    BY <2>1, <2>2
<1>5. next'[w] - 1 = next[w]
  BY <1>1 DEF DoneInv, TypeInv, TypeOK
<1>6. QED
  BY <1>1, <1>4, <1>5 DEF ForwardsMade, Steady

LEMMA ForwardingDone ==
  ASSUME DoneInv, TypeInv', Steady, NEW w \in Workers, Forwarding(w)
  PROVE  DoneInv'
<1> USE DEF Goto, queueVars, workerVars, accountVars, effectVars
<1>1. \A v \in Workers \ {w} :
        pc'[v] = pc[v] /\ next'[v] = next[v] /\ critical'[v] = critical[v]
  <2>1. CASE LookUpTarget(w) \/ SendForward(w) \/ ForwardsDone(w)
    BY SMTT(30), <2>1 DEF LookUpTarget, SendForward, ForwardsDone, DoneInv, TypeInv, TypeOK
  <2>2. CASE LookUpFails(w) \/ ForwardFails(w) \/ ForwardRejected(w)
    BY SMTT(30), <2>2 DEF LookUpFails, ForwardFails, ForwardRejected, Critical, DoneInv,
                TypeInv, TypeOK
  <2>3. QED
    BY <2>1, <2>2 DEF Forwarding
<1>2. message' = message
  BY DEF Forwarding, LookUpTarget, LookUpFails, SendForward, ForwardFails,
         ForwardRejected, ForwardsDone
<1>3. Progress(w)'
  <2>1. CASE LookUpFails(w) \/ ForwardFails(w) \/ ForwardRejected(w)
    <3>1. critical'[w] = TRUE
      BY <2>1 DEF LookUpFails, ForwardFails, ForwardRejected, Critical, TypeInv, DoneInv
    <3>2. QED
      BY <3>1 DEF Progress
  <2>2. CASE ForwardsDone(w)
    <3>1. /\ pc[w] = "forward" /\ next'[w] = next[w] /\ critical' = critical
          /\ next[w] > Len(mail.forwards) /\ pc'[w] \in {"workflow", "notify"}
      BY <2>2 DEF ForwardsDone, DoneInv, TypeInv, TypeOK
    <3>2. ~critical[w] => ForwardsMade(w)'
      BY <3>1, ForwardsKept DEF DoneInv, Progress
    <3>3. QED
      BY <3>1, <3>2 DEF Progress, Steady
  <2>3. CASE (LookUpTarget(w) /\ target[NextTarget(w)] # "verified") \/ SendForward(w)
    <3>1. critical' = critical
      BY <2>3 DEF LookUpTarget, SendForward
    <3>2. QED
      BY <2>3, <3>1, ForwardPassed DEF Progress
  <2>4. CASE LookUpTarget(w) /\ target[NextTarget(w)] = "verified"
    <3>1. /\ pc[w] = "forward" /\ pc'[w] = "send"
          /\ next'[w] = next[w] /\ critical' = critical
      BY <2>4 DEF LookUpTarget, DoneInv, TypeInv, TypeOK
    <3>2. ~critical[w] => ForwardsMade(w)'
      BY <3>1, ForwardsKept DEF DoneInv, Progress
    <3>3. QED
      BY <3>1, <3>2 DEF Progress
  <2>5. QED
    BY <2>1, <2>2, <2>3, <2>4 DEF Forwarding
<1>4. QED
  BY <1>1, <1>2, <1>3, OneMoves

\* From the notification to the pong nothing but the stage changes.
LEMMA EarlyStagesDone ==
  ASSUME DoneInv, TypeInv', Steady, NEW w \in Workers,
         \/ Notify(w) \/ NotifyFails(w) \/ RunWorkflow(w) \/ WorkflowFails(w)
         \/ Ponging(w)
  PROVE  DoneInv'
<1> USE DEF Goto, queueVars, workerVars, accountVars, effectVars
<1>1. /\ \A v \in Workers \ {w} :
           pc'[v] = pc[v] /\ next'[v] = next[v] /\ critical'[v] = critical[v]
      /\ message' = message
      /\ next'[w] = next[w]
      /\ critical'[w] = critical[w] \/ critical'[w] = TRUE
      /\ pc[w] \in {"notify", "workflow", "shouldPong", "pong", "mark"}
      /\ pc'[w] \in {"workflow", "shouldPong", "pong", "mark", "draft"}
  BY SMTT(30) DEF Notify, NotifyFails, RunWorkflow, WorkflowFails, Ponging, ShouldPong,
         ShouldPongFails, SendPong, PongFails, MarkTestEmailReceived, Critical,
         DoneInv, TypeInv, TypeOK
<1>2. Progress(w)'
  <2> SUFFICES ASSUME ~critical'[w] PROVE Progress(w)'
    BY DEF Progress
  <2>1. ForwardsMade(w) /\ next[w] > Len(mail.forwards)
    BY <1>1 DEF DoneInv, Progress
  <2>2. ForwardsMade(w)'
    BY <1>1, <2>1, ForwardsKept DEF DoneInv
  <2>3. QED
    BY <1>1, <2>1, <2>2 DEF Progress, Steady
<1>3. QED
  BY <1>1, <1>2, OneMoves

\* A draft is saved, or given up and skipped, or its failure is critical.
LEMMA DraftingDone ==
  ASSUME DoneInv, TypeInv', Steady, NEW w \in Workers, Drafting(w)
  PROVE  DoneInv'
<1> USE DEF Goto, queueVars, workerVars, accountVars, effectVars
<1>1. /\ \A v \in Workers \ {w} :
           pc'[v] = pc[v] /\ next'[v] = next[v] /\ critical'[v] = critical[v]
      /\ message' = message
      /\ next'[w] = next[w]
      /\ critical'[w] = critical[w] \/ critical'[w] = TRUE
      /\ pc[w] \in {"draft", "dispatch"}
      /\ pc'[w] \in {"dispatch", "invite"}
  BY SMTT(30) DEF Drafting, SaveDraft, SaveDraftFails, DraftGivenUp, NoDraft, DispatchDraft,
         Critical, DoneInv, TypeInv, TypeOK
<1>2. ASSUME ~critical'[w] PROVE DraftMade'
  <2>1. CASE SaveDraft(w)
    <3>1. /\ drafts \in Nat /\ pending \in Nat
          /\ \/ drafts' = drafts + 1 /\ pending' = pending
             \/ drafts' = drafts /\ pending' = pending + 1
      BY <2>1 DEF SaveDraft, DoneInv, TypeInv
    <3>2. drafts' + pending' > 0
      BY <3>1
    <3>3. QED
      BY <3>2 DEF DraftMade
  <2>2. CASE SaveDraftFails(w)
    BY <1>2, <2>2 DEF SaveDraftFails, Critical, DoneInv, TypeInv
  <2>3. CASE DraftGivenUp(w)
    BY <2>3 DEF DraftGivenUp, Skipping, DraftMade
  <2>4. CASE NoDraft(w)
    BY <2>4 DEF NoDraft, DraftMade
  <2>5. CASE DispatchDraft(w)
    <3>1. pc[w] = "dispatch" /\ ~critical[w]
      BY <1>2, <2>5 DEF DispatchDraft
    <3>2. DraftMade
      BY <3>1 DEF DoneInv, Progress
    <3>3. QED
      BY <3>2, DraftKept DEF DoneInv
  <2>6. QED
    BY <2>1, <2>2, <2>3, <2>4, <2>5 DEF Drafting
<1>3. Progress(w)'
  <2> SUFFICES ASSUME ~critical'[w] PROVE Progress(w)'
    BY DEF Progress
  <2>1. ForwardsMade(w) /\ next[w] > Len(mail.forwards)
    BY <1>1 DEF DoneInv, Progress
  <2>2. ForwardsMade(w)'
    BY <1>1, <2>1, ForwardsKept DEF DoneInv
  <2>3. QED
    BY <1>1, <1>2, <2>1, <2>2 DEF Progress, Steady
<1>4. QED
  BY <1>1, <1>3, OneMoves

LEMMA InvitingDone ==
  ASSUME DoneInv, TypeInv', Steady, NEW w \in Workers,
         ForwardInvite(w) \/ ForwardInviteFails(w)
  PROVE  DoneInv'
<1> USE DEF Goto, queueVars, workerVars, accountVars, effectVars
<1>1. /\ \A v \in Workers \ {w} :
           pc'[v] = pc[v] /\ next'[v] = next[v] /\ critical'[v] = critical[v]
      /\ message' = message
      /\ next'[w] = next[w]
      /\ critical'[w] = critical[w] \/ critical'[w] = TRUE
      /\ pc[w] = "invite" /\ pc'[w] = "end"
  BY DEF ForwardInvite, ForwardInviteFails, Critical, DoneInv, TypeInv, TypeOK
<1>2. ASSUME ~critical'[w] PROVE InviteMade'
  <2>1. CASE ForwardInvite(w)
    BY <2>1 DEF ForwardInvite, InviteMade, DoneInv, TypeInv
  <2>2. CASE ForwardInviteFails(w)
    BY <1>2, <2>2 DEF ForwardInviteFails, Critical, Skipping, InviteMade, DoneInv, TypeInv
  <2>3. QED
    BY <2>1, <2>2
<1>3. Progress(w)'
  <2> SUFFICES ASSUME ~critical'[w] PROVE Progress(w)'
    BY DEF Progress
  <2>1. ForwardsMade(w) /\ next[w] > Len(mail.forwards) /\ DraftMade
    BY <1>1 DEF DoneInv, Progress
  <2>2. ForwardsMade(w)' /\ DraftMade'
    BY <1>1, <2>1, ForwardsKept, DraftKept DEF DoneInv
  <2>3. QED
    BY <1>1, <1>2, <2>1, <2>2 DEF Progress, Steady
<1>4. QED
  BY <1>1, <1>3, OneMoves

\* The message is taken, and given back.
LEMMA QueueDone ==
  ASSUME DoneInv, TypeInv', Steady, NEW w \in Workers,
         Receive(w) \/ Crash(w) \/ Load(w) \/ LoadFails(w)
  PROVE  DoneInv'
<1> USE DEF Goto, queueVars, workerVars, accountVars, effectVars
<1>1. /\ \A v \in Workers \ {w} :
           pc'[v] = pc[v] /\ next'[v] = next[v] /\ critical'[v] = critical[v]
      /\ message' = "deleted" => message = "deleted"
  BY SMTT(30) DEF Receive, Crash, Load, LoadFails, ReturnMessage, DoneInv, TypeInv, TypeOK
<1>2. Progress(w)'
  <2>1. CASE Receive(w)
    <3>1. next'[w] = 1 /\ pc'[w] \in {"load", "forward"}
      BY <2>1 DEF Receive, DoneInv, TypeInv, TypeOK
    <3>2. QED
      BY <3>1 DEF Progress, ForwardsMade
  <2>2. CASE Crash(w) \/ LoadFails(w)
    BY <2>2 DEF Crash, LoadFails, Progress, DoneInv, TypeInv, TypeOK
  <2>3. CASE Load(w)
    <3>1. /\ pc[w] = "load" /\ pc'[w] = "forward" /\ next' = next
          /\ critical' = critical
      BY <2>3 DEF Load, DoneInv, TypeInv, TypeOK
    <3>2. ~critical[w] => ForwardsMade(w)'
      BY <3>1, ForwardsKept DEF DoneInv, Progress
    <3>3. QED
      BY <3>1, <3>2 DEF Progress
  <2>4. QED
    BY <2>1, <2>2, <2>3
<1>3. QED
  BY <1>1, <1>2, OneMoves

\* The message is deleted by a worker that has passed every stage.
LEMMA EndDone ==
  ASSUME DoneInv, TypeInv', Steady, NEW w \in Workers, End(w)
  PROVE  DoneInv'
<1> USE DEF Goto, queueVars, workerVars, accountVars, effectVars
<1>1. /\ \A v \in Workers \ {w} :
           pc'[v] = pc[v] /\ next'[v] = next[v] /\ critical'[v] = critical[v]
      /\ pc[w] = "end" /\ pc'[w] = "idle"
  BY DEF End, DoneInv, TypeInv, TypeOK
<1>2. Progress(w)'
  BY <1>1 DEF Progress
<1>3. CASE critical[w]
  <2>1. message' = "deleted" => message = "deleted"
    BY <1>3 DEF End, ReturnMessage
  <2>2. QED
    BY <1>1, <1>2, <2>1, OneMoves
<1>4. CASE ~critical[w]
  <2>1. ForwardsMade(w) /\ next[w] > Len(mail.forwards) /\ DraftMade /\ InviteMade
    BY <1>1, <1>4 DEF DoneInv, Progress
  <2>2. ASSUME NEW t \in Targets, Asked(t) > 0, past[t] = {"verified"}
        PROVE  forwarded[t] > 0
    <3>1. PICK i \in DOMAIN mail.forwards : mail.forwards[i] = t
      <4>1. Cardinality({}) = 0
        BY FS_EmptySet
      <4>2. {i \in DOMAIN mail.forwards : mail.forwards[i] = t} # {}
        BY <2>2, <4>1 DEF Asked
      <4>3. QED
        BY <4>2
    <3>2. i \in 1..(next[w] - 1)
      <4>1. Len(mail.forwards) \in Nat /\ i \in 1..Len(mail.forwards)
        BY <3>1, MailShape DEF DoneInv, TypeInv, TypeOK
      <4>2. next[w] \in Nat
        BY SMTT(30), <4>1 DEF DoneInv, TypeInv, TypeOK
      <4>3. QED
        BY <2>1, <4>1, <4>2
    <3>3. QED
      BY <2>1, <2>2, <3>1, <3>2 DEF ForwardsMade
  <2>3. /\ UNCHANGED <<mail, past, forwarded, drafts, pending, invites, skipped>>
    BY DEF End
  <2>4. DeletedMeansDone'
    BY <2>1, <2>2, <2>3 DEF DeletedMeansDone, DraftMade, InviteMade, Asked
  <2>5. ASSUME NEW v \in Workers PROVE Progress(v)'
    BY <1>1, <1>2, ProgressKept DEF DoneInv
  <2>6. QED
    BY <2>4, <2>5 DEF DoneInv
<1>5. QED
  BY <1>3, <1>4

LEMMA EnvironmentDone ==
  ASSUME DoneInv, TypeInv', Steady,
         \/ Redeliver \/ Expire \/ Arrive \/ UNCHANGED vars
         \/ \E t \in Targets : Verify(t) \/ Remove(t)
  PROVE  DoneInv'
<1>1. UNCHANGED workerVars /\ (message' = "deleted" => message = "deleted")
  BY DEF Redeliver, Expire, Arrive, Verify, Remove, vars, queueVars
<1>2. ASSUME NEW v \in Workers PROVE Progress(v)'
  BY <1>1, ProgressKept DEF DoneInv, workerVars
<1>3. QED
  BY <1>1, <1>2, DeletedKept DEF DoneInv

\* "A critical failure is remembered, the rest still run": once the message of a
\* mail is deleted, every target that was verified all along has the mail, and
\* the draft and the invitation exist unless a best-effort step was skipped.
THEOREM DeletedMessageIsDone == Spec => []DeletedMeansDone
<1>1. Init => DoneInv
  <2> SUFFICES ASSUME Init PROVE DoneInv
    OBVIOUS
  <2>1. (\A w \in Workers : Progress(w)) /\ DeletedMeansDone
    BY DEF Init, Progress, DeletedMeansDone
  <2>2. QED
    BY <2>1, InitType DEF DoneInv
<1>2. DoneInv /\ [Next]_vars => DoneInv'
  <2> SUFFICES ASSUME DoneInv, [Next]_vars PROVE DoneInv'
    OBVIOUS
  <2>1. TypeInv' /\ Steady
    BY NextType, StepSteady DEF DoneInv
  <2>2. ASSUME NEW w \in Workers, Receive(w) \/ ProcessSideEffect(w) \/ Crash(w)
        PROVE  DoneInv'
    BY <2>1, <2>2, ForwardingDone, EarlyStagesDone, DraftingDone, InvitingDone,
       QueueDone, EndDone DEF ProcessSideEffect
  <2>3. QED
    BY <2>1, <2>2, EnvironmentDone DEF Next
<1>3. DoneInv => DeletedMeansDone
  BY DEF DoneInv
<1>4. QED
  BY <1>1, <1>2, <1>3, PTL DEF Spec

-----------------------------------------------------------------------------
(* How often effects are repeated.  Each receive of the message is worth   *)
(* one run, and each run one pong, one draft and every forward once; each  *)
(* cause gives the message back at most once.                              *)

ForwardStages == {"load", "forward", "send"}
PongStages == ForwardStages \union {"notify", "workflow", "shouldPong", "pong"}
DraftStages == PongStages \union {"mark", "draft"}

In(labels) == {w \in Workers : pc[w] \in labels}
Returning == {w \in Workers : pc[w] # "idle" /\ critical[w]}
Waits == IF message \in {"visible", "expired"} THEN 1 ELSE 0

\* The forward actions that ask for a target, and those that a run has before it.
Asking(t) == {i \in DOMAIN mail.forwards : mail.forwards[i] = t}
Ahead(t) ==
  {x \in Workers \X Asking(t) : pc[x[1]] \in ForwardStages /\ next[x[1]] <= x[2]}

RetryInv ==
  /\ causes \in Nat
  /\ IsFiniteSet(Returning)
  /\ receives + Waits + Cardinality(Returning) <= 1 + causes
PongInv ==
  /\ IsFiniteSet(In(PongStages))
  /\ pongs + Cardinality(In(PongStages)) <= receives
DraftInv ==
  /\ IsFiniteSet(In(DraftStages))
  /\ drafts + pending + Cardinality(In(DraftStages)) <= receives
ForwardInv(t) ==
  /\ IsFiniteSet(Ahead(t))
  /\ forwarded[t] + Cardinality(Ahead(t)) <= Asked(t) * receives

CountInv ==
  /\ TypeInv /\ RetryInv /\ PongInv /\ DraftInv
  /\ message = "expired" => receives = MaxReceives
  /\ \A t \in Targets : ForwardInv(t)

LEMMA AskedType ==
  ASSUME mail \in Mails, NEW t \in Targets
  PROVE  /\ IsFiniteSet(Asking(t)) /\ Asked(t) = Cardinality(Asking(t)) /\ Asked(t) \in Nat
         /\ Asking(t) \subseteq Nat
<1>1. IsFiniteSet(1..Len(mail.forwards))
  BY MailShape, FS_Interval
<1>2. Asking(t) \subseteq 1..Len(mail.forwards)
  BY MailShape DEF Asking
<1>3. IsFiniteSet(Asking(t))
  BY <1>1, <1>2, FS_Subset
<1>4. QED
  BY <1>2, <1>3, FS_CardinalityType DEF Asked, Asking

LEMMA InitCount == Init => CountInv
<1> SUFFICES ASSUME Init PROVE CountInv
  OBVIOUS
<1>1. TypeInv /\ receives = 0 /\ causes = 0 /\ pongs = 0 /\ drafts = 0 /\ pending = 0
      /\ message = "visible"
  BY InitType DEF Init
<1>2. Returning = {} /\ In(PongStages) = {} /\ In(DraftStages) = {}
  BY DEF Init, Returning, In, PongStages, DraftStages, ForwardStages
<1>3. RetryInv /\ PongInv /\ DraftInv
  BY <1>1, <1>2, FS_EmptySet DEF RetryInv, PongInv, DraftInv, Waits
<1>4. ASSUME NEW t \in Targets PROVE ForwardInv(t)
  <2>1. Ahead(t) = {} /\ forwarded[t] = 0
    BY DEF Init, Ahead, ForwardStages
  <2>2. Asked(t) \in Nat
    BY AskedType DEF Init
  <2>3. QED
    BY <1>1, <2>1, <2>2, FS_EmptySet DEF ForwardInv
<1>5. QED
  BY <1>1, <1>3, <1>4 DEF CountInv

\* A set whose only change may be one element.
LEMMA OneChanges ==
  ASSUME NEW C, NEW D, NEW w, IsFiniteSet(C), D \ {w} \subseteq C
  PROVE  /\ IsFiniteSet(D) /\ Cardinality(C) \in Nat /\ Cardinality(D) \in Nat
         /\ Cardinality(D) + (IF w \in C THEN 1 ELSE 0)
              <= Cardinality(C) + (IF w \in D THEN 1 ELSE 0)
<1>1. /\ IsFiniteSet(C \ {w})
      /\ Cardinality(C \ {w}) = IF w \in C THEN Cardinality(C) - 1 ELSE Cardinality(C)
  BY FS_RemoveElement
<1>2. /\ IsFiniteSet(D \ {w})
      /\ Cardinality(D \ {w}) <= Cardinality(C \ {w})
  <2>1. D \ {w} \subseteq C \ {w}
    OBVIOUS
  <2>2. QED
    BY <1>1, <2>1, FS_Subset
<1>3. IsFiniteSet(D)
  <2>1. IsFiniteSet((D \ {w}) \union {w})
    BY <1>2, FS_AddElement
  <2>2. D \subseteq (D \ {w}) \union {w}
    OBVIOUS
  <2>3. QED
    BY <2>1, <2>2, FS_Subset
<1>4. Cardinality(D \ {w}) = IF w \in D THEN Cardinality(D) - 1 ELSE Cardinality(D)
  BY <1>3, FS_RemoveElement
<1>5. Cardinality(C) \in Nat /\ Cardinality(D) \in Nat
  BY <1>3, FS_CardinalityType
<1>6. QED
  BY <1>1, <1>2, <1>3, <1>4, <1>5

\* One worker moves, and the others stay where they are.
OthersStay(w) ==
  \A v \in Workers \ {w} :
    pc'[v] = pc[v] /\ next'[v] = next[v] /\ critical'[v] = critical[v]

LEMMA StageMoves ==
  ASSUME NEW w \in Workers, OthersStay(w), NEW labels, IsFiniteSet(In(labels))
  PROVE  /\ IsFiniteSet(In(labels)')
         /\ Cardinality(In(labels)) \in Nat /\ Cardinality(In(labels)') \in Nat
         /\ Cardinality(In(labels)') + (IF pc[w] \in labels THEN 1 ELSE 0)
              <= Cardinality(In(labels)) + (IF pc'[w] \in labels THEN 1 ELSE 0)
<1> DEFINE C == In(labels)
           D == In(labels)'
<1>1. /\ D \ {w} \subseteq C
      /\ w \in C <=> pc[w] \in labels
      /\ w \in D <=> pc'[w] \in labels
  BY DEF In, OthersStay
<1> HIDE DEF C, D
<1>2. /\ IsFiniteSet(D) /\ Cardinality(C) \in Nat /\ Cardinality(D) \in Nat
      /\ Cardinality(D) + (IF w \in C THEN 1 ELSE 0)
           <= Cardinality(C) + (IF w \in D THEN 1 ELSE 0)
  BY <1>1, OneChanges DEF C
<1>3. QED
  BY <1>1, <1>2 DEF C, D

\* What a step of a run does: it goes on, and pongs or drafts only as it passes.
RunGoesOn(w) ==
  /\ mail' = mail /\ receives' = receives /\ OthersStay(w)
  /\ \A labels \in {ForwardStages, PongStages, DraftStages} :
       pc'[w] \in labels => pc[w] \in labels
  /\ \/ pongs' = pongs
     \/ pongs' = pongs + 1 /\ pc[w] \in PongStages /\ pc'[w] \notin PongStages
  /\ \/ drafts' + pending' = drafts + pending
     \/ /\ drafts' + pending' = drafts + pending + 1
        /\ pc[w] \in DraftStages /\ pc'[w] \notin DraftStages

LEMMA GoingOn ==
  ASSUME TypeInv, NEW w \in Workers, ProcessSideEffect(w) \/ Crash(w)
  PROVE  RunGoesOn(w)
<1> USE DEF Goto, queueVars, workerVars, accountVars, effectVars, RunGoesOn, OthersStay,
            ForwardStages, PongStages, DraftStages, TypeInv, TypeOK
<1>1. CASE LookUpTarget(w) \/ LookUpFails(w)
  BY <1>1 DEF LookUpTarget, LookUpFails, Critical
<1>2. CASE SendForward(w) \/ ForwardFails(w) \/ ForwardRejected(w)
  BY <1>2 DEF SendForward, ForwardFails, ForwardRejected, Critical
<1>3. CASE ForwardsDone(w)
  BY <1>3 DEF ForwardsDone
<1>4. CASE Load(w) \/ LoadFails(w) \/ Crash(w) \/ End(w)
  BY <1>4 DEF Load, LoadFails, Crash, End
<1>5. CASE Notify(w) \/ NotifyFails(w) \/ RunWorkflow(w) \/ WorkflowFails(w)
  BY <1>5 DEF Notify, NotifyFails, RunWorkflow, WorkflowFails
<1>6. CASE ShouldPong(w) \/ ShouldPongFails(w) \/ MarkTestEmailReceived(w)
  BY <1>6 DEF ShouldPong, ShouldPongFails, MarkTestEmailReceived
<1>7. CASE SendPong(w) \/ PongFails(w)
  BY <1>7 DEF SendPong, PongFails, Critical
<1>8. CASE SaveDraft(w)
  <2>1. /\ pc[w] = "draft" /\ pc'[w] \in {"dispatch", "invite"}
        /\ UNCHANGED <<mail, receives, pongs, next, critical>>
        /\ \A v \in Workers \ {w} : pc'[v] = pc[v]
    BY <1>8 DEF SaveDraft
  <2>2. drafts' + pending' = drafts + pending + 1
    BY <1>8 DEF SaveDraft
  <2>3. QED
    BY <2>1, <2>2
<1>9. CASE SaveDraftFails(w)
  BY <1>9 DEF SaveDraftFails, Critical
<1>10. CASE DraftGivenUp(w) \/ NoDraft(w) \/ DispatchDraft(w)
  BY <1>10 DEF DraftGivenUp, NoDraft, DispatchDraft
<1>11. CASE ForwardInvite(w) \/ ForwardInviteFails(w)
  BY <1>11 DEF ForwardInvite, ForwardInviteFails, Critical
<1>12. QED
  BY <1>1, <1>2, <1>3, <1>4, <1>5, <1>6, <1>7, <1>8, <1>9, <1>10, <1>11
     DEF ProcessSideEffect, Forwarding, Ponging, Drafting

LEMMA PongsCounted ==
  ASSUME CountInv, TypeInv', NEW w \in Workers, RunGoesOn(w)
  PROVE  PongInv' /\ DraftInv'
<1>0. /\ {pongs, pongs', drafts, drafts', pending, pending', receives} \subseteq Nat
      /\ PongInv /\ DraftInv /\ OthersStay(w) /\ receives' = receives
  BY DEF CountInv, TypeInv, TypeOK, RunGoesOn
<1>1. /\ IsFiniteSet(In(PongStages)')
      /\ Cardinality(In(PongStages)) \in Nat /\ Cardinality(In(PongStages)') \in Nat
      /\ Cardinality(In(PongStages)') + (IF pc[w] \in PongStages THEN 1 ELSE 0)
           <= Cardinality(In(PongStages)) + (IF pc'[w] \in PongStages THEN 1 ELSE 0)
  BY <1>0, StageMoves DEF PongInv
<1>2. /\ IsFiniteSet(In(DraftStages)')
      /\ Cardinality(In(DraftStages)) \in Nat /\ Cardinality(In(DraftStages)') \in Nat
      /\ Cardinality(In(DraftStages)') + (IF pc[w] \in DraftStages THEN 1 ELSE 0)
           <= Cardinality(In(DraftStages)) + (IF pc'[w] \in DraftStages THEN 1 ELSE 0)
  BY <1>0, StageMoves DEF DraftInv
<1>3. pongs' + Cardinality(In(PongStages)') <= receives'
  BY <1>0, <1>1 DEF PongInv, RunGoesOn
<1>4. drafts' + pending' + Cardinality(In(DraftStages)') <= receives'
  BY <1>0, <1>2 DEF DraftInv, RunGoesOn
<1>5. QED
  BY <1>1, <1>2, <1>3, <1>4 DEF PongInv, DraftInv

\* A step of a run that does not send has no more forwards before it, and one that
\* sends has that one behind it.
LEMMA ForwardsCounted ==
  ASSUME CountInv, TypeInv', NEW w \in Workers, ProcessSideEffect(w) \/ Crash(w),
         RunGoesOn(w), NEW t \in Targets
  PROVE  ForwardInv(t)'
<1>0. /\ forwarded \in [Targets -> Nat] /\ forwarded' \in [Targets -> Nat]
      /\ receives' = receives /\ mail' = mail /\ mail \in Mails /\ OthersStay(w)
      /\ next[w] \in 1..(Len(mail.forwards) + 1) /\ next'[w] \in Nat
      /\ ForwardInv(t) /\ IsFiniteSet(Ahead(t)) /\ TypeInv
      /\ Asking(t) \subseteq Nat
  <2>1. /\ TypeInv /\ ForwardInv(t) /\ IsFiniteSet(Ahead(t))
        /\ receives' = receives /\ mail' = mail /\ OthersStay(w)
    BY DEF CountInv, RunGoesOn, ForwardInv
  <2>2. mail \in Mails /\ Len(mail.forwards) \in Nat
    BY <2>1, MailShape DEF TypeInv, TypeOK
  <2>3. next[w] \in 1..(Len(mail.forwards) + 1) /\ next'[w] \in 1..(Len(mail'.forwards) + 1)
    BY <2>1 DEF TypeInv, TypeOK
  <2>4. forwarded \in [Targets -> Nat] /\ forwarded' \in [Targets -> Nat]
    BY <2>1 DEF TypeInv, TypeOK
  <2>5. QED
    BY <2>1, <2>2, <2>3, <2>4, AskedType
<1>1. Asking(t)' = Asking(t) /\ Asked(t)' = Asked(t)
  BY <1>0 DEF Asking, Asked
<1> USE DEF Goto, queueVars, workerVars, accountVars, effectVars
<1>2. CASE forwarded'[t] = forwarded[t]
  <2>1. pc'[w] \in ForwardStages => pc[w] \in ForwardStages /\ next[w] <= next'[w]
    BY SMTT(30), <1>0
       DEF RunGoesOn, ForwardStages, ProcessSideEffect, Crash, Load, LoadFails,
           Forwarding, LookUpTarget, LookUpFails, SendForward, ForwardFails,
           ForwardRejected, ForwardsDone, Notify, NotifyFails, RunWorkflow,
           WorkflowFails, Ponging, ShouldPong, ShouldPongFails, SendPong, PongFails,
           MarkTestEmailReceived, Drafting, SaveDraft, SaveDraftFails, DraftGivenUp,
           NoDraft, DispatchDraft, ForwardInvite, ForwardInviteFails, End, TypeInv,
           TypeOK
  <2>2. Ahead(t)' \subseteq Ahead(t)
    BY <1>0, <1>1, <2>1 DEF Ahead, OthersStay
  <2>3. /\ IsFiniteSet(Ahead(t)')
        /\ Cardinality(Ahead(t)') <= Cardinality(Ahead(t))
    BY <1>0, <2>2, FS_Subset
  <2>4. Cardinality(Ahead(t)) \in Nat /\ Cardinality(Ahead(t)') \in Nat
    BY <1>0, <2>3, FS_CardinalityType
  <2>5. forwarded'[t] + Cardinality(Ahead(t)') <= Asked(t) * receives
    <3> DEFINE owed == Asked(t) * receives
    <3>1. forwarded[t] + Cardinality(Ahead(t)) <= owed
      BY <1>0 DEF ForwardInv
    <3>2. owed \in Nat
      BY <1>0, AskedType DEF TypeInv, TypeOK
    <3>3. forwarded[t] \in Nat
      BY <1>0
    <3> HIDE DEF owed
    <3>4. forwarded'[t] + Cardinality(Ahead(t)') <= owed
      BY <1>2, <2>3, <2>4, <3>1, <3>2, <3>3
    <3>5. QED
      BY <3>4 DEF owed
  <2>6. QED
    BY <1>0, <1>1, <2>3, <2>5 DEF ForwardInv
<1>3. CASE forwarded'[t] # forwarded[t]
  <2>1. SendForward(w) \/ ForwardFails(w)
    BY <1>3
       DEF ProcessSideEffect, Crash, Load, LoadFails, Forwarding, LookUpTarget,
           LookUpFails, ForwardRejected, ForwardsDone, Notify, NotifyFails,
           RunWorkflow, WorkflowFails, Ponging, ShouldPong, ShouldPongFails,
           SendPong, PongFails, MarkTestEmailReceived, Drafting, SaveDraft,
           SaveDraftFails, DraftGivenUp, NoDraft, DispatchDraft, ForwardInvite,
           ForwardInviteFails, End
  <2>2. /\ pc[w] = "send" /\ next' = [next EXCEPT ![w] = @ + 1]
        /\ forwarded' = [forwarded EXCEPT ![NextTarget(w)] = @ + 1]
    BY <1>3, <2>1 DEF SendForward, ForwardFails
  <2>3. /\ NextTarget(w) = t /\ forwarded'[t] = forwarded[t] + 1
        /\ next'[w] = next[w] + 1 /\ next[w] \in Asking(t)
    <3>1. next[w] \in DOMAIN mail.forwards
      <4>1. next[w] <= Len(mail.forwards)
        BY <1>0, <2>2 DEF TypeInv, TypeOK
      <4>2. QED
        BY <1>0, <4>1, MailShape
    <3>2. NextTarget(w) = t /\ forwarded'[t] = forwarded[t] + 1
      BY <1>0, <1>3, <2>2
    <3>3. next'[w] = next[w] + 1
      <4>1. next \in [Workers -> 1..(Len(mail.forwards) + 1)]
        BY <1>0 DEF TypeInv, TypeOK
      <4>2. QED
        BY <2>2, <4>1
    <3>4. QED
      BY <3>1, <3>2, <3>3 DEF NextTarget, Asking
  <2> DEFINE x == <<w, next[w]>>
  <2>4. x \in Ahead(t)
    BY <1>0, <2>2, <2>3 DEF Ahead, ForwardStages
  <2>5. Ahead(t)' \subseteq Ahead(t) \ {x}
    BY <1>0, <1>1, <2>2, <2>3 DEF Ahead, OthersStay, ForwardStages
  <2> HIDE DEF x
  <2>6. /\ IsFiniteSet(Ahead(t) \ {x})
        /\ Cardinality(Ahead(t) \ {x}) = Cardinality(Ahead(t)) - 1
    BY <1>0, <2>4, FS_RemoveElement
  <2>7. /\ IsFiniteSet(Ahead(t)')
        /\ Cardinality(Ahead(t)') <= Cardinality(Ahead(t)) - 1
    BY <2>5, <2>6, FS_Subset
  <2>8. Cardinality(Ahead(t)) \in Nat /\ Cardinality(Ahead(t)') \in Nat
    BY <1>0, <2>7, FS_CardinalityType
  <2>9. forwarded'[t] + Cardinality(Ahead(t)') <= Asked(t) * receives
    <3> DEFINE owed == Asked(t) * receives
    <3>1. forwarded[t] + Cardinality(Ahead(t)) <= owed
      BY <1>0 DEF ForwardInv
    <3>2. owed \in Nat
      BY <1>0, AskedType DEF TypeInv, TypeOK
    <3>3. forwarded[t] \in Nat
      BY <1>0
    <3> HIDE DEF owed
    <3>4. forwarded'[t] + Cardinality(Ahead(t)') <= owed
      BY <2>3, <2>7, <2>8, <3>1, <3>2, <3>3
    <3>5. QED
      BY <3>4 DEF owed
  <2>10. QED
    BY <1>0, <1>1, <2>7, <2>9 DEF ForwardInv
<1>4. QED
  BY <1>2, <1>3

\* A run gives the message back only for a cause.
LEMMA RetriesCounted ==
  ASSUME CountInv, TypeInv', NEW w \in Workers, ProcessSideEffect(w) \/ Crash(w),
         RunGoesOn(w)
  PROVE  RetryInv' /\ (message' = "expired" => receives' = MaxReceives)
<1>0. /\ receives \in Nat /\ causes \in Nat /\ receives' = receives /\ OthersStay(w)
      /\ IsFiniteSet(Returning) /\ RetryInv /\ TypeInv
      /\ Waits \in Nat /\ Waits' \in Nat
  BY SideEffectsAssumption
     DEF CountInv, TypeInv, TypeOK, RunGoesOn, RetryInv, Waits
<1> DEFINE C == Returning
           D == Returning'
           Had == IF w \in C THEN 1 ELSE 0
           Has == IF w \in D THEN 1 ELSE 0
<1>1. D \ {w} \subseteq C
  BY <1>0 DEF Returning, OthersStay
<1>2. /\ IsFiniteSet(D) /\ Cardinality(C) \in Nat /\ Cardinality(D) \in Nat
      /\ Cardinality(D) + Had <= Cardinality(C) + Has
  <2> HIDE DEF C, D
  <2>1. IsFiniteSet(C)
    BY <1>0 DEF C
  <2>2. QED
    BY <1>1, <2>1, OneChanges
<1> USE DEF Goto, queueVars, workerVars, accountVars, effectVars
<1>3. causes' \in Nat /\ Waits' + Has + causes <= Waits + Had + causes'
  <2>1. Had = IF pc[w] # "idle" /\ critical[w] THEN 1 ELSE 0
    BY DEF Returning
  <2>2. Has = IF pc'[w] # "idle" /\ critical'[w] THEN 1 ELSE 0
    BY DEF Returning
  <2>3. Had \in {0, 1} /\ Has \in {0, 1} /\ Waits \in {0, 1} /\ Waits' \in {0, 1}
    BY DEF Waits
  <2> HIDE DEF Had, Has, C, D
  <2>4. CASE Crash(w) \/ LoadFails(w)
    <3>1. Has = 0 /\ causes' = causes + 1
      BY <1>0, <2>2, <2>4 DEF Crash, LoadFails, Cause, TypeInv, TypeOK
    <3>2. {Had, Waits, Waits', causes} \subseteq Nat /\ Waits' <= 1
      BY <1>0, <2>3
    <3>3. QED
      BY <3>1, <3>2
  <2>5. CASE causes' = causes + 1 /\ message' = message
    <3>1. Waits' = Waits
      BY <2>5 DEF Waits
    <3>2. QED
      BY <1>0, <2>3, <2>5, <3>1
  <2>6. CASE /\ UNCHANGED <<causes, message, critical>> /\ pc[w] # "idle"
    <3>1. Waits' = Waits /\ Has <= Had
      BY <2>1, <2>2, <2>6 DEF Waits
    <3>2. QED
      BY <1>0, <2>3, <2>6, <3>1
  <2>7. CASE End(w)
    <3>1. causes' = causes /\ pc[w] # "idle" /\ pc'[w] = "idle"
      BY <1>0, <2>7 DEF End, TypeInv, TypeOK
    <3>2. Has = 0 /\ (critical[w] => Had = 1)
      BY <2>1, <2>2, <3>1
    <3>3. ~critical[w] => Waits' = 0
      BY <2>7 DEF End, Waits
    <3>4. critical[w] \in BOOLEAN
      BY <1>0 DEF TypeInv, TypeOK
    <3>5. {Waits, Waits', Had, causes} \subseteq Nat
      BY <1>0, <2>3
    <3>6. Waits' <= Waits + Had
      BY <2>3, <3>2, <3>3, <3>4
    <3>7. causes' = causes /\ Has = 0
      BY <3>1, <3>2
    <3>8. QED
      BY <3>5, <3>6, <3>7
  <2>8. QED
    BY <2>4, <2>5, <2>6, <2>7
       DEF ProcessSideEffect, Load, Forwarding, LookUpTarget, LookUpFails, SendForward,
           ForwardFails, ForwardRejected, ForwardsDone, Notify, NotifyFails,
           RunWorkflow, WorkflowFails, Ponging, ShouldPong, ShouldPongFails, SendPong,
           PongFails, MarkTestEmailReceived, Drafting, SaveDraft, SaveDraftFails,
           DraftGivenUp, NoDraft, DispatchDraft, ForwardInvite, ForwardInviteFails,
           Critical, Cause
<1>4. receives + Waits + Cardinality(C) <= 1 + causes
  BY <1>0 DEF RetryInv
<1>5. Had \in Nat /\ Has \in Nat
  OBVIOUS
<1> HIDE DEF Had, Has, C, D
<1>6. receives' + Waits' + Cardinality(D) <= 1 + causes'
  <2>1. /\ {receives, causes, causes', Waits, Waits', Had, Has} \subseteq Nat
        /\ Cardinality(C) \in Nat /\ Cardinality(D) \in Nat /\ receives' = receives
    BY <1>0, <1>2, <1>3, <1>5
  <2>2. receives + Waits' + Cardinality(D) <= 1 + causes'
    BY <1>2, <1>3, <1>4, <2>1
  <2>3. QED
    BY <2>1, <2>2
<1>7. message' = "expired" => message = "expired"
  BY DEF ProcessSideEffect, Crash, Load, LoadFails, Forwarding, LookUpTarget,
         LookUpFails, SendForward, ForwardFails, ForwardRejected, ForwardsDone, Notify,
         NotifyFails, RunWorkflow, WorkflowFails, Ponging, ShouldPong, ShouldPongFails,
         SendPong, PongFails, MarkTestEmailReceived, Drafting, SaveDraft,
         SaveDraftFails, DraftGivenUp, NoDraft, DispatchDraft, ForwardInvite,
         ForwardInviteFails, End, ReturnMessage
<1>8. QED
  BY <1>0, <1>2, <1>3, <1>6, <1>7 DEF RetryInv, CountInv, D

\* A receive pays for the run it starts.
LEMMA ReceiveCounted ==
  ASSUME CountInv, TypeInv', NEW w \in Workers, Receive(w)
  PROVE  CountInv'
<1>0. /\ receives \in Nat /\ receives' = receives + 1 /\ mail \in Mails
      /\ UNCHANGED <<mail, forwarded, pongs, drafts, pending, causes>>
      /\ {pongs, drafts, pending} \subseteq Nat
      /\ causes \in Nat /\ message = "visible" /\ message' = "hidden"
      /\ RetryInv /\ PongInv /\ DraftInv
  BY SideEffectsAssumption
     DEF Receive, CountInv, TypeInv, TypeOK, RetryInv, accountVars, effectVars
<1>1. /\ OthersStay(w) /\ pc[w] = "idle" /\ pc'[w] \in {"forward", "load"}
      /\ ~critical'[w] /\ next'[w] = 1
  BY DEF Receive, Goto, OthersStay, CountInv, TypeInv, TypeOK
<1>2. RetryInv'
  <2>1. Returning' \subseteq Returning
    BY <1>1 DEF Returning, OthersStay
  <2>2. IsFiniteSet(Returning)
    BY <1>0 DEF RetryInv
  <2>3. /\ IsFiniteSet(Returning')
        /\ Cardinality(Returning') <= Cardinality(Returning)
    BY <2>1, <2>2, FS_Subset
  <2>4. Cardinality(Returning) \in Nat /\ Cardinality(Returning') \in Nat
    BY <2>2, <2>3, FS_CardinalityType
  <2>5. Waits = 1 /\ Waits' = 0
    BY <1>0 DEF Waits
  <2>6. receives + 1 + Cardinality(Returning) <= 1 + causes
    BY <1>0, <2>5 DEF RetryInv
  <2>7. receives' + Waits' + Cardinality(Returning') <= 1 + causes'
    BY <1>0, <2>3, <2>4, <2>5, <2>6
  <2>8. QED
    BY <1>0, <2>3, <2>7 DEF RetryInv
<1>3. ASSUME NEW labels, IsFiniteSet(In(labels)), "idle" \notin labels
      PROVE  /\ IsFiniteSet(In(labels)')
             /\ Cardinality(In(labels)) \in Nat /\ Cardinality(In(labels)') \in Nat
             /\ Cardinality(In(labels)') <= Cardinality(In(labels)) + 1
  <2>1. /\ IsFiniteSet(In(labels)')
        /\ Cardinality(In(labels)) \in Nat /\ Cardinality(In(labels)') \in Nat
        /\ Cardinality(In(labels)') + (IF pc[w] \in labels THEN 1 ELSE 0)
             <= Cardinality(In(labels)) + (IF pc'[w] \in labels THEN 1 ELSE 0)
    BY <1>1, <1>3, StageMoves
  <2>2. QED
    BY <1>1, <1>3, <2>1
<1>4. "idle" \notin PongStages /\ "idle" \notin DraftStages
  BY DEF PongStages, DraftStages, ForwardStages
<1>5. PongInv'
  <2>1. /\ IsFiniteSet(In(PongStages)')
        /\ Cardinality(In(PongStages)) \in Nat /\ Cardinality(In(PongStages)') \in Nat
        /\ Cardinality(In(PongStages)') <= Cardinality(In(PongStages)) + 1
    BY <1>0, <1>3, <1>4 DEF PongInv
  <2>2. QED
    BY <1>0, <2>1 DEF PongInv
<1>6. DraftInv'
  <2>1. /\ IsFiniteSet(In(DraftStages)')
        /\ Cardinality(In(DraftStages)) \in Nat /\ Cardinality(In(DraftStages)') \in Nat
        /\ Cardinality(In(DraftStages)') <= Cardinality(In(DraftStages)) + 1
    BY <1>0, <1>3, <1>4 DEF DraftInv
  <2>2. QED
    BY <1>0, <2>1 DEF DraftInv
<1>7. ASSUME NEW t \in Targets
      PROVE  ForwardInv(t)'
  <2> DEFINE New == {w} \X Asking(t)
  <2>1. Asking(t)' = Asking(t) /\ Asked(t)' = Asked(t)
    BY <1>0 DEF Asking, Asked
  <2>2. Ahead(t)' \subseteq Ahead(t) \union New
    BY <1>1, <2>1 DEF Ahead, OthersStay
  <2>3. /\ IsFiniteSet(Ahead(t)) /\ IsFiniteSet(Asking(t))
        /\ Asked(t) = Cardinality(Asking(t)) /\ Asked(t) \in Nat
    BY <1>0, AskedType DEF CountInv, ForwardInv
  <2>4. IsFiniteSet(New) /\ Cardinality(New) = Asked(t)
    <3>1. IsFiniteSet({w}) /\ Cardinality({w}) = 1
      BY FS_Singleton
    <3>2. IsFiniteSet(New) /\ Cardinality(New) = 1 * Cardinality(Asking(t))
      BY <2>3, <3>1, FS_Product
    <3>3. QED
      BY <2>3, <3>2
  <2> HIDE DEF New
  <2>5. /\ IsFiniteSet(Ahead(t) \union New)
        /\ Cardinality(Ahead(t) \union New)
             = Cardinality(Ahead(t)) + Asked(t) - Cardinality(Ahead(t) \cap New)
    BY <2>3, <2>4, FS_Union
  <2>6. /\ IsFiniteSet(Ahead(t)') /\ IsFiniteSet(Ahead(t) \cap New)
        /\ Cardinality(Ahead(t)') <= Cardinality(Ahead(t) \union New)
    BY <2>2, <2>3, <2>5, FS_Subset
  <2>7. /\ Cardinality(Ahead(t)) \in Nat /\ Cardinality(Ahead(t)') \in Nat
        /\ Cardinality(Ahead(t) \cap New) \in Nat
        /\ Cardinality(Ahead(t) \union New) \in Nat
    BY <2>3, <2>5, <2>6, FS_CardinalityType
  <2>8. Cardinality(Ahead(t)') <= Cardinality(Ahead(t)) + Asked(t)
    BY <2>3, <2>5, <2>6, <2>7
  <2>9. Asked(t) * receives \in Nat /\ Asked(t) * (receives + 1) = Asked(t) * receives + Asked(t)
    BY <1>0, <2>3
  <2>10. forwarded[t] \in Nat
    BY DEF CountInv, TypeInv, TypeOK
  <2>11. forwarded'[t] + Cardinality(Ahead(t)') <= Asked(t) * (receives + 1)
    BY <1>0, <2>3, <2>7, <2>8, <2>9, <2>10 DEF CountInv, ForwardInv
  <2>12. QED
    BY <1>0, <2>1, <2>6, <2>11 DEF ForwardInv
<1>8. QED
  BY <1>0, <1>2, <1>5, <1>6, <1>7 DEF CountInv

LEMMA EnvironmentCounted ==
  ASSUME CountInv, TypeInv',
         \/ Redeliver \/ Expire \/ Arrive \/ UNCHANGED vars
         \/ \E t \in Targets : Verify(t) \/ Remove(t)
  PROVE  CountInv'
<1>1. UNCHANGED <<mail, receives, pc, next, critical, forwarded, pongs, drafts, pending>>
  BY DEF Redeliver, Expire, Arrive, Verify, Remove, vars, queueVars, workerVars, effectVars
<1>2. PongInv' /\ DraftInv' /\ \A t \in Targets : ForwardInv(t)'
  BY <1>1 DEF CountInv, PongInv, DraftInv, ForwardInv, In, Ahead, Asking, Asked
<1>3. Returning' = Returning /\ IsFiniteSet(Returning) /\ Cardinality(Returning) \in Nat
  BY <1>1, FS_CardinalityType DEF Returning, CountInv, RetryInv
<1>4. receives \in Nat /\ causes \in Nat /\ Waits \in Nat
  BY DEF CountInv, TypeInv, TypeOK, RetryInv, Waits
<1>5. \/ causes' = causes /\ Waits' = Waits
      \/ causes' = causes + 1 /\ Waits' = 1 /\ Waits = 0
  BY DEF Redeliver, Expire, Arrive, Verify, Remove, vars, queueVars, Waits
<1>6. receives + Waits + Cardinality(Returning) <= 1 + causes
  BY DEF CountInv, RetryInv
<1>7. receives' + Waits' + Cardinality(Returning') <= 1 + causes' /\ causes' \in Nat
  BY <1>1, <1>3, <1>4, <1>5, <1>6
<1>8. RetryInv'
  BY <1>3, <1>7 DEF RetryInv
<1>9. message' = "expired" => receives' = MaxReceives
  BY <1>1 DEF Redeliver, Expire, Arrive, Verify, Remove, vars, queueVars, CountInv
<1>10. QED
  BY <1>2, <1>8, <1>9 DEF CountInv

LEMMA NextCount == CountInv /\ [Next]_vars => CountInv'
<1> SUFFICES ASSUME CountInv, [Next]_vars PROVE CountInv'
  OBVIOUS
<1>1. TypeInv'
  BY NextType DEF CountInv
<1>2. ASSUME NEW w \in Workers, ProcessSideEffect(w) \/ Crash(w)
      PROVE  CountInv'
  <2>1. RunGoesOn(w)
    BY <1>2, GoingOn DEF CountInv
  <2>2. QED
    BY <1>1, <1>2, <2>1, PongsCounted, ForwardsCounted, RetriesCounted DEF CountInv
<1>3. ASSUME NEW w \in Workers, Receive(w)
      PROVE  CountInv'
  BY <1>1, <1>3, ReceiveCounted
<1>4. QED
  BY <1>1, <1>2, <1>3, EnvironmentCounted DEF Next

LEMMA Counted == Spec => []CountInv
BY InitCount, NextCount, PTL DEF Spec

\* "A best-effort failure is logged": no effect happens more often than the mail
\* asks for it, times one run and one more for every critical failure, crash and
\* duplicate delivery.
THEOREM RepeatsHaveCauses == Spec => []RepeatsNeedCauses
<1>1. CountInv => RepeatsNeedCauses
  <2> SUFFICES ASSUME CountInv PROVE RepeatsNeedCauses
    OBVIOUS
  <2>1. receives \in Nat /\ causes \in Nat /\ receives <= 1 + causes
    <3>1. Cardinality(Returning) \in Nat /\ Waits \in Nat
      BY FS_CardinalityType DEF CountInv, RetryInv, Waits
    <3>2. QED
      BY <3>1 DEF CountInv, RetryInv, TypeInv, TypeOK
  <2>2. {pongs, drafts, pending} \subseteq Nat
    BY DEF CountInv, TypeInv
  <2>3. pongs <= 1 + causes /\ drafts + pending <= 1 + causes
    <3>1. /\ Cardinality(In(PongStages)) \in Nat /\ Cardinality(In(DraftStages)) \in Nat
      BY FS_CardinalityType DEF CountInv, PongInv, DraftInv
    <3>2. QED
      BY <2>1, <2>2, <3>1 DEF CountInv, PongInv, DraftInv
  <2>4. ASSUME NEW t \in Targets
        PROVE  forwarded[t] <= Asked(t) * (1 + causes)
    <3>1. Cardinality(Ahead(t)) \in Nat /\ forwarded[t] \in Nat /\ Asked(t) \in Nat
      BY FS_CardinalityType, AskedType DEF CountInv, ForwardInv, TypeInv, TypeOK
    <3>2. forwarded[t] + Cardinality(Ahead(t)) <= Asked(t) * receives
      BY DEF CountInv, ForwardInv
    <3>3. \A a, b, c \in Nat : b <= c => a * b \in Nat /\ a * c \in Nat /\ a * b <= a * c
      OBVIOUS
    <3>4. /\ Asked(t) * receives \in Nat /\ Asked(t) * (1 + causes) \in Nat
          /\ Asked(t) * receives <= Asked(t) * (1 + causes)
      BY <2>1, <3>1, <3>3
    <3>5. QED
      BY <3>1, <3>2, <3>4
  <2>5. QED
    BY <2>3, <2>4 DEF RepeatsNeedCauses
<1>2. QED
  BY <1>1, Counted, PTL

\* The retention period ends the retries only where a failure, a crash, a duplicate
\* or a rejecting target accounts for every receive.
THEOREM ExpiryHasCauses == Spec => []ExpiryIsExplained
<1>1. CountInv => ExpiryIsExplained
  <2> SUFFICES ASSUME CountInv, message = "expired" PROVE causes >= MaxReceives
    BY DEF ExpiryIsExplained
  <2>1. /\ receives = MaxReceives /\ causes \in Nat /\ MaxReceives \in Nat
        /\ Cardinality(Returning) \in Nat /\ Waits = 1
    BY FS_CardinalityType, SideEffectsAssumption DEF CountInv, RetryInv, Waits
  <2>2. QED
    BY <2>1 DEF CountInv, RetryInv
<1>2. QED
  BY <1>1, Counted, PTL
=============================================================================
