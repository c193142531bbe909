---------------------------- MODULE RuleOutcome ----------------------------
(***************************************************************************)
(* What the rules of an account decide about a mail: applyRules traces the *)
(* rules that match, deriveOutcome reduces the trace to one outcome, and   *)
(* the pipeline turns the outcome into the fate of the mail.  The trace is *)
(* stored with the signal, and the side effects derive the outcome again.  *)
(*                                                                         *)
(* An action is a record of a type and a value; the condition of a rule is *)
(* the set of thread workflows under which it holds.                       *)
(***************************************************************************)
EXTENDS Sequences, SequencesExt

\* The actions that settle a mail's fate, strongest first.
StatusTypes == <<"block_reject", "block_hidden", "quarantine_hidden",
                 "quarantine_visible", "archive">>
IsStatus(action) == action.type \in ToSet(StatusTypes)

OfType(actions, type) == SelectSeq(actions, LAMBDA a : a.type = type)
Has(actions, type) == \E i \in DOMAIN actions : actions[i].type = type
Values(actions, type) ==
  [i \in DOMAIN OfType(actions, type) |-> OfType(actions, type)[i].value]

\* The entry of the trace for a rule whose condition held: its actions and the
\* status it stands for, the strongest of its status actions.
StatusChange(actions) ==
  LET held == SelectSeq(StatusTypes, LAMBDA t : Has(actions, t))
  IN  CASE held = <<>> -> "none"
        [] held # <<>> /\ Head(held) = "archive" -> "archived"
        [] OTHER -> Head(held)

MatchedRule(id, actions) ==
  [rule |-> id, actions |-> actions, statusChange |-> StatusChange(actions)]

StatusAlreadySet(trace) == \E i \in DOMAIN trace : trace[i].statusChange # "none"

\* Mutant: a rule that repeats a settled status is dropped, whatever else it does.
RedundantStatus(trace, entry) ==
  StatusAlreadySet(trace) /\ entry.statusChange # "none"

\* All the rule contributes is a status that an earlier rule has settled.
Redundant(trace, entry) ==
  /\ StatusAlreadySet(trace)
  /\ entry.statusChange # "none"
  /\ \A i \in DOMAIN entry.actions : IsStatus(entry.actions[i])

Traced(trace, entry) ==
  IF Redundant(trace, entry) THEN trace ELSE Append(trace, entry)

\* Mutant: the rules that follow see the thread as it was.
WorkflowKept(workflow, actions) == workflow

\* assign_workflow changes the thread in memory: later rules see the new one.
WorkflowAfter(workflow, actions) ==
  LET assigned == Values(actions, "assign_workflow")
  IN  IF assigned = <<>> THEN workflow ELSE Head(assigned)

-----------------------------------------------------------------------------
(* The outcome of a trace.                                                  *)

EmptyOutcome ==
  [status |-> "none", urgency |-> "none", approve |-> FALSE, quiet |-> FALSE,
   labels |-> <<>>, forwards |-> <<>>]

\* Mutant: the last status action of the trace wins.
WithActionLast(outcome, action) ==
  CASE IsStatus(action) -> [outcome EXCEPT !.status = action.type]
    [] action.type = "set_urgency" /\ outcome.urgency = "none" ->
         [outcome EXCEPT !.urgency = action.value]
    [] action.type = "approve_sender" -> [outcome EXCEPT !.approve = TRUE]
    [] action.type = "suppress_notification" -> [outcome EXCEPT !.quiet = TRUE]
    [] action.type = "assign_label" ->
         [outcome EXCEPT !.labels = Append(@, action.value)]
    [] action.type = "forward" ->
         [outcome EXCEPT !.forwards = Append(@, action.value)]
    [] OTHER -> outcome

\* One turn of deriveOutcome's loop: the first status and the first urgency
\* stand, labels and forwards add up.
WithAction(outcome, action) ==
  CASE IsStatus(action) /\ outcome.status = "none" ->
         [outcome EXCEPT !.status = action.type]
    [] action.type = "set_urgency" /\ outcome.urgency = "none" ->
         [outcome EXCEPT !.urgency = action.value]
    [] action.type = "approve_sender" -> [outcome EXCEPT !.approve = TRUE]
    [] action.type = "suppress_notification" -> [outcome EXCEPT !.quiet = TRUE]
    [] action.type = "assign_label" ->
         [outcome EXCEPT !.labels = Append(@, action.value)]
    [] action.type = "forward" ->
         [outcome EXCEPT !.forwards = Append(@, action.value)]
    [] OTHER -> outcome

AllActions(trace) ==
  FlattenSeq([i \in DOMAIN trace |-> trace[i].actions])

DeriveOutcome(trace) == FoldLeft(WithAction, EmptyOutcome, AllActions(trace))

-----------------------------------------------------------------------------
(* The fate of the mail.                                                    *)

\* The unknown-sender policies (resolveUnknownSenderPolicy).
Policies == {"allow_all", "quarantine_visible", "quarantine_hidden",
             "block_hidden", "block_reject", "report_violation"}

\* No rule settled the status of an untrusted sender's mail: the policy does.
SettledBy(outcome, untrusted, policy) ==
  IF outcome.status = "none" /\ untrusted /\ policy # "allow_all"
  THEN policy ELSE outcome.status

\* SR-00, the entry that explains a status set by the policy.
PolicyAction(policy) == IF policy = "report_violation" THEN "block_reject" ELSE policy
PolicyRule(policy) ==
  [rule |-> "SR-00", statusChange |-> policy,
   actions |-> <<[type |-> PolicyAction(policy), value |-> "none"]>>]

\* Blocks stand; a quarantine yields to approve_sender.
Fate(outcome, untrusted, policy) ==
  LET status == SettledBy(outcome, untrusted, policy)
      quarantined == status \in {"quarantine_visible", "quarantine_hidden"}
  IN  CASE status = "archive" -> "archived"
        [] status = "none" \/ (quarantined /\ outcome.approve) -> "active"
        [] OTHER -> status
=============================================================================
