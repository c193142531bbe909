------------------------------- MODULE Rules -------------------------------
(***************************************************************************)
(* The rules of one account: their rows in the accounts table, the handlers*)
(* of RulesApi that change them, and the evaluation of an inbound mail that*)
(* lists them, runs them one after the other, and settles the mail's fate. *)
(* Handlers and evaluation interleave at every await.                      *)
(*                                                                         *)
(* DynamoDB's update creates a missing item: an update that lands after a  *)
(* delete leaves a row that is no rule.  Such a row is a "stub" when it has*)
(* no index key (listRules does not see it) and a "fragment" when it has   *)
(* one but no id: listRules fails on it.  What a rule does is given by its *)
(* body and not edited; PATCH changes its status and its order.            *)
(***************************************************************************)
EXTENDS Naturals, FiniteSets, RuleOutcome

CONSTANTS
  SystemRules,   \* ids of the rules defined in the code (SR-*)
  UserRules,     \* ids createRule may draw
  SystemBodies,  \* what a system rule may be: condition and actions
  UserBodies,    \* what a user's rule may be: js rules also return actions
  Workflows,
  Changes,       \* what a PATCH may give: a status or "same", an order or 0
  Requests,      \* API requests in flight at a time
  MaxRequests,   \* bound on the requests of a behaviour
  MaxOrder,      \* bound on priorityOrder
  NoRule         \* the id an idle request holds

Ids == SystemRules \union UserRules
Orders == 1..MaxOrder
Statuses == {"enabled", "disabled"}

ASSUME RulesAssumption ==
  /\ SystemRules \intersect UserRules = {}
  /\ NoRule \notin Ids
  /\ MaxOrder \in Nat \ {0}
  /\ MaxRequests \in Nat
  /\ Changes \subseteq [status : Statuses \union {"same"}, order : Orders \union {0}]
  /\ \A b \in SystemBodies : ~b.js /\ b.returns = {<<>>}

VARIABLES
  body,       \* the condition and the actions of each rule, given once for all
  rows,       \* the accounts table: the row of each rule
  gone,       \* rules whose DELETE has been answered
  request,    \* what each API request is about to do
  asked,      \* how many requests have come in
  pc,         \* the evaluation of the mail: "idle", "rules", "decided", "failed"
  todo,       \* the enabled rules it has still to run
  trace,      \* matchedRules
  workflow,   \* the workflow of the thread in memory
  fired,      \* history: every rule whose condition held, with its actions
  untrusted,  \* the sender is unknown to the alias
  policy,     \* the alias's policy for unknown senders, "none" until it is needed
  fate        \* what became of the mail

storeVars == <<rows, gone, request, asked>>
mailVars == <<pc, todo, trace, workflow, fired, untrusted, policy, fate>>
vars == <<body, storeVars, mailVars>>

-----------------------------------------------------------------------------
(* Rows.                                                                    *)

Row == [kind : {"absent", "stub", "fragment", "rule"}, status : Statuses,
        order : Orders, failed : BOOLEAN]

Absent == [kind |-> "absent", status |-> "enabled", order |-> 1, failed |-> FALSE]
NewRule(order) == [Absent EXCEPT !.kind = "rule", !.order = order]

\* What a PATCH does not give stays as it is.
Merged(row, change) ==
  [row EXCEPT !.status = IF change.status = "same" THEN @ ELSE change.status,
              !.order = IF change.order = 0 THEN @ ELSE change.order]

\* The row is in the index listRules queries.
Indexed(id) == rows[id].kind \in {"fragment", "rule"}

\* A row without an id makes r.id.startsWith throw: the list is an error.
ListFails == \E id \in Ids : rows[id].kind = "fragment"

\* System rules come from the code, with the status and order of their override.
Listed == SystemRules \union {id \in UserRules : rows[id].kind = "rule"}

EnabledRules == {id \in Listed : rows[id].status = "enabled"}

\* Ascending priorityOrder; the sort is stable and has the system rules first.
InPriorityOrder(s) ==
  \A i, j \in DOMAIN s : i < j =>
    \/ rows[s[i]].order < rows[s[j]].order
    \/ /\ rows[s[i]].order = rows[s[j]].order
       /\ ~(s[i] \in UserRules /\ s[j] \in SystemRules)

BodiesOf(id) == IF id \in SystemRules THEN SystemBodies ELSE UserBodies

Idle == [op |-> "idle", id |-> NoRule, change |-> [status |-> "same", order |-> 0]]

Init ==
  /\ body \in {b \in [Ids -> SystemBodies \union UserBodies] :
                \A id \in Ids : b[id] \in BodiesOf(id)}
  /\ \E present \in SUBSET UserRules, order \in [UserRules -> Orders] :
       rows = [id \in Ids |-> IF id \in SystemRules THEN NewRule(1)
                              ELSE IF id \in present THEN NewRule(order[id])
                              ELSE Absent]
  /\ gone = {}
  /\ request = [q \in Requests |-> Idle]
  /\ asked = 0
  /\ pc = "idle"
  /\ todo = <<>>
  /\ trace = <<>>
  /\ workflow \in Workflows
  /\ fired = <<>>
  /\ untrusted \in BOOLEAN
  /\ policy = "none"
  /\ fate = "none"

-----------------------------------------------------------------------------
(* API requests.  Each begins with listRules (or, for an override, with the *)
(* row it changes) and ends with one unconditional write.                   *)

Begin(q, op, id, change) ==
  /\ asked < MaxRequests
  /\ asked' = asked + 1
  /\ request[q] = Idle
  /\ request' = [request EXCEPT ![q] = [op |-> op, id |-> id, change |-> change]]
  /\ UNCHANGED <<body, rows, gone, mailVars>>

Answer(q) == request' = [request EXCEPT ![q] = Idle]

\* createRule lists the rules, to put the new one last if no order is given.
BeginCreate(q, id, order) ==
  /\ ~ListFails
  /\ rows[id].kind = "absent"
  /\ id \notin gone
  /\ \A p \in Requests : request[p].id # id
  /\ Begin(q, "create", id, [status |-> "enabled", order |-> order])

FinishCreate(q) ==
  /\ request[q].op = "create"
  /\ rows' = [rows EXCEPT ![request[q].id] = NewRule(request[q].change.order)]
  /\ Answer(q)
  /\ UNCHANGED <<body, gone, asked, mailVars>>

\* PATCH of a user rule that is in the list, with the fields it gives.
BeginUpdate(q, id, change) ==
  /\ ~ListFails
  /\ id \in Listed \intersect UserRules
  /\ Begin(q, "update", id, change)

\* The update sets the index key, so what it leaves of a deleted rule is listed.
Updated(row, change) ==
  [Merged(row, change) EXCEPT !.kind = IF @ = "rule" THEN @ ELSE "fragment"]

FinishUpdate(q) ==
  /\ request[q].op = "update"
  /\ rows' = [rows EXCEPT ![request[q].id] = Updated(@, request[q].change)]
  /\ Answer(q)
  /\ UNCHANGED <<body, gone, asked, mailVars>>

\* PATCH of a system rule: only its status and order may change.  The override
\* is put as a whole row, with what was read for the field that is not given.
BeginOverride(q, id, change) ==
  /\ ~ListFails
  /\ id \in SystemRules
  /\ LET override == Merged(rows[id], change)
     IN  Begin(q, "override", id,
               [status |-> override.status, order |-> override.order])

FinishOverride(q) ==
  /\ request[q].op = "override"
  /\ rows' = [rows EXCEPT ![request[q].id] =
               [Merged(@, request[q].change) EXCEPT !.failed = FALSE]]
  /\ Answer(q)
  /\ UNCHANGED <<body, gone, asked, mailVars>>

\* System rules cannot be deleted.
BeginDelete(q, id) ==
  /\ ~ListFails
  /\ id \in Listed \intersect UserRules
  /\ Begin(q, "delete", id, Idle.change)

FinishDelete(q) ==
  /\ request[q].op = "delete"
  /\ rows' = [rows EXCEPT ![request[q].id] = Absent]
  /\ gone' = gone \union {request[q].id}
  /\ Answer(q)
  /\ UNCHANGED <<body, asked, mailVars>>

-----------------------------------------------------------------------------
(* The evaluation of a mail.                                                *)

\* listEnabledRules; the rules run as they were when listed.
ListRules ==
  /\ pc = "idle"
  /\ ~ListFails
  /\ todo' \in {s \in SetToSeqs(EnabledRules) : InPriorityOrder(s)}
  /\ pc' = "rules"
  /\ UNCHANGED <<body, storeVars, trace, workflow, fired, untrusted, policy, fate>>

\* The list is an error: the mail goes back to the queue.
ListRefused ==
  /\ pc = "idle"
  /\ ListFails
  /\ pc' = "failed"
  /\ UNCHANGED <<body, storeVars, todo, trace, workflow, fired, untrusted, policy, fate>>

NextRule == Head(todo)

\* The condition holds.  The code of a js rule may return further actions;
\* those that are no valid actions are dropped.
Match(returned) ==
  /\ pc = "rules"
  /\ todo # <<>>
  /\ workflow \in body[NextRule].when
  /\ returned \in body[NextRule].returns
  /\ LET actions == body[NextRule].actions \o returned
     IN  /\ trace' = Traced(trace, MatchedRule(NextRule, actions))
         /\ fired' = Append(fired, MatchedRule(NextRule, actions))
         /\ workflow' = WorkflowAfter(workflow, actions)
  /\ todo' = Tail(todo)
  /\ UNCHANGED <<body, storeVars, pc, untrusted, policy, fate>>

Skip ==
  /\ pc = "rules"
  /\ todo # <<>>
  /\ workflow \notin body[NextRule].when
  /\ todo' = Tail(todo)
  /\ UNCHANGED <<body, storeVars, pc, trace, workflow, fired, untrusted, policy, fate>>

\* The code of a js rule fails: the rule does not match.  An error the executor
\* reports is written on the rule's row, whether or not the row is still there;
\* an executor that cannot be reached leaves no mark.
FailRule ==
  /\ pc = "rules"
  /\ todo # <<>>
  /\ body[NextRule].js
  /\ \/ rows' = [rows EXCEPT ![NextRule].failed = TRUE,
                             ![NextRule].kind = IF @ = "absent" THEN "stub" ELSE @]
     \/ UNCHANGED rows
  /\ todo' = Tail(todo)
  /\ UNCHANGED <<body, gone, request, asked, pc, trace, workflow, fired,
                 untrusted, policy, fate>>

\* The trace is reduced to an outcome, and the policy for unknown senders
\* steps in where no rule settled the mail's status.
Decide ==
  /\ pc = "rules"
  /\ todo = <<>>
  /\ policy' \in IF untrusted THEN Policies ELSE {"none"}
  /\ LET outcome == DeriveOutcome(trace)
         byPolicy == SettledBy(outcome, untrusted, policy') # outcome.status
     IN  /\ fate' = Fate(outcome, untrusted, policy')
         /\ trace' = IF byPolicy THEN Append(trace, PolicyRule(policy')) ELSE trace
  /\ pc' = "decided"
  /\ UNCHANGED <<body, storeVars, todo, workflow, fired, untrusted>>

-----------------------------------------------------------------------------

Handlers ==
  \E q \in Requests :
    \/ \E id \in UserRules, order \in Orders : BeginCreate(q, id, order)
    \/ \E id \in UserRules, change \in Changes : BeginUpdate(q, id, change)
    \/ \E id \in SystemRules, change \in Changes \ {Idle.change} :
         BeginOverride(q, id, change)
    \/ \E id \in UserRules : BeginDelete(q, id)
    \/ FinishCreate(q)
    \/ FinishUpdate(q)
    \/ FinishOverride(q)
    \/ FinishDelete(q)

Evaluation ==
  \/ ListRules
  \/ ListRefused
  \/ \E returned \in UNION {body[id].returns : id \in Ids} : Match(returned)
  \/ Skip
  \/ FailRule
  \/ Decide

Next == Handlers \/ Evaluation

Spec == Init /\ [][Next]_vars

-----------------------------------------------------------------------------
(* Properties.                                                              *)

\* Rows, requests and the mail are well formed; system rules keep their row.
TypeOK ==
  /\ \A id \in Ids : body[id] \in BodiesOf(id)
  /\ rows \in [Ids -> Row]
  /\ gone \subseteq UserRules
  /\ \A q \in Requests :
       request[q].op \in {"idle", "create", "update", "override", "delete"}
  /\ pc \in {"idle", "rules", "decided", "failed"}
  /\ ToSet(todo) \subseteq Ids
  /\ workflow \in Workflows
  /\ \A id \in SystemRules : rows[id].kind = "rule"
  /\ policy \in Policies \union {"none"}

\* Leaving redundant rules out of the trace changes nothing: what the side
\* effects will derive from the stored trace is what all the rules that held
\* decide together.
TraceIsFaithful ==
  pc = "rules" => DeriveOutcome(trace) = DeriveOutcome(fired)

\* "first-rule-wins": the fate of a mail whose rules settle its status comes
\* from the first status action of the rules that held, in their order.
FirstStatusWins ==
  LET settled == SelectSeq(AllActions(fired), IsStatus)
  IN  (pc = "decided" /\ settled # <<>>) =>
        \/ fate = Head(settled).type
        \/ fate = "archived" /\ Head(settled).type = "archive"
        \/ /\ fate = "active"
           /\ Head(settled).type \in {"quarantine_visible", "quarantine_hidden"}
           /\ Has(AllActions(fired), "approve_sender")

\* An unknown sender's mail reaches the inbox against a policy that holds such
\* mail back only if a rule approved the sender, and never against a block.
UnknownSendersHeldBack ==
  (pc = "decided" /\ fate = "active" /\ untrusted /\ policy # "allow_all") =>
    /\ Has(AllActions(fired), "approve_sender")
    /\ \/ policy \in {"quarantine_visible", "quarantine_hidden"}
       \/ \E type \in {"quarantine_visible", "quarantine_hidden"} :
            Has(AllActions(fired), type)

\* "the signal should reflect the final workflow after all rules": the last
\* workflow assigned in the trace is the one the thread is left with, as long as
\* no rule assigns two.
AssignsTwice(entry) == Len(Values(entry.actions, "assign_workflow")) > 1
SignalFollowsThread ==
  LET assigned == Values(AllActions(trace), "assign_workflow")
  IN  assigned = <<>> \/ workflow = Last(assigned)
        \/ \E i \in DOMAIN fired : AssignsTwice(fired[i])

\* "Rule deleted": once the API has answered so, no list of the rules meets a
\* row of the rule.
\* It fails: a PATCH that read the rule before puts a remnant of the row back.
DeletedRuleIsGone == \A id \in gone : ~Indexed(id)
=============================================================================
