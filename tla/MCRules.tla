------------------------------ MODULE MCRules ------------------------------
(* TLC values for Rules: a handful of rule bodies in which statuses, labels, *)
(* approvals and workflows meet.                                             *)
EXTENDS Rules, TLC

CONSTANTS w1, w2

Plain(type) == [type |-> type, value |-> "none"]
With(type, value) == [type |-> type, value |-> value]

MCWorkflows == {w1, w2}

\* Such as SR-03 and SR-01, for a mail they apply to.
MCSystemBodies == {
  [js |-> FALSE, when |-> {w1, w2}, returns |-> {<<>>},
   actions |-> <<Plain("quarantine_hidden")>>],
  [js |-> FALSE, when |-> {w1, w2}, returns |-> {<<>>},
   actions |-> <<Plain("approve_sender")>>] }

MCUserBodies == {
  [js |-> FALSE, when |-> {w1, w2}, returns |-> {<<>>},
   actions |-> <<Plain("quarantine_visible")>>],
  [js |-> FALSE, when |-> {w2}, returns |-> {<<>>},
   actions |-> <<Plain("block_hidden"), With("forward", "target")>>],
  [js |-> TRUE, when |-> {w1}, actions |-> <<With("assign_workflow", w2)>>,
   returns |-> {<<>>, <<Plain("archive")>>, <<With("assign_workflow", w1)>>}],
  [js |-> TRUE, when |-> {w1, w2}, actions |-> <<>>,
   returns |-> {<<Plain("block_reject")>>, <<Plain("approve_sender")>>}] }

\* Disable a rule; move it last.
MCChanges == {[status |-> "disabled", order |-> 0], [status |-> "same", order |-> 2]}

Symmetry == Permutations(UserRules) \union Permutations(Requests)

\* Whatever order rules are read in and whatever they return, the first action that
\* sets a status decides, though an approval lifts a quarantine; and where the policy
\* holds unknown senders back, one whom nothing approved is not in the inbox.
\* (applyRules and the sender policy after it.)
StatusIsSettledOnce == TypeOK /\ FirstStatusWins /\ UnknownSendersHeldBack
=============================================================================
