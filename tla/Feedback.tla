------------------------------ MODULE Feedback ------------------------------
(***************************************************************************)
(* What becomes of the reports on mail we have sent: bounces and           *)
(* complaints from SES, and delivery notices that arrive as mail.  A       *)
(* report suppresses addresses, disables the rules that forward to them,   *)
(* shows the user what did not arrive, and gives a draft back when none of *)
(* it did.  Reports come late, in any order and more than once.            *)
(***************************************************************************)
EXTENDS Naturals, FiniteSets

CONSTANTS
  Addresses,     \* recipients of the draft; one may be a forwarding target as well
  None,
  Lambdas,       \* concurrent invocations
  MaxReports, MaxTries, MaxFaults, MaxAttempts, MaxExpiries

VARIABLES
  list,          \* the suppression list
  draft,         \* the user's mail: its status and how often it has been sent
  ruled,         \* addresses with an enabled rule that forwards to them
  reports,       \* [report -> times it has been delivered]
  surfaced,      \* deliverability signals: the reports they are about
  lambda, faults, expiries,
  handled,       \* history: reports handled to the end
  outdated       \* history: reports handled again, or of a send before the last one

vars == <<list, draft, ruled, reports, surfaced, lambda, faults, expiries, handled, outdated>>

Idle == [pc |-> "idle"]
Goto(i, w) == lambda' = [lambda EXCEPT ![i] = w]

\* of: what was sent; dsn: it came as mail; who: the recipients it names; attempt: of
\* the draft's sends.
Kinds == {"hard", "soft", "complaint"}
Report ==
  [of : {"draft", "rsvp", "forward"}, dsn : BOOLEAN, kind : Kinds, who : SUBSET Addresses \ {{}},
   attempt : 0 .. MaxAttempts]

Init ==
  /\ list = [a \in Addresses |-> None]
  /\ draft = [status |-> "draft", attempt |-> 0] /\ ruled = Addresses
  /\ reports = [r \in {} |-> 0] /\ surfaced = {}
  /\ lambda = [i \in Lambdas |-> Idle] /\ faults = 0 /\ expiries = 0
  /\ handled = {} /\ outdated = FALSE

-----------------------------------------------------------------------------
(* Sending, and what the world answers.                                      *)

\* The user sends the draft, the first time or after it came back (module DraftSend).
Send ==
  /\ draft.status = "draft" /\ draft.attempt < MaxAttempts
  /\ draft' = [status |-> "sent", attempt |-> draft.attempt + 1]
  /\ UNCHANGED <<list, ruled, reports, surfaced, lambda, faults, expiries, handled, outdated>>

\* A notice that comes as mail names one recipient and is no complaint.
Possible(r) ==
  /\ r.of = "draft" <=> r.attempt > 0
  /\ r.attempt <= draft.attempt
  /\ r.dsn => r.kind # "complaint" /\ Cardinality(r.who) = 1
  /\ r.of \in {"rsvp", "forward"} => Cardinality(r.who) = 1

Arise(r) ==
  /\ Possible(r) /\ r \notin DOMAIN reports /\ Cardinality(DOMAIN reports) < MaxReports
  /\ reports' = [s \in DOMAIN reports \union {r} |-> IF s = r THEN 0 ELSE reports[s]]
  /\ UNCHANGED <<list, draft, ruled, surfaced, lambda, faults, expiries, handled, outdated>>

\* DynamoDB deletes a row whose ttl has passed.
Expire(a) ==
  /\ list[a] # None /\ list[a].ttl /\ expiries < MaxExpiries
  /\ expiries' = expiries + 1
  /\ list' = [list EXCEPT ![a] = None]
  /\ UNCHANGED <<draft, ruled, reports, surfaced, lambda, faults, handled, outdated>>

-----------------------------------------------------------------------------
(* processFeedback and handleInboundBounce.                                  *)

\* The send a report belongs to is found by the tags SES gives back, or by the
\* Message-ID the notice refers to.  Only a mail the user wrote is one to tell of.
IsDraft(r) == r.of = "draft"
LinkedByTags(r)      == ~r.dsn /\ IsDraft(r)
LinkedByMessageId(r) == r.dsn /\ IsDraft(r)
Linked(r) == LinkedByTags(r) \/ LinkedByMessageId(r)

\* Mutant: one recipient is enough.
SomeBounced(r) == LinkedByTags(r) /\ r.kind = "hard" /\ \E a \in Addresses : a \in r.who
\* A draft comes back when every recipient bounced for good, in this report; a notice
\* by mail names one only and never gives it back.
RevertToDraft(r) == LinkedByTags(r) /\ r.kind = "hard" /\ \A a \in Addresses : a \in r.who

DisableForwarding(r) == ~r.dsn /\ r.of = "forward" /\ r.kind = "hard"

Start(i, r) ==
  /\ lambda[i] = Idle /\ r \in DOMAIN reports /\ reports[r] < MaxTries
  /\ \A j \in Lambdas : lambda[j] # Idle => lambda[j].report # r
  /\ reports' = [reports EXCEPT ![r] = @ + 1]
  /\ Goto(i, [pc |-> "suppress", report |-> r, left |-> r.who])
  /\ outdated' = (outdated \/ reports[r] > 0 \/ (IsDraft(r) /\ r.attempt < draft.attempt))
  /\ UNCHANGED <<list, draft, ruled, surfaced, faults, expiries, handled>>

StartFeedback(i, r) == ~r.dsn /\ Start(i, r)
StartNotice(i, r)   == r.dsn /\ Start(i, r)

\* A soft bounce is forgotten after seven days.
HasTtl(kind) == kind = "soft"

\* suppressAddress sets what it is given: an entry keeps a ttl it has.
Suppressed(was, kind) ==
  [ttl |-> HasTtl(kind) \/ (was # None /\ was.ttl), count |-> IF was = None THEN 1 ELSE was.count + 1]

AfterSuppressing(r) ==
  CASE r.kind = "complaint"   -> "done"
    [] DisableForwarding(r)   -> "rules"
    [] r.kind # "complaint" /\ ~DisableForwarding(r) /\ Linked(r) -> "signal"
    [] OTHER                  -> "done"

Suppress(i, a) ==
  LET w == lambda[i] IN
  /\ w.pc = "suppress" /\ a \in w.left
  /\ list' = [list EXCEPT ![a] = Suppressed(@, w.report.kind)]
  /\ Goto(i, [w EXCEPT !.left = @ \ {a},
                       !.pc = IF w.left = {a} THEN AfterSuppressing(w.report) ELSE @])
  /\ UNCHANGED <<draft, ruled, reports, surfaced, faults, expiries, handled, outdated>>

SuppressBounced(i, a)    == lambda[i] # Idle /\ lambda[i].report.kind # "complaint" /\ Suppress(i, a)
SuppressComplained(i, a) == lambda[i] # Idle /\ lambda[i].report.kind = "complaint" /\ Suppress(i, a)

\* A rule that cannot be disabled is logged and left.
DisableRules(i, failed) ==
  LET w == lambda[i] IN
  /\ w.pc = "rules"
  /\ failed => faults < MaxFaults
  /\ faults' = IF failed THEN faults + 1 ELSE faults
  /\ ruled' = IF failed THEN ruled ELSE ruled \ w.report.who
  /\ Goto(i, [w EXCEPT !.pc = "done"])
  /\ UNCHANGED <<list, draft, reports, surfaced, expiries, handled, outdated>>

SaveSignal(i) ==
  LET w == lambda[i] IN
  /\ w.pc = "signal"
  /\ surfaced' = surfaced \union {w.report}
  /\ Goto(i, [w EXCEPT !.pc = IF RevertToDraft(w.report) THEN "revert" ELSE "done"])
  /\ UNCHANGED <<list, draft, ruled, reports, faults, expiries, handled, outdated>>

\* Whatever has become of the draft; a failure is logged and left.
Revert(i, failed) ==
  /\ lambda[i].pc = "revert"
  /\ failed => faults < MaxFaults
  /\ faults' = IF failed THEN faults + 1 ELSE faults
  /\ draft' = IF failed THEN draft ELSE [draft EXCEPT !.status = "draft"]
  /\ Goto(i, [lambda[i] EXCEPT !.pc = "done"])
  /\ UNCHANGED <<list, ruled, reports, surfaced, expiries, handled, outdated>>

\* The message is deleted from the queue.
Finish(i) ==
  /\ lambda[i].pc = "done"
  /\ handled' = handled \union {lambda[i].report}
  /\ Goto(i, Idle)
  /\ UNCHANGED <<list, draft, ruled, reports, surfaced, faults, expiries, outdated>>

LeftToRetry(r) == {}

\* An error of the database, or a crash: the message stays in the queue.
Fail(i) ==
  /\ lambda[i].pc \in {"suppress", "signal"}
  /\ faults < MaxFaults /\ faults' = faults + 1
  /\ handled' = handled \union LeftToRetry(lambda[i].report)
  /\ Goto(i, Idle)
  /\ UNCHANGED <<list, draft, ruled, reports, surfaced, expiries, outdated>>

Next ==
  \/ Send
  \/ \E r \in Report : Arise(r)
  \/ \E a \in Addresses : Expire(a)
  \/ \E i \in Lambdas :
       \/ \E r \in DOMAIN reports : StartFeedback(i, r) \/ StartNotice(i, r)
       \/ \E a \in Addresses : SuppressBounced(i, a) \/ SuppressComplained(i, a)
       \/ \E failed \in BOOLEAN : DisableRules(i, failed) \/ Revert(i, failed)
       \/ SaveSignal(i) \/ Finish(i) \/ Fail(i)

Spec == Init /\ [][Next]_vars

-----------------------------------------------------------------------------
Of(kinds, a) == \E r \in handled : r.kind \in kinds /\ a \in r.who

TypeOK ==
  /\ \A a \in Addresses : list[a] # None => list[a].count <= MaxReports * MaxTries
  /\ draft.status \in {"draft", "sent"} /\ draft.attempt \in 0 .. MaxAttempts
  /\ DOMAIN reports \subseteq Report /\ surfaced \union handled \subseteq DOMAIN reports

\* Nothing handled is lost: an address that bounced for good or complained is on the
\* list, if it never bounced softly as well, and a bounce of the user's mail is shown.
HandledIsKept ==
  /\ \A a \in Addresses :
       Of({"hard", "complaint"}, a) /\ (\A r \in DOMAIN reports : r.kind = "soft" => a \notin r.who) =>
         list[a] # None
  /\ \A r \in handled : r.kind # "complaint" /\ Linked(r) => r \in surfaced

\* A mail that was sent is given back only when all its recipients bounced for good,
\* unless a report came again or after the mail had been sent anew.
RevertIsDeserved ==
  draft.status = "draft" /\ draft.attempt > 0 /\ ~outdated =>
    \E r \in DOMAIN reports : RevertToDraft(r) /\ r.attempt = draft.attempt /\ r.who = Addresses

\* "A permanent bounce is suppressed indefinitely."
\* It fails: an address that bounced softly before keeps the ttl of that entry.
HardBounceStays == \A a \in Addresses : Of({"hard"}, a) => list[a] # None

-----------------------------------------------------------------------------
(* Why they hold.                                                            *)

Entry == [ttl : BOOLEAN, count : Nat]
Work == [pc : {"suppress", "rules", "signal", "revert", "done"}, report : Report,
         left : SUBSET Addresses]
Working == {i \in Lambdas : lambda[i] # Idle}

\* What is under way is of its shape, and nobody else handles its report.
StateOK ==
  /\ list \in [Addresses -> Entry \union {None}]
  /\ draft \in [status : {"draft", "sent"}, attempt : 0 .. MaxAttempts]
  /\ DOMAIN reports \subseteq Report /\ reports \in [DOMAIN reports -> 0 .. MaxTries]
  /\ IsFiniteSet(DOMAIN reports) /\ Cardinality(DOMAIN reports) <= MaxReports
  /\ surfaced \union handled \subseteq DOMAIN reports
  /\ lambda \in [Lambdas -> {Idle} \union Work]
  /\ \A i \in Working :
       /\ lambda[i].report \in DOMAIN reports /\ reports[lambda[i].report] > 0
       /\ lambda[i].left \subseteq lambda[i].report.who
  /\ \A i, j \in Working : lambda[i].report = lambda[j].report => i = j

\* The tries of the reports so far, and those that still have an address before them:
\* an entry counts others.
Tries == {p \in (DOMAIN reports) \X (1 .. MaxTries) : p[2] <= reports[p[1]]}
Ahead(a) ==
  {<<lambda[i].report, reports[lambda[i].report]>> :
     i \in {j \in Working : lambda[j].pc = "suppress" /\ a \in lambda[j].left}}
CountsTries == \A a \in Addresses : list[a] # None => list[a].count <= Cardinality(Tries \ Ahead(a))

\* Only a soft bounce of an address gives its entry an end, so an address stays on the
\* list from the moment that a report which says so has passed it.
Softly(a) == \E r \in DOMAIN reports : r.kind = "soft" /\ a \in r.who
Passed(w) == IF w.pc = "suppress" THEN w.report.who \ w.left ELSE w.report.who
StaysListed ==
  /\ \A a \in Addresses : list[a] # None /\ list[a].ttl => Softly(a)
  /\ \A r \in handled : \A a \in r.who : Softly(a) \/ list[a] # None
  /\ \A i \in Working : \A a \in Passed(lambda[i]) : Softly(a) \/ list[a] # None

\* A bounce of the user's mail is shown before its report can be done.
ShownFirst ==
  /\ \A r \in handled : r.kind # "complaint" /\ Linked(r) => r \in surfaced
  /\ \A i \in Working :
       LET w == lambda[i] IN
       /\ w.pc = "rules" => DisableForwarding(w.report)
       /\ w.pc \in {"revert", "done"} /\ w.report.kind # "complaint" /\ Linked(w.report) =>
            w.report \in surfaced

\* While no report came again or late, one that may give the draft back is of the send
\* the draft is in, and a draft that was given back was so by such a report.
OfThisSend ==
  /\ \A r \in DOMAIN reports : IsDraft(r) => r.attempt \in 1 .. draft.attempt
  /\ \A i \in Working : lambda[i].pc = "revert" => RevertToDraft(lambda[i].report)
  /\ ~outdated =>
       /\ \A i \in Working : lambda[i].pc # "done" /\ RevertToDraft(lambda[i].report) =>
            draft.status = "sent" /\ lambda[i].report.attempt = draft.attempt
       /\ draft.status = "draft" /\ draft.attempt > 0 =>
            \E r \in DOMAIN reports : RevertToDraft(r) /\ r.attempt = draft.attempt /\ reports[r] > 0

Inductive == StateOK /\ CountsTries /\ StaysListed /\ ShownFirst /\ OfThisSend
=============================================================================
