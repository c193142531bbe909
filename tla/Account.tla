------------------------------ MODULE Account -------------------------------
(***************************************************************************)
(* The forwarding targets of one account and what points at them: the      *)
(* digest, the default calendar target and the forwarding rules, set by    *)
(* the API, by the onboarding workflow and by the feedback of SES, none of *)
(* which knows of the others.                                              *)
(***************************************************************************)
EXTENDS Naturals, FiniteSets

CONSTANTS
  Targets,
  Owner,         \* the target that is the address of the account's user
  Hooks,         \* the targets that are webhooks
  None,
  Lambdas,       \* concurrent invocations
  MaxRequests, MaxFaults

VARIABLES
  exists,        \* the account's row
  digest, calendar,
  flags,         \* the row's onboarding
  target,        \* forwarding target rows
  rule,          \* status of the rule that forwards to a target
  tokens,        \* tokens drawn so far
  mailed,        \* <<target, token>> in a verification mail
  workflow,      \* executions of the onboarding workflow still to start a task
  nudges,        \* onboarding mails
  digests,       \* digest_send messages
  lambda, requests, faults,
  chosen,        \* history: the digest the user asked for last
  told,          \* history: onboarding flags somebody has set
  agreed,        \* history: targets to whose mailbox a token went that was presented since
  overlap        \* history: kinds of requests that have run into each other

row  == <<exists, digest, calendar, flags>>
work == <<lambda, requests>>
vars == <<row, target, rule, tokens, mailed, workflow, nudges, digests, work, faults, chosen, told,
          agreed, overlap>>

Idle == [op |-> "idle"]
Goto(i, job) == lambda' = [lambda EXCEPT ![i] = job]
End(i) == Goto(i, Idle)
At(i, op, pc) == lambda[i].op = op /\ lambda[i].pc = pc
Running(ops) == {i \in Lambdas : lambda[i].op \in ops}

Init ==
  /\ exists = FALSE /\ digest = None /\ calendar = None /\ flags = {}
  /\ target = [t \in Targets |-> None] /\ rule = [t \in Targets |-> None]
  /\ tokens = 0 /\ mailed = {} /\ workflow = {} /\ nudges = 0 /\ digests = 0
  /\ lambda = [i \in Lambdas |-> Idle] /\ requests = 0 /\ faults = 0
  /\ chosen = None /\ told = {} /\ agreed = {} /\ overlap = {}

\* What undoes a check that a request has made: a target put back to pending or
\* deleted while a reference to it is being set, and the two writers of one field.
Clash(op) ==
  CASE op \in {"post", "delete"} -> {"patch", "calendar", "rule", "setup", "verify", "post", "delete"}
    [] op \in {"patch", "calendar", "rule", "verify"} -> {"post", "delete", "setup"}
    [] op = "setup"              -> {"patch", "post", "delete", "setup"}
    [] op \in {"progress", "onboard"} -> {"progress", "onboard"}
    [] OTHER -> {}

Start(i, job) ==
  /\ lambda[i] = Idle /\ requests < MaxRequests /\ exists
  /\ requests' = requests + 1
  /\ Goto(i, job)
  /\ overlap' = IF Running(Clash(job.op)) = {} THEN overlap
                ELSE overlap \union {job.op} \union {lambda[j].op : j \in Running(Clash(job.op))}

-----------------------------------------------------------------------------
(* DynamoDB.                                                                 *)

\* saveForwardingTarget puts the whole row; nothing is compared.
SaveTarget(t, new) == target' = [target EXCEPT ![t] = new]
DeleteTarget(t)    == target' = [target EXCEPT ![t] = None]

Verified(t) == target[t] # None /\ target[t].status = "verified"

\* updateAccount: the fields given; null removes the digest or the calendar target.
UpdateDigest(d)   == digest' = d
UpdateCalendar(t) == calendar' = t
UpdateFlags(f)    == flags' = f

-----------------------------------------------------------------------------
(* POST of an account.                                                       *)

\* The workflow is started first, under the id the account is then created with.
StartWorkflow ==
  /\ workflow = {} /\ ~exists /\ requests = 0
  /\ workflow' = {"setup", "followup", "cleanup"}
  /\ UNCHANGED <<row, target, rule, tokens, mailed, nudges, digests, work, faults, chosen, told, agreed, overlap>>

CreateAccount ==
  /\ workflow # {} /\ ~exists
  /\ exists' = TRUE
  /\ UNCHANGED <<digest, calendar, flags, target, rule, tokens, mailed, workflow, nudges, digests, work,
                 faults, chosen, told, agreed, overlap>>

-----------------------------------------------------------------------------
(* Forwarding targets.                                                       *)

Pending(token) == [status |-> "pending", token |-> token]

\* A verified target is answered as it is; a pending one gets a new token.
ReadForPost(i, t) ==
  /\ Start(i, IF Verified(t) THEN Idle
              ELSE [op |-> "post", pc |-> "send", t |-> t, new |-> Pending(tokens + 1)])
  /\ tokens' = IF Verified(t) THEN tokens ELSE tokens + 1
  /\ UNCHANGED <<row, target, rule, mailed, workflow, nudges, digests, faults, chosen, told, agreed>>

\* A webhook that answers the test request is verified.
AskHook(i) ==
  /\ At(i, "post", "send") /\ lambda[i].t \in Hooks
  /\ Goto(i, [lambda[i] EXCEPT !.pc = "save", !.new.status = "verified"])
  /\ UNCHANGED <<row, target, rule, tokens, mailed, workflow, nudges, digests, requests, faults, chosen,
                 told, agreed, overlap>>

\* A mailbox gets the token.
MailToken(i) ==
  LET job == lambda[i] IN
  /\ At(i, "post", "send") /\ job.t \notin Hooks
  /\ mailed' = mailed \union {<<job.t, job.new.token>>}
  /\ Goto(i, [job EXCEPT !.pc = "save"])
  /\ UNCHANGED <<row, target, rule, tokens, workflow, nudges, digests, requests, faults, chosen, told,
                 agreed, overlap>>

\* The webhook does not answer, SES refuses the mail, the database fails.  The
\* workflow repeats a task that failed; setup fails only when its Lambda does.
Fail(i, again) ==
  /\ lambda[i] # Idle
  /\ faults < MaxFaults /\ faults' = faults + 1
  /\ lambda[i].op = "progress" => again
  /\ again => lambda[i].op \in {"setup", "progress"}
  /\ workflow' = IF again THEN workflow \union {lambda[i].task} ELSE workflow
  /\ End(i)
  /\ UNCHANGED <<row, target, rule, tokens, mailed, nudges, digests, requests, chosen, told, agreed,
                 overlap>>

\* Whatever the row has become since it was read.
SavePending(i) ==
  /\ At(i, "post", "save")
  /\ SaveTarget(lambda[i].t, lambda[i].new)
  /\ End(i)
  /\ UNCHANGED <<row, rule, tokens, mailed, workflow, nudges, digests, requests, faults, chosen, told,
                 agreed, overlap>>

\* Mutant: any token will do.
AnyToken(t, token) == target[t] # None /\ target[t].status = "pending"
Redeems(t, token) == target[t] # None /\ target[t].status = "pending" /\ target[t].token = token

\* The user has a token from the mail that was sent to some target.
ReadForVerify(i, t, token) ==
  /\ token \in {m[2] : m \in mailed}
  /\ Start(i, IF Redeems(t, token)
              THEN [op |-> "verify", pc |-> "save", t |-> t, new |-> [target[t] EXCEPT !.status = "verified"]]
              ELSE Idle)
  /\ agreed' = agreed \union {u \in Targets : <<u, token>> \in mailed}
  /\ UNCHANGED <<row, target, rule, tokens, mailed, workflow, nudges, digests, faults, chosen, told>>

SaveVerified(i) ==
  /\ At(i, "verify", "save")
  /\ SaveTarget(lambda[i].t, lambda[i].new)
  /\ End(i)
  /\ UNCHANGED <<row, rule, tokens, mailed, workflow, nudges, digests, requests, faults, chosen, told,
                 agreed, overlap>>

DigestTo(d) == IF d = None THEN None ELSE d.to

UsedByDigest(t) == DigestTo(digest) = t

\* The digest, then the rules, keep a target; the calendar default does not.
CheckDigest(i, t) ==
  /\ Start(i, IF UsedByDigest(t) THEN Idle ELSE [op |-> "delete", pc |-> "rules", t |-> t])
  /\ UNCHANGED <<row, target, rule, tokens, mailed, workflow, nudges, digests, faults, chosen, told, agreed>>

CheckRules(i) ==
  LET job == lambda[i] IN
  /\ At(i, "delete", "rules")
  /\ Goto(i, IF rule[job.t] # None THEN Idle ELSE [job EXCEPT !.pc = "delete"])
  /\ UNCHANGED <<row, target, rule, tokens, mailed, workflow, nudges, digests, requests, faults, chosen,
                 told, agreed, overlap>>

RemoveTarget(i) ==
  /\ At(i, "delete", "delete")
  /\ DeleteTarget(lambda[i].t)
  /\ End(i)
  /\ UNCHANGED <<row, rule, tokens, mailed, workflow, nudges, digests, requests, faults, chosen, told,
                 agreed, overlap>>

-----------------------------------------------------------------------------
(* PATCH of the account.                                                     *)

Frequencies == {"monthly", "daily"}
Digests == [to : Targets, often : Frequencies]

\* A digest needs a verified target, and the one there was is read to compare.
CheckTarget(i, d) ==
  /\ Start(i, IF d = None \/ Verified(DigestTo(d))
              THEN [op |-> "patch", pc |-> "read", new |-> d, was |-> None] ELSE Idle)
  /\ UNCHANGED <<row, target, rule, tokens, mailed, workflow, nudges, digests, faults, chosen, told, agreed>>

ReadDigest(i) ==
  /\ At(i, "patch", "read")
  /\ Goto(i, [lambda[i] EXCEPT !.pc = "update", !.was = digest])
  /\ UNCHANGED <<row, target, rule, tokens, mailed, workflow, nudges, digests, requests, faults, chosen,
                 told, agreed, overlap>>

\* One is sent at once for a new target or for more of them.
WantsNow(new, was) ==
  new # None /\ (DigestTo(was) # new.to \/ (was.often = "monthly" /\ new.often = "daily"))

PatchDigest(i) ==
  LET job == lambda[i] IN
  /\ At(i, "patch", "update")
  /\ UpdateDigest(job.new) /\ chosen' = job.new
  /\ digests' = IF WantsNow(job.new, job.was) /\ digests = 0 THEN 1 ELSE digests
  /\ End(i)
  /\ UNCHANGED <<exists, calendar, flags, target, rule, tokens, mailed, workflow, nudges, requests, faults,
                 told, agreed, overlap>>

CheckCalendar(i, t) ==
  /\ Verified(t)
  /\ Start(i, [op |-> "calendar", pc |-> "update", new |-> t])
  /\ UNCHANGED <<row, target, rule, tokens, mailed, workflow, nudges, digests, faults, chosen, told, agreed>>

PatchCalendar(i) ==
  /\ At(i, "calendar", "update")
  /\ UpdateCalendar(lambda[i].new)
  /\ End(i)
  /\ UNCHANGED <<exists, digest, flags, target, rule, tokens, mailed, workflow, nudges, digests, requests,
                 faults, chosen, told, agreed, overlap>>

Merged(was, body) == was \union body

\* PATCH of the onboarding flags: merged with the ones there were when it read them.
ReadOnboarding(i) ==
  /\ Start(i, [op |-> "onboard", pc |-> "update", new |-> Merged(flags, {"completed"})])
  /\ UNCHANGED <<row, target, rule, tokens, mailed, workflow, nudges, digests, faults, chosen, told, agreed>>

PatchOnboarding(i) ==
  /\ At(i, "onboard", "update")
  /\ UpdateFlags(lambda[i].new) /\ told' = told \union {"completed"}
  /\ End(i)
  /\ UNCHANGED <<exists, digest, calendar, target, rule, tokens, mailed, workflow, nudges, digests,
                 requests, faults, chosen, agreed, overlap>>

\* The link of a digest mail, without more ado.
Unsubscribe ==
  /\ digests > 0 /\ digest # None
  /\ UpdateDigest(None) /\ chosen' = None
  /\ UNCHANGED <<exists, calendar, flags, target, rule, tokens, mailed, workflow, nudges, digests, work,
                 faults, told, agreed, overlap>>

-----------------------------------------------------------------------------
(* Forwarding rules (their other side is module Rules).                      *)

CheckForward(i, t) ==
  /\ Verified(t) /\ rule[t] = None
  /\ Start(i, [op |-> "rule", pc |-> "create", t |-> t])
  /\ UNCHANGED <<row, target, rule, tokens, mailed, workflow, nudges, digests, faults, chosen, told, agreed>>

CreateRule(i) ==
  /\ At(i, "rule", "create")
  /\ rule' = [rule EXCEPT ![lambda[i].t] = "active"]
  /\ End(i)
  /\ UNCHANGED <<row, target, tokens, mailed, workflow, nudges, digests, requests, faults, chosen, told,
                 agreed, overlap>>

\* A forward that bounced for good: disableRulesForwardingTo.
DisableRule(t) ==
  /\ rule[t] = "active"
  /\ rule' = [rule EXCEPT ![t] = "disabled"]
  /\ UNCHANGED <<row, target, tokens, mailed, workflow, nudges, digests, work, faults, chosen, told,
                 agreed, overlap>>

DeleteRule(t) ==
  /\ rule[t] # None
  /\ rule' = [rule EXCEPT ![t] = None]
  /\ UNCHANGED <<row, target, tokens, mailed, workflow, nudges, digests, work, faults, chosen, told,
                 agreed, overlap>>

-----------------------------------------------------------------------------
(* Onboarding: tasks of the workflow, retried by it.                         *)

\* SetupDefaults comes an hour after the account, the other two after days.
Due(task) == task \in workflow /\ (task = "setup" \/ "setup" \notin workflow)

\* ensureDefaultForwardingTarget trusts the address of the identity provider.
StartSetup(i) ==
  /\ Due("setup")
  /\ Start(i, [op |-> "setup", task |-> "setup", was |-> None,
               pc |-> IF Verified(Owner) THEN "read" ELSE "save"])
  /\ workflow' = workflow \ {"setup"}
  /\ UNCHANGED <<row, target, rule, tokens, mailed, nudges, digests, faults, chosen, told, agreed>>

SaveOwner(i) ==
  /\ At(i, "setup", "save")
  /\ tokens' = tokens + 1
  /\ SaveTarget(Owner, [status |-> "verified", token |-> tokens'])
  /\ Goto(i, [lambda[i] EXCEPT !.pc = "read"])
  /\ UNCHANGED <<row, rule, mailed, workflow, nudges, digests, requests, faults, chosen, told, agreed, overlap>>

\* setAccountForwardingDefaults: what the account does not have yet.
ReadDefaults(i) ==
  /\ At(i, "setup", "read")
  /\ Goto(i, [lambda[i] EXCEPT !.pc = "update", !.was = [digest |-> digest, calendar |-> calendar]])
  /\ UNCHANGED <<row, target, rule, tokens, mailed, workflow, nudges, digests, requests, faults, chosen,
                 told, agreed, overlap>>

FillIn(was, now, default) == IF was = None THEN default ELSE now

SetDefaults(i) ==
  LET was == lambda[i].was IN
  /\ At(i, "setup", "update")
  /\ UpdateDigest(FillIn(was.digest, digest, [to |-> Owner, often |-> "monthly"]))
  /\ UpdateCalendar(FillIn(was.calendar, calendar, Owner))
  /\ End(i)
  /\ UNCHANGED <<exists, flags, target, rule, tokens, mailed, workflow, nudges, digests, requests, faults,
                 chosen, told, agreed, overlap>>

\* handleProgressTask of followup and cleanup.
StartProgress(i, task) ==
  /\ task # "setup" /\ Due(task)
  /\ Start(i, [op |-> "progress", task |-> task, pc |-> "update", was |-> flags])
  /\ workflow' = workflow \ {task}
  /\ UNCHANGED <<row, target, rule, tokens, mailed, nudges, digests, faults, chosen, told, agreed>>

\* Mail has been received, or not: the flag is added to the flags read before.
RecordProgress(i, received) ==
  LET job == lambda[i] IN
  /\ At(i, "progress", "update")
  /\ IF received /\ "tested" \notin job.was
     THEN UpdateFlags(Merged(job.was, {"tested"})) /\ told' = told \union {"tested"}
     ELSE UNCHANGED <<flags, told>>
  /\ Goto(i, [job EXCEPT !.pc = "mail"])
  /\ UNCHANGED <<exists, digest, calendar, target, rule, tokens, mailed, workflow, nudges, digests,
                 requests, faults, chosen, agreed, overlap>>

\* No mail when all is done; a mail SES took may still fail the task, and come again.
MailProgress(i, complete, lost) ==
  /\ At(i, "progress", "mail")
  /\ lost => ~complete /\ faults < MaxFaults
  /\ nudges' = IF complete THEN nudges ELSE nudges + 1
  /\ faults' = IF lost THEN faults + 1 ELSE faults
  /\ workflow' = IF lost THEN workflow \union {lambda[i].task} ELSE workflow
  /\ End(i)
  /\ UNCHANGED <<row, target, rule, tokens, mailed, digests, requests, chosen, told, agreed, overlap>>

Next ==
  \/ StartWorkflow \/ CreateAccount \/ Unsubscribe
  \/ \E t \in Targets : DisableRule(t) \/ DeleteRule(t)
  \/ \E i \in Lambdas :
       \/ \E t \in Targets : \/ ReadForPost(i, t) \/ CheckDigest(i, t) \/ CheckCalendar(i, t)
                             \/ CheckForward(i, t) \/ \E k \in 1 .. tokens : ReadForVerify(i, t, k)
       \/ \E d \in Digests \union {None} : CheckTarget(i, d)
       \/ AskHook(i) \/ MailToken(i) \/ SavePending(i) \/ SaveVerified(i) \/ CheckRules(i) \/ RemoveTarget(i)
       \/ ReadDigest(i) \/ PatchDigest(i) \/ PatchCalendar(i) \/ ReadOnboarding(i) \/ PatchOnboarding(i)
       \/ CreateRule(i)
       \/ StartSetup(i) \/ SaveOwner(i) \/ ReadDefaults(i) \/ SetDefaults(i)
       \/ \E task \in {"followup", "cleanup"} : StartProgress(i, task)
       \/ \E again \in BOOLEAN : Fail(i, again)
       \/ \E received \in BOOLEAN : RecordProgress(i, received)
       \/ \E complete, lost \in BOOLEAN : MailProgress(i, complete, lost)

Spec == Init /\ [][Next]_vars

-----------------------------------------------------------------------------
TypeOK ==
  /\ digest \in Digests \union {None} /\ calendar \in Targets \union {None}
  /\ flags \subseteq told /\ told \subseteq {"completed", "tested"}
  /\ target \in [Targets -> [status : {"pending", "verified"}, token : 1 .. tokens] \union {None}]
  /\ rule \in [Targets -> {None, "active", "disabled"}]
  /\ mailed \subseteq Targets \X (1 .. tokens)

\* A mailbox is written to only once its owner has agreed: a verified target is a
\* webhook that answered, the user's own address, or one to which a token was mailed
\* that somebody has presented since.
Consent ==
  \A t \in Targets : Verified(t) =>
    t \in Hooks \union {Owner} \/ t \in agreed

\* What the digest and the rules point at stays a verified target, unless a check
\* ran next to the request that undid it.
ReferencesLive ==
  \A t \in Targets : DigestTo(digest) = t \/ rule[t] # None =>
    Verified(t) \/ overlap \intersect {"post", "delete"} # {}

\* Nobody's onboarding flag is lost to somebody else's, unless two writers overlapped.
OnboardingKept == flags = told \/ overlap \intersect {"onboard", "progress"} # {}

\* The digest the user chose stands: onboarding fills in what is missing only.
ChoiceStands == chosen = None \/ digest = chosen \/ overlap \intersect {"setup"} # {}

-----------------------------------------------------------------------------
(* Why they hold.                                                            *)

\* What an invocation may be doing when k tokens have been drawn.
TargetRows(k) == [status : {"pending", "verified"}, token : 1 .. k]
Posts(k)    == [op : {"post"}, pc : {"send", "save"}, t : Targets, new : TargetRows(k)]
Verifies(k) == [op : {"verify"}, pc : {"save"}, t : Targets, new : [status : {"verified"}, token : 1 .. k]]
Deletes     == [op : {"delete"}, pc : {"rules", "delete"}, t : Targets]
Patches     == [op : {"patch"}, pc : {"read", "update"}, new : Digests \union {None}, was : Digests \union {None}]
Calendars   == [op : {"calendar"}, pc : {"update"}, new : Targets]
Onboards    == [op : {"onboard"}, pc : {"update"}, new : SUBSET {"completed", "tested"}]
Forwards    == [op : {"rule"}, pc : {"create"}, t : Targets]
Setups      == [op : {"setup"}, task : {"setup"}, pc : {"save", "read"}, was : {None}]
FillsIn     == [op : {"setup"}, task : {"setup"}, pc : {"update"},
                was : [digest : Digests \union {None}, calendar : Targets \union {None}]]
Progresses  == [op : {"progress"}, task : {"followup", "cleanup"}, pc : {"update", "mail"},
                was : SUBSET {"completed", "tested"}]

Jobs(k) ==
  {Idle} \union Posts(k) \union Verifies(k) \union Deletes \union Patches \union Calendars
    \union Onboards \union Forwards \union Setups \union FillsIn \union Progresses

StateOK ==
  /\ TypeOK /\ tokens \in Nat /\ lambda \in [Lambdas -> Jobs(tokens)]
  /\ \A i \in Lambdas : /\ lambda[i].op = "onboard" => lambda[i].new \subseteq told \union {"completed"}
                        /\ lambda[i].op = "progress" => lambda[i].was \subseteq told

\* The token is in the row of the target, in a mail to it or about to be in its row.
Holds(t, token) ==
  \/ target[t] # None /\ target[t].token = token
  \/ <<t, token>> \in mailed
  \/ \E i \in Lambdas : lambda[i].op \in {"post", "verify"} /\ lambda[i].t = t /\ lambda[i].new.token = token

\* A token is one target's, so whoever presents it has read the mail to that target.
Consented ==
  /\ Consent
  /\ \A t, u \in Targets, token \in 1 .. tokens : Holds(t, token) /\ Holds(u, token) => t = u
  /\ \A i \in Lambdas :
       /\ lambda[i].op = "post" /\ lambda[i].new.status = "verified" => lambda[i].t \in Hooks
       /\ lambda[i].op = "verify" => lambda[i].t \in agreed

\* Two requests that undo each other's checks are on record.
Met ==
  \A i, j \in Lambdas :
    i # j /\ lambda[j].op \in Clash(lambda[i].op) /\ lambda[i].op \in Clash(lambda[j].op) => lambda[i].op \in overlap

\* Nobody puts back a target that something points at, or is about to.
Undone == overlap \intersect {"post", "delete"} # {}
Checked(job) ==
  /\ job.op = "patch" /\ job.new # None => Verified(DigestTo(job.new))
  /\ job.op = "rule" => Verified(job.t)
  /\ job.op = "setup" /\ job.pc # "save" => Verified(Owner)
  /\ job.op = "post" => ~Verified(job.t)
  /\ job.op = "delete" => ~UsedByDigest(job.t)
  /\ job.op = "delete" /\ job.pc = "delete" => rule[job.t] = None
Referred == ReferencesLive /\ (Undone \/ \A i \in Lambdas : Checked(lambda[i]))

\* Whoever adds a flag has the others.
Flagged ==
  /\ OnboardingKept
  /\ overlap \intersect {"onboard", "progress"} # {} \/ \A i \in Lambdas :
       /\ lambda[i].op = "onboard" => lambda[i].new = flags \union {"completed"}
       /\ At(i, "progress", "update") => lambda[i].was = flags

\* A digest that setup is about to fill in was not chosen.
Chosen ==
  /\ ChoiceStands
  /\ "setup" \in overlap \/ \A i \in Lambdas :
       At(i, "setup", "update") /\ lambda[i].was.digest = None => chosen = None

Inductive == StateOK /\ Consented /\ Met /\ Referred /\ Flagged /\ Chosen
=============================================================================
