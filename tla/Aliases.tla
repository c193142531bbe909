------------------------------ MODULE Aliases -------------------------------
(***************************************************************************)
(* The aliases of one account: their rows, the disposition recorded for a  *)
(* sender at each of them, the account's domain, and the external mailbox  *)
(* (exchange) an alias sends through.  REST requests, mails in the         *)
(* pipeline and the exchange endpoints read and write these rows one call  *)
(* at a time and share no lock or version.                                 *)
(*                                                                         *)
(* An alias row is the id of the exchange it is linked to, 0 if none.      *)
(***************************************************************************)
EXTENDS Naturals, FiniteSets

CONSTANTS
  Own,           \* addresses on the account's domain
  Mailbox,       \* the address of the external mailbox, on a foreign domain
  None,
  Lambdas,       \* concurrent invocations
  MaxRequests, MaxExchanges, MaxFaults

VARIABLES
  domain,        \* "active" or "deleted"
  alias,         \* the row of each address
  sender,        \* the record of one sender at each address
  exchanges,     \* ids of the exchanges that exist
  minted,        \* exchange ids given out
  lambda,
  requests, faults,
  wish,          \* history: the disposition the user gave the sender last
  lifted,        \* history: addresses whose record was written over unasked
  excused,       \* history: exchanges deleted while a link to them was out of reach
  strays         \* history: addresses that escaped the deletion of the domain

rows == <<domain, alias, sender, exchanges, minted>>
past == <<wish, lifted, excused, strays>>
vars == <<rows, lambda, requests, faults, past>>

Addresses == Own \union {Mailbox}
Policies  == {"allow", "block"}
Idle      == [op |-> "idle"]

Job(op, pc, at) ==
  [op |-> op, pc |-> pc, at |-> at, to |-> at, policy |-> "allow", id |-> 0,
   seen |-> None, listed |-> "none", todo |-> {}]

Goto(i, job)  == lambda' = [lambda EXCEPT ![i] = job]
At(i, op, pc) == lambda[i].op = op /\ lambda[i].pc = pc
Fault         == faults < MaxFaults /\ faults' = faults + 1

Init ==
  /\ domain = "active"
  /\ alias = [a \in Addresses |-> None] /\ sender = [a \in Addresses |-> "none"]
  /\ exchanges = {} /\ minted = 0
  /\ lambda = [i \in Lambdas |-> Idle]
  /\ requests = 0 /\ faults = 0
  /\ wish = [a \in Addresses |-> "none"] /\ lifted = {} /\ excused = {} /\ strays = {}

Begin(i, job) ==
  /\ lambda[i] = Idle /\ requests < MaxRequests
  /\ requests' = requests + 1
  /\ Goto(i, job)
  /\ UNCHANGED <<rows, faults, past>>

\* Any call of a handler may fail: 500 for a request, a retry for a mail, which is
\* a new request here.
Fails(i) ==
  /\ lambda[i] # Idle
  /\ Fault /\ Goto(i, Idle)
  /\ UNCHANGED <<rows, requests, past>>

Then(i, pc) == Goto(i, [lambda[i] EXCEPT !.pc = pc])

\* A link written for an exchange that is gone, or about to go, is out of reach.
Doomed(id) ==
  id \notin exchanges \/ \E i \in Lambdas : lambda[i].op = "disconnect" /\ lambda[i].id = id
Linking(id) == excused' = IF id # 0 /\ Doomed(id) THEN excused \union {id} ELSE excused

\* A row is put whatever was there: a put on a domain deleted meanwhile is a stray.
PutAlias(at, emx) ==
  /\ alias' = [alias EXCEPT ![at] = emx]
  /\ strays' = IF at \in Own /\ domain = "deleted" THEN strays \union {at} ELSE strays

-----------------------------------------------------------------------------
(* POST, PATCH and DELETE of an alias.                                       *)

\* POST and a rename need the domain of the new address to be registered.
CheckDomain(i) ==
  LET job == lambda[i] IN
  /\ job.op \in {"create", "rename"} /\ job.pc = "domain"
  /\ IF job.to \in Own /\ domain = "active" THEN Then(i, "read") ELSE Goto(i, Idle)
  /\ UNCHANGED <<rows, requests, faults, past>>

CreateRead(i) ==
  /\ At(i, "create", "read")
  /\ IF alias[lambda[i].at] = None THEN Then(i, "put") ELSE Goto(i, Idle)
  /\ UNCHANGED <<rows, requests, faults, past>>

\* PATCH reads the alias for its defaults; it need not exist.
PatchRead(i) ==
  /\ At(i, "patch", "read")
  /\ Then(i, "put")
  /\ UNCHANGED <<rows, requests, faults, past>>

CreatePut(i) ==
  /\ At(i, "create", "put")
  /\ PutAlias(lambda[i].at, 0)
  /\ Goto(i, Idle)
  /\ UNCHANGED <<domain, sender, exchanges, minted, requests, faults, wish, lifted, excused>>

\* The row put is made of the fields of the API: emxId is not among them.
PatchPut(i) ==
  /\ At(i, "patch", "put")
  /\ PutAlias(lambda[i].at, 0)
  /\ Goto(i, Idle)
  /\ UNCHANGED <<domain, sender, exchanges, minted, requests, faults, wish, lifted, excused>>

RenameRead(i) ==
  LET job == lambda[i] IN
  /\ At(i, "rename", "read")
  /\ IF alias[job.at] = None THEN Goto(i, Idle)
     ELSE Goto(i, [job EXCEPT !.pc = "list", !.seen = alias[job.at]])
  /\ UNCHANGED <<rows, requests, faults, past>>

RenameList(i) ==
  LET job == lambda[i] IN
  /\ At(i, "rename", "list")
  /\ Goto(i, [job EXCEPT !.pc = "put", !.listed = sender[job.at]])
  /\ UNCHANGED <<rows, requests, faults, past>>

\* The renamed row, link included, replaces what the new address had.
RenamePut(i) ==
  LET job == lambda[i] IN
  /\ At(i, "rename", "put")
  /\ PutAlias(job.to, job.seen)
  /\ Then(i, IF job.listed = "none" THEN "senders" ELSE "move")
  /\ excused' = excused \union ({job.seen} \ {0})
  /\ UNCHANGED <<domain, sender, exchanges, minted, requests, faults, wish, lifted>>

\* Senders are saved under the new address without their policy, that is, allowed.
RenameSender(i) ==
  LET job == lambda[i] IN
  /\ At(i, "rename", "move")
  /\ sender' = [sender EXCEPT ![job.to] = "allow"]
  /\ wish' = [wish EXCEPT ![job.to] = IF job.to = job.at THEN @ ELSE wish[job.at]]
  /\ lifted' = lifted \union {job.to}  \* a block is lost here
  /\ Then(i, "senders")
  /\ UNCHANGED <<domain, alias, exchanges, minted, requests, faults, excused, strays>>

\* DELETE; totalAliases, the audit and the answer follow.
DeleteAlias(i, a) == Begin(i, Job("delete", "senders", a))

\* deleteAlias, also at the end of a rename and for each alias of a domain: the
\* senders are listed, then deleted, then the row.
Deleting == {"rename", "delete", "drop"}

ListSenders(i) ==
  LET job == lambda[i] IN
  /\ job.op \in Deleting /\ job.pc = "senders"
  /\ Goto(i, [job EXCEPT !.pc = "batch", !.listed = sender[job.at]])
  /\ UNCHANGED <<rows, requests, faults, past>>

DeleteSenders(i) ==
  LET job == lambda[i] IN
  /\ job.op \in Deleting /\ job.pc = "batch"
  /\ IF job.listed = "none" THEN UNCHANGED <<sender, wish>>
     ELSE /\ sender' = [sender EXCEPT ![job.at] = "none"]
          /\ wish' = [wish EXCEPT ![job.at] = "none"]
  /\ Then(i, "row")
  /\ UNCHANGED <<domain, alias, exchanges, minted, requests, faults, lifted, excused, strays>>

DeleteRow(i) ==
  LET job == lambda[i] IN
  /\ job.op \in Deleting /\ job.pc = "row"
  /\ alias' = [alias EXCEPT ![job.at] = None]
  /\ strays' = strays \ {job.at}
  /\ IF job.op = "drop" THEN Then(i, "next") ELSE Goto(i, Idle)
  /\ UNCHANGED <<domain, sender, exchanges, minted, requests, faults, wish, lifted, excused>>

-----------------------------------------------------------------------------
(* The domain.                                                               *)

\* DELETE of the domain lists its aliases once, deletes them one by one, and marks
\* the domain deleted in the end.
DropList(i) ==
  LET job == lambda[i] IN
  /\ At(i, "drop", "list")
  /\ IF domain = "deleted" THEN Goto(i, Idle)
     ELSE Goto(i, [job EXCEPT !.pc = "next", !.todo = {a \in Own : alias[a] # None}])
  /\ UNCHANGED <<rows, requests, faults, past>>

DropNext(i) ==
  LET job == lambda[i] IN
  /\ At(i, "drop", "next") /\ job.todo # {}
  /\ \E a \in job.todo : Goto(i, [job EXCEPT !.pc = "senders", !.at = a, !.todo = @ \ {a}])
  /\ UNCHANGED <<rows, requests, faults, past>>

\* Every listed alias is gone.
DropReady(job) == job.todo = {}

\* An alias created since the list was read stays behind.
DropDomain(i) ==
  /\ At(i, "drop", "next") /\ DropReady(lambda[i])
  /\ domain' = "deleted"
  /\ strays' = strays \union {a \in Own \ lambda[i].todo : alias[a] # None}
  /\ Goto(i, Idle)
  /\ UNCHANGED <<alias, sender, exchanges, minted, requests, faults, wish, lifted, excused>>

\* POST of a domain revives it, and the strays with it.
ReviveDomain ==
  /\ domain = "deleted" /\ requests < MaxRequests
  /\ requests' = requests + 1
  /\ domain' = "active" /\ strays' = {}
  /\ UNCHANGED <<alias, sender, exchanges, minted, lambda, faults, wish, lifted, excused>>

-----------------------------------------------------------------------------
(* Senders.                                                                  *)

\* POST needs the record to be absent, PUT to be there; neither asks for the alias.
ReadSender(i) ==
  LET job == lambda[i]
      fits == (sender[job.at] = "none") = (job.op = "post") IN
  /\ job.op \in {"post", "replace"} /\ job.pc = "read"
  /\ IF fits THEN Then(i, "save") ELSE Goto(i, Idle)
  /\ UNCHANGED <<rows, requests, faults, past>>

Decide(at, policy) ==
  /\ sender' = [sender EXCEPT ![at] = policy]
  /\ wish' = [wish EXCEPT ![at] = policy]
  /\ lifted' = lifted \ {at}

\* The user's decision: also block, dismiss or report of a signal or a thread,
\* which write the record without reading it.
SaveSender(i) ==
  /\ lambda[i].op \in {"post", "replace", "decide"} /\ lambda[i].pc = "save"
  /\ Decide(lambda[i].at, lambda[i].policy)
  /\ Goto(i, Idle)
  /\ UNCHANGED <<domain, alias, exchanges, minted, requests, faults, excused, strays>>

RemoveSender(at) ==
  /\ requests < MaxRequests /\ requests' = requests + 1
  /\ sender[at] # "none" /\ Decide(at, "none")
  /\ UNCHANGED <<domain, alias, exchanges, minted, lambda, faults, excused, strays>>

-----------------------------------------------------------------------------
(* A mail in the pipeline.                                                   *)

\* resolveAccountIdAndAlias: the alias, or else the active domain, or nobody: then
\* a mail fetched from an exchange puts the alias back with its link.
Resolve(i) ==
  LET job == lambda[i] IN
  /\ At(i, "mail", "resolve")
  /\ \/ /\ alias[job.at] # None \/ (job.at \in Own /\ domain = "active")
        /\ Goto(i, [job EXCEPT !.pc = IF alias[job.at] = None THEN "ensure" ELSE "policy"])
     \/ /\ alias[job.at] = None /\ (job.at \notin Own \/ domain = "deleted")
        /\ IF job.id # 0 THEN Then(i, "heal") ELSE Goto(i, Idle)
  /\ UNCHANGED <<rows, requests, faults, past>>

\* ensureAlias with no existing alias: a put, without another read.
EnsureOnMail(i) ==
  LET job == lambda[i] IN
  /\ job.op = "mail" /\ job.pc \in {"ensure", "heal"}
  /\ LET id == IF job.pc = "heal" THEN job.id ELSE 0 IN PutAlias(job.at, id) /\ Linking(id)
  /\ IF job.pc = "heal" THEN Goto(i, Idle) ELSE Then(i, "policy")
  /\ UNCHANGED <<domain, sender, exchanges, minted, requests, faults, wish, lifted>>

ReadPolicy(i) ==
  LET job == lambda[i] IN
  /\ At(i, "mail", "policy")
  /\ Goto(i, [job EXCEPT !.pc = "approve", !.listed = sender[job.at]])
  /\ UNCHANGED <<rows, requests, faults, past>>

\* Mutant: the approval does not look at the sender's own record.
ApproveAnyone(listed) == TRUE
\* Only a sender without a record of its own is approved.
Unknown(listed) == listed = "none"

\* Under allow_all, or by a rule, the sender is approved.
Approve(i) ==
  LET job == lambda[i] IN
  /\ At(i, "mail", "approve") /\ Unknown(job.listed)
  /\ sender' = [sender EXCEPT ![job.at] = "allow"]
  /\ lifted' = IF job.listed = "none" /\ sender[job.at] # "none" THEN lifted \union {job.at} ELSE lifted
  /\ Goto(i, Idle)
  /\ UNCHANGED <<domain, alias, exchanges, minted, requests, faults, wish, excused, strays>>

LeaveSender(i) ==
  /\ At(i, "mail", "approve")
  /\ Goto(i, Idle)
  /\ UNCHANGED <<rows, requests, faults, past>>

-----------------------------------------------------------------------------
(* The exchange of the mailbox.                                              *)

ConnectRead(i) ==
  /\ At(i, "connect", "read")
  /\ Goto(i, [lambda[i] EXCEPT !.pc = "create", !.seen = alias[Mailbox]])
  /\ UNCHANGED <<rows, requests, faults, past>>

CreateExchange(i) ==
  /\ At(i, "connect", "create") /\ minted < MaxExchanges
  /\ minted' = minted + 1 /\ exchanges' = exchanges \union {minted'}
  /\ Goto(i, [lambda[i] EXCEPT !.pc = "link", !.id = minted'])
  /\ UNCHANGED <<domain, alias, sender, requests, faults, past>>

\* PATCH of an exchange reads the alias anew before it ensures it.
RepairRead(i) ==
  /\ At(i, "repair", "read")
  /\ Goto(i, [lambda[i] EXCEPT !.pc = "link", !.seen = alias[Mailbox]])
  /\ UNCHANGED <<rows, requests, faults, past>>

\* ensureAlias: a put if the alias read was absent; otherwise its link is
\* reconciled by an update of a row that still exists.
Link(i) ==
  LET job == lambda[i] IN
  /\ job.op \in {"connect", "repair"} /\ job.pc = "link"
  /\ alias' = IF job.seen = None \/ (job.seen # job.id /\ alias[Mailbox] # None)
              THEN [alias EXCEPT ![Mailbox] = job.id] ELSE alias
  /\ Linking(job.id)
  /\ Goto(i, Idle)
  /\ UNCHANGED <<domain, sender, exchanges, minted, requests, faults, wish, lifted, strays>>

\* The alias of the exchange's address loses its link, whichever exchange it names.
Unlinked(rows_) == [rows_ EXCEPT ![Mailbox] = IF @ = None THEN None ELSE 0]

\* "Unlink before deleting the exchange"; a failure is logged and the deletion
\* goes on.
Unlink(i) ==
  /\ At(i, "disconnect", "unlink")
  /\ \/ alias' = Unlinked(alias) /\ UNCHANGED <<faults, excused>>
     \/ Fault /\ excused' = excused \union {lambda[i].id} /\ UNCHANGED alias
  /\ Then(i, "delete")
  /\ UNCHANGED <<domain, sender, exchanges, minted, requests, wish, lifted, strays>>

DeleteExchange(i) ==
  /\ At(i, "disconnect", "delete")
  /\ exchanges' = exchanges \ {lambda[i].id}
  /\ Goto(i, Idle)
  /\ UNCHANGED <<domain, alias, sender, minted, requests, faults, past>>

-----------------------------------------------------------------------------
Start(i) ==
  \/ \E a \in Addresses :
       \/ Begin(i, Job("create", "domain", a))
       \/ Begin(i, Job("patch", "read", a))
       \/ DeleteAlias(i, a)
       \/ \E p \in Policies :
            \/ Begin(i, [Job("post", "read", a) EXCEPT !.policy = p])
            \/ Begin(i, [Job("replace", "read", a) EXCEPT !.policy = p])
            \/ Begin(i, [Job("decide", "save", a) EXCEPT !.policy = p])
       \/ \E b \in Own : Begin(i, [Job("rename", "domain", a) EXCEPT !.to = b])
  \/ \E a \in Own : Begin(i, Job("mail", "resolve", a))
  \/ Begin(i, Job("drop", "list", Mailbox))
  \/ Begin(i, Job("connect", "read", Mailbox))
  \/ \E id \in exchanges :
       \/ Begin(i, [Job("mail", "resolve", Mailbox) EXCEPT !.id = id])
       \/ Begin(i, [Job("repair", "read", Mailbox) EXCEPT !.id = id])
       \/ Begin(i, [Job("disconnect", "unlink", Mailbox) EXCEPT !.id = id])

Step(i) ==
  \/ CheckDomain(i) \/ CreateRead(i) \/ CreatePut(i) \/ PatchRead(i) \/ PatchPut(i)
  \/ RenameRead(i) \/ RenameList(i) \/ RenamePut(i) \/ RenameSender(i)
  \/ ListSenders(i) \/ DeleteSenders(i) \/ DeleteRow(i)
  \/ DropList(i) \/ DropNext(i) \/ DropDomain(i)
  \/ ReadSender(i) \/ SaveSender(i)
  \/ Resolve(i) \/ EnsureOnMail(i) \/ ReadPolicy(i) \/ Approve(i) \/ LeaveSender(i)
  \/ ConnectRead(i) \/ CreateExchange(i) \/ RepairRead(i) \/ Link(i)
  \/ Unlink(i) \/ DeleteExchange(i)
  \/ Fails(i)

Next ==
  \/ \E i \in Lambdas : Start(i) \/ Step(i)
  \/ \E a \in Addresses : RemoveSender(a)
  \/ ReviveDomain

Spec == Init /\ [][Next]_vars

-----------------------------------------------------------------------------
TypeOK ==
  /\ domain \in {"active", "deleted"}
  /\ alias \in [Addresses -> 0 .. MaxExchanges \union {None}]
  /\ sender \in [Addresses -> Policies \union {"none"}]
  /\ exchanges \subseteq 1 .. minted /\ excused \subseteq 1 .. minted
  /\ wish \in [Addresses -> Policies \union {"none"}]
  /\ lifted \subseteq Addresses /\ strays \subseteq Own

\* "An existing record is a deliberate decision and must not be clobbered": a sender
\* the user blocked stays blocked until the user decides otherwise, unless the alias
\* was renamed or a mail was being processed when the user decided.
BlockHolds == \A a \in Addresses \ lifted : wish[a] = "block" => sender[a] = "block"

\* "An alias left pointing at a deleted exchange would refuse every send": there is
\* none, unless the link was moved to another address, the unlinking failed, or
\* someone was at the alias during the disconnect.
LinksLive == \A a \in Addresses : alias[a] \in exchanges \union excused \union {0, None}

\* A deleted domain has no alias, unless a request that began earlier or a PATCH,
\* which does not look at the domain, put one back.
DroppedDomainIsEmpty ==
  domain = "deleted" => \A a \in Own \ strays : alias[a] = None

\* emxId "must be kept in step with the exchange lifecycle: set on activation,
\* cleared on disconnect": the alias of the only exchange is linked to it once no
\* request is at work, unless a call failed.
\* It fails: a PATCH of the alias puts a row without the link.
ActiveMailboxIsLinked ==
  faults = 0 /\ (\A i \in Lambdas : lambda[i] = Idle) /\ alias[Mailbox] # None =>
    \A id \in exchanges : exchanges = {id} => alias[Mailbox] = id

-----------------------------------------------------------------------------
(* Why they hold.                                                            *)

Stages == {"domain", "read", "put", "list", "move", "senders", "batch", "row", "next", "save", "resolve",
           "ensure", "heal", "policy", "approve", "create", "link", "unlink", "delete"}

\* What an invocation may be doing when n exchanges have been minted.
Work(n) ==
  [op : {"create", "patch", "rename", "delete", "drop", "post", "replace", "decide", "mail",
         "connect", "repair", "disconnect"},
   pc : Stages, at : Addresses, to : Addresses, policy : Policies, id : 0 .. n,
   seen : (0 .. n) \union {None}, listed : Policies \union {"none"}, todo : SUBSET Own]

\* Exchanges are worked on by their id, only the mailbox's mail comes by one, and an alias
\* that is renamed was there.
Sound(job) ==
  /\ job.op \in {"repair", "disconnect"} => job.id # 0
  /\ job.op = "mail" /\ job.id # 0 => job.at = Mailbox
  /\ job.op = "rename" /\ job.pc \in {"list", "put"} => job.seen # None

Jobs(n) == {Idle} \union {job \in Work(n) : Sound(job)}

StateOK ==
  /\ TypeOK /\ minted \in 0 .. MaxExchanges
  /\ alias \in [Addresses -> (0 .. minted) \union {None}]
  /\ lambda \in [Lambdas -> Jobs(minted)]

\* A link that is not the mailbox's own is excused, and so is one that is there when its
\* exchange is about to be deleted.
LinksHeld ==
  /\ \A a \in Own : alias[a] \in excused \union {0, None}
  /\ alias[Mailbox] \in exchanges \union excused \union {0, None}
  /\ \A i \in Lambdas : At(i, "disconnect", "delete") /\ alias[Mailbox] = lambda[i].id =>
       lambda[i].id \in excused

Inductive == StateOK /\ LinksHeld /\ BlockHolds /\ DroppedDomainIsEmpty
=============================================================================
