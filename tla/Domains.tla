------------------------------ MODULE Domains -------------------------------
(***************************************************************************)
(* One domain name that several accounts may register: the row each of     *)
(* them has for it, its identity in SES, the health checks and the flags   *)
(* they set.  The account whose row is oldest owns the name; a deleted row *)
(* keeps its place, so that its owner can come back to it.                 *)
(***************************************************************************)
EXTENDS Naturals, FiniteSets, Sequences

CONSTANTS
  Accounts,
  None,
  Lambdas,       \* concurrent invocations
  MaxPosts, MaxChecks, MaxFaults, MaxChanges

VARIABLES
  row,           \* each account's row of the domain
  clock,         \* createdAt of the last row put
  ses,           \* <<step, account>>: what SES has of the domain
  dns,           \* status of the MX and of the other records
  lambda,
  posts, checks, faults, changes,
  contested,     \* history: a registration began while another account's was under way, or
                 \* not in gsi1 yet
  botched,       \* history: a registration with SES failed, or met another one
  index          \* gsi1, which follows the rows: the createdAt it has of each account's

work == <<lambda, posts, checks, faults>>
vars == <<row, clock, ses, dns, changes, work, contested, botched, index>>

\* register: the identity and its MAIL FROM are the domain's, the tenant and its
\* associations the account's.
Calls == <<"identity", "mailFrom", "tenant", "associateIdentity", "associateConfig">>
Of(call, a) == <<call, IF call \in {"identity", "mailFrom"} THEN None ELSE a>>

Statuses == {"verified", "failing", "pending"}
Records  == [mx : Statuses, others : Statuses]
Unknown  == [receiving |-> FALSE, sender |-> FALSE]
Idle     == [op |-> "idle"]
Goto(i, job) == lambda' = [lambda EXCEPT ![i] = job]

Init ==
  /\ row = [a \in Accounts |-> None] /\ clock = 0
  /\ ses = {} /\ dns = [mx |-> "pending", others |-> "pending"]
  /\ lambda = [i \in Lambdas |-> Idle]
  /\ posts = 0 /\ checks = 0 /\ faults = 0 /\ changes = 0
  /\ contested = FALSE /\ botched = FALSE
  /\ index = [a \in Accounts |-> None]

Registrants == {a \in Accounts : row[a] # None}

\* getDomainOwner: the oldest row in gsi1, whatever its status; a row put a moment
\* ago may not be there yet, or still with its former createdAt.
Indexed == {a \in Accounts : index[a] # None}
Owner ==
  IF Indexed = {} THEN None
  ELSE CHOOSE a \in Indexed : \A b \in Indexed : index[a] <= index[b]
Overlooked(a) == \E b \in Registrants \ {a} : b \notin Indexed

\* getDomain hides a deleted row.
Active(a) == row[a] # None /\ row[a].status = "active"

Posting == {i \in Lambdas : lambda[i].op = "post"}

-----------------------------------------------------------------------------
(* POST of a domain.                                                         *)

\* Mutant: an owner who has deleted the domain does not count.
OwnsActively(a) == Owner \in {None, a} \/ ~Active(Owner)
\* "Oldest registrant wins", deleted or not.
MayRegister(a) == Owner \in {None, a}

CheckOwner(i, a) ==
  /\ lambda[i] = Idle /\ posts < MaxPosts
  /\ posts' = posts + 1
  /\ Goto(i, IF MayRegister(a) THEN [op |-> "post", account |-> a, call |-> 1] ELSE Idle)
  /\ contested' = (contested \/ (MayRegister(a) /\
       (Overlooked(a) \/ \E j \in Posting : lambda[j].account # a)))
  /\ botched' = (botched \/ (MayRegister(a) /\ (Overlooked(a) \/ Posting # {})))
  /\ UNCHANGED <<row, clock, ses, dns, changes, checks, faults, index>>

NextCall(k) == k + 1

\* An identity that exists already ends the registration at once; the other calls
\* take what exists for done.
CallSes(i) ==
  LET job  == lambda[i]
      item == Of(Calls[job.call], job.account) IN
  /\ job.op = "post" /\ job.call <= Len(Calls)
  /\ ses' = ses \union {item}
  /\ Goto(i, [job EXCEPT !.call = IF job.call = 1 /\ item \in ses THEN Len(Calls) + 1
                                  ELSE NextCall(@)])
  /\ UNCHANGED <<row, clock, dns, changes, posts, checks, faults, contested, botched, index>>

CallFails(i) ==
  /\ lambda[i].op = "post"
  /\ faults < MaxFaults /\ faults' = faults + 1
  /\ botched' = TRUE
  /\ Goto(i, Idle)
  /\ UNCHANGED <<row, clock, ses, dns, changes, posts, checks, contested, index>>

\* createDomain: a new row, or the account's own deleted one anew, with a new
\* createdAt; the same answer for a row that is active.
CreateDomain(i) ==
  LET a == lambda[i].account IN
  /\ lambda[i].op = "post" /\ lambda[i].call > Len(Calls)
  /\ IF Active(a) THEN UNCHANGED <<row, clock>>
     ELSE /\ clock' = clock + 1
          /\ row' = [row EXCEPT ![a] = [status |-> "active", created |-> clock', setup |-> Unknown,
                                        health |-> Unknown, failing |-> FALSE]]
  /\ Goto(i, Idle)
  /\ UNCHANGED <<ses, dns, changes, posts, checks, faults, contested, botched, index>>

CatchUp(a) ==
  /\ row[a] # None /\ index[a] # row[a].created
  /\ index' = [index EXCEPT ![a] = row[a].created]
  /\ UNCHANGED <<row, clock, ses, dns, changes, work, contested, botched>>

\* DELETE marks the row, once the aliases are gone (module Aliases); SES is not told.
DeleteDomain(a) ==
  /\ Active(a)
  /\ row' = [row EXCEPT ![a].status = "deleted"]
  /\ UNCHANGED <<clock, ses, dns, changes, work, contested, botched, index>>

-----------------------------------------------------------------------------
(* Health.                                                                   *)

\* The owner of the name edits its zone.
ChangeDns(records) ==
  /\ changes < MaxChanges /\ records # dns
  /\ changes' = changes + 1 /\ dns' = records
  /\ UNCHANGED <<row, clock, ses, work, contested, botched, index>>

Check(by, a) ==
  [op |-> "check", by |-> by, account |-> a, pc |-> "resolve", was |-> row[a].setup, found |-> dns]

StartCheck(i, a, by) ==
  /\ lambda[i] = Idle /\ checks < MaxChecks /\ Active(a)
  /\ checks' = checks + 1
  /\ Goto(i, Check(by, a))
  /\ UNCHANGED <<row, clock, ses, dns, changes, posts, faults, contested, botched, index>>

\* PATCH of the domain reads the row; the daily job scans the rows not deleted.
StartPatch(i, a) == StartCheck(i, a, "patch")
StartJob(i, a)   == StartCheck(i, a, "job")

ResolveDns(i) ==
  /\ lambda[i].op = "check" /\ lambda[i].pc = "resolve"
  /\ Goto(i, [lambda[i] EXCEPT !.pc = "health", !.found = dns])
  /\ UNCHANGED <<row, clock, ses, dns, changes, posts, checks, faults, contested, botched, index>>

Health(found) == [receiving |-> found.mx = "verified", sender |-> found.others = "verified"]

\* updateDomainHealth and updateDomainSetup have no condition: a row deleted or made
\* anew meanwhile is written too.  A missing record is pending, and does not fail.
WithHealth(r, found) ==
  [r EXCEPT !.health = Health(found), !.failing = "failing" \in {found.mx, found.others}]
WithSetup(r, found) == [r EXCEPT !.setup = Health(found)]

SaveHealth(i) ==
  LET job == lambda[i] IN
  /\ job.op = "check" /\ job.pc = "health"
  /\ row' = [row EXCEPT ![job.account] = WithHealth(@, job.found)]
  /\ Goto(i, IF job.by = "patch" /\ Health(job.found) # job.was THEN [job EXCEPT !.pc = "setup"] ELSE Idle)
  /\ UNCHANGED <<clock, ses, dns, changes, posts, checks, faults, contested, botched, index>>

\* Only if they differ from the flags the PATCH had read before the check.
SaveSetup(i) ==
  LET job == lambda[i] IN
  /\ job.op = "check" /\ job.pc = "setup"
  /\ row' = [row EXCEPT ![job.account] = WithSetup(@, job.found)]
  /\ Goto(i, Idle)
  /\ UNCHANGED <<clock, ses, dns, changes, posts, checks, faults, contested, botched, index>>

Next ==
  \/ \E i \in Lambdas :
       \/ \E a \in Accounts : CheckOwner(i, a) \/ StartPatch(i, a) \/ StartJob(i, a)
       \/ CallSes(i) \/ CallFails(i) \/ CreateDomain(i)
       \/ ResolveDns(i) \/ SaveHealth(i) \/ SaveSetup(i)
  \/ \E a \in Accounts : CatchUp(a) \/ DeleteDomain(a)
  \/ \E records \in Records : ChangeDns(records)

Spec == Init /\ [][Next]_vars

-----------------------------------------------------------------------------
Flags == [receiving : BOOLEAN, sender : BOOLEAN]
Row == [status : {"active", "deleted"}, created : Nat, setup : Flags, health : Flags,
        failing : BOOLEAN]

TypeOK ==
  /\ \A a \in Registrants : row[a] \in Row /\ row[a].created \in 1 .. clock
  /\ ses \subseteq {Calls[k] : k \in 1 .. Len(Calls)} \X (Accounts \union {None})
  /\ dns \in Records

\* "Ownership persists across soft-delete": two accounts never both have a row for
\* the name unless their POSTs overlapped, or the later one asked gsi1 before it had
\* the other's row; so a deleted domain waits for its owner.
SoleRegistrant == contested \/ Cardinality(Registrants) <= 1

\* "Once this succeeds, the domain exists for all readers": SES has everything of
\* the domain an account lists, MAIL FROM and the account's tenant included, unless
\* a registration failed half-way, or met another one or a row gsi1 did not have yet
\* (the next POST takes the identity for the whole).
ReadyWhenListed ==
  \A a \in Accounts : Active(a) /\ ~botched =>
    \A k \in 1 .. Len(Calls) : Of(Calls[k], a) \in ses

-----------------------------------------------------------------------------
(* Why they hold.                                                            *)

Posts == [op : {"post"}, account : Accounts, call : 1 .. Len(Calls) + 1]
CheckJobs == [op : {"check"}, by : {"patch", "job"}, account : Accounts,
              pc : {"resolve", "health", "setup"}, was : Flags, found : Records]

\* What is under way is of its shape, and a check is of an account that has a row: no
\* row is ever removed.
StateOK ==
  /\ TypeOK /\ clock \in Nat
  /\ row \in [Accounts -> Row \union {None}]
  /\ lambda \in [Lambdas -> {Idle} \union Posts \union CheckJobs]
  /\ \A i \in Lambdas : lambda[i].op = "check" => lambda[i].account \in Registrants

\* gsi1 has no row that the table has not.
IndexFollows == index \in [Accounts -> Nat \union {None}] /\ Indexed \subseteq Registrants

\* Unless registrations met, whoever is at it or has a row is one and the same account.
OneClaimant == ~contested =>
  \A a, b \in Registrants \union {lambda[i].account : i \in Posting} : a = b

\* Unless something went wrong, registrations come one after the other: each has made
\* the calls up to its own, an identity belongs to the one under way or to a row, and
\* an account that has a row has all of SES.
Complete(a) == \A k \in 1 .. Len(Calls) : Of(Calls[k], a) \in ses
InSequence == ~botched =>
  /\ ~contested
  /\ \A i, j \in Posting : i = j
  /\ \A a \in Registrants : Complete(a)
  /\ \A i \in Posting : IF lambda[i].call = 1 
       THEN Of(Calls[1], None) \in ses => Complete(lambda[i].account)
       ELSE \A k \in 1 .. Len(Calls) : k < lambda[i].call => Of(Calls[k], lambda[i].account) \in ses
  /\ Of(Calls[1], None) \in ses => Registrants # {} \/ \E i \in Posting : lambda[i].call > 1

Inductive == StateOK /\ IndexFollows /\ OneClaimant /\ InSequence
=============================================================================
