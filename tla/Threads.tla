------------------------------ MODULE Threads ------------------------------
(***************************************************************************)
(* The thread rows of one account and everyone who writes them: the        *)
(* pipeline, the REST handlers, the quarantine, reprocessing, the          *)
(* follow-up alarm and the handler of auth mails.  updateThread has no     *)
(* condition: each of them reads a row, decides, and writes status and     *)
(* recency over whatever is there by then.                                 *)
(*                                                                         *)
(* The mails have one sender and one alias, whose policy for unknown       *)
(* senders is quarantine_visible.  A thread is named after the signal that *)
(* created it (deriveThreadIdFromSignalId).  Recency is the number of the  *)
(* newest mail it reflects, 0 being the epoch that lists leave out.        *)
(***************************************************************************)
EXTENDS Naturals, FiniteSets

CONSTANTS
  Mails,
  None,
  Lambdas,      \* concurrent invocations
  MaxRequests,  \* bound on REST requests that write
  MaxFaults,    \* bound on failed calls
  MaxTries,     \* bound on the new ids of one mail
  MaxHour       \* follow-up dates are the hours 1 .. MaxHour

VARIABLES
  keyed,      \* the mails whose workflow yields the conversation's grouping key
  received,   \* when each mail arrived: its rank, 0 before
  waiting,    \* the mails whose message is on the queue
  tries,      \* signal ids given to each mail so far that named a thread
  threads,    \* the thread rows
  signals,    \* the signal rows
  vectors,    \* Aurora: <<mail, thread>>
  policy,     \* the sender's record for the alias
  alarms,     \* follow-up messages on the queue, with the hour they are due
  schedule,   \* EventBridge: the hour of each thread's schedule, 0 if none
  codes,      \* side-effect messages of auth mails: the thread as dispatched
  hour,
  lambda,     \* what each invocation is doing
  requests, faults,
  stale,      \* history: threads written by someone who had read an older row,
              \* created when they were there already, or snoozed twice at once
  late,       \* history: mails in flight when the sender's policy changed
  unlisted,   \* history: mails that the list of an approved sender's mails left out
  raced,      \* history: a run looked the key up in vain, or created a thread
              \* after another one under the key, created since it had looked
  user        \* history: what the user last asked of each thread; it counts as
              \* reported while its sender is blocked

rows  == <<threads, signals, vectors, policy>>
clock == <<alarms, schedule, hour>>
past  == <<stale, late, unlisted, raced, user>>
mail  == <<keyed, received, waiting, tries>>
vars  == <<mail, rows, clock, codes, lambda, requests, faults, past>>

Blocks == {"block_hidden", "block_reject", "report_violation"}
Held   == {"quarantine_visible", "quarantine_hidden"}
Hours  == 0 .. MaxHour
Times  == 0 .. Cardinality(Mails)
\* A mail's signal id is kept by reprocessing; a new run mints a new one, which
\* matters only if the old one has named a thread.
Ids == Mails \X (0 .. MaxTries)
Id(m) == <<m, tries[m]>>
Remint(m) ==
  IF threads[Id(m)] = None THEN UNCHANGED tries
  ELSE tries[m] < MaxTries /\ tries' = [tries EXCEPT ![m] = @ + 1]
Row == [status : {"active", "archived", "deleted"}, at : Times, followup : Hours,
        key : BOOLEAN, listed : BOOLEAN]
Signal == [status : {"active"} \union Held \union Blocks,
           thread : Ids \union {None}, why : {"rule", "sender", "user", "none"}]

ASSUME ThreadsAssumption ==
  /\ IsFiniteSet(Mails)
  /\ MaxRequests \in Nat /\ MaxFaults \in Nat /\ MaxTries \in Nat /\ MaxHour \in Nat
  /\ None \notin Mails \union Ids \union Row \union Signal \union {"allow"} \union Blocks
  /\ \A S \in SUBSET Mails : None # S

Withheld(m) == signals[m] # None /\ signals[m].status \in Held
On(t) == {m \in Mails : signals[m] # None /\ signals[m].thread = t}
MaxOf(S) == CHOOSE n \in S : \A k \in S : k <= n
Now == MaxOf({received[m] : m \in Mails})
Idle == [job |-> "idle"]
Goto(i, job) == lambda' = [lambda EXCEPT ![i] = job]
Request == requests < MaxRequests /\ requests' = requests + 1
Fault == faults < MaxFaults /\ faults' = faults + 1

\* UpdateItem creates what it does not find, without the keys of the indexes.
Updated(row, status, at) ==
  IF row = None
  THEN [status |-> status, at |-> at, followup |-> 0, key |-> FALSE, listed |-> FALSE]
  ELSE [row EXCEPT !.status = status, !.at = at]

\* updateThread, by someone who read `snap` of thread t.
UpdateThread(t, snap, status, at) ==
  /\ threads' = [threads EXCEPT ![t] = Updated(@, status, at)]
  /\ stale' = IF threads[t] # snap THEN stale \union {t} ELSE stale

\* A signal's row is written by someone who believed it on thread `t`.
Moved(m, t) == {signals[m].thread : k \in {n \in {m} : signals[n] # None}} \ {None, t}

InFlight == {lambda[i].mail : i \in {j \in Lambdas : lambda[j].job = "mail"}}
SavePolicy(p) == policy' = p /\ late' = late \union InFlight

Init ==
  /\ keyed \in SUBSET Mails
  /\ received = [m \in Mails |-> 0]
  /\ waiting = {} /\ tries = [m \in Mails |-> 0]
  /\ threads = [t \in Ids |-> None]
  /\ signals = [m \in Mails |-> None]
  /\ vectors = {}
  /\ policy = None
  /\ alarms = {}
  /\ schedule = [t \in Ids |-> 0]
  /\ codes = {}
  /\ hour = 0
  /\ lambda = [i \in Lambdas |-> Idle]
  /\ requests = 0 /\ faults = 0
  /\ stale = {} /\ late = {} /\ unlisted = {} /\ raced = FALSE
  /\ user = [t \in Ids |-> "none"]

-----------------------------------------------------------------------------
(* The pipeline, as far as thread rows go.  `by` says on whose behalf: the   *)
(* queue's, or a request's that carries on with `then` afterwards.  Only     *)
(* the queue's runs look for an existing signal first.                       *)

Run(m, by) == [job |-> "mail", pc |-> "policy", mail |-> m, by |-> by,
               policy |-> None, seen |-> {}, match |-> None, snap |-> None]
Direct == [kind |-> "queue"]
Siblings(m, as, todo) == [job |-> "siblings", of |-> m, as |-> as, todo |-> todo]
Repair(t) == [job |-> "repair", pc |-> "thread", thread |-> t, snap |-> None, mails |-> {}]

Arrive(m) ==
  /\ received[m] = 0
  /\ received' = [received EXCEPT ![m] = Now + 1]
  /\ waiting' = waiting \union {m}
  /\ UNCHANGED <<keyed, tries, rows, clock, codes, lambda, requests, faults, past>>

Receive(i, m) ==
  /\ lambda[i] = Idle /\ m \in waiting
  /\ waiting' = waiting \ {m}
  /\ Goto(i, IF signals[m] = None THEN Run(m, Direct)
             ELSE IF signals[m].status = "active" /\ threads[signals[m].thread] # None
             THEN [Run(m, Direct) EXCEPT !.pc = "index", !.match = signals[m].thread,
                                             !.snap = threads[signals[m].thread]]
             ELSE Idle)
  /\ UNCHANGED <<keyed, received, tries, rows, clock, codes, requests, faults, past>>

\* The sender's policy is read well before the threads are looked at.
ReadPolicy(i) ==
  LET run == lambda[i] IN
  /\ run.job = "mail" /\ run.pc = "policy"
  /\ Goto(i, [run EXCEPT !.policy = policy, !.pc = IF policy \in Blocks THEN "block" ELSE "match"])
  /\ UNCHANGED <<mail, rows, clock, codes, requests, faults, past>>

\* Mutant: the thread a mail was taken from is not looked at again.
AfterNoRepair(run) ==
  CASE run.by.kind = "approve" /\ run.by.sender -> Siblings(run.mail, "approve", None)
    [] run.by.kind = "sibling" -> run.by.rest
    [] OTHER -> Idle

\* What a run that has come to its end goes on with.
After(run) ==
  CASE run.by.kind = "approve" /\ run.by.sender -> Siblings(run.mail, "approve", None)
    [] run.by.kind = "sibling" -> run.by.rest
    [] run.by.kind = "reprocess" /\ run.by.source # None -> Repair(run.by.source)
    [] OTHER -> Idle

\* The thread a run takes its mail from.
Source(run) == IF run.by.kind = "reprocess" THEN run.by.source ELSE None

\* saveSignal of a mail that gets no thread; an approval that ends here has failed.
Withhold(i, m, status, why) ==
  /\ signals' = [signals EXCEPT ![m] = [status |-> status, thread |-> None, why |-> why]]
  /\ stale' = stale \union Moved(m, Source(lambda[i]))
  /\ Goto(i, IF lambda[i].by.kind = "approve" THEN Idle ELSE After(lambda[i]))
  /\ UNCHANGED <<keyed, received, waiting, threads, vectors, policy, clock, codes,
                 requests, faults, late, unlisted, raced, user>>

\* The early block mints a signal id, for a mail that is reprocessed as well.
BlockSender(i) ==
  /\ lambda[i].job = "mail" /\ lambda[i].pc = "block"
  /\ Remint(lambda[i].mail)
  /\ Withhold(i, lambda[i].mail, lambda[i].policy, "sender")

\* The threads the index of grouping keys holds.
Keyed == {t \in Ids : threads[t] # None /\ threads[t].key}

\* Mutant: a conversation is looked for among the active threads only.
ByKeyActive(m) ==
  IF m \in keyed THEN {t \in Keyed : threads[t].status = "active"} ELSE {}

\* Tier 1: the thread under the grouping key, any of them if there are several, if
\* the index shows it by now.
ByKey(m) == IF m \in keyed THEN Keyed ELSE {}
\* Tier 1.5: the thread of the mail this one answers.  Tier 2: a thread with a
\* vector close by; one without a row has its vectors pruned and is no match.
ByReply == {t \in Ids : threads[t] # None /\ On(t) # {}}
ByVector == {t \in Ids : \E m \in Mails : <<m, t>> \in vectors}
Ghost(t) == threads[t] = None

Match(i) ==
  LET run == lambda[i] IN
  /\ run.job = "mail" /\ run.pc = "match"
  /\ \E t \in ByKey(run.mail) \union ByReply \union ByVector \union {None} :
       LET found == t # None /\ ~Ghost(t) IN
       /\ raced' = (raced \/ (ByKey(run.mail) # {} /\ ~found))
       /\ vectors' = {v \in vectors : v[2] # t \/ ~Ghost(t)}
       /\ Goto(i, [run EXCEPT !.match = IF found THEN t ELSE None,
                              !.snap = IF found THEN threads[t] ELSE None,
                              !.seen = Keyed,
                              !.pc = "decide"])
  /\ UNCHANGED <<mail, threads, signals, policy, clock, codes,
                 requests, faults, stale, late, unlisted, user>>

\* A lookup that fails counts as one that finds nothing.
MatchFails(i) ==
  LET run == lambda[i] IN
  /\ run.job = "mail" /\ run.pc = "match"
  /\ Fault
  /\ raced' = TRUE
  /\ Goto(i, [run EXCEPT !.pc = "decide"])
  /\ UNCHANGED <<mail, rows, clock, codes, requests, stale, late, unlisted, user>>

\* An approved mail is not asked; the others a rule may hold or block, and an
\* unknown sender's mail with no rule is quarantined.
Quarantine(i) ==
  LET run == lambda[i] IN
  /\ run.job = "mail" /\ run.pc = "decide" /\ run.by.kind # "approve"
  /\ UNCHANGED tries
  /\ \/ \E status \in Held \union {"block_hidden"} : Withhold(i, run.mail, status, "rule")
     \/ run.policy = None /\ Withhold(i, run.mail, "quarantine_visible", "sender")

\* A matched thread is written over, a new one only if its id is free: one that
\* is there already, from an earlier time, is taken as it is.
WriteThread(i) ==
  LET run == lambda[i]
      t == IF run.match = None THEN Id(run.mail) ELSE run.match
  IN
  /\ run.job = "mail" /\ run.pc = "decide"
  /\ \E status \in IF run.by.kind = "approve" THEN {"active"} ELSE {"active", "archived"} :
       /\ status = "archived" \/ run.policy # None \/ run.by.kind = "approve"
       /\ IF run.match # None
          THEN /\ threads' = [threads EXCEPT ![t] =
                    LET row == Updated(@, status, received[run.mail]) IN
                    IF run.snap.status = "archived" /\ status = "active" /\ run.snap.followup # 0
                    THEN [row EXCEPT !.followup = 0] ELSE row]
               /\ stale' = IF threads[t] # run.snap THEN stale \union {t} ELSE stale
               /\ UNCHANGED raced
               /\ Goto(i, [run EXCEPT !.pc = "save", !.snap = threads'[t]])
          ELSE LET row == [status |-> status, at |-> received[run.mail], followup |-> 0,
                           key |-> run.mail \in keyed, listed |-> TRUE]
               IN
               /\ threads' = [threads EXCEPT ![t] = IF @ = None THEN row ELSE @]
               /\ raced' = (raced \/ (run.mail \in keyed /\ Keyed \ (run.seen \union {t}) # {}))
               /\ Goto(i, [run EXCEPT !.pc = "save", !.match = t, !.snap = row])
               /\ UNCHANGED stale
  /\ user' = [user EXCEPT ![t] = IF @ = "reported" THEN @ ELSE "none"]
  /\ UNCHANGED <<mail, signals, vectors, policy, clock, codes,
                 requests, faults, late, unlisted>>

SaveSignal(i) ==
  LET run == lambda[i] IN
  /\ run.job = "mail" /\ run.pc = "save"
  /\ signals' = [signals EXCEPT ![run.mail] =
                   [status |-> "active", thread |-> run.match, why |-> "none"]]
  /\ stale' = stale \union (Moved(run.mail, Source(run)) \ {run.match})
               \union {t \in {run.match} : threads[t] # run.snap}
  /\ Goto(i, [run EXCEPT !.pc = "index"])
  /\ UNCHANGED <<mail, threads, vectors, policy, clock, codes,
                 requests, faults, late, unlisted, raced, user>>

\* The vector makes the thread findable; then the side effects are dispatched,
\* an auth mail's with the thread as it is now known.
Index(i) ==
  LET run == lambda[i] IN
  /\ run.job = "mail" /\ run.pc = "index"
  /\ vectors' = vectors \union {<<run.mail, run.match>>}
  /\ \/ UNCHANGED codes
     \/ codes' = codes \union {[thread |-> run.match, row |-> run.snap]}
  /\ Goto(i, After(run))
  /\ UNCHANGED <<mail, threads, signals, policy, clock,
                 requests, faults, past>>

\* Any call of a run fails: the queue delivers the message again, a request
\* ends in an error, after the repair if it was a reprocess.
RunFails(i) ==
  LET run == lambda[i] IN
  /\ run.job = "mail"
  /\ Fault
  /\ waiting' = IF run.by.kind = "queue" THEN waiting \union {run.mail} ELSE waiting
  /\ Goto(i, IF run.by.kind = "approve" THEN Idle ELSE After(run))
  /\ IF run.by.kind = "queue" /\ signals[run.mail] = None THEN Remint(run.mail) ELSE UNCHANGED tries
  /\ UNCHANGED <<keyed, received, rows, clock, codes, requests, past>>

-----------------------------------------------------------------------------
(* The quarantine: POST quarantineResponse for a withheld mail.  One         *)
(* decision about a sender reaches the sender's other visible mails.         *)

\* The three ways to block differ in name only here.
Answers == {"dismiss", "approve", "block_reject"}

Respond(i, m, as) ==
  /\ lambda[i] = Idle /\ Request /\ Withheld(m)
  /\ Goto(i, [job |-> "respond", mail |-> m, as |-> as, policy |-> policy])
  /\ UNCHANGED <<mail, rows, clock, codes, faults, past>>

\* Dismissing says nothing about the sender.
Dismiss(i) ==
  LET req == lambda[i] IN
  /\ req.job = "respond" /\ req.as = "dismiss"
  /\ signals' = [signals EXCEPT ![req.mail] =
                   [status |-> "block_hidden", thread |-> None, why |-> "user"]]
  /\ stale' = stale \union Moved(req.mail, None)
  /\ Goto(i, Siblings(req.mail, req.as, None))
  /\ UNCHANGED <<mail, threads, vectors, policy, clock, codes,
                 requests, faults, late, unlisted, raced, user>>

Block(i) ==
  LET req == lambda[i] IN
  /\ req.job = "respond" /\ req.as \in Blocks
  /\ signals' = [signals EXCEPT ![req.mail] =
                   [status |-> req.as, thread |-> None, why |-> "user"]]
  /\ stale' = stale \union Moved(req.mail, None)
  /\ Goto(i, [req EXCEPT !.job = "blocked"])
  /\ UNCHANGED <<mail, threads, vectors, policy, clock, codes,
                 requests, faults, late, unlisted, raced, user>>

RecordBlock(i) ==
  LET req == lambda[i] IN
  /\ req.job = "blocked"
  /\ SavePolicy(req.as)
  /\ Goto(i, Siblings(req.mail, req.as, None))
  /\ UNCHANGED <<mail, threads, signals, vectors, clock, codes,
                 requests, faults, stale, unlisted, raced, user>>

\* A sender without a record is approved, one with a record keeps it; either way
\* the mail goes through the pipeline again.
Approve(i) ==
  LET req == lambda[i] IN
  /\ req.job = "respond" /\ req.as = "approve"
  /\ IF req.policy = None
     THEN SavePolicy("allow") /\ user' = [t \in Ids |-> IF user[t] = "reported" THEN "none" ELSE user[t]]
     ELSE UNCHANGED <<policy, late, user>>
  /\ Goto(i, Run(req.mail, [kind |-> "approve", sender |-> req.policy = None]))
  /\ UNCHANGED <<mail, threads, signals, vectors, clock, codes,
                 requests, faults, stale, unlisted, raced>>

\* The sender's other visible mails.
Visible(m) == {n \in Mails \ {m} : signals[n] # None /\ signals[n].status = "quarantine_visible"}

\* Mutant: the partition is listed without its visible mails.
ListHidden(i) ==
  LET req == lambda[i] IN
  /\ req.job = "siblings" /\ req.todo = None
  /\ Goto(i, [req EXCEPT !.todo =
       {m \in Mails \ {req.of} : signals[m] # None /\ signals[m].status = "quarantine_hidden"}])
  /\ UNCHANGED <<mail, rows, clock, codes, requests, faults, past>>

\* One page of the account's quarantine, which mails of other senders may fill, from
\* an index that may not have a mail yet; none of it if the list fails.
ListSiblings(i) ==
  LET req == lambda[i] IN
  /\ req.job = "siblings" /\ req.todo = None
  /\ \E page \in SUBSET Visible(req.of) :
       /\ Goto(i, [req EXCEPT !.todo = page])
       /\ unlisted' = IF req.as = "approve" THEN unlisted \union (Visible(req.of) \ page) ELSE unlisted
  /\ UNCHANGED <<mail, rows, clock, codes, requests, faults, stale, late, raced, user>>

\* One after the other, with what the list said of them.
NextSibling(i) ==
  LET req == lambda[i] IN
  /\ req.job = "siblings" /\ req.todo # None
  /\ \/ req.todo = {} /\ Goto(i, Idle) /\ UNCHANGED <<signals, stale>>
     \/ \E m \in req.todo :
          LET rest == [req EXCEPT !.todo = @ \ {m}] IN
          IF req.as = "approve"
          THEN Goto(i, Run(m, [kind |-> "sibling", rest |-> rest])) /\ UNCHANGED <<signals, stale>>
          ELSE /\ signals' = [signals EXCEPT ![m] =
                    [status |-> IF req.as = "dismiss" THEN "block_hidden" ELSE req.as,
                     thread |-> None, why |-> "user"]]
               /\ stale' = stale \union Moved(m, None)
               /\ Goto(i, rest)
  /\ UNCHANGED <<mail, threads, vectors, policy, clock, codes,
                 requests, faults, late, unlisted, raced, user>>

-----------------------------------------------------------------------------
(* Reprocessing by an administrator: the mail goes through the pipeline      *)
(* again and may leave its thread.                                           *)

\* If it is alone on its thread, the thread must not be found any more.
Reprocess(i, m) ==
  /\ lambda[i] = Idle /\ Request /\ signals[m] # None
  /\ LET source == signals[m].thread IN
     Goto(i, [job |-> "clean", mail |-> m, source |-> source,
              alone |-> source # None /\ On(source) = {m}])
  /\ UNCHANGED <<mail, rows, clock, codes, faults, past>>

Clean(i) ==
  LET req == lambda[i] IN
  /\ req.job = "clean"
  /\ vectors' = {v \in vectors : ~req.alone \/ v[2] # req.source}
  /\ stale' = IF req.alone /\ On(req.source) # {req.mail} THEN stale \union {req.source} ELSE stale
  /\ Goto(i, Run(req.mail, [kind |-> "reprocess", source |-> req.source]))
  /\ UNCHANGED <<mail, threads, signals, policy, clock, codes,
                 requests, faults, late, unlisted, raced, user>>

\* The recency of the thread it came from is computed anew: row, list, update.
RepairRead(i) ==
  LET req == lambda[i] IN
  /\ req.job = "repair"
  /\ \/ /\ req.pc = "thread"
        /\ Goto(i, IF threads[req.thread] = None THEN Idle
                   ELSE [req EXCEPT !.pc = "list", !.snap = threads[req.thread]])
     \/ /\ req.pc = "list"
        /\ Goto(i, [req EXCEPT !.pc = "write", !.mails = On(req.thread)])
  /\ UNCHANGED <<mail, rows, clock, codes, requests, faults, past>>

\* The list is older than the row may be by now, whether or not the row changed.
RepairWrite(i) ==
  LET req == lambda[i]
      at == MaxOf({0} \union {received[m] : m \in req.mails})
  IN
  /\ req.job = "repair" /\ req.pc = "write"
  /\ IF at = req.snap.at THEN UNCHANGED <<threads, stale>>
     ELSE /\ threads' = [threads EXCEPT ![req.thread] = Updated(@, req.snap.status, at)]
          /\ stale' = IF threads[req.thread] # req.snap \/ On(req.thread) # req.mails
                      THEN stale \union {req.thread} ELSE stale
  /\ Goto(i, Idle)
  /\ UNCHANGED <<mail, signals, vectors, policy, clock, codes,
                 requests, faults, late, unlisted, raced, user>>

-----------------------------------------------------------------------------
(* PATCH of a thread: a status, or a follow-up date, which archives it.      *)

Patch(i, t, status, followup) ==
  /\ lambda[i] = Idle /\ Request /\ threads[t] # None
  /\ followup = 0 \/ followup > hour
  /\ Goto(i, [job |-> "patch", pc |-> IF followup = 0 THEN "write" ELSE "alarm",
              thread |-> t, snap |-> threads[t], followup |-> followup,
              status |-> IF followup # 0 THEN "archived" ELSE status])
  /\ UNCHANGED <<mail, rows, clock, codes, faults, past>>

\* A date less than 15 minutes ahead is a delayed message, a later one the
\* thread's one schedule, which is moved if it is there.
SetAlarm(i) ==
  LET req == lambda[i] IN
  /\ req.job = "patch" /\ req.pc = "alarm"
  /\ \/ /\ alarms' = alarms \union {[thread |-> req.thread, due |-> req.followup]}
        /\ UNCHANGED schedule
     \/ /\ schedule' = [schedule EXCEPT ![req.thread] = req.followup]
        /\ UNCHANGED alarms
  /\ Goto(i, [req EXCEPT !.pc = "write"])
  /\ UNCHANGED <<mail, rows, hour, codes, requests, faults, past>>

\* Another request is about to snooze the same thread.
Overlapped(i) ==
  \E j \in Lambdas \ {i} : /\ lambda[j].job = "patch" /\ lambda[j].thread = lambda[i].thread
                          /\ lambda[j].followup # 0 /\ lambda[i].followup # 0

PatchWrite(i) ==
  LET req == lambda[i] IN
  /\ req.job = "patch" /\ req.pc = "write"
  /\ threads' = [threads EXCEPT ![req.thread] =
       LET row == Updated(@, req.status, req.snap.at) IN
       IF req.followup = 0 THEN row ELSE [row EXCEPT !.followup = req.followup]]
  /\ stale' = IF threads[req.thread] # req.snap \/ Overlapped(i)
              THEN stale \union {req.thread} ELSE stale
  /\ user' = [user EXCEPT ![req.thread] = IF req.followup = 0 THEN req.status ELSE "snoozed"]
  /\ Goto(i, Idle)
  /\ UNCHANGED <<mail, signals, vectors, policy, clock, codes,
                 requests, faults, late, unlisted, raced>>

\* PATCH with report_violation: the sender's record, then the thread.
Report(i, t) ==
  /\ lambda[i] = Idle /\ Request /\ threads[t] # None
  /\ Goto(i, [job |-> "report", pc |-> IF On(t) = {} THEN "write" ELSE "sender",
              thread |-> t, snap |-> threads[t], named |-> On(t) # {}])
  /\ UNCHANGED <<mail, rows, clock, codes, faults, past>>

ReportSender(i) ==
  LET req == lambda[i] IN
  /\ req.job = "report" /\ req.pc = "sender"
  /\ SavePolicy("report_violation")
  /\ Goto(i, [req EXCEPT !.pc = "write"])
  /\ UNCHANGED <<mail, threads, signals, vectors, clock, codes,
                 requests, faults, stale, unlisted, raced, user>>

ReportWrite(i) ==
  LET req == lambda[i] IN
  /\ req.job = "report" /\ req.pc = "write"
  /\ UpdateThread(req.thread, req.snap, "deleted", req.snap.at)
  /\ user' = [user EXCEPT ![req.thread] = IF req.named /\ policy \in Blocks
                                          THEN "reported" ELSE "deleted"]
  /\ Goto(i, Idle)
  /\ UNCHANGED <<mail, signals, vectors, policy, clock, codes,
                 requests, faults, late, unlisted, raced>>

-----------------------------------------------------------------------------
(* Alarms, auth mails, time.                                                 *)

\* A snooze lasts longer than the request that sets it.
Tick ==
  /\ hour < MaxHour
  /\ \A i \in Lambdas : lambda[i].job # "patch"
  /\ hour' = hour + 1
  /\ UNCHANGED <<mail, rows, alarms, schedule, codes, lambda,
                 requests, faults, past>>

\* Mutant: the schedule goes without its message.
FireQuietly(t) ==
  /\ schedule[t] # 0 /\ schedule[t] <= hour + 1
  /\ schedule' = [schedule EXCEPT ![t] = 0]
  /\ UNCHANGED <<mail, rows, alarms, hour, codes, lambda, requests, faults, past>>

\* The schedule has come: it is gone, its message is on the queue.
Fire(t) ==
  /\ schedule[t] # 0 /\ schedule[t] <= hour
  /\ alarms' = alarms \union {[thread |-> t, due |-> schedule[t]]}
  /\ schedule' = [schedule EXCEPT ![t] = 0]
  /\ UNCHANGED <<mail, rows, hour, codes, lambda, requests, faults, past>>

\* Mutant: any thread with a date is woken, whatever became of it.
FollowupAnyway(i, a) ==
  LET row == threads[a.thread] IN
  /\ lambda[i] = Idle /\ a \in alarms /\ a.due <= hour
  /\ alarms' = alarms \ {a}
  /\ Goto(i, IF row # None
             THEN [job |-> "wake", thread |-> a.thread, snap |-> row, due |-> a.due]
             ELSE Idle)
  /\ UNCHANGED <<mail, rows, schedule, hour, codes, requests, faults, past>>

\* FollowupHandler.process: the message names the thread, not the date.
Followup(i, a) ==
  LET row == threads[a.thread] IN
  /\ lambda[i] = Idle /\ a \in alarms /\ a.due <= hour
  /\ alarms' = alarms \ {a}
  /\ Goto(i, IF row # None /\ row.status = "archived" /\ row.followup # 0
             THEN [job |-> "wake", thread |-> a.thread, snap |-> row, due |-> a.due]
             ELSE Idle)
  /\ UNCHANGED <<mail, rows, schedule, hour, codes, requests, faults, past>>

\* The write or the notification fails: the message comes again.
Wake(i) ==
  LET job == lambda[i] IN
  /\ job.job = "wake"
  /\ \/ UpdateThread(job.thread, job.snap, "active", Now) /\ UNCHANGED <<alarms, faults>>
     \/ /\ Fault
        /\ alarms' = alarms \union {[thread |-> job.thread, due |-> job.due]}
        /\ UpdateThread(job.thread, job.snap, "active", Now) \/ UNCHANGED <<threads, stale>>
  /\ Goto(i, Idle)
  /\ UNCHANGED <<mail, signals, vectors, policy, schedule, hour, codes,
                 requests, late, unlisted, raced, user>>

\* AuthWorkflowHandler: the code was shown, the thread need not stay.
ArchiveCode(c) ==
  /\ c \in codes
  /\ codes' = codes \ {c}
  /\ UpdateThread(c.thread, c.row, "archived", c.row.at)
  /\ UNCHANGED <<mail, signals, vectors, policy, clock, lambda,
                 requests, faults, late, unlisted, raced, user>>

\* The time to live ends, set when the thread was created and never renewed.
Expire(t) ==
  /\ threads[t] # None
  /\ Fault
  /\ threads' = [threads EXCEPT ![t] = None]
  /\ stale' = stale \union {t}
  /\ UNCHANGED <<mail, signals, vectors, policy, clock, codes, lambda,
                 requests, late, unlisted, raced, user>>

Pipeline(i) ==
  \/ \E m \in Mails : Receive(i, m)
  \/ ReadPolicy(i) \/ BlockSender(i) \/ Match(i) \/ MatchFails(i) \/ Quarantine(i)
  \/ WriteThread(i) \/ SaveSignal(i) \/ Index(i) \/ RunFails(i)

Api(i) ==
  \/ \E m \in Mails : \/ \E as \in Answers : Respond(i, m, as)
                      \/ Reprocess(i, m)
  \/ \E t \in Ids : \/ Report(i, t)
                    \/ \E s \in {"active", "archived", "deleted"} : Patch(i, t, s, 0)
                    \/ \E h \in Hours \ {0} : Patch(i, t, "archived", h)
  \/ Dismiss(i) \/ Block(i) \/ RecordBlock(i) \/ Approve(i) \/ ListSiblings(i)
  \/ NextSibling(i) \/ Clean(i) \/ RepairRead(i) \/ RepairWrite(i) \/ SetAlarm(i)
  \/ PatchWrite(i) \/ ReportSender(i) \/ ReportWrite(i)

Next ==
  \/ \E m \in Mails : Arrive(m)
  \/ \E t \in Ids : Fire(t) \/ Expire(t)
  \/ \E i \in Lambdas : Pipeline(i) \/ Api(i) \/ Wake(i) \/ \E a \in alarms : Followup(i, a)
  \/ \E c \in codes : ArchiveCode(c)
  \/ Tick

Spec == Init /\ [][Next]_vars

-----------------------------------------------------------------------------
TypeOK ==
  /\ keyed \subseteq Mails /\ waiting \subseteq Mails
  /\ received \in [Mails -> Times] /\ tries \in [Mails -> Nat]
  /\ threads \in [Ids -> Row \union {None}]
  /\ signals \in [Mails -> Signal \union {None}]
  /\ vectors \subseteq Mails \X Ids
  /\ policy \in {None, "allow"} \union Blocks
  /\ alarms \subseteq [thread : Ids, due : Hours]
  /\ schedule \in [Ids -> Hours]
  /\ codes \subseteq [thread : Ids, row : Row]
  /\ hour \in Hours /\ requests \in 0 .. MaxRequests /\ faults \in 0 .. MaxFaults
  /\ stale \subseteq Ids /\ late \subseteq Mails /\ unlisted \subseteq Mails /\ raced \in BOOLEAN
  /\ user \in [Ids -> {"none", "active", "archived", "deleted", "snoozed", "reported"}]

Rest == \A i \in Lambdas : lambda[i] = Idle

\* A conversation has one thread, unless two of its mails were looked up at the
\* same time, or one in vain: the lookup failed, or the index did not show the thread
\* yet (findThreadByGroupingKey, createThread).
SplitsNeedRaces ==
  raced \/ Cardinality(Keyed) <= 1

\* At rest, the lists show every mail and can find it by its vector, and show
\* no thread that reprocessing or the quarantine has emptied unless an alarm has
\* brought it back, except where someone wrote over a row that had changed since
\* they read it (updateThread, repairThreadRecency and deleteEmbeddingsForThread
\* have no condition).
Listed(t) == threads[t] # None /\ threads[t].listed /\ threads[t].at > 0
ListsShowMail ==
  Rest => \A t \in Ids \ stale :
    /\ On(t) # {} => Listed(t)
    /\ faults = 0 /\ threads[t] # None /\ threads[t].followup = 0 => (Listed(t) => On(t) # {})
    /\ faults = 0 => \A m \in On(t) : <<m, t>> \in vectors

\* A snoozed thread whose date is to come has an alarm to come, whatever the
\* order of alarms set, moved and gone off, unless two requests snoozed it at once.
SnoozeHasAlarm ==
  \A t \in Ids \ stale :
    threads[t] # None /\ user[t] = "snoozed" /\ threads[t].status = "archived"
      /\ threads[t].followup > hour
    => schedule[t] # 0 \/ \E a \in alarms : a.thread = t

\* Unless a message is processed again, a thread the user deleted is revived by
\* mail only, never by an alarm or by the handler of an auth mail; and one that
\* was reported stays deleted as long as its sender is blocked, mail in flight
\* at the report excepted.
UserDecisionHolds ==
  \A t \in Ids \ stale : threads[t] # None /\ faults = 0 =>
    /\ user[t] = "deleted" => threads[t].status = "deleted"
    /\ user[t] = "reported" =>
         threads[t].status = "deleted" \/ late # {}

\* Once an approval has come to its end, no visible mail stays in quarantine for
\* its sender but what was in flight at the approval and what its list left out:
\* "older siblings are left for a later action" (collectSiblings).
SiblingsFollow ==
  Rest /\ policy = "allow" /\ faults = 0 =>
    \A m \in Mails \ (late \union unlisted) : signals[m] = None \/ signals[m].status # "quarantine_visible"
                              \/ signals[m].why # "sender"

\* signalsApi says of an approved mail that "it must end up active on a thread no
\* matter what": when its run has ended, it is active and on an active thread.
\* It fails: the thread the mail joins may have been archived or deleted since it was read.
ApprovalActivates ==
  [][\A i \in Lambdas : LET run == lambda[i] IN
       run.job = "mail" /\ run.by.kind = "approve" /\ lambda'[i].job # "mail" =>
         /\ signals'[run.mail].status = "active"
         /\ threads'[signals'[run.mail].thread].status = "active"]_vars
=============================================================================
