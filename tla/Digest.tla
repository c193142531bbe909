------------------------------ MODULE Digest -------------------------------
(***************************************************************************)
(* The digest mails: once a day a message starts the dispatcher, which     *)
(* reads every account, picks those whose frequency falls on today and     *)
(* queues a message for each, in batches; the worker reads the account     *)
(* anew, decides again and sends.  A failed message is tried again, all of *)
(* it, and dropped after a few tries.                                      *)
(***************************************************************************)
EXTENDS Naturals, FiniteSets

CONSTANTS
  Accounts, None, Lambdas,
  Days,          \* days of the model
  Sundays,       \* the days a weekly digest falls on (a monthly one is alike)
  BatchSize,     \* accounts of one SQS batch; 10 in the code
  MaxReceives,   \* deliveries of a message before it is given up
  MaxFaults, MaxChanges

VARIABLES
  today,
  account,       \* [account -> digest setting: None, "daily" or "weekly"]
  queue,         \* messages not deleted yet
  lambda,
  sent,          \* history: digests sent: account, day they are for, day they went out
  twice,         \* history: digests sent more than once
  token,         \* accounts that hold an unsubscribe code
  excused,       \* history: <<account or None, day>> of the messages given up, picked up
                 \* after their day, or for which there was nothing to send
  faults, changes,
  opted          \* history: times each account has switched its digest off

vars == <<today, account, queue, lambda, sent, twice, token, excused, faults, changes, opted>>

Idle == [pc |-> "idle"]
Goto(i, w) == lambda' = [lambda EXCEPT ![i] = w]
MayFail(failed) == /\ failed => faults < MaxFaults
                   /\ faults' = IF failed THEN faults + 1 ELSE faults

\* for: None for a dispatch; day: that of its dispatch; n: the try of the dispatch.
DispatchOf(d) == [for |-> None, day |-> d, n |-> 0, receives |-> 0]
SendFor(a, d, n) == [for |-> a, day |-> d, n |-> n, receives |-> 0]
Running(m) == \E i \in Lambdas : lambda[i] # Idle /\ lambda[i].message = m

Init ==
  /\ today = 1 /\ account \in [Accounts -> {None, "daily", "weekly"}]
  /\ queue = {DispatchOf(1)} /\ lambda = [i \in Lambdas |-> Idle]
  /\ sent = {} /\ twice = {} /\ token = {} /\ excused = {}
  /\ faults = 0 /\ changes = 0 /\ opted = [a \in Accounts |-> 0]

shouldDispatchDigest(frequency, day) ==
  frequency = "daily" \/ (frequency = "weekly" /\ day \in Sundays)

\* Midnight, and the day's message of EventBridge.
Midnight ==
  /\ today < Days /\ today' = today + 1
  /\ queue' = queue \union {DispatchOf(today + 1)}
  /\ UNCHANGED <<account, lambda, sent, twice, token, excused, faults, changes, opted>>

-----------------------------------------------------------------------------
(* The user.                                                                 *)

\* The settings page.
Configure(a, frequency) ==
  /\ changes < MaxChanges /\ changes' = changes + 1
  /\ account[a] # frequency /\ account' = [account EXCEPT ![a] = frequency]
  /\ opted' = IF frequency = None THEN [opted EXCEPT ![a] = @ + 1] ELSE opted
  /\ UNCHANGED <<today, queue, lambda, sent, twice, token, excused, faults>>

\* The code of any digest the account has had is good; it names the account.
Verifies(a) == a \in token

\* One click: POST /accounts/{id}/unsubscribe.
Unsubscribe(a) ==
  /\ Verifies(a) /\ account[a] # None
  /\ account' = [account EXCEPT ![a] = None]
  /\ opted' = [opted EXCEPT ![a] = @ + 1]
  /\ UNCHANGED <<today, queue, lambda, sent, twice, token, excused, faults, changes>>

-----------------------------------------------------------------------------
(* The consumer of the queue (handler).                                      *)

Received(m) == [m EXCEPT !.receives = @ + 1]

Receive(i, m) ==
  /\ lambda[i] = Idle /\ m \in queue /\ ~Running(m) /\ m.receives < MaxReceives
  /\ queue' = (queue \ {m}) \union {Received(m)}
  /\ excused' = IF m.day < today THEN excused \union {<<m.for, m.day>>} ELSE excused

Excuse(m) == excused' = excused \union {<<m.for, m.day>>}

Delete(i) ==
  /\ queue' = queue \ {lambda[i].message}
  /\ Goto(i, Idle)

\* An error goes back to SQS, which gives the message up after MaxReceives.
ReturnError(i) ==
  LET m == lambda[i].message IN
  /\ lambda[i].pc = "failed" /\ Goto(i, Idle)
  /\ IF m.receives < MaxReceives
       THEN UNCHANGED <<queue, excused>>
       ELSE queue' = queue \ {m} /\ Excuse(m)
  /\ UNCHANGED <<today, account, sent, twice, token, faults, changes, opted>>

-----------------------------------------------------------------------------
(* DigestDispatcher.dispatch.                                                *)

Qualifying == {a \in Accounts : account[a] # None /\ shouldDispatchDigest(account[a], today)}

\* queryAllAccountMetas, read in one step.
StartDispatch(i, m, failed) ==
  /\ m.for = None /\ MayFail(failed) /\ Receive(i, m)
  /\ Goto(i, IF failed THEN [pc |-> "failed", message |-> Received(m)]
             ELSE [pc |-> "batch", message |-> Received(m), left |-> Qualifying])
  /\ UNCHANGED <<today, account, sent, twice, token, changes, opted>>

Batches(left) == {b \in SUBSET left : Cardinality(b) = IF Cardinality(left) < BatchSize THEN Cardinality(left) ELSE BatchSize}
Enqueued(w, accepted) == {SendFor(a, w.message.day, w.message.receives) : a \in accepted}

\* Mutant: what SQS did not take is forgotten.
ContinueWithout(w, batch, accepted) == [w EXCEPT !.left = @ \ batch]
\* A batch of which SQS took a part ends the dispatch with an error.
AfterBatch(w, batch, accepted) ==
  IF accepted = batch THEN [w EXCEPT !.left = @ \ batch] ELSE [pc |-> "failed", message |-> w.message]

SendBatch(i, batch, accepted) ==
  LET w == lambda[i] IN
  /\ w.pc = "batch" /\ w.left # {} /\ batch \in Batches(w.left) /\ accepted \subseteq batch
  /\ MayFail(accepted # batch)
  /\ queue' = queue \union Enqueued(w, accepted)
  /\ Goto(i, AfterBatch(w, batch, accepted))
  /\ UNCHANGED <<today, account, sent, twice, token, excused, changes, opted>>

FinishDispatch(i) ==
  /\ lambda[i].pc = "batch" /\ lambda[i].left = {}
  /\ Delete(i)
  /\ UNCHANGED <<today, account, sent, twice, token, excused, faults, changes, opted>>

-----------------------------------------------------------------------------
(* DigestWorker.process.                                                     *)

\* The account still has a digest, and today is its day.
StillDue(a) == account[a] # None /\ shouldDispatchDigest(account[a], today)

\* getAccount and the second decision.  opted: what the worker has read, for the
\* properties.
LoadAccount(i, m, failed) ==
  /\ m.for # None /\ MayFail(failed) /\ Receive(i, m)
  /\ Goto(i, IF failed THEN [pc |-> "failed", message |-> Received(m)]
             ELSE IF StillDue(m.for)
               THEN [pc |-> "send", message |-> Received(m), opted |-> opted[m.for], day |-> today]
             ELSE [pc |-> "skip", message |-> Received(m)])
  /\ UNCHANGED <<today, account, sent, twice, token, changes, opted>>

Skip(i) ==
  /\ lambda[i].pc = "skip" /\ Delete(i)
  /\ UNCHANGED <<today, account, sent, twice, token, excused, faults, changes, opted>>

\* The forwarding target is gone or not verified, or there is nothing to report: no
\* active thread and no visible mail in quarantine.
NothingToSend(i) ==
  /\ lambda[i].pc = "send" /\ Delete(i)
  /\ Excuse(lambda[i].message)
  /\ UNCHANGED <<today, account, sent, twice, token, faults, changes, opted>>

\* One of the reads fails, or SES with an error that may pass.
Transient(i) ==
  /\ lambda[i].pc = "send" /\ MayFail(TRUE)
  /\ Goto(i, [pc |-> "failed", message |-> lambda[i].message])
  /\ UNCHANGED <<today, account, queue, sent, twice, token, excused, changes, opted>>

\* SES rejects the mail for good: logged, and taken as done.
Rejected(i) ==
  /\ lambda[i].pc = "send" /\ MayFail(TRUE)
  /\ Delete(i)
  /\ Excuse(lambda[i].message)
  /\ UNCHANGED <<today, account, sent, twice, token, changes, opted>>

\* The mail carries a new code.  Nothing is written afterwards.
Send(i) ==
  LET w == lambda[i] IN
  /\ w.pc = "send"
  /\ token' = token \union {w.message.for}
  /\ LET d == [for |-> w.message.for, day |-> w.message.day, on |-> w.day] IN
       sent' = sent \union {d} /\ twice' = IF d \in sent THEN twice \union {d} ELSE twice
  /\ Goto(i, [pc |-> "sent", message |-> w.message])
  /\ UNCHANGED <<today, account, queue, excused, faults, changes, opted>>

FinishSend(i) ==
  /\ lambda[i].pc = "sent" /\ Delete(i)
  /\ UNCHANGED <<today, account, sent, twice, token, excused, faults, changes, opted>>

\* A crash: the message comes back.
Crash(i) ==
  /\ lambda[i].pc \in {"batch", "send", "sent"} /\ MayFail(TRUE)
  /\ Goto(i, [pc |-> "failed", message |-> lambda[i].message])
  /\ UNCHANGED <<today, account, queue, sent, twice, token, excused, changes, opted>>

Step(i) ==
  \/ \E m \in queue, failed \in BOOLEAN : StartDispatch(i, m, failed) \/ LoadAccount(i, m, failed)
  \/ \E batch, accepted \in SUBSET Accounts : SendBatch(i, batch, accepted)
  \/ FinishDispatch(i) \/ Skip(i) \/ NothingToSend(i) \/ Transient(i) \/ Rejected(i)
  \/ Send(i) \/ FinishSend(i) \/ Crash(i) \/ ReturnError(i)

Next ==
  \/ Midnight
  \/ \E a \in Accounts : Unsubscribe(a) \/ \E f \in {None, "daily", "weekly"} : Configure(a, f)
  \/ \E i \in Lambdas : Step(i)

Spec == Init /\ [][Next]_vars

-----------------------------------------------------------------------------
TypeOK ==
  /\ today \in 1 .. Days /\ account \in [Accounts -> {None, "daily", "weekly"}]
  /\ \A m \in queue : m.for \in Accounts \union {None} /\ m.day \in 1 .. today /\ m.receives \in 0 .. MaxReceives
  /\ token \subseteq Accounts

\* A worker about to send read the account with its digest on: if it is off now, it was
\* switched off after that, whichever day the message was queued for.
SwitchedOffIsSilent ==
  \A i \in Lambdas : lambda[i].pc = "send" =>
    LET a == lambda[i].message.for IN account[a] # None \/ opted[a] > lambda[i].opted

\* Two digests on one day need a fault (a batch taken in part, a crash, a mail that went
\* out though its send failed) or messages of two days, one of which waited.
TwiceNeedsCause ==
  \A s, t \in sent : (s # t \/ s \in twice) /\ s.for = t.for /\ s.on = t.on => faults > 0 \/ s.day # t.day

\* When all messages are gone, an account whose setting never changed has had a digest
\* for each of its days, unless there was nothing to report, or its message or the
\* day's dispatch was given up or picked up after midnight.
NobodyForgotten ==
  queue = {} /\ changes = 0 =>
    \A a \in Accounts, d \in 1 .. today :
      opted[a] = 0 /\ shouldDispatchDigest(account[a], d) =>
        {<<a, d>>, <<None, d>>} \intersect excused # {} \/ \E s \in sent : s.for = a /\ s.day = d

-----------------------------------------------------------------------------
(* Why they hold.                                                            *)

Dispatches == [for : {None}, day : 1 .. Days, n : {0}, receives : 0 .. MaxReceives]
Mailings   == [for : Accounts, day : 1 .. Days, n : Nat, receives : 0 .. MaxReceives]
Jobs ==
  {Idle} \union [pc : {"failed"}, message : Dispatches \union Mailings]
         \union [pc : {"batch"}, message : Dispatches, left : SUBSET Accounts]
         \union [pc : {"send"}, message : Mailings, opted : Nat, day : 1 .. Days]
         \union [pc : {"skip", "sent"}, message : Mailings]

StateOK ==
  /\ TypeOK /\ faults \in Nat /\ changes \in Nat /\ opted \in [Accounts -> Nat]
  /\ queue \subseteq Dispatches \union Mailings /\ lambda \in [Lambdas -> Jobs]
  /\ sent \subseteq [for : Accounts, day : 1 .. today, on : 1 .. today]
  /\ \A i \in Lambdas : lambda[i].pc = "send" => lambda[i].day <= today

\* A message is in the hands of one invocation, and no two are the same but for the
\* times they came.
Kept ==
  /\ \A i \in Lambdas : lambda[i] # Idle => lambda[i].message \in queue /\ lambda[i].message.receives > 0
  /\ \A i, j \in Lambdas : i # j /\ lambda[i] # Idle /\ lambda[j] # Idle => lambda[i].message # lambda[j].message
  /\ \A m, o \in queue : m.for = o.for /\ m.day = o.day /\ m.n = o.n => m = o

\* What a dispatch has queued was queued in this try or an earlier one; what it has yet to
\* queue was not queued in this one.
TriesDiffer ==
  /\ \A m, o \in queue : m.for = None /\ o.for # None /\ m.day = o.day => o.n <= m.receives
  /\ \A i \in Lambdas, o \in queue :
       lambda[i].pc = "batch" /\ o.for \in lambda[i].left /\ o.day = lambda[i].message.day =>
         o.n < lambda[i].message.receives

\* The worker's reading of the account is as old as what it counted.
Silent ==
  \A i \in Lambdas : lambda[i].pc = "send" =>
    LET a == lambda[i].message.for IN
    lambda[i].opted <= opted[a] /\ (account[a] # None \/ lambda[i].opted < opted[a])

\* Without a fault an account is queued once for a day, by a dispatch that had not come
\* before, and its message is sent once.
OnceEach ==
  faults = 0 =>
    /\ twice = {}
    /\ \A i \in Lambdas : lambda[i].pc # "failed"
    /\ \A m \in queue : m.receives = 0 \/ Running(m)
    /\ \A m, o \in queue : m.for # None /\ m.for = o.for /\ m.day = o.day => m = o
    /\ \A m \in queue : m.for = None /\ m.receives = 0 =>
         (\A o \in queue : o.day = m.day => o.for = None) /\ \A s \in sent : s.day # m.day
    /\ \A i \in Lambdas : lambda[i].pc = "batch" =>
         \A x \in queue \union sent : x.for \in lambda[i].left => x.day # lambda[i].message.day
    /\ \A o \in queue, s \in sent : s.for = o.for /\ s.day = o.day =>
         \E i \in Lambdas : lambda[i].pc = "sent" /\ lambda[i].message = o

\* An invocation that has the message still owes the account its digest.
Owes(w, a) == w.pc \in {"failed", "send"} \/ (w.pc = "batch" /\ a \in w.left)
Settled(a, d) == {<<a, d>>, <<None, d>>} \intersect excused # {} \/ \E s \in sent : s.for = a /\ s.day = d
Waits(a, d) ==
  \E m \in queue : /\ m.for \in {a, None} /\ m.day = d
                   /\ \A i \in Lambdas : lambda[i] # Idle /\ lambda[i].message = m => Owes(lambda[i], a)
Steady(a, d) == opted[a] = 0 /\ shouldDispatchDigest(account[a], d)

\* The digest of a day is settled or waits for its message or the day's dispatch.
Owed ==
  /\ \A i \in Lambdas : lambda[i].pc = "sent" => \E s \in sent : s.for = lambda[i].message.for /\ s.day = lambda[i].message.day
  /\ changes = 0 =>
       /\ \A a \in Accounts, d \in 1 .. today : Steady(a, d) => Settled(a, d) \/ Waits(a, d)
       /\ \A i \in Lambdas : lambda[i].pc = "skip" =>
            LET m == lambda[i].message IN Steady(m.for, m.day) => Settled(m.for, m.day)

Inductive == StateOK /\ Kept /\ TriesDiffer /\ Silent /\ OnceEach /\ Owed
=============================================================================
