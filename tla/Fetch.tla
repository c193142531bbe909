------------------------------- MODULE Fetch -------------------------------
(***************************************************************************)
(* From a queued emx_inbound message to a signal: the worker reads the     *)
(* exchange, fetches the mail from the mailbox, keeps the raw mail under a *)
(* key made of the exchange and the provider's id, and hands it to         *)
(* processInbound.  The queue delivers again what ended in an error.       *)
(*                                                                         *)
(* An IMAP message carries a UID, which names a mail of whatever mailbox   *)
(* the exchange points at when the worker looks.  The ids of the other     *)
(* providers name one mail only.  processInbound is one step here.         *)
(***************************************************************************)
EXTENDS Integers, FiniteSets

CONSTANTS
  Kinds,         \* of TRUE (the ids are UIDs) and FALSE, the ones to consider
  Boxes,         \* mailboxes the exchange may point at, or rebuilt to
  Uids, None,
  Lambdas,
  MaxQueued,     \* bound on the messages
  MaxReceives,   \* deliveries before SQS gives a message up
  MaxEvents      \* bound on failures, crashes and requests, taken together

VARIABLES
  uids,          \* the ids are UIDs
  box,           \* mailbox of the exchange; None when it is deleted
  alias,         \* the mailbox's address has its alias
  expunged,      \* mails no longer in their mailbox
  queue,         \* messages: [id, mail, receives]
  lambda,
  raw,           \* S3: [key -> None or mail]
  signal,        \* [key -> None or the mail it was made from]
  used,          \* mails a message was queued for
  skipped,       \* history: mails given up because the token had expired
  dead,          \* history: messages given up by SQS
  moved,         \* history: the exchange was pointed elsewhere
  queuedCount, events

vars == <<uids, box, alias, expunged, queue, lambda, raw, signal, used, skipped, dead, moved, queuedCount, events>>
mailbox == <<uids, box, alias, expunged>>
past == <<used, skipped, dead, moved, queuedCount>>

Mails == Boxes \X Uids

Idle == [pc |-> "idle"]
Goto(i, w) == lambda' = [lambda EXCEPT ![i] = w]
Event == events < MaxEvents /\ events' = events + 1

\* The composite id: UIDs repeat between mailboxes, so the exchange is part of the key;
\* other ids differ.
Key(mail) == IF uids THEN <<None, mail[2]>> ELSE mail
Keys == (Boxes \union {None}) \X Uids

Init ==
  /\ uids \in Kinds /\ box \in Boxes /\ alias = TRUE /\ expunged = {}
  /\ queue = {} /\ lambda = [i \in Lambdas |-> Idle]
  /\ raw = [k \in Keys |-> None] /\ signal = [k \in Keys |-> None]
  /\ used = {} /\ skipped = {} /\ dead = {} /\ moved = FALSE
  /\ queuedCount = 0 /\ events = 0

-----------------------------------------------------------------------------
(* The mailbox, the user, and what queues mails (Exchanges); a mail may be   *)
(* queued again.                                                             *)

Enqueue(uid) ==
  /\ box # None /\ <<box, uid>> \notin expunged
  /\ queuedCount < MaxQueued /\ queuedCount' = queuedCount + 1
  /\ queue' = queue \union {[id |-> queuedCount', mail |-> <<box, uid>>, receives |-> 0]}
  /\ used' = used \union {<<box, uid>>}
  /\ UNCHANGED <<mailbox, lambda, raw, signal, skipped, dead, moved, events>>

MoveExchange(b) ==
  /\ box # None /\ b # box /\ Event
  /\ box' = b /\ moved' = TRUE
  /\ UNCHANGED <<uids, alias, expunged, queue, lambda, raw, signal, used, skipped, dead, queuedCount>>

DeleteExchange ==
  /\ box # None /\ Event
  /\ box' = None
  /\ UNCHANGED <<uids, alias, expunged, queue, lambda, raw, signal, past>>

RemoveAlias ==
  /\ alias /\ Event /\ alias' = FALSE
  /\ UNCHANGED <<uids, box, expunged, queue, lambda, raw, signal, past>>

Expunge(mail) ==
  /\ mail \notin expunged /\ Event
  /\ expunged' = expunged \union {mail}
  /\ UNCHANGED <<uids, box, alias, queue, lambda, raw, signal, past>>

-----------------------------------------------------------------------------
(* The worker.                                                               *)

Running(m) == \E i \in Lambdas : lambda[i].pc # "idle" /\ lambda[i].message = m

\* getExternalExchange: an exchange that is gone is an error, one that is not active
\* is not.
Receive(i, m) ==
  LET n == [m EXCEPT !.receives = @ + 1] IN
  /\ lambda[i] = Idle /\ m \in queue /\ ~Running(m)
  /\ queue' = (queue \ {m}) \union {n}
  /\ \/ Goto(i, [pc |-> IF box = None THEN "failed" ELSE "fetch", message |-> n, box |-> box]) /\ UNCHANGED events
     \/ Event /\ Goto(i, [pc |-> "failed", message |-> n, box |-> box])
  /\ UNCHANGED <<mailbox, raw, signal, past>>

\* What the provider has under the id now.
Found(w) == IF uids THEN <<w.box, w.message.mail[2]>> ELSE w.message.mail

There(w) == Found(w) \notin expunged /\ (uids \/ w.message.mail[1] = w.box)

Fail(i) == Goto(i, [lambda[i] EXCEPT !.pc = "failed"])

\* fetchMessage.  A mail that is gone is an error, and so is every other failure.
Fetch(i) ==
  LET w == lambda[i] IN
  /\ w.pc = "fetch"
  /\ \/ There(w) /\ Goto(i, [w EXCEPT !.pc = "save", !.box = Found(w)]) /\ UNCHANGED events
     \/ ~There(w) /\ Fail(i) /\ UNCHANGED events
     \/ Event /\ Fail(i)
  /\ UNCHANGED <<mailbox, queue, raw, signal, past>>

\* Gmail and Outlook: a token that has expired ends the message without a retry.
TokenExpired(i) ==
  LET w == lambda[i] IN
  /\ w.pc = "fetch" /\ ~uids /\ Event
  /\ skipped' = skipped \union {w.message.mail}
  /\ queue' = queue \ {w.message}
  /\ Goto(i, Idle)
  /\ UNCHANGED <<mailbox, raw, signal, used, dead, moved, queuedCount>>

\* saveRawEmail.
SaveRaw(i) ==
  LET w == lambda[i] IN
  /\ w.pc = "save"
  /\ \/ raw' = [raw EXCEPT ![Key(w.message.mail)] = w.box] /\ Goto(i, [w EXCEPT !.pc = "process"]) /\ UNCHANGED events
     \/ Event /\ Fail(i) /\ UNCHANGED raw
  /\ UNCHANGED <<mailbox, queue, signal, past>>

Delete(i) == queue' = queue \ {lambda[i].message} /\ Goto(i, Idle)

\* The error goes to SQS, which moves the message to the dead letters in the end.
ReturnError(i) ==
  LET m == lambda[i].message IN
  /\ lambda[i].pc = "failed"
  /\ IF m.receives < MaxReceives
       THEN Goto(i, Idle) /\ UNCHANGED <<queue, dead>>
       ELSE Delete(i) /\ dead' = dead \union {m.mail}
  /\ UNCHANGED <<mailbox, raw, signal, used, skipped, moved, queuedCount, events>>

\* No account has the address: the alias is put in place, and the message retried.
SelfHeal(i) ==
  /\ lambda[i].pc = "process" /\ ~alias
  /\ \/ alias' = TRUE /\ UNCHANGED events
     \/ Event /\ UNCHANGED alias
  /\ Fail(i)
  /\ UNCHANGED <<uids, box, expunged, queue, raw, signal, past>>

\* processInbound reads the raw mail, unless there is a signal of that id already.
Process(i) ==
  LET k == Key(lambda[i].message.mail) IN
  /\ lambda[i].pc = "process" /\ alias
  /\ \/ /\ signal' = [signal EXCEPT ![k] = IF @ = None THEN raw[k] ELSE @]
        /\ Delete(i) /\ UNCHANGED events
     \/ Event /\ Fail(i) /\ UNCHANGED <<signal, queue>>
  /\ UNCHANGED <<mailbox, raw, past>>

Crash(i) ==
  /\ lambda[i].pc \notin {"idle", "failed"} /\ Event /\ Fail(i)
  /\ UNCHANGED <<mailbox, queue, raw, signal, past>>

Next ==
  \/ \E uid \in Uids : Enqueue(uid)
  \/ \E b \in Boxes : MoveExchange(b)
  \/ DeleteExchange \/ RemoveAlias
  \/ \E mail \in Mails : Expunge(mail)
  \/ \E i \in Lambdas :
       \/ \E m \in queue : Receive(i, m)
       \/ Fetch(i) \/ TokenExpired(i) \/ SaveRaw(i) \/ SelfHeal(i) \/ Process(i)
       \/ ReturnError(i) \/ Crash(i)

Spec == Init /\ [][Next]_vars

-----------------------------------------------------------------------------
TypeOK ==
  /\ box \in Boxes \union {None}
  /\ \A m \in queue : m.mail \in used /\ m.receives \in 0 .. MaxReceives
  /\ \A k \in Keys : {raw[k], signal[k]} \subseteq Mails \union {None}

\* The raw mail kept for a signal is the one it was made from, however messages of one
\* mail overlap, unless the ids are UIDs and the exchange has been pointed elsewhere.
RawIsItsMail ==
  \A k \in Keys : signal[k] # None => raw[k] = signal[k] \/ (uids /\ moved)

\* A mail that was queued becomes a signal, unless its token had expired, SQS gave its
\* message up, or its UID stood for a mail of another mailbox.
NothingVanishes ==
  \A mail \in used :
    \/ \E m \in queue : m.mail = mail
    \/ mail \in skipped \union dead
    \/ signal[Key(mail)] # None /\ (signal[Key(mail)] = mail \/ (uids /\ moved))

\* SQS gives a message up only when the exchange or the mail is gone, or every single
\* delivery met a failure of its own: a missing alias costs one delivery, not the mail.
DeadNeedsCauses ==
  dead # {} => box = None \/ expunged # {} \/ moved \/ events >= MaxReceives
=============================================================================
