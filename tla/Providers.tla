----------------------------- MODULE Providers -----------------------------
(***************************************************************************)
(* The providers' side of a reply or forward that goes out through the     *)
(* user's own mailbox: what each adapter asks of its provider, what the    *)
(* answers become, the requests the JMAP adapter repeats by itself, and    *)
(* the retries of the draft send worker.                                   *)
(*                                                                         *)
(* A request that is answered by a status of 500 or more, or not at all,   *)
(* may have had its effect.                                                *)
(***************************************************************************)
EXTENDS Integers, FiniteSets

CONSTANTS
  Platforms,     \* of "gmail", "outlook", "jmap" and "imap"
  MaxAttempts,   \* receives of the draft send message
  MaxEvents      \* bound on the requests that go wrong

VARIABLES
  platform,
  pc,            \* the request that is next, or "done"
  result,        \* of this attempt
  taken,         \* this attempt's mail is on its way
  attempts,
  repeats,       \* times this attempt's request to send was repeated
  sent,          \* mails on their way
  drafts,        \* drafts and imported mails left in the mailbox
  threadable,    \* the Message-ID the provider gave the mail is known
  unclear,       \* history: requests to send without an answer that settles it
  events

vars == <<platform, pc, result, taken, attempts, repeats, sent, drafts, threadable,
          unclear, events>>

Event == events < MaxEvents /\ events' = events + 1
Done(r) == result' = r /\ pc' = "done"

Init ==
  /\ platform \in Platforms
  /\ pc = "token" /\ result = "pending" /\ taken = FALSE
  /\ attempts = 1 /\ repeats = 0
  /\ sent = 0 /\ drafts = 0 /\ threadable = FALSE /\ unclear = 0 /\ events = 0

mailbox == <<sent, drafts, threadable, unclear>>
effects == <<taken, repeats, mailbox>>

MaxRepeats == 4  \* of a request to a JMAP server (fetchWithRetry)

\* The step in which the mail is handed over.
Handover == CASE platform = "outlook" -> "draft"
              [] platform = "jmap"    -> "upload"
              [] OTHER                -> "send"

\* A token, or the stored password; none is a failure that may pass.
GetToken ==
  /\ pc = "token"
  /\ \/ pc' = Handover /\ UNCHANGED <<result, events>>
     \/ Event /\ Done("failed")
  /\ UNCHANGED <<platform, attempts, effects>>

\* 401, 403 or another 4xx: the request had no effect.
Refused ==
  /\ Event
  /\ \E r \in {"refused"} \union (IF platform \in {"gmail", "outlook"} THEN {"expired"} ELSE {}) : Done(r)

\* 5xx, a timeout or a broken connection.
NoAnswer(effect) == Event /\ Done("failed")

\* Outlook: the message is created as a draft first, for its Message-ID.
CreateDraft ==
  /\ pc = "draft"
  /\ \/ drafts' = drafts + 1 /\ pc' = "send" /\ UNCHANGED <<result, events>>
     \/ Refused /\ UNCHANGED drafts
     \/ NoAnswer("draft") /\ drafts' \in {drafts, drafts + 1}
  /\ UNCHANGED <<platform, attempts, taken, repeats, sent, threadable, unclear>>

\* JMAP: the session, the blob, the identity and the mailboxes.  A server that cannot
\* submit mail refuses; everything else may pass. These requests may be repeated too,
\* which changes nothing that is kept.
PrepareJmap ==
  /\ pc = "upload"
  /\ \/ pc' = "send" /\ UNCHANGED <<result, events>>
     \/ Event /\ \E r \in {"refused", "failed"} : Done(r)
  /\ UNCHANGED <<platform, attempts, effects>>

Sending ==
  /\ taken' = TRUE /\ sent' = sent + 1
  /\ drafts' = IF platform = "outlook" THEN drafts - 1 ELSE drafts

\* What is left in the mailbox of a JMAP mail that was imported and not submitted.
Imported == IF platform = "jmap" THEN drafts + 1 ELSE drafts

\* Gmail reads the Message-ID back, which may fail; Outlook had it with the draft; SMTP
\* answers with it; JMAP does not say.
Known == CASE platform = "gmail"             -> {TRUE, FALSE}
           [] platform \in {"outlook", "imap"} -> {TRUE}
           [] OTHER                          -> {FALSE}

\* JMAP: an answer of 5xx, 408 or 429, or none, and the request that imports and submits
\* the mail is made again, though it may have imported it, or sent it.
Repeat ==
  /\ pc = "send" /\ platform = "jmap"
  /\ repeats < MaxRepeats /\ repeats' = repeats + 1
  /\ Event
  /\ \/ UNCHANGED <<taken, mailbox>>
     \/ Sending /\ unclear' = unclear + 1 /\ UNCHANGED threadable
     \/ drafts' \in {drafts, Imported} /\ unclear' = unclear + 1
        /\ UNCHANGED <<taken, sent, threadable>>
  /\ UNCHANGED <<platform, pc, result, attempts>>

Send ==
  /\ pc = "send"
  /\ \/ Sending /\ Done("accepted") /\ threadable' \in Known /\ UNCHANGED <<unclear, events>>
     \/ Refused /\ drafts' = Imported /\ UNCHANGED <<taken, sent, threadable, unclear>>
     \/ platform = "jmap" /\ NoAnswer("import") /\ UNCHANGED <<taken, mailbox>>
     \/ NoAnswer("send") /\ Sending /\ unclear' = unclear + 1 /\ UNCHANGED threadable
     \/ NoAnswer("send") /\ drafts' \in {drafts, Imported} /\ unclear' = unclear + 1
        /\ UNCHANGED <<taken, sent, threadable>>
  /\ UNCHANGED <<platform, attempts, repeats>>

\* Mutant: the worker retries whatever went wrong.
RetryAll == pc = "done" /\ result # "accepted"
MayRetry == pc = "done" /\ result \in {"failed", "expired"}

\* The draft send worker: the two kinds of refusal are permanent, the rest goes back to
\* the queue.
Retry ==
  /\ MayRetry
  /\ attempts < MaxAttempts /\ attempts' = attempts + 1
  /\ pc' = "token" /\ result' = "pending" /\ taken' = FALSE /\ repeats' = 0
  /\ UNCHANGED <<platform, mailbox, events>>

Next == GetToken \/ CreateDraft \/ PrepareJmap \/ Repeat \/ Send \/ Retry

Spec == Init /\ [][Next]_vars

-----------------------------------------------------------------------------
TypeOK ==
  /\ pc \in {"token", "draft", "upload", "send", "done"}
  /\ result \in {"pending", "accepted", "refused", "expired", "failed"}
  /\ {attempts, sent, drafts, unclear} \subseteq Nat
  /\ repeats \in 0..MaxRepeats

\* A mail goes out twice only after a request to send that nothing answered, whether the
\* worker or the adapter made the next one: an error that is retried otherwise left
\* nothing sent.
TwiceNeedsSilence == sent <= unclear + 1

\* A mail the user is told was refused went out only with a request nothing answered:
\* of an earlier attempt, or, as only JMAP repeats a request, of this one.
RefusedIsNotSent ==
  result = "refused" => /\ taken => platform = "jmap" /\ repeats > 0
                        /\ sent <= unclear

Contract == INSTANCE SendContract WITH repeated <- repeats > 0

\* Every adapter, with the steps it takes, keeps what the send path relies on.
ContractKept == Contract!Spec
=============================================================================
