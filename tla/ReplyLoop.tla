----------------------------- MODULE ReplyLoop -----------------------------
(***************************************************************************)
(* Accounts that answer each other's mail by themselves: the pong of the   *)
(* side effects, and the auto-draft that the draft-send worker mails.  Both*)
(* go through ReplySenderService.sendReply, whose guard refuses a mail that*)
(* would carry a hop count beyond its limit.  Only what bounds the exchange*)
(* is modelled: the hop count and the Auto-Submitted header.               *)
(***************************************************************************)
EXTENDS Naturals, Sequences

CONSTANTS
  Accounts,
  AutoReply,     \* accounts with a rule that drafts and sends an answer
  MaxHopCount,   \* MAX_HOP_COUNT of ses-tags.ts
  MaxMails       \* bound on the mails of a behaviour

VARIABLES
  mails,     \* every mail sent: sender, recipient, headers, length of its chain
  arrived,   \* how many of them have been through their side effects
  outbox     \* drafts that are pending_send, in the order they were saved

vars == <<mails, arrived, outbox>>

Init ==
  /\ mails = <<>>
  /\ arrived = 0
  /\ outbox = <<>>

\* sendReply: one hop more than the mail it is told it answers, within the limit.
SendReply(from, to, hopCount, automated, chain) ==
  IF hopCount + 1 > MaxHopCount
  THEN UNCHANGED mails
  ELSE /\ Len(mails) < MaxMails
       /\ mails' = Append(mails, [from |-> from, to |-> to, hops |-> hopCount + 1,
                                  automated |-> automated, chain |-> chain])

\* A user writes a mail.
Compose(from, to) ==
  /\ from # to
  /\ mails = <<>>
  /\ SendReply(from, to, 0, FALSE, 0)
  /\ UNCHANGED <<arrived, outbox>>

\* The side effects of the next mail: whether it is the moment for a pong depends
\* on its recipient's account; the rule of an AutoReply account drafts an answer.
\* The draft's own headers are empty.
Arrive ==
  /\ arrived < Len(mails)
  /\ LET mail == mails[arrived + 1]
     IN  /\ \/ UNCHANGED mails
            \/ /\ ~mail.automated
               /\ SendReply(mail.to, mail.from, mail.hops, TRUE, mail.chain + 1)
         /\ outbox' = IF mail.to \in AutoReply /\ ~mail.automated
                      THEN Append(outbox, [from |-> mail.to, to |-> mail.from,
                                           chain |-> mail.chain + 1])
                      ELSE outbox
  /\ arrived' = arrived + 1

\* The worker passes the hop count it parses from the draft's headers.
SendDraft ==
  /\ outbox # <<>>
  /\ LET draft == Head(outbox)
     IN  SendReply(draft.from, draft.to, 0, FALSE, draft.chain)
  /\ outbox' = Tail(outbox)
  /\ UNCHANGED arrived

Next ==
  \/ \E from, to \in Accounts : Compose(from, to)
  \/ Arrive
  \/ SendDraft

Spec == Init /\ [][Next]_vars

\* "every send through this funnel (draft sends, auto-replies, pongs) increments
\* the hop count carried on the message it answers": no chain of answers that
\* nobody wrote is longer than the limit.
LoopBounded == \A i \in DOMAIN mails : mails[i].chain < MaxHopCount
=============================================================================
