----------------------------- MODULE MailIntake -----------------------------
(***************************************************************************)
(* What the inbound pipeline promises of every mail it takes in: the mail  *)
(* is decided once; a mail admitted to the inbox becomes searchable before *)
(* its side effects (forwards, notifications, drafts) are released; and an *)
(* admitted mail has them released sooner or later.                        *)
(***************************************************************************)
CONSTANTS
  Mails,
  Decisions,    \* what a mail can be decided to be
  NoDecision,
  Admitted      \* those but NoDecision that let a mail into the inbox

VARIABLES
  decision,     \* of each mail
  searchable,   \* mails whose vectors are in the index
  released      \* mails whose side effects have been handed over

vars == <<decision, searchable, released>>

TypeOK ==
  /\ decision \in [Mails -> Decisions]
  /\ searchable \subseteq Mails
  /\ released \subseteq Mails

Init ==
  /\ decision = [e \in Mails |-> NoDecision]
  /\ searchable = {}
  /\ released = {}

Decide(e) ==
  /\ decision[e] = NoDecision
  /\ decision'[e] \in Decisions \ {NoDecision}
  /\ decision' = [decision EXCEPT ![e] = decision'[e]]
  /\ UNCHANGED <<searchable, released>>

Index(e) ==
  /\ decision[e] \in Admitted
  /\ e \notin searchable
  /\ searchable' = searchable \union {e}
  /\ UNCHANGED <<decision, released>>

Release(e) ==
  /\ e \in searchable
  /\ e \notin released
  /\ released' = released \union {e}
  /\ UNCHANGED <<decision, searchable>>

Next == \E e \in Mails : Decide(e) \/ Index(e) \/ Release(e)

Fairness == \A e \in Mails : WF_vars(Index(e)) /\ WF_vars(Release(e))

Spec == Init /\ [][Next]_vars

FairSpec == Spec /\ Fairness
=============================================================================
