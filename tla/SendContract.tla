---------------------------- MODULE SendContract ---------------------------
(***************************************************************************)
(* What the send path relies on when it hands one mail to a mailbox        *)
(* provider: a mail that is accepted was sent, one that met a refusal or   *)
(* an expired token was not, but with a request of that attempt that was   *)
(* repeated, and only an attempt whose answer leaves it open, or that met  *)
(* an expired token, is made again.                                        *)
(***************************************************************************)
EXTENDS Naturals

CONSTANT MaxAttempts

VARIABLES
  result,        \* of the attempt: "pending", or what sendMessage answered
  taken,         \* the provider has taken the mail in this attempt
  repeated,      \* the adapter has repeated its request in this attempt
  attempts

Init == result = "pending" /\ taken = FALSE /\ repeated = FALSE /\ attempts = 1

\* The adapter asks again by itself. The provider may have the mail from before.
Repeat ==
  /\ result = "pending"
  /\ repeated' = TRUE
  /\ taken' \in {taken, TRUE}
  /\ UNCHANGED <<result, attempts>>

\* How an attempt ends, as its caller sees it: of a failed one, and of one whose request
\* was repeated, it cannot tell whether the provider has the mail.
Attempt ==
  /\ result = "pending"
  /\ \/ result' = "accepted" /\ taken' = TRUE
     \/ result' = "refused" /\ taken' = taken
     \/ result' = "expired" /\ ~repeated /\ taken' = FALSE
     \/ result' = "failed" /\ taken' \in {taken, TRUE}
  /\ UNCHANGED <<repeated, attempts>>

Retry ==
  /\ result \in {"failed", "expired"}
  /\ attempts < MaxAttempts /\ attempts' = attempts + 1
  /\ result' = "pending" /\ taken' = FALSE /\ repeated' = FALSE

Next == Repeat \/ Attempt \/ Retry

Spec == Init /\ [][Next]_<<result, taken, repeated, attempts>>
=============================================================================
