--------------------------- MODULE MCSideEffects ---------------------------
(* TLC values for SideEffects: mails whose effects meet.                     *)
EXTENDS SideEffects, TLC

CONSTANTS t1, t2

Plain == [forwards |-> <<>>, quiet |-> TRUE, otp |-> FALSE, own |-> FALSE,
          test |-> FALSE, automated |-> FALSE, reply |-> "none", safe |-> TRUE,
          invite |-> FALSE]

MCMails == {
  \* A forward to a live and one to a dead address, and an answer.
  [Plain EXCEPT !.forwards = <<t1, t2>>, !.reply = "send"],
  \* Two rules with one target, a notification, an invitation.
  [Plain EXCEPT !.forwards = <<t1, t1>>, !.quiet = FALSE, !.invite = TRUE],
  \* The owner's test mail.
  [Plain EXCEPT !.own = TRUE, !.test = TRUE, !.reply = "send", !.safe = FALSE],
  \* An owner's code: the thread is archived before the pong is considered.
  [Plain EXCEPT !.own = TRUE, !.otp = TRUE, !.reply = "draft"],
  \* An automated mail of an own domain.
  [Plain EXCEPT !.own = TRUE, !.automated = TRUE, !.reply = "send",
                !.forwards = <<t1>>] }

Symmetry == Permutations(Workers)
=============================================================================
