---------------------------- MODULE MCExchanges ----------------------------
(* TLC values for Exchanges.                                                 *)
EXTENDS Exchanges, TLC

CONSTANTS m1, m2

\* Two mails show a batch and its rest; the other mailbox needs one.
MCMaxMails == [m \in Mailboxes |-> IF m = m1 THEN 2 ELSE 1]

Symmetry == Permutations(Runs)
=============================================================================
