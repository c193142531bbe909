----------------------------- MODULE MCInbound -----------------------------
(***************************************************************************)
(* Instances of InboundPipeline for TLC.  Workers are interchangeable, and *)
(* so are messages, and mails as long as none of them is an invitation.    *)
(***************************************************************************)
EXTENDS InboundPipeline, TLC

Symmetry ==
  Permutations(Workers) \union Permutations(Messages) \union Permutations(Mails)
=============================================================================
