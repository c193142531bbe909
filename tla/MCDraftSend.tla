---------------------------- MODULE MCDraftSend ----------------------------
(***************************************************************************)
(* Instances of DraftSend for TLC.  Requests are interchangeable, and so   *)
(* are workers.                                                            *)
(***************************************************************************)
EXTENDS DraftSend, TLC

Symmetry == Permutations(Requests) \union Permutations(Workers)
=============================================================================
