----------------------------- MODULE MCApprovals -----------------------------
(* Small instances of Approvals for TLC. *)
EXTENDS Approvals, TLC

Symmetry == Permutations(Workers) \union Permutations(Ids) \union Permutations(Requests)
=============================================================================
