------------------------- MODULE MCApprovalRequest -------------------------
(* Named approvers, one of whom asked for the approval. *)
EXTENDS ApprovalRequest

CONSTANTS ann, bob, cat
=============================================================================
