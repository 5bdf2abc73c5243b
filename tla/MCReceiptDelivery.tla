---------------------------- MODULE MCReceiptDelivery ----------------------------
(* Instances of ReceiptDelivery small enough for TLC. *)
EXTENDS ReceiptDelivery, TLC

\* Twin receipts of one order are interchangeable.
Symmetry == Permutations(Receipts)
=============================================================================
