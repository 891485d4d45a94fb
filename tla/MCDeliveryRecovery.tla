------------------------- MODULE MCDeliveryRecovery -------------------------
(* Small instances of DeliveryRecovery for TLC. *)
EXTENDS DeliveryRecovery, TLC

\* Operator threads and request IDs are interchangeable.
Symmetry == Permutations(Operators) \cup Permutations(Requests)
=============================================================================
