---------------------------- MODULE MCPublishing ----------------------------
(* Small instances of Publishing: slots are interchangeable. *)
EXTENDS Publishing, TLC

SlotSymmetry == Permutations(Requests)

=============================================================================
