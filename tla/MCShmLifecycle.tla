---------------------------- MODULE MCShmLifecycle ----------------------------
(* Instances of ShmLifecycle for TLC. *)
EXTENDS ShmLifecycle, TLC

MCSymmetry == Permutations(Writers) \cup Permutations(Readers)

================================================================================
