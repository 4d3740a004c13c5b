--------------------------- MODULE MCMasterRegistry ---------------------------
(* Instances of MasterRegistry for TLC. *)
EXTENDS MasterRegistry, TLC

MCSymmetry == Permutations(ActorIds) \cup Permutations(Addrs)

================================================================================
