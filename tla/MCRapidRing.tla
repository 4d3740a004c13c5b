------------------------------ MODULE MCRapidRing ------------------------------
(* Instances of RapidRing for TLC. *)
EXTENDS RapidRing, TLC

ReaderSymmetry == Permutations(Readers)

================================================================================
