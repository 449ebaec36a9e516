----------------------------- MODULE MCPetStore -----------------------------
(***************************************************************************)
(* A small instance of PetStore for TLC.                                    *)
(***************************************************************************)
EXTENDS PetStore, TLC

\* Requests differ only in their names.
RequestSymmetry == Permutations(Requests)
=============================================================================
