------------------------------ MODULE MCRoster ------------------------------
(***************************************************************************)
(* The instance of Roster that is model-checked.                           *)
(***************************************************************************)
EXTENDS Roster, TLC

OpSymmetry == Permutations(Ops)
=============================================================================
