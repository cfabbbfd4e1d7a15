------------------------------- MODULE MCHub --------------------------------
(* Instances of Hub for TLC. *)
EXTENDS Hub, TLC

CONSTANTS c1, c2, w1, r1, r2, g1

MCClientOf == w1 :> c1
MCGroupOfCall == [r \in Requests |-> g1]
MCSymmetry == Permutations(Sessions)
MCPreferred == r1 :> None @@ r2 :> c1
=============================================================================
