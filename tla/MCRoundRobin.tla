---------------------------- MODULE MCRoundRobin ----------------------------
(* Instances of RoundRobin for TLC: no writers, every client in turn. *)
EXTENDS RoundRobin, TLC

LOCAL SE == INSTANCE SequencesExt

MCClientOf == [w \in {} |-> None]
MCSymmetry ==
  Permutations(Clients) \cup Permutations(Sessions) \cup Permutations(Groups)

\* Without removes the element SequencesExt!Remove removes, from every
\* sequence without duplicates.
ASSUME WithoutIsRemove ==
  \A n \in 0..3 : \A order \in [1..n -> 1..4] :
    IsInjective(order) => \A c \in 1..4 : Without(order, c) = SE!Remove(order, c)
=============================================================================
