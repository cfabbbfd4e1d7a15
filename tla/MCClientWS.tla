----------------------------- MODULE MCClientWS -----------------------------
(* Instances of ClientWS for TLC. *)
EXTENDS ClientWS, TLC

CONSTANTS c1, c2, w1, w2, r1, r2, g1

\* Both connections belong to the first client, or one to each.
MCReconnecting == [w \in Writers |-> c1]
MCOneEach == w1 :> c1 @@ w2 :> c2
MCGroupOfCall == [r \in Requests |-> g1]
MCNoPreference == [r \in Requests |-> None]
MCClaimGroup == [w \in Writers |-> g1]
MCClaimLimit == [w \in Writers |-> 1]
MCClaimGrowing == w1 :> 1 @@ w2 :> 2   \* a new token raises the limit
=============================================================================
