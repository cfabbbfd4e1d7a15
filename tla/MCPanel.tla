------------------------------ MODULE MCPanel -------------------------------
(***************************************************************************)
(* The instance of Panel that is model-checked: two groups that come and   *)
(* go, a filter whose list is shorter than the whole and shrinks.          *)
(***************************************************************************)
EXTENDS Panel

CONSTANTS g1, g2

MCHooks == {"first", "second"}
MCSlots == {1, 2}
MCFilters == {"all", "some"}
MCGroupsAt == [v \in 0..MaxNow |-> IF v = 0 THEN <<g1, g2>> ELSE <<g2>>]
MCPagesAt ==
  [f \in MCFilters |->
     [v \in 0..MaxNow |-> IF f = "all" /\ v = 0 THEN 2 ELSE 1]]
MCPublic == {<<"queue", None>>, <<"queue", g1>>, <<"queue", g2>>}
MCQueries ==
  {<<"trends">>, <<"groups">>, <<"users">>}
    \cup {<<"devices", s>> : s \in MCFilters}
    \cup MCPublic \cup {<<"actions", g1>>, <<"actions", g2>>}
    \cup ({"list"} \X MCFilters \X (1..3))
=============================================================================
