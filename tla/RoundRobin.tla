----------------------------- MODULE RoundRobin -----------------------------
(***************************************************************************)
(* The fairness of the rotation in pickSession (src/internal/rpc/hub.go):  *)
(* the registry with two history variables, which only the properties      *)
(* read.  A device is a candidate of a pick when it is online in the group *)
(* and its queue has room; the promise is about devices that stay          *)
(* candidates while others fill up, leave and come back.                   *)
(***************************************************************************)
EXTENDS Registry

ASSUME DevicesAssumption == IsFiniteSet(Clients)

VARIABLES
  turns,   \* <<x, y>> -> picks of y since x was last picked, with x a
           \* candidate at each of them and the order of x's group unchanged
  waited   \* x -> picks of other devices of x's group since x was last
           \* picked or was last not a candidate, whatever the others did

rrVars == <<regVars, turns, waited>>

\* With N > 1 devices, N-1 picks are a whole round without x.  Every device
\* listed before x can leave once and come back only behind x; each time the
\* cursor, which is an index, may step over x and a new round begins.  The
\* last of those rounds is one pick shorter.  A device alone waits for nobody.
Patience ==
  LET n == Cardinality(Clients) IN IF n <= 1 THEN 0 ELSE n * (n - 1) - 1

Candidates(g, full) ==
  {groupOrder[g][i] : i \in CandidatePositions(g, full)}

CapAt(n, k) == IF k > n THEN n ELSE k    \* the histories are finite counters

CountPick(g, full) ==
  LET picked == PickedClient(g, full)
      passedOver(x) == x \in Candidates(g, full) \ {picked}
      elsewhere(x) == x \notin Range(groupOrder[g])
  IN
  /\ turns' = [p \in Clients \X Clients |->
       IF elsewhere(p[1]) THEN turns[p]
       ELSE IF ~passedOver(p[1]) THEN 0
       ELSE IF p[2] = picked THEN CapAt(2, turns[p] + 1) ELSE turns[p]]
  /\ waited' = [x \in Clients |->
       IF elsewhere(x) THEN waited[x]
       ELSE IF passedOver(x) THEN CapAt(Patience + 1, waited[x] + 1) ELSE 0]

\* A registration or an unregistration: whoever's group has a new order
\* starts counting turns afresh, whoever left or moved forgets both.
RosterStep ==
  /\ \E c \in Clients :
       \/ Unregister(c)
       \/ \E g \in Groups, asked \in Limits :
            RegisterExisting(c, g, asked) \/ \E s \in Sessions : RegisterNew(c, g, asked, s)
  /\ turns' = [p \in Clients \X Clients |->
       IF \E g \in Groups : /\ p[1] \in Range(groupOrder[g])
                            /\ groupOrder'[g] = groupOrder[g]
       THEN turns[p] ELSE 0]
  /\ waited' = [x \in Clients |->
       IF \E g \in Groups : x \in Range(groupOrder[g]) \cap Range(groupOrder'[g])
       THEN waited[x] ELSE 0]

RRInit ==
  /\ RegInit
  /\ turns = [p \in Clients \X Clients |-> 0]
  /\ waited = [x \in Clients |-> 0]

RRNext ==
  \/ \E g \in Groups, full \in SUBSET Range(sessions) :
       PickRoundRobin(g, full) /\ CountPick(g, full)
  \/ RosterStep

RRSpec == RRInit /\ [][RRNext]_rrVars

-----------------------------------------------------------------------------
\* While nobody joins or leaves a group, no device of it gets two calls in a
\* row ahead of another one that could have taken both: the cursor and the
\* skipping of full queues keep the rotation (pickSession).
NoOvertaking == \A p \in Clients \X Clients : turns[p] <= 1

\* A device that stays online with room in its queue gets a call within a
\* bounded number of picks of its group, even while other devices leave and
\* come back and the cursor is left pointing past the shifted entries
\* (removeClientFromGroup keeps the index, not the device it pointed at).
BoundedWait == \A x \in Clients : waited[x] <= Patience
=============================================================================
