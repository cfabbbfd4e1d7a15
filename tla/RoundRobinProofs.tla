-------------------------- MODULE RoundRobinProofs --------------------------
(***************************************************************************)
(* The rotation of pickSession proved for groups of any size.              *)
(*                                                                         *)
(* The argument follows the cursor.  A pick puts it just behind the device *)
(* it picked, which is now last in the round, and moves everyone it passed *)
(* over nearer to the front by the same number of steps.  So once y was    *)
(* picked ahead of a candidate x, x comes before y in the round until x is *)
(* picked; a second pick of y would have to pass x, which it may not.      *)
(*                                                                         *)
(* While others come and go the round can shift under the cursor, so the   *)
(* second argument counts: AtWorst bounds the picks a device may still     *)
(* have to wait from its place and the cursor alone; a pick of another     *)
(* lowers it, and nobody's coming or leaving raises it.                    *)
(***************************************************************************)
EXTENDS RoundRobin, RegistryProofs, FiniteSetTheorems

-----------------------------------------------------------------------------
(* Steps around a round of n positions, from the cursor s *)

Around(n, s, i) == IF i - 1 >= s THEN i - 1 - s ELSE i - 1 - s + n
Behind(n, i) == IF i = n THEN 0 ELSE i

\* Remainders where they are used: of numbers between -n and n.
LEMMA ModSmall ==
  ASSUME NEW n \in Nat \ {0}, NEW a \in Int, -n <= a, a <= n
  PROVE  a % n = IF a < 0 THEN (IF a = -n THEN 0 ELSE a + n)
                 ELSE IF a = n THEN 0 ELSE a
OBVIOUS

LEMMA AroundBounds ==
  ASSUME NEW n \in Nat \ {0}, NEW s \in 0..(n - 1),
         NEW i \in 1..n, NEW j \in 1..n
  PROVE  /\ Around(n, s, i) \in 0..(n - 1)
         /\ Around(n, s, i) = Around(n, s, j) => i = j
BY DEF Around

\* The cursor moves behind position k: k is last now, and who was further
\* away than k is nearer by as many steps as the search took.
LEMMA Moved ==
  ASSUME NEW n \in Nat \ {0}, NEW s \in 0..(n - 1),
         NEW k \in 1..n, NEW i \in 1..n
  PROVE  /\ Behind(n, k) \in 0..(n - 1)
         /\ Around(n, Behind(n, k), k) = n - 1
         /\ Around(n, s, i) > Around(n, s, k) =>
              Around(n, Behind(n, k), i) = Around(n, s, i) - Around(n, s, k) - 1
BY DEF Around, Behind

LEMMA SearchIsAround ==
  ASSUME NEW n \in Nat \ {0}, NEW s \in 0..(n - 1), NEW i \in 1..n
  PROVE  (i - 1 - s) % n = Around(n, s, i)
<1>1. /\ i - 1 - s \in Int
      /\ -n <= i - 1 - s /\ i - 1 - s <= n
      /\ i - 1 - s # -n /\ i - 1 - s # n
  OBVIOUS
<1>2. (i - 1 - s) % n = IF i - 1 - s < 0 THEN i - 1 - s + n ELSE i - 1 - s
  BY <1>1, ModSmall
<1> QED BY <1>1, <1>2 DEF Around

LEMMA OffsetIsAround ==
  ASSUME RegTypeOK, NEW g \in Groups, NEW i \in 1..Len(groupOrder[g])
  PROVE  /\ Len(groupOrder[g]) \in Nat \ {0}
         /\ Start(g) \in 0..(Len(groupOrder[g]) - 1)
         /\ Offset(g, i) = Around(Len(groupOrder[g]), Start(g), i)
<1> DEFINE n == Len(groupOrder[g])
           s == Start(g)
<1>1. n \in Nat /\ groupCursor[g] \in Nat
  BY LenProperties DEF RegTypeOK
<1>2. n \in Nat \ {0}
  BY <1>1
<1>3. s \in 0..(n - 1)
  BY <1>1, <1>2 DEF Start
<1>4. Offset(g, i) = (i - 1 - s) % n
  BY DEF Offset
<1>5. i \in 1..n
  OBVIOUS
<1> HIDE DEF n, s
<1>6. Offset(g, i) = Around(n, s, i)
  BY <1>2, <1>3, <1>4, <1>5, SearchIsAround
<1> QED BY <1>2, <1>3, <1>6 DEF n, s

-----------------------------------------------------------------------------
(* RoundRobin is the registry with histories *)

LEMMA RRStepIsRegStep == RegTypeOK /\ [RRNext]_rrVars => [RegNext]_regVars
<1> SUFFICES ASSUME RegTypeOK, [RRNext]_rrVars PROVE [RegNext]_regVars
  OBVIOUS
<1>1. ASSUME NEW g \in Groups, NEW full \in SUBSET Range(sessions),
             PickRoundRobin(g, full)
      PROVE  RegNext
  <2> DEFINE busy == full \cap Sessions
  <2>1. CandidatePositions(g, busy) = CandidatePositions(g, full)
    <3>1. ASSUME NEW i \in OnlinePositions(g)
          PROVE  sessions[groupOrder[g][i]] \in Sessions
      <4>1. /\ i \in DOMAIN groupOrder[g]
            /\ sessions[groupOrder[g][i]] # None
        BY DEF OnlinePositions
      <4>2. groupOrder[g][i] \in Clients
        BY <4>1, LenProperties, ElementOfSeq DEF RegTypeOK
      <4> QED BY <4>1, <4>2 DEF RegTypeOK
    <3> QED BY <3>1 DEF CandidatePositions
  <2>2. PickedPosition(g, busy) = PickedPosition(g, full)
    BY <2>1 DEF PickedPosition
  <2>3. PickRoundRobin(g, busy)
    BY <1>1, <2>1, <2>2 DEF PickRoundRobin
  <2> QED BY <2>3 DEF RegNext
<1>2. ASSUME RosterStep PROVE RegNext
  <2>1. ASSUME NEW c \in Clients, NEW g \in Groups, NEW asked \in Limits,
               \/ RegisterExisting(c, g, asked)
               \/ \E s \in Sessions : RegisterNew(c, g, asked, s)
        PROVE  RegNext
    BY <2>1 DEF RegNext
  <2>2. ASSUME NEW c \in Clients, Unregister(c) PROVE RegNext
    BY <2>2 DEF RegNext
  <2> QED BY <1>2, <2>1, <2>2 DEF RosterStep
<1>3. UNCHANGED rrVars => UNCHANGED regVars
  BY DEF rrVars
<1> QED BY <1>1, <1>2, <1>3 DEF RRNext

-----------------------------------------------------------------------------
(* The invariant *)

\* x comes before y in the round of its group.
Precedes(x, y) ==
  \E g \in Groups : \E i, j \in 1..Len(groupOrder[g]) :
    /\ groupOrder[g][i] = x /\ groupOrder[g][j] = y
    /\ Offset(g, i) < Offset(g, j)

\* Once y was picked ahead of x, it is behind x.
TurnsInv ==
  \A x, y \in Clients :
    /\ turns[<<x, y>>] \in {0, 1}
    /\ turns[<<x, y>>] = 1 => Precedes(x, y)

LEMMA TurnsInit == RRInit => TurnsInv
BY DEF RRInit, TurnsInv

\* A client is in one place of one order.
LEMMA OnePlace ==
  ASSUME RegTypeOK, OrderInv, NEW g \in Groups, NEW h \in Groups,
         NEW i \in 1..Len(groupOrder[g]), NEW j \in 1..Len(groupOrder[h]),
         groupOrder[g][i] = groupOrder[h][j]
  PROVE  g = h /\ i = j
<1>1. /\ DOMAIN groupOrder[g] = 1..Len(groupOrder[g])
      /\ DOMAIN groupOrder[h] = 1..Len(groupOrder[h])
      /\ groupOrder[g][i] \in Clients
  BY LenProperties, ElementOfSeq DEF RegTypeOK
<1>2. /\ groupOrder[g][i] \in Range(groupOrder[g])
      /\ groupOrder[g][i] \in Range(groupOrder[h])
  BY <1>1 DEF Range
<1>3. g = h
  BY <1>1, <1>2 DEF OrderInv
<1> QED BY <1>1, <1>3 DEF OrderInv, IsInjective

\* A pick moves the cursor behind the device it picked.
LEMMA PickMoves ==
  ASSUME RegTypeOK, NEW g \in Groups, NEW full, PickRoundRobin(g, full)
  PROVE  LET n == Len(groupOrder[g])
             k == PickedPosition(g, full)
         IN  /\ n \in Nat \ {0} /\ k \in 1..n
             /\ k \in CandidatePositions(g, full)
             /\ groupOrder' = groupOrder
             /\ \A i \in 1..n : /\ Offset(g, i) = Around(n, Start(g), i)
                                /\ Offset(g, i)' = Around(n, Behind(n, k), i)
             /\ \A h \in Groups \ {g} : \A i : Offset(h, i)' = Offset(h, i)
<1> DEFINE n == Len(groupOrder[g])
           k == PickedPosition(g, full)
<1>1. /\ k \in CandidatePositions(g, full) /\ k \in 1..n /\ n \in Nat \ {0}
  BY PickedIsCandidate DEF PickRoundRobin
<1>2. /\ groupOrder' = groupOrder
      /\ groupCursor' = [groupCursor EXCEPT ![g] = k % n]
  BY DEF PickRoundRobin
<1>3. \A i \in 1..n : Offset(g, i) = Around(n, Start(g), i)
  BY OffsetIsAround
<1>4. k % n = Behind(n, k)
  <2> HIDE DEF n, k
  <2>1. k \in Int /\ -n <= k /\ k <= n /\ ~(k < 0)
    BY <1>1
  <2>2. k % n = IF k = n THEN 0 ELSE k
    BY <1>1, <2>1, ModSmall
  <2> QED BY <2>2 DEF Behind
<1>5. groupCursor'[g] = Behind(n, k) /\ \A h \in Groups \ {g} : groupCursor'[h] = groupCursor[h]
  BY <1>2, <1>4 DEF RegTypeOK
<1>6. ASSUME NEW i \in 1..n PROVE Offset(g, i)' = Around(n, Behind(n, k), i)
  <2> DEFINE s == Behind(n, k)
  <2>1. s \in 0..(n - 1)
    BY <1>1, Moved
  <2>2. Start(g)' = s
    <3>1. Start(g)' = IF s >= n THEN 0 ELSE s
      BY <1>2, <1>5 DEF Start
    <3> HIDE DEF s, n
    <3>2. ~(s >= n)
      BY <1>1, <2>1
    <3> QED BY <3>1, <3>2
  <2>3. Offset(g, i)' = (i - 1 - s) % n
    BY <1>2, <2>2 DEF Offset
  <2>4. i \in 1..n
    OBVIOUS
  <2> HIDE DEF s, n
  <2>5. Offset(g, i)' = Around(n, s, i)
    BY <1>1, <2>1, <2>3, <2>4, SearchIsAround
  <2> QED BY <2>5 DEF s
<1>7. \A h \in Groups \ {g} : \A i : Offset(h, i)' = Offset(h, i)
  BY <1>2, <1>5 DEF Offset, Start
<1> QED BY <1>1, <1>2, <1>3, <1>6, <1>7

\* A step that leaves x's group and its cursor alone keeps who is before whom.
LEMMA OrderKeepsPrecedes ==
  ASSUME RegTypeOK, OrderInv, NEW x, NEW y, Precedes(x, y),
         NEW g \in Groups, x \in Range(groupOrder[g]),
         groupOrder'[g] = groupOrder[g], Start(g)' = Start(g)
  PROVE  Precedes(x, y)'
<1>1. PICK h \in Groups : \E i, j \in 1..Len(groupOrder[h]) :
        /\ groupOrder[h][i] = x /\ groupOrder[h][j] = y
        /\ Offset(h, i) < Offset(h, j)
  BY DEF Precedes
<1>2. PICK i \in 1..Len(groupOrder[h]), j \in 1..Len(groupOrder[h]) :
        /\ groupOrder[h][i] = x /\ groupOrder[h][j] = y
        /\ Offset(h, i) < Offset(h, j)
  BY <1>1
<1>3. h = g
  <2>1. DOMAIN groupOrder[g] = 1..Len(groupOrder[g])
    BY LenProperties DEF RegTypeOK
  <2>2. PICK k \in 1..Len(groupOrder[g]) : groupOrder[g][k] = x
    BY <2>1 DEF Range
  <2> QED BY <1>2, <2>2, OnePlace
<1>4. \A k : Offset(g, k)' = Offset(g, k)
  BY DEF Offset
<1> QED BY <1>2, <1>3, <1>4 DEF Precedes

\* A pick in group g, with x and y as they are before it.
LEMMA PickKeepsTurns ==
  ASSUME RegTypeOK, RegTypeOK', OrderInv, TurnsInv,
         NEW g \in Groups, NEW full, PickRoundRobin(g, full), CountPick(g, full),
         NEW x \in Clients, NEW y \in Clients
  PROVE  /\ turns'[<<x, y>>] \in {0, 1}
         /\ turns'[<<x, y>>] = 1 => Precedes(x, y)'
<1> DEFINE n == Len(groupOrder[g])
           s == Start(g)
           picked == PickedClient(g, full)
           passed == x \in Candidates(g, full) \ {picked}
<1>0. PICK k : k = PickedPosition(g, full)
  OBVIOUS
<1>1. /\ n \in Nat \ {0} /\ k \in 1..n /\ k \in CandidatePositions(g, full)
      /\ groupOrder' = groupOrder
      /\ \A i \in 1..n : /\ Offset(g, i) = Around(n, s, i)
                         /\ Offset(g, i)' = Around(n, Behind(n, k), i)
      /\ \A h \in Groups \ {g} : \A i : Offset(h, i)' = Offset(h, i)
  BY <1>0, PickMoves
<1>2. turns'[<<x, y>>] =
        IF x \notin Range(groupOrder[g]) THEN turns[<<x, y>>]
        ELSE IF ~passed THEN 0
        ELSE IF y = picked THEN CapAt(2, turns[<<x, y>>] + 1) ELSE turns[<<x, y>>]
  BY DEF CountPick
<1>3. /\ turns[<<x, y>>] \in {0, 1}
      /\ turns[<<x, y>>] = 1 => Precedes(x, y)
  BY DEF TurnsInv
<1>4. picked = groupOrder[g][k] /\ DOMAIN groupOrder[g] = 1..n
      /\ s \in 0..(n - 1)
  BY <1>0, <1>1, OffsetIsAround, LenProperties DEF PickedClient, RegTypeOK
<1>5. CASE x \notin Range(groupOrder[g])
  <2>1. ASSUME Precedes(x, y) PROVE Precedes(x, y)'
    <3>1. PICK h \in Groups : \E i, j \in 1..Len(groupOrder[h]) :
            /\ groupOrder[h][i] = x /\ groupOrder[h][j] = y
            /\ Offset(h, i) < Offset(h, j)
      BY <2>1 DEF Precedes
    <3>2. h # g
      BY <1>4, <1>5, <3>1 DEF Range
    <3> QED BY <1>1, <3>1, <3>2 DEF Precedes
  <2> QED BY <1>2, <1>3, <1>5, <2>1
<1>6. CASE x \in Range(groupOrder[g]) /\ ~passed
  BY <1>2, <1>6
<1>7. CASE x \in Range(groupOrder[g]) /\ passed
  <2>1. PICK i \in CandidatePositions(g, full) : groupOrder[g][i] = x
    BY <1>7 DEF Candidates
  <2>2. i \in 1..n /\ i # k
    BY <1>4, <1>7, <2>1 DEF CandidatePositions, OnlinePositions
  <2>3. Offset(g, k) <= Offset(g, i)
    <3>1. CandidatePositions(g, full) # {}
      BY DEF PickRoundRobin
    <3> QED BY <1>0, <2>1, <3>1, PickedIsCandidate
  <2> HIDE DEF n, s, picked
  <2>10. n \in Nat \ {0} /\ s \in 0..(n - 1) /\ k \in 1..n
    BY <1>1, <1>4
  <2>11. /\ Around(n, s, i) \in 0..(n - 1) /\ Around(n, s, k) \in 0..(n - 1)
        /\ Around(n, s, i) # Around(n, s, k)
    BY <2>10, <2>2, AroundBounds
  <2>12. Offset(g, i) = Around(n, s, i) /\ Offset(g, k) = Around(n, s, k)
    BY <1>1, <2>2
  <2>13. /\ Offset(g, i)' = Around(n, Behind(n, k), i)
        /\ Offset(g, k)' = Around(n, Behind(n, k), k)
    BY <1>1, <2>2 DEF Offset, Start
  <2>4. Around(n, s, k) < Around(n, s, i)
    BY <2>3, <2>11, <2>12
  <2>5. /\ Offset(g, k)' = n - 1
        /\ Offset(g, i)' = Around(n, s, i) - Around(n, s, k) - 1
        /\ Around(n, s, i) \in 0..(n - 1) /\ Around(n, s, k) \in 0..(n - 1)
    <3>1. Around(n, Behind(n, k), k) = n - 1
      BY <2>10, Moved
    <3>2. Around(n, Behind(n, k), i) = Around(n, s, i) - Around(n, s, k) - 1
      BY <2>10, <2>11, <2>2, <2>4, Moved
    <3> QED BY <2>11, <2>13, <3>1, <3>2
  <2>6. ASSUME NEW j \in 1..n, groupOrder[g][j] = y, Offset(g, i)' < Offset(g, j)'
        PROVE  Precedes(x, y)'
    BY <1>1, <2>1, <2>2, <2>6 DEF Precedes, n
  <2>7. ASSUME turns[<<x, y>>] = 1
        PROVE  \E j \in 1..n : groupOrder[g][j] = y /\ Offset(g, i) < Offset(g, j)
    <3>1. PICK h \in Groups : \E a, j \in 1..Len(groupOrder[h]) :
            /\ groupOrder[h][a] = x /\ groupOrder[h][j] = y
            /\ Offset(h, a) < Offset(h, j)
      BY <1>3, <2>7 DEF Precedes
    <3>2. PICK a \in 1..Len(groupOrder[h]), j \in 1..Len(groupOrder[h]) :
            /\ groupOrder[h][a] = x /\ groupOrder[h][j] = y
            /\ Offset(h, a) < Offset(h, j)
      BY <3>1
    <3>3. h = g /\ a = i
      BY <2>1, <2>2, <3>2, OnePlace DEF n
    <3> QED BY <3>2, <3>3 DEF n
  <2>8. CASE y = picked
    <3>1. turns[<<x, y>>] # 1
      <4> SUFFICES ASSUME turns[<<x, y>>] = 1 PROVE FALSE
        OBVIOUS
      <4>1. PICK j \in 1..n : groupOrder[g][j] = y /\ Offset(g, i) < Offset(g, j)
        BY <2>7
      <4>2. j = k
        BY <1>1, <1>4, <2>8, <4>1, OnePlace DEF n
      <4> QED BY <1>1, <2>2, <2>4, <2>5, <4>1, <4>2
    <3>2. turns'[<<x, y>>] = 1
      BY <1>2, <1>3, <1>7, <2>8, <3>1 DEF CapAt
    <3>3. Offset(g, i)' < Offset(g, k)'
      BY <1>1, <2>4, <2>5
    <3>4. Precedes(x, y)'
      BY <1>4, <2>6, <2>8, <2>10, <3>3 DEF Offset, Start
    <3> QED BY <3>2, <3>4
  <2>9. CASE y # picked
    <3>1. turns'[<<x, y>>] = turns[<<x, y>>]
      BY <1>2, <1>7, <2>9
    <3>2. ASSUME turns[<<x, y>>] = 1 PROVE Precedes(x, y)'
      <4>1. PICK j \in 1..n : groupOrder[g][j] = y /\ Offset(g, i) < Offset(g, j)
        BY <2>7, <3>2
      <4>2. Around(n, s, i) < Around(n, s, j)
        BY <1>1, <2>2, <4>1
      <4>3. Around(n, s, j) \in 0..(n - 1)
        BY <1>1, <1>4, AroundBounds
      <4>4. Around(n, s, k) < Around(n, s, j)
        BY <2>4, <2>5, <4>2, <4>3
      <4>5. Offset(g, j)' = Around(n, s, j) - Around(n, s, k) - 1
        <5>1. Offset(g, j)' = Around(n, Behind(n, k), j)
          BY <1>1 DEF Offset, Start
        <5>2. Around(n, Behind(n, k), j) = Around(n, s, j) - Around(n, s, k) - 1
          BY <2>10, <2>11, <4>3, <4>4, Moved
        <5> QED BY <5>1, <5>2
      <4>6. Offset(g, i)' < Offset(g, j)'
        BY <2>10, <2>5, <4>2, <4>3, <4>5
      <4> QED BY <2>6, <4>1, <4>6
    <3> QED BY <1>3, <3>1, <3>2
  <2> QED BY <2>8, <2>9
<1> QED BY <1>5, <1>6, <1>7

-----------------------------------------------------------------------------
(* Registrations and unregistrations *)

\* Whoever leaves, a group that keeps its order keeps its cursor.
LEMMA LeavingKeepsCursor ==
  ASSUME RegTypeOK, CursorInv, NEW c, NEW h, NEW g \in Groups,
         h = g => Without(groupOrder[g], c) = groupOrder[g]
  PROVE  LeftCursor(h, c)[g] = groupCursor[g]
<1>1. /\ groupCursor[g] \in Nat /\ Len(groupOrder[g]) \in Nat
      /\ groupCursor[g] = 0 \/ groupCursor[g] < Len(groupOrder[g])
  BY LenProperties DEF RegTypeOK, CursorInv
<1>2. CASE h # g
  BY <1>2 DEF LeftCursor, RegTypeOK
<1>3. CASE h = g
  <2>1. LeftCursor(h, c)[g] =
          IF groupCursor[g] >= Len(groupOrder[g]) THEN 0 ELSE groupCursor[g]
    BY <1>3 DEF LeftCursor, RegTypeOK
  <2> QED BY <1>1, <2>1
<1> QED BY <1>2, <1>3

LEMMA RosterKeepsStart ==
  ASSUME RegTypeOK, CursorInv, RosterStep,
         NEW g \in Groups, groupOrder'[g] = groupOrder[g]
  PROVE  Start(g)' = Start(g)
<1> SUFFICES groupCursor'[g] = groupCursor[g]
  BY DEF Start
<1>1. ASSUME NEW c \in Clients, NEW h \in Groups, NEW asked \in Limits,
             NEW s \in Sessions, RegisterNew(c, h, asked, s)
      PROVE  groupCursor' = groupCursor
  BY <1>1 DEF RegisterNew
<1>2. ASSUME NEW c \in Clients, NEW h \in Groups, NEW asked \in Limits,
             RegisterExisting(c, h, asked)
      PROVE  groupCursor'[g] = groupCursor[g]
  <2> DEFINE old == groupOf[sessions[c]]
  <2>1. CASE old = h
    BY <1>2, <2>1 DEF RegisterExisting
  <2>2. CASE old # h
    <3>1. /\ groupOrder' = EnsureOrder(LeftOrder(old, c), h, c)
          /\ groupCursor' = LeftCursor(old, c)
      BY <1>2, <2>2 DEF RegisterExisting
    <3>2. old = g => groupOrder'[g] = Without(groupOrder[g], c)
      BY <2>2, <3>1 DEF EnsureOrder, LeftOrder, RegTypeOK
    <3> HIDE DEF old
    <3> QED BY <3>1, <3>2, LeavingKeepsCursor
  <2> QED BY <2>1, <2>2
<1>3. ASSUME NEW c \in Clients, Unregister(c)
      PROVE  groupCursor'[g] = groupCursor[g]
  <2> DEFINE old == groupOf[sessions[c]]
  <2>1. groupOrder' = LeftOrder(old, c) /\ groupCursor' = LeftCursor(old, c)
    BY <1>3 DEF Unregister
  <2>2. old = g => groupOrder'[g] = Without(groupOrder[g], c)
    BY <2>1 DEF LeftOrder, RegTypeOK
  <2> HIDE DEF old
  <2> QED BY <2>1, <2>2, LeavingKeepsCursor
<1> QED BY <1>1, <1>2, <1>3 DEF RosterStep

LEMMA RosterKeepsTurns ==
  ASSUME RegTypeOK, OrderInv, CursorInv, TurnsInv, RosterStep
  PROVE  TurnsInv'
<1> SUFFICES ASSUME NEW x \in Clients, NEW y \in Clients
             PROVE  /\ turns'[<<x, y>>] \in {0, 1}
                    /\ turns'[<<x, y>>] = 1 => Precedes(x, y)'
  BY DEF TurnsInv
<1>1. turns'[<<x, y>>] =
        IF \E g \in Groups : /\ x \in Range(groupOrder[g])
                             /\ groupOrder'[g] = groupOrder[g]
        THEN turns[<<x, y>>] ELSE 0
  BY DEF RosterStep
<1>2. CASE \E g \in Groups : /\ x \in Range(groupOrder[g])
                             /\ groupOrder'[g] = groupOrder[g]
  <2>1. PICK g \in Groups : /\ x \in Range(groupOrder[g])
                            /\ groupOrder'[g] = groupOrder[g]
    BY <1>2
  <2>2. Start(g)' = Start(g)
    BY <2>1, RosterKeepsStart
  <2>3. Precedes(x, y) => Precedes(x, y)'
    BY <2>1, <2>2, OrderKeepsPrecedes
  <2> QED BY <1>1, <1>2, <2>3 DEF TurnsInv
<1>3. CASE ~\E g \in Groups : /\ x \in Range(groupOrder[g])
                              /\ groupOrder'[g] = groupOrder[g]
  BY <1>1, <1>3
<1> QED BY <1>2, <1>3

-----------------------------------------------------------------------------
(* The longest wait *)

\* The picks that may still pass over a device, of n in all, with p others
\* before it in the order and the cursor at s.  The cursor has to come round
\* if it is behind the device; then it may step over the device once for each
\* of the p others, when that one leaves, and comes round again.  With the
\* device last of all n the first of these rounds ends at the reset.
AtWorst(n, p, s) ==
  IF s > p THEN p * n + n - s
  ELSE IF p > 0 /\ p = n - 1 THEN p * n - s - 1 ELSE p * n - s

LEMMA Times ==
  ASSUME NEW n \in Nat, NEW p \in Nat
  PROVE  /\ p * n \in Nat
         /\ p > 0 => (p - 1) * n = p * n - n /\ p * n >= n
         /\ p = 0 => p * n = 0
         /\ p * n >= p \/ n = 0
         /\ n * (n - 1) = n * n - n
         /\ \A q \in Nat : p <= q => p * n <= q * n
OBVIOUS

\* What the bound says of a device that starts to wait, and of one that waits.
LEMMA WorstOfAll ==
  ASSUME NEW n \in Nat \ {0}, NEW p \in 0..(n - 1), NEW s \in 0..(n - 1)
  PROVE  /\ AtWorst(n, p, s) \in Nat
         /\ AtWorst(n, p, s) <= IF n <= 1 THEN 0 ELSE n * (n - 1) - 1
<1>1. /\ p * n \in Nat /\ p * n >= p
      /\ p > 0 => p * n >= n
      /\ p = 0 => p * n = 0
      /\ n * (n - 1) = n * n - n
  BY Times
<1>2. CASE p = n - 1
  <2>1. p * n = n * n - n
    BY <1>2
  <2>2. s <= p
    BY <1>2
  <2>3. CASE p = 0
    BY <1>1, <1>2, <2>2, <2>3 DEF AtWorst
  <2>4. CASE p > 0
    <3>1. AtWorst(n, p, s) = p * n - s - 1
      BY <1>2, <2>2, <2>4 DEF AtWorst
    <3>2. p * n >= n /\ s <= n - 1
      BY <1>1, <2>4
    <3> QED BY <1>1, <1>2, <2>1, <2>4, <3>1, <3>2
  <2> QED BY <2>3, <2>4
<1>3. CASE p < n - 1
  <2>1. p * n <= n * n - n - n
    <3>1. p <= n - 2 /\ n - 2 \in Nat
      BY <1>3
    <3>2. p * n <= (n - 2) * n
      BY <3>1, Times
    <3>3. (n - 2) * n = n * n - n - n
      OBVIOUS
    <3> QED BY <3>2, <3>3
  <2>2. n > 1
    BY <1>3
  <2>3. CASE s > p
    <3>1. AtWorst(n, p, s) = p * n + n - s /\ s >= 1
      BY <2>3 DEF AtWorst
    <3> QED BY <1>1, <2>1, <2>2, <3>1
  <2>4. CASE s <= p
    <3>1. AtWorst(n, p, s) = p * n - s
      BY <1>3, <2>4 DEF AtWorst
    <3> QED BY <1>1, <2>1, <2>2, <2>4, <3>1
  <2> QED BY <2>3, <2>4
<1> QED BY <1>2, <1>3

\* A pick of position k + 1, ahead of position p + 1, in an order of m.
LEMMA WorstAfterPick ==
  ASSUME NEW n \in Nat, NEW m \in 1..n, NEW s \in 0..(m - 1),
         NEW p \in 0..(m - 1), NEW k \in 0..(m - 1),
         Around(m, s, k + 1) < Around(m, s, p + 1)
  PROVE  AtWorst(n, p, Behind(m, k + 1)) + 1 <= AtWorst(n, p, s)
<1> DEFINE t == p * n
<1>1. t \in Nat
  BY Times
<1> HIDE DEF t
<1>2. CASE k + 1 = m
  BY <1>1, <1>2 DEF Around, Behind, AtWorst, t
<1>3. CASE k + 1 # m
  BY <1>1, <1>3 DEF Around, Behind, AtWorst, t
<1> QED BY <1>2, <1>3

\* Position k + 1 of an order of m leaves.
LEMMA WorstAfterLeaving ==
  ASSUME NEW n \in Nat, NEW m \in 1..n, NEW s \in 0..(m - 1),
         NEW p \in 0..(m - 1), NEW k \in 0..(m - 1), k # p
  PROVE  LET q == IF k < p THEN p - 1 ELSE p
             u == IF s >= m - 1 THEN 0 ELSE s
         IN  AtWorst(n, q, u) <= AtWorst(n, p, s)
<1> DEFINE t == p * n
           u == IF s >= m - 1 THEN 0 ELSE s
<1>1. t \in Nat
  BY Times
<1>2. CASE k < p
  <2>1. (p - 1) * n = t - n /\ t >= n /\ p - 1 \in Nat
    BY <1>2, Times
  <2>2. \/ AtWorst(n, p - 1, u) = t - u /\ u > p - 1
        \/ AtWorst(n, p - 1, u) = t - n - u /\ u <= p - 1
    BY <1>2, <2>1 DEF AtWorst
  <2>3. \/ AtWorst(n, p, s) = t + n - s /\ s > p
        \/ AtWorst(n, p, s) = t - s - 1 /\ p = n - 1 /\ s <= p
        \/ AtWorst(n, p, s) = t - s /\ s <= p
    BY <1>2 DEF AtWorst
  <2> HIDE DEF t
  <2>4. AtWorst(n, p - 1, u) <= AtWorst(n, p, s)
    BY <1>1, <2>1, <2>2, <2>3, <1>2
  <2> QED BY <1>2, <2>4
<1>3. CASE k > p
  <2>1. p < m - 1
    BY <1>3
  <2>2. AtWorst(n, p, u) <= AtWorst(n, p, s)
    BY <1>1, <2>1 DEF AtWorst
  <2> QED BY <1>3, <2>2
<1> QED BY <1>2, <1>3

-----------------------------------------------------------------------------
(* Who waits *)

\* A device that waits has a bounded number of picks left to wait; who is in
\* no group has not waited.
WaitInv ==
  \A x \in Clients :
    /\ waited[x] \in Nat
    /\ (\A g \in Groups : x \notin Range(groupOrder[g])) => waited[x] = 0
    /\ \A g \in Groups : \A i \in 1..Len(groupOrder[g]) :
         groupOrder[g][i] = x =>
           waited[x] + AtWorst(Cardinality(Clients), i - 1, Start(g)) <= Patience

LEMMA WaitInit == RRInit => WaitInv
<1> SUFFICES ASSUME RRInit PROVE WaitInv
  OBVIOUS
<1>1. \A g \in Groups : 1..Len(groupOrder[g]) = {}
  BY DEF RRInit, RegInit
<1> QED BY <1>1 DEF RRInit, WaitInv

\* An order has room for each client once.
LEMMA OrderFits ==
  ASSUME RegTypeOK, OrderInv, NEW g \in Groups
  PROVE  /\ Cardinality(Clients) \in Nat
         /\ Len(groupOrder[g]) \in 0..Cardinality(Clients)
<1> DEFINE n == Len(groupOrder[g])
<1>1. n \in Nat /\ groupOrder[g] \in [1..n -> Clients] /\ IsInjective(groupOrder[g])
  BY LenProperties DEF RegTypeOK, OrderInv
<1>2. groupOrder[g] \in Injection(1..n, Clients)
  BY <1>1 DEF Injection, IsInjective
<1>3. Cardinality(1..n) <= Cardinality(Clients)
  BY <1>2, FS_Injection, DevicesAssumption
<1>4. Cardinality(1..n) = n
  <2> HIDE DEF n
  <2> QED BY <1>1, FS_Interval
<1>5. Cardinality(Clients) \in Nat
  BY FS_CardinalityType, DevicesAssumption
<1> QED BY <1>1, <1>3, <1>4, <1>5

LEMMA StartInOrder ==
  ASSUME RegTypeOK, NEW g \in Groups, Len(groupOrder[g]) # 0
  PROVE  Start(g) \in 0..(Len(groupOrder[g]) - 1)
<1>1. Len(groupOrder[g]) \in Nat /\ groupCursor[g] \in Nat
  BY LenProperties DEF RegTypeOK
<1> QED BY <1>1 DEF Start

\* Whoever starts to wait, anywhere in an order.
LEMMA WaitStarts ==
  ASSUME RegTypeOK, OrderInv, NEW g \in Groups, NEW i \in 1..Len(groupOrder[g])
  PROVE  /\ AtWorst(Cardinality(Clients), i - 1, Start(g)) \in Nat
         /\ AtWorst(Cardinality(Clients), i - 1, Start(g)) <= Patience
         /\ Patience \in Nat
<1> DEFINE n == Cardinality(Clients)
           m == Len(groupOrder[g])
<1>1. n \in Nat /\ m \in 0..n /\ m # 0
  BY OrderFits
<1>2. Start(g) \in 0..(m - 1)
  BY <1>1, StartInOrder
<1>3. Patience = IF n <= 1 THEN 0 ELSE n * (n - 1) - 1
  BY DEF Patience
<1>4. i \in 1..m
  OBVIOUS
<1> HIDE DEF n, m
<1>5. /\ AtWorst(n, i - 1, Start(g)) \in Nat
      /\ AtWorst(n, i - 1, Start(g)) <= IF n <= 1 THEN 0 ELSE n * (n - 1) - 1
  <2>1. i - 1 \in 0..(n - 1) /\ Start(g) \in 0..(n - 1) /\ n \in Nat \ {0}
    BY <1>1, <1>2, <1>4
  <2> QED BY <2>1, WorstOfAll
<1>6. n > 1 => n * (n - 1) - 1 \in Nat
  <2>1. n * (n - 1) = n * n - n /\ (2 <= n => 2 * n <= n * n)
    BY <1>1, Times
  <2> QED BY <1>1, <2>1
<1> QED BY <1>1, <1>3, <1>5, <1>6 DEF n

\* The same of every place, as a state predicate.
StartsWell ==
  \A g \in Groups : \A i \in 1..Len(groupOrder[g]) :
    /\ AtWorst(Cardinality(Clients), i - 1, Start(g)) \in Nat
    /\ AtWorst(Cardinality(Clients), i - 1, Start(g)) <= Patience

LEMMA AllStartWell == RegTypeOK /\ OrderInv => StartsWell
BY WaitStarts DEF StartsWell

LEMMA AllStartWellNext == RegTypeOK' /\ OrderInv' => StartsWell'
<1>1. (RegTypeOK /\ OrderInv => StartsWell)'
  BY AllStartWell, PTL
<1> QED BY <1>1

\* A pick in group g.
LEMMA PickKeepsWaits ==
  ASSUME RegTypeOK, RegTypeOK', OrderInv, OrderInv', WaitInv,
         NEW g \in Groups, NEW full, PickRoundRobin(g, full), CountPick(g, full)
  PROVE  WaitInv'
<1> DEFINE n == Cardinality(Clients)
           m == Len(groupOrder[g])
           picked == PickedClient(g, full)
<1>0. PICK k : k = PickedPosition(g, full)
  OBVIOUS
<1>1. /\ m \in Nat \ {0} /\ k \in 1..m /\ k \in CandidatePositions(g, full)
      /\ groupOrder' = groupOrder
      /\ \A i \in 1..m : Offset(g, i) = Around(m, Start(g), i)
  BY <1>0, PickMoves
<1>2. picked = groupOrder[g][k] /\ DOMAIN groupOrder[g] = 1..m
  BY <1>0, LenProperties DEF PickedClient, RegTypeOK
<1>3. /\ Start(g)' = Behind(m, k)
      /\ \A h \in Groups \ {g} : Start(h)' = Start(h)
  <2>1. groupCursor' = [groupCursor EXCEPT ![g] = k % m]
    BY <1>0 DEF PickRoundRobin
  <2>2. k % m = Behind(m, k)
    <3> HIDE DEF m
    <3>1. k \in Int /\ -m <= k /\ k <= m /\ ~(k < 0)
      BY <1>1
    <3>2. k % m = IF k = m THEN 0 ELSE k
      BY <1>1, <3>1, ModSmall
    <3> QED BY <3>2 DEF Behind
  <2>3. Start(g)' = IF Behind(m, k) >= m THEN 0 ELSE Behind(m, k)
    BY <1>1, <2>1, <2>2 DEF Start, RegTypeOK
  <2>4. ~(Behind(m, k) >= m) /\ Behind(m, k) \in Nat
    <3> HIDE DEF m
    <3> QED BY <1>1 DEF Behind
  <2>5. \A h \in Groups \ {g} : groupCursor'[h] = groupCursor[h]
    BY <2>1 DEF RegTypeOK
  <2> QED BY <1>1, <2>3, <2>4, <2>5 DEF Start
<1>4. ASSUME NEW x \in Clients, x \notin Range(groupOrder[g])
      PROVE  /\ waited'[x] = waited[x]
             /\ \A h \in Groups : \A i \in 1..Len(groupOrder[h]) :
                  groupOrder[h][i] = x => h # g
  BY <1>2, <1>4 DEF CountPick, Range
<1>5. ASSUME NEW x \in Clients, x \in Range(groupOrder[g]),
             x \notin Candidates(g, full) \ {picked}
      PROVE  waited'[x] = 0
  BY <1>5 DEF CountPick
<1>6. ASSUME NEW x \in Clients, x \in Candidates(g, full) \ {picked},
             NEW i \in 1..m, groupOrder[g][i] = x
      PROVE  /\ waited'[x] \in Nat
             /\ waited'[x] + AtWorst(n, i - 1, Start(g)') <= Patience
  <2>1. x \in Range(groupOrder[g])
    BY <1>2, <1>6 DEF Range
  <2>2. waited'[x] = CapAt(Patience + 1, waited[x] + 1)
    BY <1>6, <2>1 DEF CountPick
  <2>3. i \in CandidatePositions(g, full) /\ i # k
    <3>1. PICK j \in CandidatePositions(g, full) : groupOrder[g][j] = x
      BY <1>6 DEF Candidates
    <3>2. j \in 1..m
      BY <1>2 DEF CandidatePositions, OnlinePositions
    <3>3. j = i
      BY <1>6, <3>1, <3>2, OnePlace
    <3> QED BY <1>2, <1>6, <3>1, <3>3
  <2>4. Offset(g, k) <= Offset(g, i)
    <3>1. CandidatePositions(g, full) # {}
      BY DEF PickRoundRobin
    <3> QED BY <1>0, <2>3, <3>1, PickedIsCandidate
  <2>5. /\ Offset(g, i) = Around(m, Start(g), i) /\ Offset(g, k) = Around(m, Start(g), k)
        /\ Start(g) \in 0..(m - 1) /\ m \in 1..n /\ n \in Nat
    BY <1>1, OrderFits, StartInOrder
  <2>6. /\ waited[x] \in Nat /\ Patience \in Nat
        /\ waited[x] + AtWorst(n, i - 1, Start(g)) <= Patience
        /\ AtWorst(n, i - 1, Start(g)) \in Nat
    BY <1>6, WaitStarts DEF WaitInv
  <2>7. AtWorst(n, i - 1, Start(g)') \in Nat
    <3>1. Len(groupOrder'[g]) = m
      BY <1>1
    <3>2. AtWorst(Cardinality(Clients), i - 1, Behind(m, k)) \in Nat
      <4> HIDE DEF m
      <4>1. Behind(m, k) \in 0..(n - 1) /\ i - 1 \in 0..(n - 1) /\ n \in Nat \ {0}
        <5> HIDE DEF n
        <5> QED BY <1>1, <1>6, <2>5 DEF Behind
      <4> QED BY <4>1, WorstOfAll
    <3> QED BY <1>3, <3>2
  <2> HIDE DEF m, n
  <2>8. Around(m, Start(g), k) < Around(m, Start(g), i)
    <3>1. /\ Around(m, Start(g), i) \in 0..(m - 1) /\ Around(m, Start(g), k) \in 0..(m - 1)
          /\ Around(m, Start(g), i) # Around(m, Start(g), k)
      BY <1>1, <1>6, <2>3, <2>5, AroundBounds
    <3> QED BY <2>4, <2>5, <3>1
  <2>9. AtWorst(n, i - 1, Behind(m, k)) + 1 <= AtWorst(n, i - 1, Start(g))
    <3>1. i - 1 \in 0..(m - 1) /\ k - 1 \in 0..(m - 1) /\ i - 1 + 1 = i /\ k - 1 + 1 = k
      BY <1>1, <1>6
    <3> QED BY <2>5, <2>8, <3>1, WorstAfterPick
  <2>10. waited'[x] = waited[x] + 1
    BY <2>2, <2>6, <2>7, <2>9, <1>3 DEF CapAt
  <2> QED BY <1>3, <2>6, <2>7, <2>9, <2>10
<1>7. ASSUME NEW x \in Clients
      PROVE  /\ waited'[x] \in Nat
             /\ (\A h \in Groups : x \notin Range(groupOrder'[h])) => waited'[x] = 0
             /\ \A h \in Groups : \A i \in 1..Len(groupOrder'[h]) :
                  groupOrder'[h][i] = x => waited'[x] + AtWorst(n, i - 1, Start(h)') <= Patience
  <2>1. CASE x \notin Range(groupOrder[g])
    BY <1>1, <1>3, <1>4, <2>1 DEF WaitInv
  <2>2. CASE x \in Range(groupOrder[g]) /\ x \notin Candidates(g, full) \ {picked}
    <3>1. waited'[x] = 0
      BY <1>5, <2>2
    <3>2. ASSUME NEW h \in Groups, NEW i \in 1..Len(groupOrder'[h])
          PROVE  AtWorst(n, i - 1, Start(h)') \in Nat /\ AtWorst(n, i - 1, Start(h)') <= Patience
      BY <3>2, AllStartWellNext DEF StartsWell, Patience
    <3> QED BY <3>1, <3>2
  <2>3. CASE x \in Range(groupOrder[g]) /\ x \in Candidates(g, full) \ {picked}
    <3>1. PICK i \in 1..m : groupOrder[g][i] = x
      BY <1>2, <2>3 DEF Range
    <3>2. \A h \in Groups : \A j \in 1..Len(groupOrder[h]) :
            groupOrder[h][j] = x => h = g /\ j = i
      BY <3>1, OnePlace
    <3>3. waited'[x] \in Nat /\ waited'[x] + AtWorst(n, i - 1, Start(g)') <= Patience
      BY <1>6, <2>3, <3>1
    <3> QED BY <1>1, <2>3, <3>2, <3>3
  <2> QED BY <2>1, <2>2, <2>3
<1> QED BY <1>7 DEF WaitInv, Patience

\* What a registration or an unregistration does to one order: nothing, or a
\* client joins at its end, or a client leaves it.
Joined(g, c) ==
  /\ c \notin Range(groupOrder[g])
  /\ groupOrder'[g] = Append(groupOrder[g], c)
  /\ groupCursor'[g] = groupCursor[g]
LeftIt(g, c) ==
  /\ c \in Range(groupOrder[g])
  /\ groupOrder'[g] = Without(groupOrder[g], c)
  /\ groupCursor'[g] = LeftCursor(g, c)[g]

LEMMA RosterShapes ==
  ASSUME RegTypeOK, RosterStep, NEW g \in Groups
  PROVE  \/ groupOrder'[g] = groupOrder[g]
         \/ \E c \in Clients : Joined(g, c) \/ LeftIt(g, c)
<1>0. \A c : c \notin Range(groupOrder[g]) => Without(groupOrder[g], c) = groupOrder[g]
  BY DEF Without
<1>1. ASSUME NEW c \in Clients, NEW h \in Groups, NEW asked \in Limits,
             NEW s \in Sessions, RegisterNew(c, h, asked, s)
      PROVE  groupOrder'[g] = groupOrder[g] \/ Joined(g, c)
  <2>1. groupOrder' = EnsureOrder(groupOrder, h, c) /\ groupCursor' = groupCursor
    BY <1>1 DEF RegisterNew
  <2> QED BY <2>1 DEF EnsureOrder, Joined, RegTypeOK
<1>2. ASSUME NEW c \in Clients, NEW h \in Groups, NEW asked \in Limits,
             RegisterExisting(c, h, asked)
      PROVE  groupOrder'[g] = groupOrder[g] \/ Joined(g, c) \/ LeftIt(g, c)
  <2> DEFINE old == groupOf[sessions[c]]
  <2>1. CASE old = h
    <3>1. groupOrder' = EnsureOrder(groupOrder, h, c) /\ groupCursor' = groupCursor
      BY <1>2, <2>1 DEF RegisterExisting
    <3> QED BY <3>1 DEF EnsureOrder, Joined, RegTypeOK
  <2>2. CASE old # h
    <3>1. /\ groupOrder' = EnsureOrder(LeftOrder(old, c), h, c)
          /\ groupCursor' = LeftCursor(old, c)
      BY <1>2, <2>2 DEF RegisterExisting
    <3> HIDE DEF old
    <3>2. CASE g = old
      <4>1. groupOrder'[g] = Without(groupOrder[g], c)
        BY <2>2, <3>1, <3>2 DEF EnsureOrder, LeftOrder, RegTypeOK
      <4> QED BY <1>0, <3>1, <3>2, <4>1 DEF LeftIt
    <3>3. CASE g # old
      <4>1. LeftOrder(old, c)[g] = groupOrder[g] /\ LeftCursor(old, c)[g] = groupCursor[g]
            /\ DOMAIN LeftOrder(old, c) = Groups
        BY <3>3 DEF LeftOrder, LeftCursor, RegTypeOK
      <4> QED BY <3>1, <4>1 DEF EnsureOrder, Joined
    <3> QED BY <3>2, <3>3
  <2> QED BY <2>1, <2>2
<1>3. ASSUME NEW c \in Clients, Unregister(c)
      PROVE  groupOrder'[g] = groupOrder[g] \/ LeftIt(g, c)
  <2> DEFINE old == groupOf[sessions[c]]
  <2>1. groupOrder' = LeftOrder(old, c) /\ groupCursor' = LeftCursor(old, c)
    BY <1>3 DEF Unregister
  <2> HIDE DEF old
  <2>2. CASE g = old
    <3>1. groupOrder'[g] = Without(groupOrder[g], c)
      BY <2>1, <2>2 DEF LeftOrder, RegTypeOK
    <3> QED BY <1>0, <2>1, <2>2, <3>1 DEF LeftIt
  <2>3. CASE g # old
    BY <2>1, <2>3 DEF LeftOrder, RegTypeOK
  <2> QED BY <2>2, <2>3
<1> QED BY <1>1, <1>2, <1>3 DEF RosterStep

\* Where they stand who stay when one leaves.
LEMMA WithoutShifts ==
  ASSUME NEW order \in Seq(Clients), IsInjective(order), NEW c \in Range(order)
  PROVE  \E k \in 1..Len(order) :
           /\ order[k] = c
           /\ Len(Without(order, c)) = Len(order) - 1
           /\ \A j \in 1..Len(Without(order, c)) :
                Without(order, c)[j] = IF j < k THEN order[j] ELSE order[j + 1]
<1> DEFINE k == CHOOSE i \in DOMAIN order : order[i] = c
           m == Len(order)
<1>1. m \in Nat /\ DOMAIN order = 1..m
  BY LenProperties
<1>2. k \in 1..m /\ order[k] = c
  BY <1>1 DEF Range
<1>3. Without(order, c) =
        [j \in 1..(m - 1) |-> IF j < k THEN order[j] ELSE order[j + 1]]
  BY DEF Without
<1>4. Without(order, c) \in Seq(Clients)
  BY WithoutType
<1>5. Len(Without(order, c)) = m - 1
  <2>1. DOMAIN Without(order, c) = 1..(m - 1)
    BY <1>3
  <2>2. DOMAIN Without(order, c) = 1..Len(Without(order, c)) /\ Len(Without(order, c)) \in Nat
    BY <1>4, LenProperties
  <2> HIDE DEF m
  <2>3. m - 1 \in Nat
    BY <1>1, <1>2
  <2> QED BY <2>1, <2>2, <2>3
<1> HIDE DEF k, m
<1>6. \A j \in 1..(m - 1) :
        Without(order, c)[j] = IF j < k THEN order[j] ELSE order[j + 1]
  BY <1>3
<1> QED BY <1>2, <1>5, <1>6 DEF m

\* Whoever stays in its group while the roster changes has no longer to wait.
LEMMA StayingIsNoWorse ==
  ASSUME RegTypeOK, RegTypeOK', RosterInv, CursorInv, RosterStep,
         NEW g \in Groups, NEW x \in Clients, x \in Range(groupOrder[g]),
         NEW j \in 1..Len(groupOrder'[g]), groupOrder'[g][j] = x
  PROVE  \E i \in 1..Len(groupOrder[g]) :
           /\ groupOrder[g][i] = x
           /\ AtWorst(Cardinality(Clients), j - 1, Start(g)')
                <= AtWorst(Cardinality(Clients), i - 1, Start(g))
<1> DEFINE n == Cardinality(Clients)
           m == Len(groupOrder[g])
<1>1. /\ OrderInv /\ groupOrder[g] \in Seq(Clients) /\ IsInjective(groupOrder[g])
      /\ DOMAIN groupOrder[g] = 1..m /\ groupCursor[g] \in Nat
  BY LenProperties DEF RosterInv, OrderInv, RegTypeOK
<1>2. PICK a \in 1..m : groupOrder[g][a] = x
  BY <1>1 DEF Range
<1>3. n \in Nat /\ m \in 1..n
  BY <1>1, <1>2, OrderFits
<1>4. groupCursor[g] \in 0..(m - 1) /\ Start(g) = groupCursor[g]
  <2>1. groupCursor[g] = 0 \/ groupCursor[g] < m
    BY DEF CursorInv
  <2>2. groupCursor[g] \in 0..(m - 1)
    <3> HIDE DEF m
    <3> QED BY <1>1, <1>3, <2>1
  <2> QED BY <1>3, <2>2 DEF Start
<1>5. CASE groupOrder'[g] = groupOrder[g]
  <2>1. Start(g)' = Start(g)
    BY <1>5, RosterKeepsStart
  <2>2. AtWorst(n, j - 1, Start(g)) \in Nat
    BY <1>1, <1>5, WaitStarts
  <2> QED BY <1>5, <2>1, <2>2
<1>6. ASSUME NEW c \in Clients, Joined(g, c)
      PROVE  \E i \in 1..m : /\ groupOrder[g][i] = x
                             /\ AtWorst(n, j - 1, Start(g)') <= AtWorst(n, i - 1, Start(g))
  <2>1. /\ groupOrder'[g] = Append(groupOrder[g], c) /\ Len(groupOrder'[g]) = m + 1
        /\ groupOrder'[g][m + 1] = c
        /\ \A i \in 1..m : groupOrder'[g][i] = groupOrder[g][i]
    BY <1>1, <1>6, AppendProperties DEF Joined
  <2>2. c # x
    BY <1>6 DEF Joined
  <2>3. j \in 1..m
    <3>1. j \in 1..(m + 1) /\ j # m + 1
      BY <2>1, <2>2
    <3> HIDE DEF m
    <3> QED BY <1>3, <3>1
  <2>4. groupOrder[g][j] = x
    BY <2>1, <2>3
  <2>5. Start(g)' = groupCursor[g]
    <3>1. Start(g)' = IF groupCursor[g] >= m + 1 THEN 0 ELSE groupCursor[g]
      BY <1>6, <2>1 DEF Start, Joined
    <3> HIDE DEF m
    <3> QED BY <1>3, <1>4, <3>1
  <2>6. AtWorst(n, j - 1, Start(g)) \in Nat
    BY <1>1, <2>3, WaitStarts
  <2> QED BY <1>4, <2>3, <2>4, <2>5, <2>6
<1>7. ASSUME NEW c \in Clients, LeftIt(g, c)
      PROVE  \E i \in 1..m : /\ groupOrder[g][i] = x
                             /\ AtWorst(n, j - 1, Start(g)') <= AtWorst(n, i - 1, Start(g))
  <2>1. /\ c \in Range(groupOrder[g]) /\ groupOrder'[g] = Without(groupOrder[g], c)
        /\ groupCursor'[g] = LeftCursor(g, c)[g]
    BY <1>7 DEF LeftIt
  <2>2. PICK k \in 1..m :
          /\ groupOrder[g][k] = c
          /\ Len(groupOrder'[g]) = m - 1
          /\ \A b \in 1..(m - 1) :
               groupOrder'[g][b] = IF b < k THEN groupOrder[g][b] ELSE groupOrder[g][b + 1]
    <3>1. PICK order : order = groupOrder[g]
      OBVIOUS
    <3>2. \E k \in 1..Len(order) :
            /\ order[k] = c
            /\ Len(Without(order, c)) = Len(order) - 1
            /\ \A b \in 1..Len(Without(order, c)) :
                 Without(order, c)[b] = IF b < k THEN order[b] ELSE order[b + 1]
      BY <1>1, <2>1, <3>1, WithoutShifts
    <3>3. groupOrder'[g] = Without(order, c)
      BY <2>1, <3>1
    <3> QED BY <3>1, <3>2, <3>3
  <2> DEFINE i == IF j < k THEN j ELSE j + 1
             u == IF Start(g) >= m - 1 THEN 0 ELSE Start(g)
  <2>3. j \in 1..(m - 1)
    BY <2>2
  <2>4. groupOrder[g][i] = x
    BY <2>2, <2>3
  <2>5. Start(g)' = u
    <3>1. groupCursor'[g] = u
      BY <1>1, <1>4, <2>1, <2>2 DEF LeftCursor, RegTypeOK
    <3>2. Start(g)' = IF u >= m - 1 THEN 0 ELSE u
      BY <2>2, <3>1 DEF Start
    <3> HIDE DEF m
    <3>3. Start(g) \in 0..(m - 1)
      BY <1>4
    <3> QED BY <1>3, <3>2, <3>3
  <2> HIDE DEF m, n
  <2>6. i \in 1..m /\ i # k /\ j - 1 = IF k - 1 < i - 1 THEN i - 1 - 1 ELSE i - 1
    BY <1>3, <2>2, <2>3
  <2>7. AtWorst(n, j - 1, u) <= AtWorst(n, i - 1, Start(g))
    <3>1. /\ Start(g) \in 0..(m - 1) /\ i - 1 \in 0..(m - 1) /\ k - 1 \in 0..(m - 1)
          /\ k - 1 # i - 1
      BY <1>3, <1>4, <2>2, <2>6
    <3> HIDE DEF i
    <3> QED BY <1>3, <2>6, <3>1, WorstAfterLeaving
  <2> QED BY <2>4, <2>5, <2>6, <2>7
<1> QED BY <1>5, <1>6, <1>7, RosterShapes

LEMMA RosterKeepsWaits ==
  ASSUME RegTypeOK, RegTypeOK', RosterInv, RosterInv', CursorInv, WaitInv, RosterStep
  PROVE  WaitInv'
<1> DEFINE n == Cardinality(Clients)
<1> SUFFICES ASSUME NEW x \in Clients
             PROVE  /\ waited'[x] \in Nat
                    /\ (\A h \in Groups : x \notin Range(groupOrder'[h])) => waited'[x] = 0
                    /\ \A h \in Groups : \A j \in 1..Len(groupOrder'[h]) :
                         groupOrder'[h][j] = x =>
                           waited'[x] + AtWorst(n, j - 1, Start(h)') <= Patience
  BY DEF WaitInv, Patience
<1>1. waited'[x] =
        IF \E g \in Groups : x \in Range(groupOrder[g]) \cap Range(groupOrder'[g])
        THEN waited[x] ELSE 0
  BY DEF RosterStep
<1>2. waited[x] \in Nat
  BY DEF WaitInv
<1>3. ASSUME NEW h \in Groups, NEW j \in 1..Len(groupOrder'[h]), groupOrder'[h][j] = x
      PROVE  waited'[x] + AtWorst(n, j - 1, Start(h)') <= Patience
  <2>1. AtWorst(n, j - 1, Start(h)') \in Nat /\ AtWorst(n, j - 1, Start(h)') <= Patience
    BY <1>3, AllStartWellNext DEF StartsWell, RosterInv, Patience
  <2>2. CASE x \in Range(groupOrder[h])
    <3>1. PICK i \in 1..Len(groupOrder[h]) :
            /\ groupOrder[h][i] = x
            /\ AtWorst(n, j - 1, Start(h)') <= AtWorst(n, i - 1, Start(h))
      BY <1>3, <2>2, StayingIsNoWorse
    <3>2. /\ waited[x] + AtWorst(n, i - 1, Start(h)) <= Patience
          /\ AtWorst(n, i - 1, Start(h)) \in Nat /\ Patience \in Nat
      BY <3>1, WaitStarts DEF WaitInv, RosterInv
    <3>3. waited'[x] \in Nat /\ waited'[x] <= waited[x]
      BY <1>1, <1>2
    <3> DEFINE w == waited[x]
               v == waited'[x]
               before == AtWorst(n, i - 1, Start(h))
               after == AtWorst(n, j - 1, Start(h)')
    <3>4. /\ w \in Nat /\ v \in Nat /\ before \in Nat /\ after \in Nat
          /\ v <= w /\ after <= before /\ w + before <= Patience
      BY <1>2, <2>1, <3>1, <3>2, <3>3
    <3> HIDE DEF w, v, before, after
    <3>5. v + after <= Patience
      BY <3>2, <3>4
    <3> QED BY <3>5 DEF v, after
  <2>3. CASE x \notin Range(groupOrder[h])
    <3>1. \A g \in Groups : x \in Range(groupOrder'[g]) => g = h
      <4>1. DOMAIN groupOrder'[h] = 1..Len(groupOrder'[h])
        BY LenProperties DEF RegTypeOK
      <4>2. x \in Range(groupOrder'[h])
        BY <1>3, <4>1 DEF Range
      <4> QED BY <4>2 DEF RosterInv, OrderInv
    <3>2. waited'[x] = 0
      BY <1>1, <2>3, <3>1
    <3> QED BY <2>1, <3>2
  <2> QED BY <2>2, <2>3
<1> QED BY <1>1, <1>2, <1>3

-----------------------------------------------------------------------------
(* Theorems *)

RRInv == RegTypeOK /\ RosterInv /\ CursorInv /\ TurnsInv /\ WaitInv

LEMMA RRInvStep == RRInv /\ [RRNext]_rrVars => RRInv'
<1> SUFFICES ASSUME RRInv, [RRNext]_rrVars PROVE RRInv'
  OBVIOUS
<1>1. RegTypeOK' /\ RosterInv' /\ CursorInv'
  BY RRStepIsRegStep, TypeStep, RosterKept, CursorStep DEF RRInv
<1>2. OrderInv /\ OrderInv'
  BY <1>1 DEF RRInv, RosterInv
<1>3. ASSUME NEW g \in Groups, NEW full \in SUBSET Range(sessions),
             PickRoundRobin(g, full), CountPick(g, full)
      PROVE  TurnsInv' /\ WaitInv'
  BY <1>1, <1>2, <1>3, PickKeepsTurns, PickKeepsWaits DEF RRInv, TurnsInv
<1>4. CASE RosterStep
  BY <1>1, <1>2, <1>4, RosterKeepsTurns, RosterKeepsWaits DEF RRInv
<1>5. CASE UNCHANGED rrVars
  <2>1. /\ groupOrder' = groupOrder /\ groupCursor' = groupCursor
        /\ turns' = turns /\ waited' = waited
    BY <1>5 DEF rrVars, regVars, rosterVars
  <2>2. \A h, i : Offset(h, i)' = Offset(h, i)
    BY <2>1 DEF Offset, Start
  <2>3. ASSUME NEW x, NEW y, Precedes(x, y) PROVE Precedes(x, y)'
    BY <2>1, <2>2, <2>3 DEF Precedes
  <2>4. TurnsInv'
    <3>1. ASSUME NEW x \in Clients, NEW y \in Clients
          PROVE  /\ turns'[<<x, y>>] \in {0, 1}
                 /\ turns'[<<x, y>>] = 1 => Precedes(x, y)'
      BY <2>1, <2>3 DEF RRInv, TurnsInv
    <3> QED BY <3>1, Zenon DEF TurnsInv
  <2>5. \A h : Start(h)' = Start(h)
    BY <2>1 DEF Start
  <2>6. WaitInv'
    BY <2>1, <2>5 DEF RRInv, WaitInv, Patience
  <2> QED BY <1>1, <2>4, <2>6 DEF RRInv
<1> QED BY <1>1, <1>3, <1>4, <1>5 DEF RRNext, RRInv

LEMMA AlwaysInTurn == RRSpec => []RRInv
<1>1. RRInit => RRInv
  BY TypeInit, RosterInit, CursorInit, TurnsInit, WaitInit DEF RRInit, RRInv
<1> QED BY <1>1, RRInvStep, PTL DEF RRSpec

\* In a group whose order does not change no device is given two calls in a
\* row ahead of another one that could have taken both, however many devices
\* there are, whichever queues are full and wherever the cursor is.
THEOREM RotationIsFair == RRSpec => []NoOvertaking
<1>1. RRInv => NoOvertaking
  <2> SUFFICES ASSUME RRInv, NEW p \in Clients \X Clients PROVE turns[p] <= 1
    BY DEF NoOvertaking
  <2>1. PICK x \in Clients, y \in Clients : p = <<x, y>>
    OBVIOUS
  <2>2. turns[p] \in {0, 1}
    BY <2>1 DEF RRInv, TurnsInv
  <2> QED BY <2>2
<1> QED BY <1>1, AlwaysInTurn, PTL

\* Whoever stays in a group with room in its queue is picked before Patience
\* others were picked ahead of it, while others come, go and fill up.
THEOREM WaitIsBounded == RRSpec => []BoundedWait
<1>1. RRInv => BoundedWait
  <2> SUFFICES ASSUME RRInv, NEW x \in Clients PROVE waited[x] <= Patience
    BY DEF BoundedWait
  <2>1. waited[x] \in Nat /\ OrderInv
    BY DEF RRInv, WaitInv, RosterInv
  <2>2. CASE \A g \in Groups : x \notin Range(groupOrder[g])
    <3>1. waited[x] = 0
      BY <2>2 DEF RRInv, WaitInv
    <3>2. Patience >= 0
      <4> DEFINE n == Cardinality(Clients)
      <4>1. n \in Nat
        BY FS_CardinalityType, DevicesAssumption
      <4>2. Patience = IF n <= 1 THEN 0 ELSE n * (n - 1) - 1
        BY DEF Patience
      <4> HIDE DEF n
      <4>3. n * (n - 1) = n * n - n /\ (2 <= n => 2 * n <= n * n)
        BY <4>1, Times
      <4> QED BY <4>1, <4>2, <4>3
    <3> QED BY <3>1, <3>2
  <2>3. ASSUME NEW g \in Groups, x \in Range(groupOrder[g])
        PROVE  waited[x] <= Patience
    <3>1. DOMAIN groupOrder[g] = 1..Len(groupOrder[g])
      BY LenProperties DEF RRInv, RegTypeOK
    <3>2. PICK i \in 1..Len(groupOrder[g]) : groupOrder[g][i] = x
      BY <2>3, <3>1 DEF Range
    <3>3. /\ waited[x] + AtWorst(Cardinality(Clients), i - 1, Start(g)) <= Patience
          /\ AtWorst(Cardinality(Clients), i - 1, Start(g)) \in Nat /\ Patience \in Nat
      BY <2>1, <3>2, WaitStarts DEF RRInv, WaitInv
    <3> QED BY <2>1, <3>3
  <2> QED BY <2>2, <2>3
<1> QED BY <1>1, AlwaysInTurn, PTL
=============================================================================
