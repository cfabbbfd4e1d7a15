--------------------------- MODULE RegistryProofs ---------------------------
(***************************************************************************)
(* Proofs about Registry, for every set of clients, groups, sessions and   *)
(* writers.                                                                *)
(***************************************************************************)
EXTENDS Registry, TLAPS, SequenceTheorems, WellFoundedInduction

-----------------------------------------------------------------------------
(* The operators the registry is built from *)

\* Removing a client from an order keeps a sequence of clients that is no
\* longer than before (the filter in removeClientFromGroup).
LEMMA WithoutType ==
  ASSUME NEW order \in Seq(Clients), NEW c
  PROVE  /\ Without(order, c) \in Seq(Clients)
         /\ Len(Without(order, c)) <= Len(order)
<1>1. CASE c \notin Range(order)
  BY <1>1, LenProperties DEF Without
<1>2. CASE c \in Range(order)
  <2> DEFINE p == CHOOSE i \in DOMAIN order : order[i] = c
             short == [j \in 1..(Len(order) - 1) |->
                         IF j < p THEN order[j] ELSE order[j + 1]]
  <2>1. p \in 1..Len(order) /\ Len(order) \in Nat
    BY <1>2, LenProperties DEF Range
  <2>2. \A j \in 1..(Len(order) - 1) : short[j] \in Clients
    BY <2>1, ElementOfSeq
  <2>3. short \in Seq(Clients) /\ Len(short) = Len(order) - 1
    BY <2>1, <2>2
  <2> QED
    BY <1>2, <2>1, <2>3 DEF Without
<1> QED
  BY <1>1, <1>2

\* Removing a client from an order without duplicates removes it, nothing
\* else, and creates no duplicate.
LEMMA WithoutRange ==
  ASSUME NEW order \in Seq(Clients), IsInjective(order), NEW c
  PROVE  /\ Range(Without(order, c)) = Range(order) \ {c}
         /\ IsInjective(Without(order, c))
<1>1. CASE c \notin Range(order)
  BY <1>1 DEF Without
<1>2. CASE c \in Range(order)
  <2> DEFINE n == Len(order)
             p == CHOOSE i \in DOMAIN order : order[i] = c
             short == [j \in 1..(n - 1) |->
                         IF j < p THEN order[j] ELSE order[j + 1]]
  <2>1. n \in Nat /\ DOMAIN order = 1..n
    BY LenProperties
  <2>2. p \in 1..n /\ order[p] = c
    BY <1>2 DEF Range
  <2>3. \A i, j \in 1..n : order[i] = order[j] => i = j
    BY <2>1 DEF IsInjective
  <2>4. \A j \in 1..(n - 1) : short[j] = IF j < p THEN order[j] ELSE order[j + 1]
    OBVIOUS
  <2>5. IsInjective(short)
    <3> SUFFICES ASSUME NEW i \in 1..(n - 1), NEW j \in 1..(n - 1),
                        short[i] = short[j]
                 PROVE  i = j
      BY DEF IsInjective
    <3> HIDE DEF n, p, short
    <3> QED
      BY <2>1, <2>2, <2>3, <2>4
  <2>6. Range(short) \subseteq Range(order) \ {c}
    <3> SUFFICES ASSUME NEW j \in 1..(n - 1)
                 PROVE  short[j] \in Range(order) \ {c}
      BY DEF Range
    <3> HIDE DEF n, p, short
    <3> QED
      BY <2>1, <2>2, <2>3, <2>4 DEF Range
  <2>7. Range(order) \ {c} \subseteq Range(short)
    <3> SUFFICES ASSUME NEW i \in 1..n, order[i] # c
                 PROVE  \E j \in 1..(n - 1) : short[j] = order[i]
      BY <2>1 DEF Range
    <3> HIDE DEF n, p, short
    <3>1. i # p
      BY <2>2
    <3>2. CASE i < p
      <4>1. i \in 1..(n - 1) /\ short[i] = order[i]
        BY <3>2, <2>1, <2>2, <2>4
      <4> QED BY <4>1
    <3>3. CASE i > p
      <4>1. i - 1 \in 1..(n - 1) /\ ~(i - 1 < p) /\ (i - 1) + 1 = i
        BY <3>3, <2>1, <2>2
      <4>2. short[i - 1] = order[i]
        BY <4>1, <2>4
      <4> QED BY <4>1, <4>2
    <3> QED
      BY <3>1, <3>2, <3>3, <2>1, <2>2
  <2>8. Without(order, c) = short
    BY <1>2 DEF Without
  <2> QED
    BY <2>5, <2>6, <2>7, <2>8
<1> QED
  BY <1>1, <1>2

\* Appending a client that is not in the order adds it, nothing else, and
\* creates no duplicate (ensureOrder).
LEMMA AppendRange ==
  ASSUME NEW order \in Seq(Clients), NEW c \in Clients
  PROVE  /\ Append(order, c) \in Seq(Clients)
         /\ Len(Append(order, c)) = Len(order) + 1
         /\ Range(Append(order, c)) = Range(order) \cup {c}
         /\ IsInjective(order) /\ c \notin Range(order)
              => IsInjective(Append(order, c))
<1> DEFINE longer == Append(order, c)
<1>1. /\ longer \in Seq(Clients)
      /\ Len(order) \in Nat
      /\ Len(longer) = Len(order) + 1
      /\ \A i \in 1..Len(order) : longer[i] = order[i]
      /\ longer[Len(order) + 1] = c
      /\ DOMAIN order = 1..Len(order)
      /\ DOMAIN longer = 1..(Len(order) + 1)
  BY LenProperties, AppendProperties
<1>2. Range(longer) = Range(order) \cup {c}
  BY <1>1 DEF Range
<1>3. IsInjective(order) /\ c \notin Range(order) => IsInjective(longer)
  BY <1>1 DEF Range, IsInjective
<1> QED
  BY <1>1, <1>2, <1>3

\* A limit in force is between 1 and the cap, whatever was asked for.
LEMMA NormalizeBounds ==
  ASSUME NEW asked \in Limits
  PROVE  NormalizeMaxInFlight(asked) \in 1..LimitCap
BY LimitsAssumption DEF NormalizeMaxInFlight

\* Reduction modulo n > 0 lands below n (the wrap-around in pickSession).
LEMMA ModBounds ==
  ASSUME NEW i \in Int, NEW n \in Nat \ {0}
  PROVE  i % n \in 0..(n - 1)
OBVIOUS

\* pickSession picks a position it may pick, whenever there is one: among
\* finitely many visited positions one is visited first.
LEMMA PickedIsCandidate ==
  ASSUME RegTypeOK, NEW g \in Groups, NEW full,
         CandidatePositions(g, full) # {}
  PROVE  /\ PickedPosition(g, full) \in CandidatePositions(g, full)
         /\ PickedPosition(g, full) \in 1..Len(groupOrder[g])
         /\ Len(groupOrder[g]) \in Nat \ {0}
         /\ \A j \in CandidatePositions(g, full) :
              Offset(g, PickedPosition(g, full)) <= Offset(g, j)
<1> DEFINE cand == CandidatePositions(g, full)
           n == Len(groupOrder[g])
           off == {Offset(g, i) : i \in cand}
<1>1. cand \subseteq 1..n /\ n \in Nat
  BY LenProperties DEF RegTypeOK, CandidatePositions, OnlinePositions
<1>2. n \in Nat \ {0}
  BY <1>1
<1>3. Start(g) \in Nat
  BY <1>1 DEF Start, RegTypeOK
<1>4. \A i \in cand : Offset(g, i) \in Nat
  <2> SUFFICES ASSUME NEW i \in cand PROVE Offset(g, i) \in Nat
    OBVIOUS
  <2>1. i - 1 - Start(g) \in Int
    BY <1>1, <1>3
  <2>2. (i - 1 - Start(g)) % n \in 0..(n - 1)
    BY <1>2, <2>1, ModBounds
  <2> QED
    BY <1>2, <2>2 DEF Offset
<1>5. PICK x \in off : \A y \in off : ~(<<y, x>> \in OpToRel(<, Nat))
  <2>1. off \subseteq Nat /\ off # {}
    BY <1>4
  <2> QED
    BY <2>1, NatLessThanWellFounded, WFMin
<1>6. PICK i \in cand : x = Offset(g, i)
  OBVIOUS
<1>7. \A j \in cand : Offset(g, i) <= Offset(g, j)
  <2> SUFFICES ASSUME NEW j \in cand PROVE Offset(g, i) <= Offset(g, j)
    OBVIOUS
  <2>1. ~(<<Offset(g, j), Offset(g, i)>> \in OpToRel(<, Nat))
    BY <1>5, <1>6
  <2>2. ~(Offset(g, j) < Offset(g, i))
    BY <2>1, <1>4 DEF OpToRel
  <2> QED
    BY <2>2, <1>4
<1>8. /\ PickedPosition(g, full) \in cand
      /\ \A j \in cand : Offset(g, PickedPosition(g, full)) <= Offset(g, j)
  BY <1>7 DEF PickedPosition
<1> QED
  BY <1>1, <1>2, <1>8

-----------------------------------------------------------------------------
(* Types *)

\* What a step of the registry does to the roster maps keeps their types.
LEMMA RosterTypes ==
  ASSUME RegTypeOK, NEW c \in Clients, NEW g, NEW h \in Groups,
         NEW s \in Sessions
  PROVE  /\ LeftGroups(g, c) \in [Groups -> SUBSET (Clients \X Sessions)]
         /\ LeftOrder(g, c) \in [Groups -> Seq(Clients)]
         /\ LeftCursor(g, c) \in [Groups -> Nat]
         /\ \A gs \in [Groups -> SUBSET (Clients \X Sessions)] :
              EnsureGroup(gs, h, c, s) \in [Groups -> SUBSET (Clients \X Sessions)]
         /\ \A os \in [Groups -> Seq(Clients)] :
              EnsureOrder(os, h, c) \in [Groups -> Seq(Clients)]
<1>1. LeftGroups(g, c) \in [Groups -> SUBSET (Clients \X Sessions)]
  BY DEF RegTypeOK, LeftGroups
<1>2. LeftOrder(g, c) \in [Groups -> Seq(Clients)]
  BY WithoutType DEF RegTypeOK, LeftOrder
<1>3. LeftCursor(g, c) \in [Groups -> Nat]
  BY DEF RegTypeOK, LeftCursor
<1>4. ASSUME NEW gs \in [Groups -> SUBSET (Clients \X Sessions)]
      PROVE  EnsureGroup(gs, h, c, s) \in [Groups -> SUBSET (Clients \X Sessions)]
  BY DEF EnsureGroup
<1>5. ASSUME NEW os \in [Groups -> Seq(Clients)]
      PROVE  EnsureOrder(os, h, c) \in [Groups -> Seq(Clients)]
  BY AppendRange DEF EnsureOrder
<1> QED
  BY <1>1, <1>2, <1>3, <1>4, <1>5

LEMMA TypeInit == RegInit => RegTypeOK
BY LimitsAssumption, EmptySeq DEF RegInit, RegTypeOK

\* Every operation of the registry keeps the types.
LEMMA TypeStep == RegTypeOK /\ [RegNext]_regVars => RegTypeOK'
<1> SUFFICES ASSUME RegTypeOK, [RegNext]_regVars PROVE RegTypeOK'
  OBVIOUS
<1> USE SessionsAssumption, ClientOfAssumption, LimitsAssumption
<1>1. ASSUME NEW c \in Clients, NEW g \in Groups, NEW asked \in Limits,
             NEW s \in Sessions, RegisterNew(c, g, asked, s)
      PROVE  RegTypeOK'
  <2>1. groups' \in [Groups -> SUBSET (Clients \X Sessions)]
    BY <1>1, RosterTypes DEF RegisterNew, RegTypeOK
  <2>2. groupOrder' \in [Groups -> Seq(Clients)]
    BY <1>1, RosterTypes DEF RegisterNew, RegTypeOK
  <2>3. maxInFlight' \in [Sessions -> 0..LimitCap]
    BY <1>1, NormalizeBounds DEF RegisterNew, RegTypeOK
  <2> QED
    BY <1>1, <2>1, <2>2, <2>3 DEF RegisterNew, RegTypeOK, SignalDispatch
<1>2. ASSUME NEW c \in Clients, NEW g \in Groups, NEW asked \in Limits,
             RegisterExisting(c, g, asked)
      PROVE  RegTypeOK'
  <2> DEFINE s == sessions[c]
  <2>1. s \in Sessions
    BY <1>2 DEF RegisterExisting, Registered, RegTypeOK
  <2>2. groups' \in [Groups -> SUBSET (Clients \X Sessions)]
    BY <1>2, <2>1, RosterTypes DEF RegisterExisting, RegTypeOK
  <2>3. groupOrder' \in [Groups -> Seq(Clients)]
    BY <1>2, <2>1, RosterTypes DEF RegisterExisting, RegTypeOK
  <2>4. groupCursor' \in [Groups -> Nat]
    BY <1>2, <2>1, RosterTypes DEF RegisterExisting, RegTypeOK
  <2>5. maxInFlight' \in [Sessions -> 0..LimitCap]
    BY <1>2, <2>1, NormalizeBounds DEF RegisterExisting, RegTypeOK
  <2> QED
    BY <1>2, <2>1, <2>2, <2>3, <2>4, <2>5
    DEF RegisterExisting, RegTypeOK, SignalDispatch
<1>3. ASSUME NEW c \in Clients, Unregister(c)
      PROVE  RegTypeOK'
  <2>1. sessions[c] \in Sessions
    BY <1>3 DEF Unregister, Registered, RegTypeOK
  <2>2. groups' \in [Groups -> SUBSET (Clients \X Sessions)]
    BY <1>3, <2>1 DEF Unregister, RegTypeOK, LeftGroups
  <2>3. groupOrder' \in [Groups -> Seq(Clients)]
    BY <1>3, <2>1, WithoutType DEF Unregister, RegTypeOK, LeftOrder
  <2>4. groupCursor' \in [Groups -> Nat]
    BY <1>3, <2>1 DEF Unregister, RegTypeOK, LeftCursor
  <2> QED
    BY <1>3, <2>1, <2>2, <2>3, <2>4
    DEF Unregister, RegTypeOK, SignalDispatch, objectVars
<1>4. ASSUME NEW c \in Clients, Touch(c) \/ FallSilent(c)
      PROVE  RegTypeOK'
  BY <1>4 DEF Touch, FallSilent, RegTypeOK, rosterVars
<1>5. ASSUME NEW c \in Clients, ReleaseDispatch(c)
      PROVE  RegTypeOK'
  <2>1. sessions[c] \in Sessions
    BY <1>5 DEF ReleaseDispatch, Registered, RegTypeOK
  <2>2. inFlight' \in [Sessions -> Nat]
    BY <1>5, <2>1 DEF ReleaseDispatch, RegTypeOK
  <2> QED
    BY <1>5, <2>1, <2>2 DEF ReleaseDispatch, RegTypeOK, SignalDispatch, rosterVars
<1>6. ASSUME NEW g \in Groups, NEW full \in SUBSET Sessions,
             PickRoundRobin(g, full)
      PROVE  RegTypeOK'
  <2>1. /\ PickedPosition(g, full) \in 1..Len(groupOrder[g])
        /\ Len(groupOrder[g]) \in Nat \ {0}
    BY <1>6, PickedIsCandidate DEF PickRoundRobin
  <2>2. PickedPosition(g, full) \in Int
    BY <2>1
  <2>3. PickedPosition(g, full) % Len(groupOrder[g])
          \in 0..(Len(groupOrder[g]) - 1)
    BY <2>1, <2>2, ModBounds
  <2>4. PickedPosition(g, full) % Len(groupOrder[g]) \in Nat
    BY <2>1, <2>3
  <2> QED
    BY <1>6, <2>4 DEF PickRoundRobin, RegTypeOK, objectVars
<1>7. ASSUME NEW w \in Writers, TakeSlot(w) \/ ParkForSlot(w) \/ StopWaiting(w)
      PROVE  RegTypeOK'
  <2>1. CASE TakeSlot(w)
    <3>1. sessions[ClientOf[w]] \in Sessions
      BY <2>1 DEF TakeSlot, RegTypeOK
    <3> QED
      BY <2>1, <3>1 DEF TakeSlot, RegTypeOK, rosterVars
  <2>2. CASE ParkForSlot(w)
    <3>1. sessions[ClientOf[w]] \in Sessions
      BY <2>2 DEF ParkForSlot, RegTypeOK
    <3> QED
      BY <2>2, <3>1 DEF ParkForSlot, RegTypeOK, objectVars, rosterVars
  <2>3. CASE StopWaiting(w)
    BY <2>3 DEF StopWaiting, RegTypeOK, objectVars, rosterVars
  <2> QED
    BY <1>7, <2>1, <2>2, <2>3
<1>8. CASE UNCHANGED regVars
  BY <1>8 DEF regVars, objectVars, rosterVars, RegTypeOK
<1> QED
  BY <1>1, <1>2, <1>3, <1>4, <1>5, <1>6, <1>7, <1>8, QuietAssumption DEF RegNext

\* The registry's state is always well typed; in particular no release ever
\* drives a slot count below zero and no limit exceeds the cap.
THEOREM RegTypeCorrect == RegSpec => []RegTypeOK
BY TypeInit, TypeStep, PTL DEF RegSpec

-----------------------------------------------------------------------------
(* The roster: Hub.sessions, Hub.groups and Hub.groupOrder agree.  OwnerInv *)
(* is what makes the three inductive: two clients never share an object, so *)
(* moving one of them between groups moves nobody else.                     *)

LEMMA RosterInit == RegInit => RosterInv
<1>1. DOMAIN << >> = {}
  OBVIOUS
<1>2. IsInjective(<< >>) /\ Range(<< >>) = {}
  BY <1>1 DEF IsInjective, Range
<1>3. RegInit => OwnerInv
  BY DEF RegInit, OwnerInv, Registered
<1>4. RegInit => MembersInv
  BY SessionsAssumption DEF RegInit, MembersInv
<1>5. RegInit => OrderInv
  BY <1>2 DEF RegInit, OrderInv, Registered
<1> QED
  BY <1>3, <1>4, <1>5 DEF RosterInv

\* An operation that only looks at the roster keeps it consistent.
LEMMA RosterFrame ==
  RosterInv
    /\ UNCHANGED <<sessions, owner, groupOf, maxInFlight, groups, groupOrder>>
  => RosterInv'
BY DEF RosterInv, OwnerInv, MembersInv, OrderInv, Registered, IsInjective, Range

\* A first registration.
LEMMA RosterRegisterNew ==
  ASSUME RegTypeOK, RosterInv,
         NEW c \in Clients, NEW g \in Groups, NEW asked \in Limits,
         NEW s \in Sessions, RegisterNew(c, g, asked, s)
  PROVE  RosterInv'
<1> USE SessionsAssumption
<1>1. /\ sessions[c] = None
      /\ \A d \in Clients : sessions[d] # s
      /\ sessions' = [sessions EXCEPT ![c] = s]
      /\ owner' = [owner EXCEPT ![s] = c]
      /\ groupOf' = [groupOf EXCEPT ![s] = g]
      /\ maxInFlight' = [maxInFlight EXCEPT ![s] = NormalizeMaxInFlight(asked)]
  BY DEF RegisterNew, Registered, Range, RegTypeOK
<1>2. OwnerInv'
  <2>1. NormalizeMaxInFlight(asked) > 0
    BY NormalizeBounds, LimitsAssumption
  <2> QED
    BY <1>1, <2>1 DEF OwnerInv, RosterInv, Registered, RegTypeOK
<1>3. MembersInv'
  <2>1. \A h \in Groups : groups'[h] =
          IF h = g THEN {m \in groups[g] : m[1] # c} \cup {<<c, s>>} ELSE groups[h]
    BY DEF RegisterNew, EnsureGroup, RegTypeOK
  <2> SUFFICES ASSUME NEW h \in Groups, NEW d \in Clients, NEW t \in Sessions
               PROVE  <<d, t>> \in groups'[h]
                        <=> sessions'[d] = t /\ groupOf'[t] = h
    BY DEF MembersInv
  <2>2. <<d, t>> \in groups[h] <=> sessions[d] = t /\ groupOf[t] = h
    BY DEF MembersInv, RosterInv
  <2>3. <<d, t>> \in groups'[h]
          <=> \/ <<d, t>> \in groups[h] /\ ~(h = g /\ d = c)
              \/ h = g /\ d = c /\ t = s
    <3>1. <<d, t>> \in {m \in groups[h] : m[1] # c}
            <=> <<d, t>> \in groups[h] /\ d # c
      OBVIOUS
    <3>2. <<d, t>> \in {<<c, s>>} <=> d = c /\ t = s
      OBVIOUS
    <3>3. CASE h = g
      BY <2>1, <3>1, <3>2, <3>3
    <3>4. CASE h # g
      BY <2>1, <3>4
    <3> QED
      BY <3>3, <3>4
  <2> QED
    BY <1>1, <2>2, <2>3 DEF RegTypeOK
<1>4. OrderInv'
  <2>1. c \notin Range(groupOrder[g])
    BY <1>1 DEF OrderInv, RosterInv, Registered
  <2>2. \A h \in Groups : groupOrder'[h] =
          IF h = g THEN Append(groupOrder[g], c) ELSE groupOrder[h]
    BY <2>1 DEF RegisterNew, EnsureOrder, RegTypeOK
  <2>3. groupOrder[g] \in Seq(Clients) /\ IsInjective(groupOrder[g])
    BY DEF RegTypeOK, OrderInv, RosterInv
  <2>4. /\ Range(Append(groupOrder[g], c)) = Range(groupOrder[g]) \cup {c}
        /\ IsInjective(Append(groupOrder[g], c))
    BY <2>1, <2>3, AppendRange
  <2> SUFFICES ASSUME NEW h \in Groups
               PROVE  /\ IsInjective(groupOrder'[h])
                      /\ \A d \in Clients :
                           d \in Range(groupOrder'[h])
                             <=> sessions'[d] # None /\ groupOf'[sessions'[d]] = h
    BY DEF OrderInv, Registered
  <2>5. IsInjective(groupOrder'[h])
    BY <2>2, <2>4 DEF OrderInv, RosterInv
  <2>6. ASSUME NEW d \in Clients
        PROVE  d \in Range(groupOrder'[h])
                 <=> sessions'[d] # None /\ groupOf'[sessions'[d]] = h
    <3>1. d \in Range(groupOrder'[h])
            <=> d \in Range(groupOrder[h]) \/ (h = g /\ d = c)
      BY <2>2, <2>4
    <3>2. d \in Range(groupOrder[h])
            <=> sessions[d] # None /\ groupOf[sessions[d]] = h
      BY DEF OrderInv, RosterInv, Registered
    <3> QED
      BY <1>1, <3>1, <3>2 DEF RegTypeOK
  <2> QED
    BY <2>5, <2>6
<1> QED
  BY <1>2, <1>3, <1>4 DEF RosterInv

\* A registration of a client that has a session, in the same group or in
\* another one.
LEMMA RosterRegisterExisting ==
  ASSUME RegTypeOK, RosterInv,
         NEW c \in Clients, NEW g \in Groups, NEW asked \in Limits,
         RegisterExisting(c, g, asked)
  PROVE  RosterInv'
<1> USE SessionsAssumption
<1> DEFINE s == sessions[c]
           old == groupOf[s]
<1>1. /\ s \in Sessions
      /\ old \in Groups
      /\ \A d \in Clients : d # c => sessions[d] # s
      /\ sessions' = sessions
      /\ owner' = owner
      /\ groupOf' = [groupOf EXCEPT ![s] = g]
      /\ maxInFlight' = [maxInFlight EXCEPT ![s] = NormalizeMaxInFlight(asked)]
  BY DEF RegisterExisting, Registered, RegTypeOK, RosterInv, OwnerInv
<1>2. OwnerInv'
  <2>1. NormalizeMaxInFlight(asked) > 0
    BY NormalizeBounds, LimitsAssumption
  <2> QED
    BY <1>1, <2>1 DEF OwnerInv, RosterInv, Registered, RegTypeOK
<1>3. MembersInv'
  <2> DEFINE gs == IF old # g THEN LeftGroups(old, c) ELSE groups
  <2>1. groups' = EnsureGroup(gs, g, c, s)
    BY DEF RegisterExisting
  <2>2. gs \in [Groups -> SUBSET (Clients \X Sessions)]
    BY <1>1, RosterTypes DEF RegTypeOK
  <2>3. \A h \in Groups : gs[h] =
          IF h = old /\ old # g THEN {m \in groups[h] : m[1] # c} ELSE groups[h]
    BY <1>1 DEF LeftGroups, RegTypeOK
  <2>4. \A h \in Groups : groups'[h] =
          IF h = g THEN {m \in gs[g] : m[1] # c} \cup {<<c, s>>} ELSE gs[h]
    BY <2>1, <2>2 DEF EnsureGroup
  <2> HIDE DEF gs
  <2> SUFFICES ASSUME NEW h \in Groups, NEW d \in Clients, NEW t \in Sessions
               PROVE  <<d, t>> \in groups'[h]
                        <=> sessions'[d] = t /\ groupOf'[t] = h
    BY DEF MembersInv
  <2>5. <<d, t>> \in groups[h] <=> sessions[d] = t /\ groupOf[t] = h
    BY DEF MembersInv, RosterInv
  <2>6. <<d, t>> \in {m \in groups[h] : m[1] # c}
          <=> <<d, t>> \in groups[h] /\ d # c
    OBVIOUS
  <2>7. /\ <<d, t>> \in {m \in gs[g] : m[1] # c} <=> <<d, t>> \in gs[g] /\ d # c
        /\ <<d, t>> \in {<<c, s>>} <=> d = c /\ t = s
    OBVIOUS
  <2>8. <<d, t>> \in gs[h]
          <=> <<d, t>> \in groups[h] /\ ~(h = old /\ old # g /\ d = c)
    <3>1. CASE h = old /\ old # g
      BY <2>3, <2>6, <3>1
    <3>2. CASE ~(h = old /\ old # g)
      BY <2>3, <3>2
    <3> QED
      BY <3>1, <3>2
  <2>9. <<d, t>> \in groups'[h]
          <=> \/ <<d, t>> \in gs[h] /\ ~(h = g /\ d = c)
              \/ h = g /\ d = c /\ t = s
    <3>1. CASE h = g
      BY <2>4, <2>7, <3>1
    <3>2. CASE h # g
      BY <2>4, <3>2
    <3> QED
      BY <3>1, <3>2
  <2>10. CASE d # c
    BY <2>5, <2>8, <2>9, <2>10, <1>1 DEF RegTypeOK
  <2>11. CASE d = c
    BY <2>5, <2>8, <2>9, <2>11, <1>1 DEF RegTypeOK
  <2> QED
    BY <2>10, <2>11
<1>4. OrderInv'
  <2> DEFINE os == IF old # g THEN LeftOrder(old, c) ELSE groupOrder
  <2>1. groupOrder' = EnsureOrder(os, g, c)
    BY DEF RegisterExisting
  <2>2. os \in [Groups -> Seq(Clients)]
    BY <1>1, RosterTypes DEF RegTypeOK
  <2>3. ASSUME NEW h \in Groups
        PROVE  /\ IsInjective(os[h])
               /\ Range(os[h]) = IF h = old /\ old # g
                                 THEN Range(groupOrder[h]) \ {c}
                                 ELSE Range(groupOrder[h])
    <3>1. groupOrder[h] \in Seq(Clients) /\ IsInjective(groupOrder[h])
      BY DEF RegTypeOK, OrderInv, RosterInv
    <3>2. os[h] = IF h = old /\ old # g THEN Without(groupOrder[h], c)
                                        ELSE groupOrder[h]
      BY <1>1 DEF LeftOrder, RegTypeOK
    <3> QED
      BY <3>1, <3>2, WithoutRange
  <2>4. ASSUME NEW h \in Groups
        PROVE  /\ IsInjective(groupOrder'[h])
               /\ Range(groupOrder'[h]) =
                    IF h = g THEN Range(os[h]) \cup {c} ELSE Range(os[h])
    <3> HIDE DEF os
    <3>1. groupOrder'[h] = IF h = g /\ c \notin Range(os[h])
                           THEN Append(os[h], c) ELSE os[h]
      BY <2>1, <2>2 DEF EnsureOrder
    <3>2. os[h] \in Seq(Clients)
      BY <2>2
    <3> QED
      BY <3>1, <3>2, <2>3, AppendRange
  <2> HIDE DEF os
  <2> SUFFICES ASSUME NEW h \in Groups, NEW d \in Clients
               PROVE  d \in Range(groupOrder'[h])
                        <=> sessions[d] # None /\ groupOf'[sessions[d]] = h
    BY <2>4, <1>1 DEF OrderInv, Registered
  <2>5. d \in Range(groupOrder[h])
          <=> sessions[d] # None /\ groupOf[sessions[d]] = h
    BY DEF OrderInv, RosterInv, Registered
  <2>6. CASE d # c
    <3>1. d \in Range(groupOrder'[h]) <=> d \in Range(groupOrder[h])
      BY <2>3, <2>4, <2>6
    <3> QED
      BY <3>1, <2>5, <2>6, <1>1 DEF RegTypeOK
  <2>7. CASE d = c
    <3>1. c \in Range(groupOrder'[h]) <=> h = g
      BY <2>3, <2>4, <2>5, <2>7, <1>1
    <3> QED
      BY <3>1, <2>7, <1>1 DEF RegTypeOK
  <2> QED
    BY <2>6, <2>7
<1> QED
  BY <1>2, <1>3, <1>4 DEF RosterInv

\* An unregistration.
LEMMA RosterUnregister ==
  ASSUME RegTypeOK, RosterInv, NEW c \in Clients, Unregister(c)
  PROVE  RosterInv'
<1> USE SessionsAssumption
<1> DEFINE s == sessions[c]
           old == groupOf[s]
<1>1. /\ s \in Sessions
      /\ old \in Groups
      /\ \A d \in Clients : d # c => sessions[d] # s
      /\ sessions' = [sessions EXCEPT ![c] = None]
      /\ UNCHANGED <<owner, groupOf, maxInFlight>>
  BY DEF Unregister, Registered, RegTypeOK, RosterInv, OwnerInv, objectVars
<1>2. OwnerInv'
  BY <1>1 DEF OwnerInv, RosterInv, Registered, RegTypeOK
<1>3. MembersInv'
  <2>1. \A h \in Groups : groups'[h] =
          IF h = old THEN {m \in groups[h] : m[1] # c} ELSE groups[h]
    BY DEF Unregister, LeftGroups, RegTypeOK
  <2> SUFFICES ASSUME NEW h \in Groups, NEW d \in Clients, NEW t \in Sessions
               PROVE  <<d, t>> \in groups'[h]
                        <=> sessions'[d] = t /\ groupOf'[t] = h
    BY DEF MembersInv
  <2>2. <<d, t>> \in groups[h] <=> sessions[d] = t /\ groupOf[t] = h
    BY DEF MembersInv, RosterInv
  <2>3. <<d, t>> \in groups'[h]
          <=> <<d, t>> \in groups[h] /\ ~(h = old /\ d = c)
    <3>1. <<d, t>> \in {m \in groups[h] : m[1] # c}
            <=> <<d, t>> \in groups[h] /\ d # c
      OBVIOUS
    <3>2. CASE h = old
      BY <2>1, <3>1, <3>2
    <3>3. CASE h # old
      BY <2>1, <3>3
    <3> QED
      BY <3>2, <3>3
  <2> QED
    BY <1>1, <2>2, <2>3 DEF RegTypeOK
<1>4. OrderInv'
  <2> SUFFICES ASSUME NEW h \in Groups
               PROVE  /\ IsInjective(groupOrder'[h])
                      /\ \A d \in Clients :
                           d \in Range(groupOrder'[h])
                             <=> sessions'[d] # None /\ groupOf[sessions'[d]] = h
    BY <1>1 DEF OrderInv, Registered
  <2>1. groupOrder[h] \in Seq(Clients) /\ IsInjective(groupOrder[h])
    BY DEF RegTypeOK, OrderInv, RosterInv
  <2>2. groupOrder'[h] = IF h = old THEN Without(groupOrder[h], c)
                                    ELSE groupOrder[h]
    BY DEF Unregister, LeftOrder, RegTypeOK
  <2>3. /\ IsInjective(groupOrder'[h])
        /\ Range(groupOrder'[h]) = IF h = old THEN Range(groupOrder[h]) \ {c}
                                              ELSE Range(groupOrder[h])
    BY <2>1, <2>2, WithoutRange
  <2>4. \A d \in Clients : d \in Range(groupOrder[h])
          <=> sessions[d] # None /\ groupOf[sessions[d]] = h
    BY DEF OrderInv, RosterInv, Registered
  <2> QED
    BY <1>1, <2>3, <2>4 DEF RegTypeOK
<1> QED
  BY <1>2, <1>3, <1>4 DEF RosterInv

LEMMA RosterKept == RegTypeOK /\ RosterInv /\ [RegNext]_regVars => RosterInv'
<1> SUFFICES ASSUME RegTypeOK, RosterInv, [RegNext]_regVars PROVE RosterInv'
  OBVIOUS
<1> DEFINE looksOnly ==
  UNCHANGED <<sessions, owner, groupOf, maxInFlight, groups, groupOrder>>
<1>1. ASSUME NEW c \in Clients,
             Touch(c) \/ FallSilent(c) \/ ReleaseDispatch(c)
      PROVE  looksOnly
  BY <1>1 DEF Touch, FallSilent, ReleaseDispatch, rosterVars
<1>2. ASSUME NEW g \in Groups, NEW full, PickRoundRobin(g, full)
      PROVE  looksOnly
  BY <1>2 DEF PickRoundRobin, objectVars
<1>3. ASSUME NEW w \in Writers, TakeSlot(w) \/ ParkForSlot(w) \/ StopWaiting(w)
      PROVE  looksOnly
  BY <1>3 DEF TakeSlot, ParkForSlot, StopWaiting, objectVars, rosterVars
<1>4. UNCHANGED regVars => looksOnly
  BY DEF regVars, objectVars, rosterVars
<1> QED
  BY <1>1, <1>2, <1>3, <1>4, RosterFrame, RosterRegisterNew,
     RosterRegisterExisting, RosterUnregister, QuietAssumption DEF RegNext

\* After any sequence of registrations, moves between groups and
\* unregistrations the three views of who is where agree: nobody is listed
\* twice in a round-robin order, missing from it, or left in a group they
\* moved out of.
THEOREM RosterCorrect == RegSpec => []RosterInv
<1>1. RegInit => RegTypeOK /\ RosterInv
  BY TypeInit, RosterInit
<1>2. RegTypeOK /\ RosterInv /\ [RegNext]_regVars => (RegTypeOK /\ RosterInv)'
  BY TypeStep, RosterKept
<1> QED
  BY <1>1, <1>2, PTL DEF RegSpec

-----------------------------------------------------------------------------
(* The round-robin cursor *)

\* A cursor value that is safe to keep beside an order.
InReach(cursor, order) == cursor = 0 \/ cursor < Len(order)

\* Removing a client resets the cursor when the order shrinks down to it.
LEMMA CursorLeaves ==
  ASSUME RegTypeOK, CursorInv, NEW c, NEW g \in Groups, NEW h \in Groups
  PROVE  InReach(LeftCursor(g, c)[h], LeftOrder(g, c)[h])
<1>1. groupCursor[h] \in Nat /\ InReach(groupCursor[h], groupOrder[h])
  BY DEF RegTypeOK, CursorInv, InReach
<1>2. Without(groupOrder[g], c) \in Seq(Clients)
  BY WithoutType DEF RegTypeOK
<1>3. Len(Without(groupOrder[g], c)) \in Nat
  BY <1>2, LenProperties
<1>4. CASE h = g
  <2>1. /\ LeftCursor(g, c)[h] = IF groupCursor[g] >= Len(Without(groupOrder[g], c))
                                 THEN 0 ELSE groupCursor[g]
        /\ LeftOrder(g, c)[h] = Without(groupOrder[g], c)
    BY <1>4 DEF LeftCursor, LeftOrder, RegTypeOK
  <2> QED
    BY <1>1, <1>3, <1>4, <2>1 DEF InReach
<1>5. CASE h # g
  BY <1>1, <1>5 DEF LeftCursor, LeftOrder, RegTypeOK
<1> QED
  BY <1>4, <1>5

\* Adding a client never shortens an order.
LEMMA CursorJoins ==
  ASSUME NEW orders \in [Groups -> Seq(Clients)], NEW g \in Groups,
         NEW h \in Groups, NEW c \in Clients, NEW cursor \in Nat,
         InReach(cursor, orders[h])
  PROVE  InReach(cursor, EnsureOrder(orders, g, c)[h])
<1>1. /\ orders[h] \in Seq(Clients)
      /\ Len(orders[h]) \in Nat
      /\ Len(Append(orders[h], c)) = Len(orders[h]) + 1
  BY LenProperties, AppendRange
<1>2. \/ EnsureOrder(orders, g, c)[h] = orders[h]
      \/ EnsureOrder(orders, g, c)[h] = Append(orders[h], c)
  BY DEF EnsureOrder
<1> QED
  BY <1>1, <1>2 DEF InReach

LEMMA CursorInit == RegInit => CursorInv
BY DEF RegInit, CursorInv

LEMMA CursorStep ==
  RegTypeOK /\ RosterInv /\ CursorInv /\ [RegNext]_regVars => CursorInv'
<1> SUFFICES ASSUME RegTypeOK, CursorInv, RosterInv, [RegNext]_regVars
             PROVE  CursorInv'
  OBVIOUS
<1>1. ASSUME NEW c \in Clients, NEW g \in Groups, NEW asked \in Limits,
             NEW s \in Sessions, RegisterNew(c, g, asked, s)
      PROVE  CursorInv'
  <2> SUFFICES ASSUME NEW h \in Groups
               PROVE  InReach(groupCursor'[h], groupOrder'[h])
    BY DEF CursorInv, InReach
  <2>1. InReach(groupCursor[h], groupOrder[h]) /\ groupCursor[h] \in Nat
    BY DEF CursorInv, InReach, RegTypeOK
  <2>2. groupOrder \in [Groups -> Seq(Clients)]
    BY DEF RegTypeOK
  <2>3. /\ groupOrder' = EnsureOrder(groupOrder, g, c)
        /\ groupCursor' = groupCursor
    BY <1>1 DEF RegisterNew
  <2> QED
    BY <2>1, <2>2, <2>3, CursorJoins
<1>2. ASSUME NEW c \in Clients, NEW g \in Groups, NEW asked \in Limits,
             RegisterExisting(c, g, asked)
      PROVE  CursorInv'
  <2> DEFINE old == groupOf[sessions[c]]
             orders == IF old # g THEN LeftOrder(old, c) ELSE groupOrder
             cursors == IF old # g THEN LeftCursor(old, c) ELSE groupCursor
  <2> SUFFICES ASSUME NEW h \in Groups
               PROVE  InReach(groupCursor'[h], groupOrder'[h])
    BY DEF CursorInv, InReach
  <2>1. sessions[c] \in Sessions /\ old \in Groups
    BY <1>2, SessionsAssumption
    DEF RegisterExisting, Registered, RegTypeOK, RosterInv, OwnerInv
  <2>2. /\ orders \in [Groups -> Seq(Clients)]
        /\ cursors \in [Groups -> Nat]
    BY <2>1, RosterTypes DEF RegTypeOK
  <2>3. InReach(cursors[h], orders[h])
    <3>1. CASE old # g
      BY <2>1, <3>1, CursorLeaves
    <3>2. CASE old = g
      BY <3>2 DEF CursorInv, InReach
    <3> QED
      BY <3>1, <3>2
  <2>4. groupOrder' = EnsureOrder(orders, g, c) /\ groupCursor' = cursors
    BY <1>2 DEF RegisterExisting
  <2> HIDE DEF old, orders, cursors
  <2>5. cursors[h] \in Nat
    BY <2>2
  <2> QED
    BY <2>2, <2>3, <2>4, <2>5, CursorJoins
<1>3. ASSUME NEW c \in Clients, Unregister(c)
      PROVE  CursorInv'
  <2> SUFFICES ASSUME NEW h \in Groups
               PROVE  InReach(groupCursor'[h], groupOrder'[h])
    BY DEF CursorInv, InReach
  <2>1. groupOf[sessions[c]] \in Groups
    BY <1>3 DEF Unregister, RosterInv, OwnerInv
  <2>2. /\ groupOrder' = LeftOrder(groupOf[sessions[c]], c)
        /\ groupCursor' = LeftCursor(groupOf[sessions[c]], c)
    BY <1>3 DEF Unregister
  <2> QED
    BY <2>1, <2>2, CursorLeaves
<1>4. ASSUME NEW g \in Groups, NEW full, PickRoundRobin(g, full)
      PROVE  CursorInv'
  <2> DEFINE n == Len(groupOrder[g])
             at == PickedPosition(g, full) % n
  <2>1. PickedPosition(g, full) \in 1..n /\ n \in Nat \ {0}
    BY <1>4, PickedIsCandidate DEF PickRoundRobin
  <2>2. PickedPosition(g, full) \in Int
    BY <2>1
  <2>3. at \in 0..(n - 1)
    BY <2>1, <2>2, ModBounds
  <2>4. at < n
    BY <2>1, <2>3
  <2>5. /\ groupCursor' = [groupCursor EXCEPT ![g] = at]
        /\ groupOrder' = groupOrder
    BY <1>4 DEF PickRoundRobin
  <2> HIDE DEF at
  <2> QED
    BY <2>4, <2>5 DEF CursorInv, RegTypeOK
<1>5. ASSUME UNCHANGED <<groupOrder, groupCursor>> PROVE CursorInv'
  BY <1>5 DEF CursorInv
<1>6. ASSUME NEW c \in Clients,
             Touch(c) \/ FallSilent(c) \/ ReleaseDispatch(c)
      PROVE  UNCHANGED <<groupOrder, groupCursor>>
  BY <1>6 DEF Touch, FallSilent, ReleaseDispatch, rosterVars
<1>7. ASSUME NEW w \in Writers, TakeSlot(w) \/ ParkForSlot(w) \/ StopWaiting(w)
      PROVE  UNCHANGED <<groupOrder, groupCursor>>
  BY <1>7 DEF TakeSlot, ParkForSlot, StopWaiting, rosterVars
<1>8. UNCHANGED regVars => UNCHANGED <<groupOrder, groupCursor>>
  BY DEF regVars, rosterVars
<1> QED
  BY <1>1, <1>2, <1>3, <1>4, <1>5, <1>6, <1>7, <1>8, QuietAssumption DEF RegNext

\* Whatever leaves a group while a search was under way, the cursor kept for
\* the next search is a position of the group's order: the index computed
\* from it in pickSession never leaves the slice.
THEOREM CursorCorrect == RegSpec => []CursorInv
<1> DEFINE IInv == RegTypeOK /\ RosterInv /\ CursorInv
<1>1. RegInit => IInv
  BY TypeInit, RosterInit, CursorInit
<1>2. IInv /\ [RegNext]_regVars => IInv'
  BY TypeStep, RosterKept, CursorStep
<1>3. IInv => CursorInv
  OBVIOUS
<1> QED
  BY <1>1, <1>2, <1>3, PTL DEF RegSpec

-----------------------------------------------------------------------------
(* Writers that wait for a dispatch slot *)

LEMMA WakeupInit == RegInit => NoLostWakeup
BY DEF RegInit, NoLostWakeup

\* Every step that could make a blocked writer's wait pointless frees it.
LEMMA WakeupStep ==
  RegTypeOK /\ NoLostWakeup /\ [RegNext]_regVars => NoLostWakeup'
<1> SUFFICES ASSUME RegTypeOK, NoLostWakeup, [RegNext]_regVars
             PROVE  NoLostWakeup'
  OBVIOUS
<1> USE SessionsAssumption, ClientOfAssumption
<1> DEFINE Justified(t, u) ==
  sessions[ClientOf[u]] = t /\ ~(inFlight[t] < maxInFlight[t])
<1>1. \A t \in Sessions : \A u \in dispatchReady[t] : Justified(t, u)
  BY DEF NoLostWakeup, HasFreeSlot
<1>2. ASSUME NEW t \in Sessions PROVE dispatchReady[t] \subseteq Writers
  BY DEF RegTypeOK
<1>3. ASSUME \A t \in Sessions : \A u \in dispatchReady'[t] : Justified(t, u)'
      PROVE  NoLostWakeup'
  BY <1>3 DEF NoLostWakeup, HasFreeSlot
<1>4. ASSUME NEW c \in Clients, NEW g \in Groups, NEW asked \in Limits,
             NEW s \in Sessions, RegisterNew(c, g, asked, s)
      PROVE  NoLostWakeup'
  <2> SUFFICES ASSUME NEW t \in Sessions, NEW u \in dispatchReady'[t]
               PROVE  Justified(t, u)'
    BY <1>3
  <2>1. t # s /\ u \in dispatchReady[t]
    BY <1>4 DEF RegisterNew, SignalDispatch, RegTypeOK
  <2>2. Justified(t, u) /\ ClientOf[u] \in Clients
    BY <1>1, <1>2, <2>1
  <2>3. sessions[c] = None
    BY <1>4 DEF RegisterNew, Registered
  <2> QED
    BY <1>4, <2>1, <2>2, <2>3 DEF RegisterNew, RegTypeOK
<1>5. ASSUME NEW c \in Clients, NEW g \in Groups, NEW asked \in Limits,
             RegisterExisting(c, g, asked)
      PROVE  NoLostWakeup'
  <2> SUFFICES ASSUME NEW t \in Sessions, NEW u \in dispatchReady'[t]
               PROVE  Justified(t, u)'
    BY <1>3
  <2>1. t # sessions[c] /\ u \in dispatchReady[t]
    BY <1>5 DEF RegisterExisting, SignalDispatch, RegTypeOK
  <2>2. Justified(t, u)
    BY <1>1, <2>1
  <2> QED
    BY <1>5, <2>1, <2>2 DEF RegisterExisting, RegTypeOK
<1>6. ASSUME NEW c \in Clients, Unregister(c)
      PROVE  NoLostWakeup'
  <2> SUFFICES ASSUME NEW t \in Sessions, NEW u \in dispatchReady'[t]
               PROVE  Justified(t, u)'
    BY <1>3
  <2>1. t # sessions[c] /\ u \in dispatchReady[t]
    BY <1>6 DEF Unregister, SignalDispatch, RegTypeOK
  <2>2. Justified(t, u) /\ ClientOf[u] \in Clients
    BY <1>1, <1>2, <2>1
  <2> QED
    BY <1>6, <2>1, <2>2 DEF Unregister, objectVars, RegTypeOK
<1>7. ASSUME NEW c \in Clients, ReleaseDispatch(c)
      PROVE  NoLostWakeup'
  <2> SUFFICES ASSUME NEW t \in Sessions, NEW u \in dispatchReady'[t]
               PROVE  Justified(t, u)'
    BY <1>3
  <2>1. t # sessions[c] /\ u \in dispatchReady[t]
    BY <1>7 DEF ReleaseDispatch, SignalDispatch, RegTypeOK
  <2>2. Justified(t, u)
    BY <1>1, <2>1
  <2> QED
    BY <1>7, <2>1, <2>2 DEF ReleaseDispatch, RegTypeOK
<1>8. ASSUME NEW w \in Writers, TakeSlot(w)
      PROVE  NoLostWakeup'
  <2> SUFFICES ASSUME NEW t \in Sessions, NEW u \in dispatchReady'[t]
               PROVE  Justified(t, u)'
    BY <1>3
  <2> DEFINE s == sessions[ClientOf[w]]
  <2>1. /\ dispatchReady' = dispatchReady
        /\ sessions' = sessions
        /\ maxInFlight' = maxInFlight
        /\ inFlight' = [inFlight EXCEPT ![s] = @ + 1]
        /\ inFlight[s] < maxInFlight[s]
    BY <1>8 DEF TakeSlot, HasFreeSlot
  <2>2. Justified(t, u)
    BY <1>1, <2>1
  <2>3. t # s
    BY <2>1, <2>2
  <2> QED
    BY <2>1, <2>2, <2>3 DEF RegTypeOK
<1>9. ASSUME NEW w \in Writers, ParkForSlot(w)
      PROVE  NoLostWakeup'
  <2> SUFFICES ASSUME NEW t \in Sessions, NEW u \in dispatchReady'[t]
               PROVE  Justified(t, u)'
    BY <1>3
  <2> DEFINE s == sessions[ClientOf[w]]
  <2>1. /\ dispatchReady' = [dispatchReady EXCEPT ![s] = @ \cup {w}]
        /\ ~(inFlight[s] < maxInFlight[s])
        /\ UNCHANGED <<sessions, inFlight, maxInFlight>>
    BY <1>9 DEF ParkForSlot, HasFreeSlot, objectVars
  <2>2. u \in dispatchReady[t] \/ (t = s /\ u = w)
    BY <2>1 DEF RegTypeOK
  <2> QED
    BY <1>1, <2>1, <2>2
<1>10. ASSUME NEW w \in Writers, StopWaiting(w)
       PROVE  NoLostWakeup'
  <2> SUFFICES ASSUME NEW t \in Sessions, NEW u \in dispatchReady'[t]
               PROVE  Justified(t, u)'
    BY <1>3
  <2>1. /\ u \in dispatchReady[t]
        /\ UNCHANGED <<sessions, inFlight, maxInFlight>>
    BY <1>10 DEF StopWaiting, objectVars
  <2> QED
    BY <1>1, <2>1
<1>11. ASSUME UNCHANGED <<sessions, inFlight, maxInFlight, dispatchReady>>
       PROVE  NoLostWakeup'
  BY <1>11 DEF NoLostWakeup, HasFreeSlot
<1>12. ASSUME NEW c \in Clients, Touch(c) \/ FallSilent(c)
       PROVE  NoLostWakeup'
  BY <1>11, <1>12 DEF Touch, FallSilent
<1>13. ASSUME NEW g \in Groups, NEW full, PickRoundRobin(g, full)
       PROVE  NoLostWakeup'
  BY <1>11, <1>13 DEF PickRoundRobin, objectVars
<1>14. CASE UNCHANGED regVars
  BY <1>11, <1>14 DEF regVars, objectVars
<1> QED
  BY <1>4, <1>5, <1>6, <1>7, <1>8, <1>9, <1>10, <1>12, <1>13, <1>14,
     QuietAssumption DEF RegNext

\* No writer is ever left blocked in AcquireDispatchSlot on a session that
\* has been replaced or that has a free slot.
THEOREM WakeupCorrect == RegSpec => []NoLostWakeup
<1>1. RegInit => RegTypeOK /\ NoLostWakeup
  BY TypeInit, WakeupInit
<1>2. RegTypeOK /\ NoLostWakeup /\ [RegNext]_regVars
        => (RegTypeOK /\ NoLostWakeup)'
  BY TypeStep, WakeupStep
<1> QED
  BY <1>1, <1>2, PTL DEF RegSpec
=============================================================================
