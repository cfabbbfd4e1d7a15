------------------------------ MODULE HubProofs ------------------------------
(***************************************************************************)
(* Proofs about Hub, for every set of calls, clients, writers and sessions *)
(* and every queue limit.                                                  *)
(*                                                                         *)
(* A step of the hub is a step of the registry or leaves it alone, so what *)
(* is proved of the registry holds here too.  About the hub's own state    *)
(* the argument has two parts that do not need each other's details: the   *)
(* ledger (CallSound says where a call's waiter, channel and record are at *)
(* each place of its goroutine) and the queues (JobsAtHome says whose jobs *)
(* they hold, which rests on the session pointer a caller keeps).  The     *)
(* last section says that pruning keeps the jobs of calls that wait, and   *)
(* when a queue is sure to have room for one more.                         *)
(***************************************************************************)
EXTENDS Hub, RegistryProofs, FiniteSetTheorems

-----------------------------------------------------------------------------
(* Queues as sequences *)

\* A set of numbers that is not empty has a least element.
LEMMA LeastNumber ==
  ASSUME NEW S \in SUBSET Nat, S # {}
  PROVE  \E x \in S : \A y \in S : x <= y
<1>1. PICK x \in S : \A y \in S : ~(<<y, x>> \in OpToRel(<, Nat))
  BY NatLessThanWellFounded, WFMin
<1>2. ASSUME NEW y \in S PROVE x <= y
  <2>1. ~(y < x)
    BY <1>1 DEF OpToRel
  <2> QED BY <2>1
<1> QED BY <1>2

\* pruneExpiredLocked keeps a part of the queue.
KeptStep(queue, f, n) ==
  IF n = 0 THEN << >>
  ELSE IF queue[n] \in expired THEN f[n - 1] ELSE Append(f[n - 1], queue[n])

LEMMA KeptExists ==
  ASSUME NEW queue, NEW n \in Nat
  PROVE  \E f : f = [m \in 0..n |-> KeptStep(queue, f, m)]
<1> DEFINE Good(k) == \E f : f = [m \in 0..k |-> KeptStep(queue, f, m)]
           bad == {k \in Nat : ~Good(k)}
<1>1. SUFFICES bad = {}
  OBVIOUS
<1>2. SUFFICES ASSUME bad # {} PROVE FALSE
  OBVIOUS
<1>3. PICK k \in bad : \A y \in bad : k <= y
  BY <1>2, LeastNumber
<1>4. CASE k = 0
  <2> DEFINE f == [m \in 0..0 |-> << >>]
  <2>1. f = [m \in 0..k |-> KeptStep(queue, f, m)]
    BY <1>4 DEF KeptStep
  <2> QED BY <2>1
<1>5. CASE k # 0
  <2>1. k - 1 \in Nat /\ ~(k <= k - 1)
    BY <1>5
  <2>2. Good(k - 1)
    BY <2>1, <1>3
  <2>3. PICK f : f = [m \in 0..(k - 1) |-> KeptStep(queue, f, m)]
    BY <2>2
  <2> DEFINE g == [m \in 0..k |-> IF m = k THEN KeptStep(queue, f, k) ELSE f[m]]
  <2>4. \A m \in 0..(k - 1) : g[m] = f[m] /\ f[m] = KeptStep(queue, f, m)
    BY <2>1, <2>3
  <2>5. ASSUME NEW m \in 0..k PROVE g[m] = KeptStep(queue, g, m)
    <3>1. KeptStep(queue, g, m) = KeptStep(queue, f, m)
      <4>1. CASE m = 0
        BY <4>1 DEF KeptStep
      <4>2. CASE m # 0
        <5>1. m - 1 \in 0..(k - 1)
          BY <4>2
        <5>2. g[m - 1] = f[m - 1]
          BY <5>1, <2>4
        <5> QED BY <5>2, <4>2 DEF KeptStep
      <4> QED BY <4>1, <4>2
    <3>2. CASE m = k
      BY <3>1, <3>2
    <3>3. CASE m # k
      <4>1. m \in 0..(k - 1)
        BY <3>3
      <4> QED BY <4>1, <2>4, <3>1
    <3> QED BY <3>2, <3>3
  <2>6. g = [m \in 0..k |-> KeptStep(queue, g, m)]
    <3> DEFINE h == [m \in 0..k |-> KeptStep(queue, g, m)]
    <3>1. DOMAIN g = 0..k /\ DOMAIN h = 0..k
      OBVIOUS
    <3>2. \A m \in 0..k : g[m] = h[m]
      BY <2>5
    <3>3. g = [m \in 0..k |-> g[m]] /\ h = [m \in 0..k |-> h[m]]
      OBVIOUS
    <3> HIDE DEF g, h
    <3>4. g = h
      BY <3>2, <3>3
    <3> QED BY <3>4 DEF h
  <2> HIDE DEF g
  <2>7. Good(k)
    BY <2>6
  <2> QED BY <2>7
<1> QED BY <1>4, <1>5

\* What the queue holds after pruning it held before, unexpired; it has not
\* become longer.
LEMMA LiveIsPart ==
  ASSUME NEW queue \in Seq(Requests)
  PROVE  /\ Live(queue) \in Seq(Requests)
         /\ Len(Live(queue)) <= Len(queue)
         /\ \A i \in 1..Len(Live(queue)) :
              \E j \in 1..Len(queue) : Live(queue)[i] = queue[j]
<1> DEFINE n == Len(queue)
           kept == CHOOSE f : f = [m \in 0..n |-> KeptStep(queue, f, m)]
           Part(m) == /\ kept[m] \in Seq(Requests)
                      /\ Len(kept[m]) <= m
                      /\ \A i \in 1..Len(kept[m]) :
                           \E j \in 1..m : kept[m][i] = queue[j]
           bad == {m \in 0..n : ~Part(m)}
<1>1. n \in Nat /\ \A i \in 1..n : queue[i] \in Requests
  BY LenProperties, ElementOfSeq
<1>2. Live(queue) = kept[n]
  BY DEF Live, KeptStep
<1>3. kept = [m \in 0..n |-> KeptStep(queue, kept, m)]
  BY <1>1, KeptExists
<1> HIDE DEF kept
<1>4. ASSUME bad # {} PROVE FALSE
  <2>1. PICK m \in bad : \A y \in bad : m <= y
    <3>1. bad \in SUBSET Nat
      BY <1>1
    <3> HIDE DEF bad
    <3> QED BY <3>1, <1>4, LeastNumber
  <2>2. m \in 0..n /\ kept[m] = KeptStep(queue, kept, m)
    BY <1>3
  <2>3. CASE m = 0
    <3>1. kept[m] = << >>
      BY <2>2, <2>3 DEF KeptStep
    <3>2. Part(m)
      BY <3>1, <2>3, EmptySeq
    <3> QED BY <3>2
  <2>4. CASE m # 0
    <3>1. m - 1 \in 0..n /\ ~(m <= m - 1) /\ m \in 1..n
      BY <1>1, <2>2, <2>4
    <3>2. Part(m - 1)
      BY <2>1, <3>1
    <3> DEFINE before == kept[m - 1]
    <3>3. before \in Seq(Requests) /\ Len(before) \in Nat /\ Len(before) <= m - 1
      BY <3>2, LenProperties
    <3>4. \A i \in 1..Len(before) : \E j \in 1..(m - 1) : before[i] = queue[j]
      BY <3>2
    <3>5. kept[m] = before \/ kept[m] = Append(before, queue[m])
      BY <2>2, <2>4 DEF KeptStep
    <3>6. queue[m] \in Requests
      BY <1>1, <3>1
    <3> HIDE DEF before
    <3>7. CASE kept[m] = before
      BY <3>1, <3>3, <3>4, <3>7
    <3>8. CASE kept[m] = Append(before, queue[m])
      <4>1. /\ kept[m] \in Seq(Requests)
            /\ Len(kept[m]) = Len(before) + 1
            /\ \A i \in 1..Len(before) : kept[m][i] = before[i]
            /\ kept[m][Len(before) + 1] = queue[m]
        BY <3>3, <3>6, <3>8, AppendProperties
      <4>2. ASSUME NEW i \in 1..Len(kept[m])
            PROVE  \E j \in 1..m : kept[m][i] = queue[j]
        <5>1. CASE i = Len(before) + 1
          BY <5>1, <4>1, <3>1
        <5>2. CASE i # Len(before) + 1
          <6>1. i \in 1..Len(before)
            BY <5>2, <4>1, <3>3
          <6>2. PICK j \in 1..(m - 1) : before[i] = queue[j]
            BY <6>1, <3>4
          <6> QED BY <6>1, <6>2, <4>1, <3>1
        <5> QED BY <5>1, <5>2
      <4>3. Len(kept[m]) <= m
        BY <4>1, <3>3, <3>1
      <4> QED BY <4>1, <4>2, <4>3
    <3> QED BY <3>5, <3>7, <3>8
  <2> QED BY <2>3, <2>4
<1>5. n \in 0..n
  BY <1>1
<1>6. Part(n)
  BY <1>4, <1>5
<1> QED BY <1>2, <1>6

-----------------------------------------------------------------------------
(* The registry inside the hub *)

\* No step of the hub does to the registry what no operation of it does.
LEMMA HubStepIsRegStep == [HubNext]_hubVars => [RegNext]_regVars
<1> SUFFICES ASSUME [HubNext]_hubVars PROVE [RegNext]_regVars
  OBVIOUS
<1>1. ASSUME NEW r \in Requests, PickSession(r) PROVE [RegNext]_regVars
  <2>1. CASE PickPreferred(r)
    BY <2>1 DEF PickPreferred
  <2>2. CASE PickInGroup(r)
    <3>1. GroupOfCall[r] \in Groups /\ FullSessions \in SUBSET Sessions
      BY CallsAssumption DEF FullSessions
    <3>2. PickRoundRobin(GroupOfCall[r], FullSessions) \/ UNCHANGED regVars
      BY <2>2 DEF PickInGroup
    <3> QED BY <3>1, <3>2 DEF RegNext
  <2> QED BY <1>1, <2>1, <2>2 DEF PickSession
<1>2. ASSUME NEW r \in Requests, InvokeStep(r), ~PickSession(r)
      PROVE  [RegNext]_regVars
  BY <1>2 DEF InvokeStep, StoreWaiter, PushJob, DropWaiter, TakeResult, GiveUp,
              ExpireWaiter
<1>3. ASSUME NEW r \in Requests, DeadlinePasses(r) \/ CtxEnds(r) \/ Age(r)
      PROVE  [RegNext]_regVars
  BY <1>3 DEF DeadlinePasses, CtxEnds, Age
<1>4. ASSUME NEW c \in Clients, NEW r \in Requests, SubmitResult(c, r)
      PROVE  [RegNext]_regVars
  BY <1>4 DEF SubmitResult, Delivered, Late, Ignored, ReleaseIfRegistered, RegNext
<1>5. ASSUME NEW c \in Clients, NEW g \in Groups, NEW asked \in Limits,
             NEW s \in Sessions, RegisterFresh(c, g, asked, s)
      PROVE  [RegNext]_regVars
  BY <1>5 DEF RegisterFresh, RegNext
<1>6. ASSUME NEW w \in Writers, NEW s \in Sessions, Pop(w, s) \/ PutBack(w, s)
      PROVE  [RegNext]_regVars
  BY <1>6 DEF Pop, PutBack
<1>7. ASSUME NEW w \in Writers, LeavePop(w) \/ LetGo(w)
      PROVE  [RegNext]_regVars
  BY <1>7 DEF LeavePop, LetGo
<1>8. CASE RegistryStep
  BY <1>8 DEF RegistryStep, RegNext
<1>9. CASE UNCHANGED hubVars
  BY <1>9 DEF hubVars
<1> QED
  BY <1>1, <1>2, <1>3, <1>4, <1>5, <1>6, <1>7, <1>8, <1>9 DEF HubNext

\* The hub implements its registry: whatever calls, queues and writers do
\* around it, its sessions, groups, cursors and slots change only by the
\* registry's own operations.
THEOREM HubImplementsRegistry == HubSpec => RegSpec
<1>1. HubInit => RegInit
  BY DEF HubInit
<1> QED
  BY <1>1, HubStepIsRegStep, PTL DEF HubSpec, RegSpec

\* So the views of who is where agree, the cursors stay in reach and no writer
\* sleeps through a free slot while calls come and go.
THEOREM HubKeepsRegistry ==
  HubSpec => [](RegTypeOK /\ RosterInv /\ CursorInv /\ NoLostWakeup)
BY HubImplementsRegistry, RegTypeCorrect, RosterCorrect, CursorCorrect,
   WakeupCorrect, PTL

-----------------------------------------------------------------------------
(* Types *)

\* A session that was picked is one of a client that is registered.
LEMMA PickedSession ==
  ASSUME RegTypeOK, RosterInv, NEW r \in Requests, PickSession(r),
         callPc'[r] = "picked", DOMAIN callPc = Requests
  PROVE  \E c \in Clients :
           Registered(c) /\ sessions[c] \in Sessions /\ owner[sessions[c]] = c
           /\ Assign(r, sessions[c])
<1> SUFFICES \E c \in Clients : Registered(c) /\ Assign(r, sessions[c])
  BY DEF RegTypeOK, RosterInv, OwnerInv, Registered
<1>1. ASSUME NEW v, Return(r, v) PROVE FALSE
  BY <1>1 DEF Return
<1>2. CASE PickPreferred(r)
  <2>1. Preferred[r] \in Clients
    BY <1>2, CallsAssumption DEF PickPreferred
  <2> QED BY <1>1, <1>2, <2>1 DEF PickPreferred
<1>3. CASE PickInGroup(r)
  <2> DEFINE g == GroupOfCall[r]
             c == PickedClient(g, FullSessions)
             p == PickedPosition(g, FullSessions)
  <2>1. g \in Groups
    BY CallsAssumption
  <2>2. CandidatePositions(g, FullSessions) # {} /\ Assign(r, sessions[c])
    BY <1>1, <1>3 DEF PickInGroup
  <2>3. /\ p \in CandidatePositions(g, FullSessions)
        /\ p \in 1..Len(groupOrder[g])
    BY <2>1, <2>2, PickedIsCandidate
  <2>4. c \in Clients
    BY <2>1, <2>3, ElementOfSeq DEF RegTypeOK, PickedClient
  <2>5. Registered(c)
    BY <2>3 DEF CandidatePositions, OnlinePositions, PickedClient, Registered
  <2> QED BY <2>2, <2>4, <2>5
<1> QED BY <1>2, <1>3 DEF PickSession

\* Pushing a call's job keeps the queues well formed.
LEMMA PushType ==
  ASSUME HubTypeOK, NEW s, NEW r \in Requests, Push(s, r)
  PROVE  /\ pending' \in [Sessions -> Seq(Requests)]
         /\ notify' \in [Sessions -> SUBSET Writers]
<1>1. ASSUME s \in Sessions
      PROVE  Append(Room(s), r) \in Seq(Requests)
  <2>1. Room(s) \in Seq(Requests)
    BY <1>1, LiveIsPart DEF Room, HubTypeOK
  <2> QED BY <2>1, AppendProperties
<1> QED
  BY <1>1 DEF Push, queueVars, HubTypeOK

\* Taking the head of a queue leaves what comes behind it.
LEMMA PopTakes ==
  ASSUME HubTypeOK, NEW w \in Writers, NEW s \in Sessions, PopJob(w, s)
  PROVE  \E i \in 1..Len(pending[s]) :
           /\ pending[s][i] \in Requests
           /\ held' = [held EXCEPT ![w] = pending[s][i]]
           /\ pending' = [pending EXCEPT ![s] = SubSeq(@, i + 1, Len(@))]
           /\ SubSeq(pending[s], i + 1, Len(pending[s])) \in Seq(Requests)
           /\ Len(SubSeq(pending[s], i + 1, Len(pending[s]))) <= Len(pending[s])
           /\ \A k \in 1..Len(SubSeq(pending[s], i + 1, Len(pending[s]))) :
                \E j \in 1..Len(pending[s]) :
                  SubSeq(pending[s], i + 1, Len(pending[s]))[k] = pending[s][j]
<1> DEFINE q == pending[s]
           i == HeadPosition(s)
           n == Len(q)
           rest == SubSeq(q, i + 1, n)
<1>1. q \in Seq(Requests) /\ n \in Nat /\ DOMAIN q = 1..n
  BY LenProperties DEF HubTypeOK
<1>2. LivePositions(s) # {} /\ LivePositions(s) \subseteq 1..n
  BY <1>1 DEF PopJob, LivePositions
<1>3. \E k \in LivePositions(s) : \A j \in LivePositions(s) : k <= j
  <2>1. LivePositions(s) \in SUBSET Nat
    BY <1>1, <1>2
  <2> QED BY <2>1, <1>2, LeastNumber
<1>4. i \in 1..n
  BY <1>2, <1>3 DEF HeadPosition
<1> HIDE DEF i, n
<1>5. q[i] \in Requests
  BY <1>1, <1>4, ElementOfSeq DEF n
<1>6. i + 1 \in Int /\ n \in Int /\ \A k \in (i + 1)..n : q[k] \in Requests
  BY <1>1, <1>4, ElementOfSeq DEF n
<1>7. /\ rest \in Seq(Requests)
      /\ Len(rest) = IF i + 1 <= n THEN n - (i + 1) + 1 ELSE 0
      /\ \A k \in 1..(n - (i + 1) + 1) : rest[k] = q[(i + 1) + k - 1]
  BY <1>6, SubSeqProperties
<1> HIDE DEF rest
<1>8. Len(rest) <= n /\ \A k \in 1..Len(rest) : \E j \in 1..n : rest[k] = q[j]
  <2>1. Len(rest) <= n
    BY <1>1, <1>4, <1>7
  <2>2. ASSUME NEW k \in 1..Len(rest) PROVE \E j \in 1..n : rest[k] = q[j]
    <3>1. i + 1 <= n /\ k \in 1..(n - (i + 1) + 1)
      BY <1>1, <1>4, <1>7
    <3>2. (i + 1) + k - 1 \in 1..n
      BY <3>1, <1>1, <1>4
    <3> QED BY <3>1, <3>2, <1>7
  <2> QED BY <2>1, <2>2
<1>9. /\ held' = [held EXCEPT ![w] = q[i]]
      /\ pending' = [pending EXCEPT ![s] = SubSeq(@, i + 1, Len(@))]
  BY DEF PopJob, i
<1> QED BY <1>4, <1>5, <1>7, <1>8, <1>9 DEF rest, n

LEMMA HubTypeInit == HubInit => HubTypeOK
BY EmptySeq DEF HubInit, OwnHubInit, HubTypeOK

LEMMA HubTypeStep ==
  RegTypeOK /\ RosterInv /\ HubTypeOK /\ [HubNext]_hubVars => HubTypeOK'
<1> SUFFICES ASSUME RegTypeOK, RosterInv, HubTypeOK, [HubNext]_hubVars
             PROVE  HubTypeOK'
  OBVIOUS
<1> DEFINE CallPlaces == {"idle", "picked", "stored", "waiting", "expiring",
                      "dropping", "done"}
           LedgerType == /\ waiters \in [Requests -> Clients \cup {None}]
                         /\ completed \in
                              [Requests -> [client : Clients, state : Endings]
                                             \cup {None}]
                         /\ aged \in SUBSET Requests
                         /\ resultCh \in [Requests -> Clients \cup {None}]
           CallType == /\ callPc \in [Requests -> CallPlaces]
                       /\ target \in [Requests -> Sessions \cup {None}]
                       /\ assigned \in [Requests -> Clients \cup {None}]
                       /\ verdict \in [Requests -> Verdicts \cup {None}]
           QueueType == /\ pending \in [Sessions -> Seq(Requests)]
                        /\ notify \in [Sessions -> SUBSET Writers]
           HeldType == held \in [Writers -> Requests \cup {None}]
           ClockType == expired \in SUBSET Requests /\ ctxDone \in SUBSET Requests
<1>1. LedgerType /\ CallType /\ QueueType /\ HeldType /\ ClockType
  BY DEF HubTypeOK
<1>2. SUFFICES LedgerType' /\ CallType' /\ QueueType' /\ HeldType' /\ ClockType'
  BY DEF HubTypeOK
<1>3. /\ UNCHANGED ledgerVars => LedgerType'
      /\ UNCHANGED callVars => CallType'
      /\ UNCHANGED queueVars => QueueType'
      /\ UNCHANGED held => HeldType'
      /\ UNCHANGED clockVars => ClockType'
  BY <1>1 DEF ledgerVars, callVars, queueVars, clockVars
<1>4. Cleaned(completed)
        \in [Requests -> [client : Clients, state : Endings] \cup {None}]
  BY <1>1 DEF Cleaned
<1>5. ASSUME NEW c \in Clients, NEW st \in Endings
      PROVE  Ended(c, st) \in [client : Clients, state : Endings]
  BY <1>5 DEF Ended
<1>6. ASSUME NEW r \in Requests, PickSession(r)
      PROVE  CallType' /\ UNCHANGED <<queueVars, held, ledgerVars, clockVars>>
  <2>1. UNCHANGED <<queueVars, held, ledgerVars, clockVars>>
    BY <1>6 DEF PickSession
  <2>2. CASE callPc'[r] = "picked"
    <3>1. DOMAIN callPc = Requests
      BY <1>1
    <3>2. PICK c \in Clients : /\ sessions[c] \in Sessions
                               /\ owner[sessions[c]] = c
                               /\ Assign(r, sessions[c])
      BY <1>6, <2>2, <3>1, PickedSession
    <3> QED BY <1>1, <2>1, <3>2 DEF Assign
  <2>3. CASE callPc'[r] # "picked"
    <3>1. ASSUME NEW s, Assign(r, s) PROVE FALSE
      BY <1>1, <2>3, <3>1 DEF Assign
    <3>2. \E v \in Verdicts : Return(r, v) /\ UNCHANGED assigned
      BY <1>6, <3>1 DEF PickSession, PickPreferred, PickInGroup, Verdicts
    <3> QED BY <1>1, <2>1, <3>2 DEF Return
  <2> QED BY <2>1, <2>2, <2>3
<1>7. ASSUME NEW r \in Requests, StoreWaiter(r)
      PROVE  LedgerType' /\ CallType' /\ UNCHANGED <<queueVars, held, clockVars>>
  BY <1>1, <1>4, <1>7 DEF StoreWaiter
<1>8. ASSUME NEW r \in Requests, PushJob(r)
      PROVE  CallType' /\ QueueType' /\ UNCHANGED <<ledgerVars, held, clockVars>>
  <2>1. UNCHANGED queueVars \/ Push(target[r], r)
    BY <1>8 DEF PushJob
  <2>2. QueueType'
    BY <1>3, <2>1, PushType
  <2>3. CallType'
    BY <1>1, <1>8 DEF PushJob, Verdicts
  <2> QED BY <1>8, <2>2, <2>3 DEF PushJob
<1>9. ASSUME NEW r \in Requests, DropWaiter(r)
      PROVE  LedgerType' /\ CallType' /\ UNCHANGED <<queueVars, held, clockVars>>
  BY <1>1, <1>9 DEF DropWaiter, Return
<1>10. ASSUME NEW r \in Requests, TakeResult(r)
       PROVE  LedgerType' /\ CallType' /\ UNCHANGED <<queueVars, held, clockVars>>
  BY <1>1, <1>10 DEF TakeResult, Return, Verdicts
<1>11. ASSUME NEW r \in Requests, GiveUp(r)
       PROVE  CallType' /\ UNCHANGED <<ledgerVars, queueVars, held, clockVars>>
  BY <1>1, <1>11 DEF GiveUp
<1>12. ASSUME NEW r \in Requests, ExpireWaiter(r)
       PROVE  LedgerType' /\ CallType' /\ UNCHANGED <<queueVars, held, clockVars>>
  <2>1. CASE waiters[r] # None
    <3>1. Ended(waiters[r], "expired") \in [client : Clients, state : Endings]
      BY <1>1, <1>5, <2>1 DEF Endings
    <3>2. /\ completed' = [Cleaned(completed) EXCEPT
                             ![r] = Ended(waiters[r], "expired")]
          /\ waiters' = [waiters EXCEPT ![r] = None]
          /\ aged' = {} /\ UNCHANGED resultCh
      BY <1>12, <2>1 DEF ExpireWaiter
    <3>3. LedgerType'
      BY <1>1, <1>4, <3>1, <3>2
    <3>4. CallType' /\ UNCHANGED <<queueVars, held, clockVars>>
      BY <1>1, <1>12 DEF ExpireWaiter, Return, Verdicts
    <3> QED BY <3>3, <3>4
  <2>2. CASE waiters[r] = None
    BY <1>1, <1>12, <2>2 DEF ExpireWaiter, Return, Verdicts
  <2> QED BY <2>1, <2>2
<1>13. ASSUME NEW r \in Requests, DeadlinePasses(r) \/ CtxEnds(r)
       PROVE  ClockType' /\ UNCHANGED <<ledgerVars, callVars, queueVars, held>>
  BY <1>1, <1>13 DEF DeadlinePasses, CtxEnds
<1>14. ASSUME NEW r \in Requests, Age(r)
       PROVE  LedgerType' /\ UNCHANGED <<callVars, queueVars, held, clockVars>>
  BY <1>1, <1>14 DEF Age
<1>15. ASSUME NEW c \in Clients, NEW r \in Requests, SubmitResult(c, r)
       PROVE  LedgerType' /\ UNCHANGED <<callVars, queueVars, held, clockVars>>
  <2>1. UNCHANGED <<callVars, queueVars, held, clockVars>> /\ aged' = {}
    BY <1>15 DEF SubmitResult
  <2>2. /\ Ended(c, "completed") \in [client : Clients, state : Endings]
        /\ Ended(c, "late") \in [client : Clients, state : Endings]
    BY <1>5 DEF Endings
  <2>3. CASE Delivered(c, r)
    BY <1>1, <1>4, <2>1, <2>2, <2>3 DEF Delivered
  <2>4. CASE Late(c, r)
    BY <1>1, <1>4, <2>1, <2>2, <2>4 DEF Late
  <2>5. CASE Ignored(c, r)
    BY <1>1, <1>4, <2>1, <2>5 DEF Ignored
  <2> QED BY <1>15, <2>1, <2>3, <2>4, <2>5 DEF SubmitResult
<1>16. ASSUME NEW c, NEW g, NEW asked, NEW s \in Sessions,
              RegisterFresh(c, g, asked, s)
       PROVE  QueueType' /\ UNCHANGED <<ledgerVars, callVars, held, clockVars>>
  BY <1>1, <1>16, EmptySeq DEF RegisterFresh
<1>17. ASSUME NEW w \in Writers, NEW s \in Sessions, Pop(w, s)
       PROVE  /\ QueueType' /\ HeldType'
              /\ UNCHANGED <<ledgerVars, callVars, clockVars>>
  <2>1. UNCHANGED <<ledgerVars, callVars, clockVars>>
    BY <1>17 DEF Pop
  <2>2. CASE PopJob(w, s)
    <3>1. UNCHANGED notify
      BY <2>2 DEF PopJob
    <3> QED BY <1>1, <2>1, <2>2, <3>1, PopTakes
  <2>3. CASE PopParks(w, s)
    BY <1>1, <2>1, <2>3, EmptySeq DEF PopParks
  <2> QED BY <1>17, <2>2, <2>3 DEF Pop
<1>18. ASSUME NEW w \in Writers, NEW s \in Sessions, PutBack(w, s)
       PROVE  /\ QueueType' /\ HeldType'
              /\ UNCHANGED <<ledgerVars, callVars, clockVars>>
  <2>1. held[w] \in Requests /\ Push(s, held[w])
    BY <1>1, <1>18 DEF PutBack
  <2>2. QueueType'
    BY <2>1, PushType
  <2> QED BY <1>1, <1>18, <2>2 DEF PutBack
<1>19. ASSUME NEW w \in Writers, LeavePop(w) \/ LetGo(w)
       PROVE  /\ QueueType' /\ HeldType'
              /\ UNCHANGED <<ledgerVars, callVars, clockVars>>
  BY <1>1, <1>19 DEF LeavePop, LetGo, queueVars
<1>20. CASE RegistryStep
  BY <1>3, <1>20 DEF RegistryStep, ownHubVars
<1>21. CASE UNCHANGED hubVars
  BY <1>3, <1>21 DEF hubVars, ownHubVars
<1> HIDE DEF LedgerType, CallType, QueueType, HeldType, ClockType
<1> QED
  BY <1>1, <1>3, <1>6, <1>7, <1>8, <1>9, <1>10, <1>11, <1>12, <1>13, <1>14,
     <1>15, <1>16, <1>17, <1>18, <1>19, <1>20, <1>21 DEF HubNext, InvokeStep

\* The hub's own state is always well typed.
THEOREM HubTypeCorrect == HubSpec => []HubTypeOK
<1>1. HubInit => RegTypeOK /\ RosterInv /\ HubTypeOK
  BY TypeInit, RosterInit, HubTypeInit DEF HubInit
<1>2. RegTypeOK /\ RosterInv /\ HubTypeOK /\ [HubNext]_hubVars
        => (RegTypeOK /\ RosterInv /\ HubTypeOK)'
  BY HubStepIsRegStep, TypeStep, RosterKept, HubTypeStep
<1> QED
  BY <1>1, <1>2, PTL DEF HubSpec

-----------------------------------------------------------------------------
(* The ledger of ended calls *)

Unanswered(r) ==
  waiters[r] = assigned[r] /\ resultCh[r] = None /\ completed[r] = None
Answered(r) ==
  /\ waiters[r] = None /\ resultCh[r] = assigned[r]
  /\ completed[r] = Ended(assigned[r], "completed")

\* What is left on record of a call that has returned.
Concluded(r) ==
  /\ waiters[r] = None
  /\ completed[r] # None =>
       /\ verdict[r] \in {"ok", "timeout"}
       /\ \/ /\ completed[r] = Ended(assigned[r], "completed")
             /\ verdict[r] = "timeout" => resultCh[r] = assigned[r]
          \/ /\ \/ completed[r] = Ended(assigned[r], "expired")
                \/ completed[r] = Ended(assigned[r], "late")
             /\ verdict[r] = "timeout"

\* Where the goroutine of a call is, and what the ledger says of it there.
CallSound(r) ==
  \/ /\ callPc[r] \in {"idle", "picked"}
     /\ waiters[r] = None /\ resultCh[r] = None /\ completed[r] = None
     /\ verdict[r] = None
  \/ callPc[r] = "stored" /\ Unanswered(r) /\ verdict[r] = None
  \/ /\ callPc[r] \in {"waiting", "expiring"}
     /\ Unanswered(r) \/ Answered(r)
     /\ verdict[r] = None
  \/ /\ callPc[r] = "dropping"
     /\ Unanswered(r) /\ verdict[r] \in {"timeout", "rejected"}
  \/ callPc[r] = "done" /\ Concluded(r)

LedgerInv ==
  /\ \A r \in aged : callPc[r] = "done"
  /\ \A r \in Requests : CallSound(r)

\* The step LedgerForward allows for a call.
Forward(r) ==
  completed'[r] # completed[r] =>
    \/ completed[r] = None /\ waiters[r] # None /\ waiters'[r] = None
    \/ /\ completed[r] # None /\ completed'[r] # None
       /\ completed[r].state = "expired" /\ completed'[r].state = "late"
    \/ completed'[r] = None /\ r \in aged

\* A step does nothing to a call, or forgets a record that is old.
Untouched(r) ==
  /\ callPc'[r] = callPc[r] /\ assigned'[r] = assigned[r]
  /\ verdict'[r] = verdict[r] /\ waiters'[r] = waiters[r]
  /\ resultCh'[r] = resultCh[r]
  /\ \/ completed'[r] = completed[r]
     \/ r \in aged /\ completed'[r] = None

LEMMA UntouchedIsSound ==
  ASSUME LedgerInv, NEW r \in Requests, Untouched(r)
  PROVE  CallSound(r)' /\ Forward(r)
<1>1. CallSound(r)
  BY DEF LedgerInv
<1>2. CASE completed'[r] = completed[r]
  BY <1>1, <1>2
  DEF CallSound, Untouched, Unanswered, Answered, Concluded, Forward, Ended
<1>3. CASE r \in aged /\ completed'[r] = None
  <2>1. callPc[r] = "done" /\ Concluded(r)
    BY <1>1, <1>3 DEF LedgerInv, CallSound
  <2> QED
    BY <1>3, <2>1 DEF CallSound, Untouched, Concluded, Forward
<1> QED BY <1>2, <1>3 DEF Untouched

\* A record is never taken for the absence of one.
LEMMA EndedIsRecord ==
  ASSUME NEW c \in Clients, NEW st \in Endings
  PROVE  /\ Ended(c, st) # None
         /\ Ended(c, st).client = c /\ Ended(c, st).state = st
BY CallsAssumption DEF Ended

LEMMA LedgerInit == HubInit => LedgerInv
BY DEF HubInit, OwnHubInit, LedgerInv, CallSound

LEMMA LedgerStep ==
  HubTypeOK /\ LedgerInv /\ [HubNext]_hubVars
    => LedgerInv' /\ \A r \in Requests : Forward(r)
<1> SUFFICES ASSUME HubTypeOK, LedgerInv, [HubNext]_hubVars
             PROVE  LedgerInv' /\ \A r \in Requests : Forward(r)
  OBVIOUS
<1> DEFINE Goal == LedgerInv' /\ \A r \in Requests : Forward(r)
           Sound(r) == CallSound(r)' /\ Forward(r)
           Fns == /\ DOMAIN waiters = Requests /\ DOMAIN completed = Requests
                  /\ DOMAIN resultCh = Requests /\ DOMAIN callPc = Requests
                  /\ DOMAIN target = Requests /\ DOMAIN assigned = Requests
                  /\ DOMAIN verdict = Requests
<1>1. Fns /\ aged \subseteq Requests
  BY DEF HubTypeOK
<1>2. ASSUME NEW q \in Requests
      PROVE  /\ q \notin aged => Cleaned(completed)[q] = completed[q]
             /\ q \in aged => Cleaned(completed)[q] = None
  BY DEF Cleaned
<1>3. DOMAIN Cleaned(completed) = Requests
  BY DEF Cleaned
<1>4. ASSUME NEW r \in Requests, Sound(r),
             \A q \in Requests \ {r} : Untouched(q),
             aged' \subseteq aged, r \notin aged
      PROVE  Goal
  <2>1. \A q \in Requests : Sound(q)
    BY <1>4, UntouchedIsSound
  <2>2. \A q \in aged' : callPc'[q] = "done"
    BY <1>1, <1>4 DEF LedgerInv, Untouched
  <2> QED BY <2>1, <2>2 DEF LedgerInv
<1>5. ASSUME NEW r \in Requests, callPc[r] # "done" PROVE r \notin aged
  BY <1>5 DEF LedgerInv
<1>6. ASSUME NEW r \in Requests PROVE CallSound(r)
  BY DEF LedgerInv
<1>7. ASSUME UNCHANGED <<ledgerVars, callVars>> PROVE Goal
  <2>1. \A q \in Requests : Untouched(q)
    BY <1>7 DEF ledgerVars, callVars, Untouched
  <2>2. \A q \in Requests : Sound(q)
    BY <2>1, UntouchedIsSound
  <2>3. \A q \in aged' : callPc'[q] = "done"
    BY <1>7 DEF ledgerVars, callVars, LedgerInv
  <2> QED BY <2>2, <2>3 DEF LedgerInv
<1>8. ASSUME NEW r \in Requests, PickSession(r) PROVE Goal
  <2>1. callPc[r] = "idle" /\ UNCHANGED ledgerVars
    BY <1>8 DEF PickSession
  <2>2. \/ \E s : Assign(r, s)
        \/ \E v \in Verdicts : Return(r, v) /\ UNCHANGED assigned
    BY <1>8 DEF PickSession, PickPreferred, PickInGroup, Verdicts
  <2>3. Sound(r)
    <3>1. CASE \E s : Assign(r, s)
      BY <1>1, <1>6, <2>1, <3>1
      DEF Assign, CallSound, Forward, ledgerVars
    <3>2. CASE \E v \in Verdicts : Return(r, v) /\ UNCHANGED assigned
      BY <1>1, <1>6, <2>1, <3>2
      DEF Return, CallSound, Concluded, Forward, ledgerVars
    <3> QED BY <2>2, <3>1, <3>2
  <2>4. \A q \in Requests \ {r} : Untouched(q)
    BY <1>1, <2>1, <2>2 DEF Assign, Return, Untouched, ledgerVars
  <2>5. aged' \subseteq aged
    BY <2>1 DEF ledgerVars
  <2> HIDE DEF Sound, Goal
  <2> QED BY <1>4, <1>5, <2>1, <2>3, <2>4, <2>5
<1>9. ASSUME NEW r \in Requests, StoreWaiter(r) PROVE Goal
  <2>1. callPc[r] = "picked" /\ r \notin aged
    BY <1>5, <1>9 DEF StoreWaiter
  <2>2. Sound(r)
    BY <1>1, <1>2, <1>6, <1>9, <2>1
    DEF StoreWaiter, CallSound, Unanswered, Forward
  <2>3. \A q \in Requests \ {r} : Untouched(q)
    BY <1>1, <1>2, <1>9 DEF StoreWaiter, Untouched
  <2>4. aged' \subseteq aged
    BY <1>9 DEF StoreWaiter
  <2> HIDE DEF Sound, Goal
  <2> QED BY <1>4, <2>1, <2>2, <2>3, <2>4
<1>10. ASSUME NEW r \in Requests, PushJob(r) PROVE Goal
  <2>1. /\ callPc[r] = "stored" /\ UNCHANGED <<ledgerVars, assigned>>
        /\ \E pc, v : /\ callPc' = [callPc EXCEPT ![r] = pc]
                      /\ verdict' = [verdict EXCEPT ![r] = v]
                      /\ \/ pc = "dropping" /\ v \in {"timeout", "rejected"}
                         \/ pc = "waiting" /\ v = None
    BY <1>10 DEF PushJob
  <2>2. Sound(r)
    BY <1>1, <1>6, <2>1 DEF CallSound, Unanswered, Forward, ledgerVars
  <2>3. \A q \in Requests \ {r} : Untouched(q)
    BY <1>1, <2>1 DEF Untouched, ledgerVars
  <2>4. aged' \subseteq aged /\ r \notin aged
    BY <1>5, <2>1 DEF ledgerVars
  <2> HIDE DEF Sound, Goal
  <2> QED BY <1>4, <2>2, <2>3, <2>4
<1>11. ASSUME NEW r \in Requests, DropWaiter(r) PROVE Goal
  <2>1. callPc[r] = "dropping" /\ r \notin aged
    BY <1>5, <1>11 DEF DropWaiter
  <2>2. Sound(r)
    BY <1>1, <1>6, <1>11, <2>1
    DEF DropWaiter, Return, CallSound, Unanswered, Concluded, Forward
  <2>3. \A q \in Requests \ {r} : Untouched(q)
    BY <1>1, <1>11 DEF DropWaiter, Return, Untouched
  <2>4. aged' \subseteq aged
    BY <1>11 DEF DropWaiter
  <2> HIDE DEF Sound, Goal
  <2> QED BY <1>4, <2>1, <2>2, <2>3, <2>4
<1>12. ASSUME NEW r \in Requests, TakeResult(r) PROVE Goal
  <2>1. callPc[r] = "waiting" /\ r \notin aged /\ resultCh[r] # None
    BY <1>5, <1>12 DEF TakeResult
  <2>2. Answered(r)
    BY <1>6, <2>1 DEF CallSound, Unanswered
  <2>3. Sound(r)
    BY <1>1, <1>12, <2>1, <2>2
    DEF TakeResult, Return, CallSound, Answered, Concluded, Forward, Ended
  <2>4. \A q \in Requests \ {r} : Untouched(q)
    BY <1>1, <1>12 DEF TakeResult, Return, Untouched
  <2>5. aged' \subseteq aged
    BY <1>12 DEF TakeResult
  <2> HIDE DEF Sound, Goal
  <2> QED BY <1>4, <2>1, <2>3, <2>4, <2>5
<1>13. ASSUME NEW r \in Requests, GiveUp(r) PROVE Goal
  <2>1. callPc[r] = "waiting" /\ r \notin aged
    BY <1>5, <1>13 DEF GiveUp
  <2>2. Sound(r)
    BY <1>1, <1>6, <1>13, <2>1
    DEF GiveUp, CallSound, Unanswered, Answered, Forward, ledgerVars, Ended
  <2>3. \A q \in Requests \ {r} : Untouched(q)
    BY <1>1, <1>13 DEF GiveUp, Untouched, ledgerVars
  <2>4. aged' \subseteq aged
    BY <1>13 DEF GiveUp, ledgerVars
  <2> HIDE DEF Sound, Goal
  <2> QED BY <1>4, <2>1, <2>2, <2>3, <2>4
<1>14. ASSUME NEW r \in Requests, ExpireWaiter(r) PROVE Goal
  <2>1. callPc[r] = "expiring" /\ r \notin aged
    BY <1>5, <1>14 DEF ExpireWaiter
  <2>2. CASE waiters[r] # None
    <3>1. Unanswered(r)
      BY <1>6, <2>1, <2>2 DEF CallSound, Answered
    <3>2. /\ completed' = [Cleaned(completed) EXCEPT
                             ![r] = Ended(waiters[r], "expired")]
          /\ waiters' = [waiters EXCEPT ![r] = None]
          /\ aged' = {} /\ UNCHANGED <<resultCh, assigned>> /\ Return(r, "timeout")
      BY <1>14, <2>2 DEF ExpireWaiter
    <3>3. /\ completed'[r] = Ended(assigned[r], "expired")
          /\ waiters'[r] = None /\ assigned'[r] = assigned[r]
          /\ callPc'[r] = "done" /\ verdict'[r] = "timeout"
      BY <1>1, <1>3, <3>1, <3>2 DEF Return, Unanswered
    <3>4. CallSound(r)'
      BY <3>3 DEF CallSound, Concluded, Ended
    <3>5. Forward(r)
      BY <2>2, <3>1, <3>3 DEF Unanswered, Forward
    <3>6. \A q \in Requests \ {r} : Untouched(q)
      BY <1>1, <1>2, <1>3, <3>2 DEF Return, Untouched
    <3> HIDE DEF Goal
    <3> QED BY <1>4, <2>1, <3>2, <3>4, <3>5, <3>6
  <2>3. CASE waiters[r] = None
    <3>1. /\ UNCHANGED <<waiters, completed, aged, resultCh, assigned>>
          /\ Return(r, "timeout")
      BY <1>14, <2>3 DEF ExpireWaiter
    <3>2. Sound(r)
      BY <1>1, <1>6, <2>1, <2>3, <3>1
      DEF Return, CallSound, Unanswered, Answered, Concluded, Forward, Ended
    <3>3. \A q \in Requests \ {r} : Untouched(q)
      BY <1>1, <3>1 DEF Return, Untouched
    <3> HIDE DEF Sound, Goal
    <3> QED BY <1>4, <2>1, <3>1, <3>2, <3>3
  <2> QED BY <2>2, <2>3
<1>15. ASSUME NEW r \in Requests, Age(r) PROVE Goal
  <2>1. /\ aged' = aged \cup {r} /\ callPc[r] = "done"
        /\ UNCHANGED <<waiters, completed, resultCh, callVars>>
    BY <1>15 DEF Age
  <2>2. \A q \in Requests : Untouched(q)
    BY <2>1 DEF callVars, Untouched
  <2>3. \A q \in Requests : Sound(q)
    BY <2>2, UntouchedIsSound
  <2>4. \A q \in aged' : callPc'[q] = "done"
    BY <2>1 DEF callVars, LedgerInv
  <2> QED BY <2>3, <2>4 DEF LedgerInv
<1>16. ASSUME NEW c \in Clients, NEW r \in Requests, SubmitResult(c, r),
              Disclosed(r)
       PROVE  Goal
  <2>1. aged' = {} /\ UNCHANGED callVars
    BY <1>16 DEF SubmitResult
  <2>2. c # None
    BY SessionsAssumption
  <2>3. CASE Delivered(c, r)
    <3>1. /\ waiters[r] = c
          /\ waiters' = [waiters EXCEPT ![r] = None]
          /\ completed' = [Cleaned(completed) EXCEPT ![r] = Ended(c, "completed")]
          /\ resultCh' = [resultCh EXCEPT ![r] = IF @ = None THEN c ELSE @]
      BY <2>3 DEF Delivered
    <3>2. callPc[r] \in {"waiting", "expiring"} /\ Unanswered(r) /\ verdict[r] = None
      BY <1>6, <1>16, <2>2, <3>1 DEF CallSound, Disclosed, Answered, Concluded
    <3>3. /\ completed'[r] = Ended(assigned[r], "completed")
          /\ waiters'[r] = None /\ resultCh'[r] = assigned[r]
      BY <1>1, <1>3, <3>1, <3>2 DEF Unanswered
    <3>4. CallSound(r)'
      BY <2>1, <3>2, <3>3 DEF callVars, CallSound, Answered, Ended
    <3>5. Forward(r)
      BY <2>2, <3>1, <3>2, <3>3 DEF Unanswered, Forward
    <3>6. \A q \in Requests \ {r} : Untouched(q)
      BY <1>1, <1>2, <1>3, <2>1, <3>1 DEF callVars, Untouched
    <3>7. r \notin aged
      BY <1>5, <3>2
    <3> HIDE DEF Goal
    <3> QED BY <1>4, <2>1, <3>4, <3>5, <3>6, <3>7
  <2>4. CASE Late(c, r)
    <3>1. /\ Cleaned(completed)[r] = Ended(c, "expired")
          /\ completed' = [Cleaned(completed) EXCEPT ![r] = Ended(c, "late")]
          /\ UNCHANGED <<waiters, resultCh>>
      BY <2>4 DEF Late
    <3>2. /\ Ended(c, "expired") # None /\ Ended(c, "late") # None
          /\ Ended(c, "expired").state = "expired"
          /\ Ended(c, "expired").client = c
          /\ Ended(c, "late").state = "late"
      BY EndedIsRecord DEF Endings
    <3>3. r \notin aged /\ completed[r] = Ended(c, "expired")
      BY <1>2, <3>1, <3>2
    <3>4. \A x, y : Ended(x, y).state = y /\ Ended(x, y).client = x
      BY DEF Ended
    <3>5. callPc[r] = "done" /\ Concluded(r)
      BY <1>6, <3>2, <3>3, <3>4
      DEF CallSound, Unanswered, Answered
    <3>6. c = assigned[r] /\ verdict[r] = "timeout"
      <4>1. CASE completed[r] = Ended(assigned[r], "completed")
        BY <3>2, <3>3, <3>4, <4>1
      <4>2. CASE \/ completed[r] = Ended(assigned[r], "expired")
                 \/ completed[r] = Ended(assigned[r], "late")
        <5>1. c = assigned[r]
          BY <3>2, <3>3, <3>4, <4>2
        <5>2. ~(completed[r] = Ended(assigned[r], "completed"))
          BY <3>2, <3>3, <3>4
        <5> QED BY <3>2, <3>3, <3>5, <5>1, <5>2 DEF Concluded
      <4> QED BY <3>2, <3>3, <3>5, <4>1, <4>2 DEF Concluded
    <3>7. completed'[r] = Ended(assigned[r], "late")
      BY <1>3, <3>1, <3>6
    <3>8. CallSound(r)'
      BY <2>1, <3>1, <3>5, <3>6, <3>7
      DEF callVars, CallSound, Concluded, Ended
    <3>9. Forward(r)
      BY <3>2, <3>3, <3>6, <3>7 DEF Forward
    <3>10. \A q \in Requests \ {r} : Untouched(q)
      BY <1>1, <1>2, <1>3, <2>1, <3>1 DEF callVars, Untouched
    <3> HIDE DEF Goal
    <3> QED BY <1>4, <2>1, <3>3, <3>8, <3>9, <3>10
  <2>5. CASE Ignored(c, r)
    <3>1. completed' = Cleaned(completed) /\ UNCHANGED <<waiters, resultCh>>
      BY <2>5 DEF Ignored
    <3>2. \A q \in Requests : Untouched(q)
      BY <1>2, <2>1, <3>1 DEF callVars, Untouched
    <3>3. \A q \in Requests : Sound(q)
      BY <3>2, UntouchedIsSound
    <3> QED BY <2>1, <3>3 DEF LedgerInv
  <2> QED BY <1>16, <2>3, <2>4, <2>5 DEF SubmitResult
<1>17. ASSUME NEW r \in Requests, DeadlinePasses(r) \/ CtxEnds(r)
       PROVE  UNCHANGED <<ledgerVars, callVars>>
  BY <1>17 DEF DeadlinePasses, CtxEnds
<1>18. ASSUME NEW c, NEW g, NEW asked, NEW s, RegisterFresh(c, g, asked, s)
       PROVE  UNCHANGED <<ledgerVars, callVars>>
  BY <1>18 DEF RegisterFresh
<1>19. ASSUME NEW w, NEW s,
              Pop(w, s) \/ PutBack(w, s) \/ LeavePop(w) \/ LetGo(w)
       PROVE  UNCHANGED <<ledgerVars, callVars>>
  BY <1>19 DEF Pop, PutBack, LeavePop, LetGo
<1>20. ASSUME RegistryStep \/ UNCHANGED hubVars
       PROVE  UNCHANGED <<ledgerVars, callVars>>
  BY <1>20 DEF RegistryStep, hubVars, ownHubVars
<1> HIDE DEF Goal
<1>21. Goal
  BY <1>7, <1>8, <1>9, <1>10, <1>11, <1>12, <1>13, <1>14, <1>15, <1>16, <1>17,
     <1>18, <1>19, <1>20 DEF HubNext, InvokeStep
<1> QED BY <1>21 DEF Goal

LEMMA LedgerInvariant == HubSpec => [](HubTypeOK /\ LedgerInv)
<1>1. HubInit => RegTypeOK /\ RosterInv /\ HubTypeOK /\ LedgerInv
  BY TypeInit, RosterInit, HubTypeInit, LedgerInit DEF HubInit
<1>2. RegTypeOK /\ RosterInv /\ HubTypeOK /\ LedgerInv /\ [HubNext]_hubVars
        => (RegTypeOK /\ RosterInv /\ HubTypeOK /\ LedgerInv)'
  BY HubStepIsRegStep, TypeStep, RosterKept, HubTypeStep, LedgerStep
<1> QED
  BY <1>1, <1>2, PTL DEF HubSpec

\* However results, duplicates, timeouts and cleanups are ordered, a caller in
\* the select of Invoke has its waiter on record or its answer in the channel.
THEOREM NobodyIsStranded == HubSpec => []NoStrandedCaller
<1>1. HubTypeOK /\ LedgerInv => NoStrandedCaller
  BY DEF LedgerInv, CallSound, NoStrandedCaller, Unanswered, Answered
<1> QED
  BY <1>1, LedgerInvariant, PTL

\* The record of an ended call agrees with what its caller was told.
THEOREM LedgerAgrees == HubSpec => []LedgerMatchesVerdict
<1>1. ASSUME HubTypeOK, LedgerInv PROVE LedgerMatchesVerdict
  <2>1. \A x, y : Ended(x, y).state = y /\ Ended(x, y).client = x
    BY DEF Ended
  <2>2. None \notin Verdicts
    BY CallsAssumption
  <2> SUFFICES ASSUME NEW r \in Requests
      PROVE /\ completed[r] # None =>
                 /\ completed[r].client = assigned[r]
                 /\ waiters[r] = None
                 /\ completed[r].state \in {"expired", "late"}
                      => verdict[r] = "timeout"
                 /\ completed[r].state = "completed" /\ verdict[r] = "timeout"
                      => resultCh[r] = assigned[r]
            /\ verdict[r] \in {"no_client", "rejected"} => completed[r] = None
            /\ callPc[r] = "done" => waiters[r] = None
    BY DEF LedgerMatchesVerdict
  <2>3. CallSound(r)
    BY <1>1 DEF LedgerInv
  <2>4. CASE callPc[r] = "done"
    BY <2>1, <2>3, <2>4 DEF CallSound, Concluded
  <2>5. CASE callPc[r] # "done"
    BY <2>1, <2>2, <2>3, <2>5
    DEF CallSound, Unanswered, Answered, Verdicts
  <2> QED BY <2>4, <2>5
<1> QED
  BY <1>1, LedgerInvariant, PTL

\* The record of a call only moves forward.
THEOREM LedgerOnlyForward == HubSpec => LedgerForward
<1>1. HubTypeOK /\ LedgerInv /\ [HubNext]_hubVars
        => [\A r \in Requests : Forward(r)]_hubVars
  BY LedgerStep
<1>2. HubSpec => [][\A r \in Requests : Forward(r)]_hubVars
  BY <1>1, LedgerInvariant, PTL DEF HubSpec
<1> QED
  BY <1>2 DEF LedgerForward, Forward

-----------------------------------------------------------------------------
(* The queues *)

\* Job r may lie in the queue of a session of client c.
Fits(r, c) == Disclosed(r) /\ assigned[r] = c

TargetInv ==
  \A r \in Requests :
    /\ callPc[r] \in {"picked", "stored"} => target[r] \in Sessions
    /\ target[r] # None => owner[target[r]] = assigned[r]

JobsAtHome ==
  /\ \A s \in Sessions :
       /\ Len(pending[s]) <= PendingSize
       /\ \A i \in 1..Len(pending[s]) : Fits(pending[s][i], owner[s])
  /\ \A w \in Writers : held[w] # None => Fits(held[w], ClientOf[w])

QueueInv == TargetInv /\ JobsAtHome /\ NoSleepOnJobs

\* Pushing adds the one job and nothing else, within the limit, and leaves
\* nobody asleep on the queue.
LEMMA PushKeeps ==
  ASSUME HubTypeOK, NEW s \in Sessions, NEW r \in Requests, Push(s, r),
         NEW t \in Sessions
  PROVE  /\ Len(pending[t]) <= PendingSize => Len(pending'[t]) <= PendingSize
         /\ \A i \in 1..Len(pending'[t]) :
              \/ \E j \in 1..Len(pending[t]) : pending'[t][i] = pending[t][j]
              \/ t = s /\ pending'[t][i] = r
         /\ (notify[t] # {} => pending[t] = << >>)
              => (notify'[t] # {} => pending'[t] = << >>)
<1>1. pending[t] \in Seq(Requests) /\ Len(pending[t]) \in Nat
  BY LenProperties DEF HubTypeOK
<1>2. CASE UNCHANGED queueVars
  BY <1>1, <1>2 DEF queueVars
<1>3. CASE ~(r \in expired \/ PushRefused(s, r))
  <2>1. /\ pending' = [pending EXCEPT ![s] = Append(Room(s), r)]
        /\ notify' = [notify EXCEPT ![s] = {}]
    BY <1>3 DEF Push
  <2>2. CASE t # s
    BY <1>1, <2>1, <2>2 DEF HubTypeOK
  <2>3. CASE t = s
    <3> DEFINE room == Room(s)
    <3>1. pending'[t] = Append(room, r) /\ notify'[t] = {}
      BY <2>1, <2>3 DEF HubTypeOK
    <3>2. /\ room \in Seq(Requests)
          /\ \A i \in 1..Len(room) : \E j \in 1..Len(pending[t]) : room[i] = pending[t][j]
      BY <1>1, <2>3, LiveIsPart DEF Room
    <3>3. ~(Len(room) >= PendingSize)
      BY <1>3 DEF PushRefused
    <3> HIDE DEF room
    <3>4. /\ Len(Append(room, r)) = Len(room) + 1
          /\ \A i \in 1..Len(room) : Append(room, r)[i] = room[i]
          /\ Append(room, r)[Len(room) + 1] = r
          /\ Len(room) \in Nat
      BY <3>2, AppendProperties, LenProperties
    <3>5. Len(pending'[t]) <= PendingSize
      BY <3>1, <3>3, <3>4, CallsAssumption
    <3>6. ASSUME NEW i \in 1..Len(pending'[t])
          PROVE  \/ \E j \in 1..Len(pending[t]) : pending'[t][i] = pending[t][j]
                 \/ t = s /\ pending'[t][i] = r
      <4>1. i \in 1..Len(room) \/ i = Len(room) + 1
        BY <3>1, <3>4
      <4> QED BY <2>3, <3>1, <3>2, <3>4, <4>1
    <3> QED BY <3>1, <3>5, <3>6
  <2> QED BY <2>2, <2>3
<1> QED
  BY <1>2, <1>3 DEF Push

LEMMA QueueInit == HubInit => QueueInv
BY EmptySeq, CallsAssumption
DEF HubInit, OwnHubInit, QueueInv, TargetInv, JobsAtHome, NoSleepOnJobs

\* What a step may do to the rest without disturbing the queues.
Steady ==
  /\ \A q \in Requests :
       Disclosed(q) => Disclosed(q)' /\ assigned'[q] = assigned[q]
  /\ UNCHANGED owner

LEMMA QueuesSteady ==
  ASSUME HubTypeOK, JobsAtHome, NoSleepOnJobs, Steady,
         UNCHANGED <<queueVars, held>>
  PROVE  JobsAtHome' /\ NoSleepOnJobs'
<1>1. ASSUME NEW s \in Sessions, NEW i \in 1..Len(pending[s])
      PROVE  pending[s][i] \in Requests
  BY <1>1, ElementOfSeq DEF HubTypeOK
<1>2. ASSUME NEW q \in Requests, NEW c, Fits(q, c) PROVE Fits(q, c)'
  BY <1>2 DEF Fits, Steady
<1>3. JobsAtHome'
  BY <1>1, <1>2 DEF JobsAtHome, queueVars, Steady, HubTypeOK, Fits
<1> QED
  BY <1>3 DEF NoSleepOnJobs, queueVars

LEMMA QueueStep ==
  RegTypeOK /\ RosterInv /\ HubTypeOK /\ QueueInv /\ [HubNext]_hubVars => QueueInv'
<1> SUFFICES ASSUME RegTypeOK, RosterInv, HubTypeOK, QueueInv, [HubNext]_hubVars
             PROVE  QueueInv'
  OBVIOUS
<1> DEFINE Fns == /\ DOMAIN callPc = Requests /\ DOMAIN target = Requests
                  /\ DOMAIN assigned = Requests
<1>1. Fns
  BY DEF HubTypeOK
<1>2. ASSUME NEW s \in Sessions, NEW i \in 1..Len(pending[s])
      PROVE  pending[s][i] \in Requests
  BY <1>2, ElementOfSeq DEF HubTypeOK
<1>3. ASSUME UNCHANGED <<queueVars, held, callPc, target, assigned, owner>>
      PROVE  QueueInv'
  <2>1. Steady
    BY <1>3 DEF Steady, Disclosed
  <2> QED
    BY <1>3, <2>1, QueuesSteady DEF QueueInv, TargetInv
<1>4. ASSUME NEW r \in Requests, PickSession(r) PROVE QueueInv'
  <2>1. callPc[r] = "idle" /\ UNCHANGED <<queueVars, held>>
    BY <1>4 DEF PickSession
  <2>2. UNCHANGED owner
    BY <1>4 DEF PickSession, PickPreferred, PickInGroup, PickRoundRobin, regVars,
                objectVars
  <2>3. \/ \E s \in Sessions : Assign(r, s)
        \/ \E v : Return(r, v) /\ UNCHANGED assigned
    <3>1. CASE callPc'[r] = "picked"
      <4>1. DOMAIN callPc = Requests
        BY <1>1
      <4> QED BY <1>4, <3>1, <4>1, PickedSession
    <3>2. CASE callPc'[r] # "picked"
      BY <1>1, <1>4, <3>2 DEF PickSession, PickPreferred, PickInGroup, Assign
    <3> QED BY <3>1, <3>2
  <2>4. Steady
    BY <1>1, <2>1, <2>2, <2>3 DEF Steady, Disclosed, Assign, Return
  <2>5. TargetInv'
    BY <1>1, <2>2, <2>3 DEF QueueInv, TargetInv, Assign, Return
  <2> QED
    BY <2>1, <2>4, <2>5, QueuesSteady DEF QueueInv
<1>5. ASSUME NEW r \in Requests,
             StoreWaiter(r) \/ DropWaiter(r) \/ TakeResult(r) \/ GiveUp(r)
               \/ ExpireWaiter(r)
      PROVE  QueueInv'
  <2>1. /\ UNCHANGED <<queueVars, held, assigned, owner>>
        /\ \/ /\ UNCHANGED target
              /\ \E pc : /\ callPc' = [callPc EXCEPT ![r] = pc]
                         /\ \/ callPc[r] = "picked" /\ pc = "stored"
                            \/ callPc[r] = "waiting" /\ pc = "expiring"
           \/ \E v : Return(r, v)
    BY <1>5
    DEF StoreWaiter, DropWaiter, TakeResult, GiveUp, ExpireWaiter, regVars,
        objectVars
  <2>2. Steady
    BY <1>1, <2>1 DEF Steady, Disclosed, Return
  <2>3. TargetInv'
    BY <1>1, <2>1 DEF QueueInv, TargetInv, Return
  <2> QED
    BY <2>1, <2>2, <2>3, QueuesSteady DEF QueueInv
<1>6. ASSUME NEW r \in Requests, PushJob(r) PROVE QueueInv'
  <2> DEFINE FitsNow(q, c) ==
        callPc'[q] \in {"waiting", "expiring", "done"} /\ assigned'[q] = c
  <2>1. /\ callPc[r] = "stored" /\ target[r] \in Sessions
        /\ owner[target[r]] = assigned[r]
        /\ UNCHANGED <<held, target, assigned, owner>>
    BY <1>6, SessionsAssumption
    DEF PushJob, QueueInv, TargetInv, regVars, objectVars
  <2>2. \E pc \in {"dropping", "waiting"} : callPc' = [callPc EXCEPT ![r] = pc]
    BY <1>6 DEF PushJob
  <2>3. Steady
    BY <1>1, <2>1, <2>2 DEF Steady, Disclosed
  <2>4. TargetInv'
    BY <1>1, <2>1, <2>2 DEF QueueInv, TargetInv
  <2>5. ASSUME NEW q \in Requests, NEW c, Fits(q, c) PROVE FitsNow(q, c)
    BY <2>3, <2>5 DEF Steady, Fits, Disclosed
  <2>6. CASE UNCHANGED queueVars
    BY <2>1, <2>3, <2>4, <2>6, QueuesSteady DEF QueueInv
  <2>7. CASE ~UNCHANGED queueVars
    <3>1. Push(target[r], r) /\ ~PushRefused(target[r], r)
      BY <1>6, <2>7 DEF PushJob, Push
    <3>2. FitsNow(r, owner[target[r]])
      BY <1>1, <1>6, <2>1, <2>7, <3>1 DEF PushJob
    <3>3. ASSUME NEW t \in Sessions
          PROVE  /\ Len(pending'[t]) <= PendingSize
                 /\ \A i \in 1..Len(pending'[t]) : FitsNow(pending'[t][i], owner[t])
                 /\ notify'[t] # {} => pending'[t] = << >>
      <4>1. /\ Len(pending[t]) <= PendingSize
            /\ \A i \in 1..Len(pending[t]) : Fits(pending[t][i], owner[t])
            /\ notify[t] # {} => pending[t] = << >>
        BY DEF QueueInv, JobsAtHome, NoSleepOnJobs
      <4>2. /\ Len(pending'[t]) <= PendingSize
            /\ \A i \in 1..Len(pending'[t]) :
                 \/ \E j \in 1..Len(pending[t]) : pending'[t][i] = pending[t][j]
                 \/ t = target[r] /\ pending'[t][i] = r
            /\ notify'[t] # {} => pending'[t] = << >>
        BY <2>1, <3>1, <4>1, PushKeeps
      <4>3. ASSUME NEW j \in 1..Len(pending[t])
            PROVE  FitsNow(pending[t][j], owner[t])
        BY <1>2, <2>5, <4>1
      <4> HIDE DEF FitsNow
      <4> QED BY <3>2, <4>2, <4>3
    <3>4. ASSUME NEW w \in Writers, held'[w] # None
          PROVE  FitsNow(held'[w], ClientOf[w])
      <4>1. held[w] \in Requests /\ Fits(held[w], ClientOf[w])
        BY <2>1, <3>4 DEF QueueInv, JobsAtHome, HubTypeOK
      <4> QED BY <2>1, <2>5, <4>1
    <3> QED
      BY <2>1, <2>4, <3>3, <3>4
      DEF QueueInv, JobsAtHome, NoSleepOnJobs, Fits, Disclosed
  <2> QED BY <2>6, <2>7
<1>7. ASSUME NEW r \in Requests, DeadlinePasses(r) \/ CtxEnds(r) \/ Age(r)
      PROVE  QueueInv'
  BY <1>3, <1>7
  DEF DeadlinePasses, CtxEnds, Age, callVars, regVars, objectVars
<1>8. ASSUME NEW c \in Clients, NEW r \in Requests, SubmitResult(c, r)
      PROVE  QueueInv'
  <2>1. UNCHANGED owner
    BY <1>8 DEF SubmitResult, Delivered, Late, Ignored, ReleaseIfRegistered,
                ReleaseDispatch, regVars, objectVars
  <2> QED
    BY <1>3, <1>8, <2>1 DEF SubmitResult, callVars
<1>9. ASSUME NEW c \in Clients, NEW g \in Groups, NEW asked \in Limits,
             NEW s \in Sessions, RegisterFresh(c, g, asked, s)
      PROVE  QueueInv'
  <2>1. /\ notify[s] = {} /\ \A r \in Requests : target[r] # s
        /\ owner' = [owner EXCEPT ![s] = c]
        /\ pending' = [pending EXCEPT ![s] = << >>]
        /\ UNCHANGED <<notify, held, callVars>>
    BY <1>9 DEF RegisterFresh, Reusable, RegisterNew
  <2>2. \A t \in Sessions \ {s} : owner'[t] = owner[t] /\ pending'[t] = pending[t]
    BY <2>1 DEF HubTypeOK, RegTypeOK
  <2>3. pending'[s] = << >> /\ notify'[s] = {}
    BY <2>1 DEF HubTypeOK
  <2>4. TargetInv'
    BY <2>1, <2>2 DEF QueueInv, TargetInv, callVars, HubTypeOK
  <2>5. \A q : \A c1 : Fits(q, c1) <=> Fits(q, c1)'
    BY <2>1 DEF Fits, Disclosed, callVars
  <2>6. JobsAtHome'
    <3>1. ASSUME NEW t \in Sessions
          PROVE  /\ Len(pending'[t]) <= PendingSize
                 /\ \A i \in 1..Len(pending'[t]) : Fits(pending'[t][i], owner'[t])
      <4>1. CASE t = s
        BY <2>3, <4>1, EmptySeq, CallsAssumption
      <4>2. CASE t # s
        BY <2>2, <4>2 DEF QueueInv, JobsAtHome
      <4> QED BY <4>1, <4>2
    <3> QED
      BY <2>1, <2>5, <3>1 DEF QueueInv, JobsAtHome, Fits, Disclosed, callVars
  <2>7. NoSleepOnJobs'
    BY <2>1, <2>2, <2>3 DEF QueueInv, NoSleepOnJobs
  <2> QED BY <2>4, <2>6, <2>7 DEF QueueInv
<1>10. ASSUME NEW w \in Writers, NEW s \in Sessions, owner[s] = ClientOf[w],
              Pop(w, s)
       PROVE  QueueInv'
  <2>1. UNCHANGED <<callVars, owner>>
    BY <1>10 DEF Pop, regVars, objectVars
  <2>2. TargetInv'
    BY <2>1 DEF QueueInv, TargetInv, callVars
  <2>3. ASSUME NEW q, NEW c, Fits(q, c) PROVE Fits(q, c)'
    BY <2>1, <2>3 DEF Fits, Disclosed, callVars
  <2>4. CASE PopJob(w, s)
    <3> DEFINE rest(i) == SubSeq(pending[s], i + 1, Len(pending[s]))
    <3>1. PICK i \in 1..Len(pending[s]) :
            /\ held' = [held EXCEPT ![w] = pending[s][i]]
            /\ pending' = [pending EXCEPT ![s] = rest(i)]
            /\ Len(rest(i)) <= Len(pending[s])
            /\ rest(i) \in Seq(Requests)
            /\ \A k \in 1..Len(rest(i)) :
                 \E j \in 1..Len(pending[s]) : rest(i)[k] = pending[s][j]
      BY <2>4, PopTakes
    <3>2. Len(pending[s]) <= PendingSize /\ Len(pending[s]) \in Nat
          /\ Len(rest(i)) \in Nat
      BY <3>1, LenProperties DEF QueueInv, JobsAtHome, HubTypeOK
    <3>3. \A j \in 1..Len(pending[s]) : Fits(pending[s][j], owner[s])
      BY DEF QueueInv, JobsAtHome
    <3> HIDE DEF rest
    <3>4. pending'[s] = rest(i) /\ \A t \in Sessions \ {s} : pending'[t] = pending[t]
      BY <3>1 DEF HubTypeOK
    <3>5. ASSUME NEW t \in Sessions
          PROVE  /\ Len(pending'[t]) <= PendingSize
                 /\ \A k \in 1..Len(pending'[t]) : Fits(pending'[t][k], owner[t])
      <4>1. CASE t = s
        BY <3>1, <3>2, <3>3, <3>4, <4>1, CallsAssumption
      <4>2. CASE t # s
        BY <3>4, <4>2 DEF QueueInv, JobsAtHome
      <4> QED BY <4>1, <4>2
    <3>6. ASSUME NEW v \in Writers, held'[v] # None
          PROVE  Fits(held'[v], ClientOf[v])
      <4>1. CASE v = w
        BY <1>10, <3>1, <3>3, <4>1 DEF HubTypeOK
      <4>2. CASE v # w
        BY <3>1, <3>6, <4>2 DEF QueueInv, JobsAtHome, HubTypeOK
      <4> QED BY <4>1, <4>2
    <3>7. JobsAtHome'
      BY <2>1, <2>3, <3>5, <3>6 DEF JobsAtHome, Fits, Disclosed, callVars
    <3>8. LivePositions(s) # {} /\ UNCHANGED notify
      BY <2>4 DEF PopJob
    <3>9. notify[s] = {}
      <4>1. pending[s] # << >>
        BY <3>1, EmptySeq
      <4> QED BY <4>1 DEF QueueInv, NoSleepOnJobs
    <3>10. NoSleepOnJobs'
      BY <3>4, <3>8, <3>9 DEF QueueInv, NoSleepOnJobs
    <3> QED BY <2>2, <3>7, <3>10 DEF QueueInv
  <2>5. CASE PopParks(w, s)
    <3>1. /\ pending' = [pending EXCEPT ![s] = << >>]
          /\ notify' = [notify EXCEPT ![s] = @ \cup {w}]
          /\ UNCHANGED held
      BY <2>5 DEF PopParks
    <3>2. pending'[s] = << >>
          /\ \A t \in Sessions \ {s} : pending'[t] = pending[t] /\ notify'[t] = notify[t]
      BY <3>1 DEF HubTypeOK
    <3>3. ASSUME NEW t \in Sessions
          PROVE  /\ Len(pending'[t]) <= PendingSize
                 /\ \A k \in 1..Len(pending'[t]) : Fits(pending'[t][k], owner[t])
                 /\ notify'[t] # {} => pending'[t] = << >>
      <4>1. CASE t = s
        BY <3>2, <4>1, EmptySeq, CallsAssumption
      <4>2. CASE t # s
        BY <3>2, <4>2 DEF QueueInv, JobsAtHome, NoSleepOnJobs
      <4> QED BY <4>1, <4>2
    <3>4. JobsAtHome'
      BY <2>1, <2>3, <3>1, <3>3
      DEF QueueInv, JobsAtHome, Fits, Disclosed, callVars
    <3> QED BY <2>2, <3>3, <3>4 DEF QueueInv, NoSleepOnJobs
  <2> QED BY <1>10, <2>4, <2>5 DEF Pop
<1>11. ASSUME NEW w \in Writers, NEW s \in Sessions, owner[s] = ClientOf[w],
              PutBack(w, s)
       PROVE  QueueInv'
  <2>1. /\ held[w] \in Requests /\ Push(s, held[w]) /\ Fits(held[w], owner[s])
        /\ held' = [held EXCEPT ![w] = None] /\ UNCHANGED <<callVars, owner>>
    BY <1>11
    DEF PutBack, QueueInv, JobsAtHome, HubTypeOK, regVars, objectVars
  <2>2. TargetInv'
    BY <2>1 DEF QueueInv, TargetInv, callVars
  <2>3. ASSUME NEW q, NEW c, Fits(q, c) PROVE Fits(q, c)'
    BY <2>1, <2>3 DEF Fits, Disclosed, callVars
  <2>4. ASSUME NEW t \in Sessions
        PROVE  /\ Len(pending'[t]) <= PendingSize
               /\ \A i \in 1..Len(pending'[t]) : Fits(pending'[t][i], owner[t])
               /\ notify'[t] # {} => pending'[t] = << >>
    <3>1. /\ Len(pending[t]) <= PendingSize
          /\ \A i \in 1..Len(pending[t]) : Fits(pending[t][i], owner[t])
          /\ notify[t] # {} => pending[t] = << >>
      BY DEF QueueInv, JobsAtHome, NoSleepOnJobs
    <3>2. /\ Len(pending'[t]) <= PendingSize
          /\ \A i \in 1..Len(pending'[t]) :
               \/ \E j \in 1..Len(pending[t]) : pending'[t][i] = pending[t][j]
               \/ t = s /\ pending'[t][i] = held[w]
          /\ notify'[t] # {} => pending'[t] = << >>
      BY <2>1, <3>1, PushKeeps
    <3> QED BY <2>1, <3>1, <3>2
  <2>5. ASSUME NEW v \in Writers, held'[v] # None
        PROVE  Fits(held'[v], ClientOf[v])
    BY <2>1, <2>5 DEF QueueInv, JobsAtHome, HubTypeOK
  <2>6. JobsAtHome'
    BY <2>1, <2>3, <2>4, <2>5 DEF JobsAtHome, Fits, Disclosed, callVars
  <2> QED BY <2>2, <2>4, <2>6 DEF QueueInv, NoSleepOnJobs
<1>12. ASSUME NEW w \in Writers, LeavePop(w) PROVE QueueInv'
  <2>1. /\ notify' = [s \in Sessions |-> notify[s] \ {w}]
        /\ UNCHANGED <<pending, held, callVars, owner>>
    BY <1>12 DEF LeavePop, regVars, objectVars
  <2> QED
    BY <2>1 DEF QueueInv, TargetInv, JobsAtHome, NoSleepOnJobs, Fits, Disclosed,
                callVars
<1>13. ASSUME NEW w \in Writers, LetGo(w) PROVE QueueInv'
  <2>1. /\ held' = [held EXCEPT ![w] = None]
        /\ UNCHANGED <<pending, notify, callVars, owner>>
    BY <1>13 DEF LetGo, queueVars, regVars, objectVars
  <2>2. \A v \in Writers : held'[v] # None => held'[v] = held[v]
    BY <2>1 DEF HubTypeOK
  <2> QED
    BY <2>1, <2>2 DEF QueueInv, TargetInv, JobsAtHome, NoSleepOnJobs, Fits,
                      Disclosed, callVars
<1>14. CASE RegistryStep
  <2>1. UNCHANGED owner
    BY <1>14, QuietAssumption
    DEF RegistryStep, RegisterExisting, Unregister, Touch, ReleaseDispatch,
        FallSilent, TakeSlot, ParkForSlot, StopWaiting, objectVars
  <2> QED
    BY <1>3, <1>14, <2>1 DEF RegistryStep, ownHubVars, callVars
<1>15. CASE UNCHANGED hubVars
  BY <1>3, <1>15 DEF hubVars, ownHubVars, callVars, regVars, objectVars
<1> QED
  BY <1>4, <1>5, <1>6, <1>7, <1>8, <1>9, <1>10, <1>11, <1>12, <1>13, <1>14,
     <1>15 DEF HubNext, InvokeStep

\* What is proved of the hub, for those who use it.
HubInv ==
  RegTypeOK /\ RosterInv /\ HubTypeOK /\ LedgerInv /\ QueueInv

LEMMA HubInvInit == HubInit => HubInv
BY TypeInit, RosterInit, HubTypeInit, LedgerInit, QueueInit DEF HubInit, HubInv

LEMMA HubInvStep == HubInv /\ [HubNext]_hubVars => HubInv'
BY HubStepIsRegStep, TypeStep, RosterKept, HubTypeStep, LedgerStep, QueueStep
DEF HubInv

\* A queue never outgrows its limit, and its jobs are those of calls that were
\* assigned to the client that owns it, although they are pushed through
\* pointers that may be out of date.
THEOREM JobsStayHome == HubSpec => []QueuesAtHome
<1>1. ASSUME HubInv PROVE QueuesAtHome
  <2>1. \A s \in Sessions : DOMAIN pending[s] = 1..Len(pending[s])
    BY <1>1, LenProperties DEF HubInv, HubTypeOK
  <2> QED
    BY <1>1, <2>1 DEF HubInv, QueueInv, JobsAtHome, QueuesAtHome, Fits
<1> QED
  BY <1>1, HubInvInit, HubInvStep, PTL DEF HubSpec

\* No writer sleeps on a queue that has a job.
THEOREM NobodySleepsOnJobs == HubSpec => []NoSleepOnJobs
<1>1. HubInv => NoSleepOnJobs
  BY DEF HubInv, QueueInv
<1> QED
  BY <1>1, HubInvInit, HubInvStep, PTL DEF HubSpec

-----------------------------------------------------------------------------
(* Where a job is *)

Has(s, x) == \E i \in 1..Len(s) : s[i] = x
Once(s, x) == \A i, j \in 1..Len(s) : s[i] = x /\ s[j] = x => i = j

LEMMA AppendHolds ==
  ASSUME NEW x, NEW y \in Requests, NEW s \in Seq(Requests)
  PROVE  /\ Append(s, y) \in Seq(Requests)
         /\ Has(Append(s, y), x) <=> Has(s, x) \/ x = y
         /\ Once(s, x) /\ (x = y => ~Has(s, x)) => Once(Append(s, y), x)
<1> DEFINE t == Append(s, y)
<1>1. /\ t \in Seq(Requests) /\ Len(s) \in Nat /\ Len(t) = Len(s) + 1
      /\ \A i \in 1..Len(s) : t[i] = s[i]
      /\ t[Len(s) + 1] = y
  BY AppendProperties, LenProperties
<1> HIDE DEF t
<1>2. ASSUME NEW i \in 1..Len(t)
      PROVE  i \in 1..Len(s) \/ (i = Len(s) + 1 /\ t[i] = y)
  BY <1>1
<1>3. 1..Len(s) \subseteq 1..Len(t) /\ Len(s) + 1 \in 1..Len(t)
  BY <1>1
<1>4. Has(t, x) <=> Has(s, x) \/ x = y
  BY <1>1, <1>2, <1>3 DEF Has
<1>5. ASSUME Once(s, x), x = y => ~Has(s, x) PROVE Once(t, x)
  BY <1>1, <1>2, <1>5 DEF Has, Once
<1> QED BY <1>1, <1>4, <1>5 DEF t

\* Pruning a queue makes up no job and doubles none.
LEMMA LiveHolds ==
  ASSUME NEW queue \in Seq(Requests), NEW x
  PROVE  /\ Has(Live(queue), x) => Has(queue, x)
         /\ Once(queue, x) => Once(Live(queue), x)
<1> DEFINE n == Len(queue)
           kept == CHOOSE f : f = [m \in 0..n |-> KeptStep(queue, f, m)]
           Sound(m) == /\ kept[m] \in Seq(Requests)
                       /\ Has(kept[m], x) => \E j \in 1..m : queue[j] = x
                       /\ Once(queue, x) => Once(kept[m], x)
           bad == {m \in 0..n : ~Sound(m)}
<1>1. n \in Nat /\ \A i \in 1..n : queue[i] \in Requests
  BY LenProperties, ElementOfSeq
<1>2. Live(queue) = kept[n]
  BY DEF Live, KeptStep
<1>3. kept = [m \in 0..n |-> KeptStep(queue, kept, m)]
  BY <1>1, KeptExists
<1> HIDE DEF kept
<1>4. ASSUME bad # {} PROVE FALSE
  <2>1. PICK m \in bad : \A y \in bad : m <= y
    <3>1. bad \in SUBSET Nat
      BY <1>1
    <3> HIDE DEF bad
    <3> QED BY <3>1, <1>4, LeastNumber
  <2>2. m \in 0..n /\ kept[m] = KeptStep(queue, kept, m)
    BY <1>3
  <2>3. CASE m = 0
    <3>1. kept[m] = << >>
      BY <2>2, <2>3 DEF KeptStep
    <3>2. Sound(m)
      BY <3>1, EmptySeq DEF Has, Once
    <3> QED BY <3>2
  <2>4. CASE m # 0
    <3>1. m - 1 \in 0..n /\ ~(m <= m - 1) /\ m \in 1..n
          /\ \A j \in 1..(m - 1) : j \in 1..m /\ j \in 1..n /\ j # m
      BY <1>1, <2>2, <2>4
    <3>2. Sound(m - 1)
      BY <2>1, <3>1
    <3> DEFINE before == kept[m - 1]
    <3>3. /\ before \in Seq(Requests)
          /\ Has(before, x) => \E j \in 1..(m - 1) : queue[j] = x
          /\ Once(queue, x) => Once(before, x)
      BY <3>2
    <3>4. kept[m] = before \/ kept[m] = Append(before, queue[m])
      BY <2>2, <2>4 DEF KeptStep
    <3>5. queue[m] \in Requests /\ m \in 1..m
      BY <1>1, <3>1
    <3> HIDE DEF before
    <3>6. CASE kept[m] = before
      BY <3>1, <3>3, <3>6
    <3>7. CASE kept[m] = Append(before, queue[m])
      <4>1. /\ kept[m] \in Seq(Requests)
            /\ Has(kept[m], x) <=> Has(before, x) \/ x = queue[m]
            /\ Once(before, x) /\ (x = queue[m] => ~Has(before, x))
                 => Once(kept[m], x)
        BY <3>3, <3>5, <3>7, AppendHolds
      <4>2. Has(kept[m], x) => \E j \in 1..m : queue[j] = x
        BY <4>1, <3>1, <3>3, <3>5
      <4>3. ASSUME Once(queue, x) PROVE Once(kept[m], x)
        <5>1. x = queue[m] => ~Has(before, x)
          BY <3>1, <3>3, <4>3 DEF Once
        <5> QED BY <5>1, <4>1, <4>3, <3>3
      <4>4. Sound(m)
        BY <4>1, <4>2, <4>3
      <4> QED BY <4>4
    <3> QED BY <3>4, <3>6, <3>7
  <2> QED BY <2>3, <2>4
<1>5. n \in 0..n
  BY <1>1
<1>6. Sound(n)
  BY <1>4, <1>5
<1> QED BY <1>2, <1>6 DEF Has

\* What comes behind a position of a queue.
LEMMA RestHolds ==
  ASSUME NEW q \in Seq(Requests), NEW i \in 1..Len(q), NEW x
  PROVE  /\ Has(SubSeq(q, i + 1, Len(q)), x) => Has(q, x)
         /\ Once(q, x) =>
              /\ Once(SubSeq(q, i + 1, Len(q)), x)
              /\ q[i] = x => ~Has(SubSeq(q, i + 1, Len(q)), x)
<1> DEFINE n == Len(q)
           rest == SubSeq(q, i + 1, n)
<1>1. n \in Nat /\ i \in 1..n
  BY LenProperties
<1> HIDE DEF n
<1>2. i + 1 \in Int /\ n \in Int /\ \A k \in (i + 1)..n : q[k] \in Requests
  BY <1>1, ElementOfSeq DEF n
<1>3. /\ rest \in Seq(Requests)
      /\ Len(rest) = IF i + 1 <= n THEN n - (i + 1) + 1 ELSE 0
      /\ \A k \in 1..(n - (i + 1) + 1) : rest[k] = q[(i + 1) + k - 1]
  BY <1>2, SubSeqProperties
<1> HIDE DEF rest
<1>4. ASSUME NEW k \in 1..Len(rest)
      PROVE  i + k \in 1..n /\ i + k # i /\ rest[k] = q[i + k]
  <2>1. i + 1 <= n /\ k \in 1..(n - (i + 1) + 1) /\ k \in Nat /\ k > 0
    BY <1>1, <1>3
  <2>2. (i + 1) + k - 1 = i + k /\ i + k \in 1..n /\ i + k # i
    BY <1>1, <2>1
  <2> QED BY <1>3, <2>1, <2>2
<1>5. Has(rest, x) => Has(q, x)
  BY <1>4 DEF Has, n
<1>6. ASSUME Once(q, x) PROVE Once(rest, x)
  <2>1. ASSUME NEW k \in 1..Len(rest), NEW j \in 1..Len(rest), rest[k] = x, rest[j] = x
        PROVE  k = j
    <3>1. i + k = i + j
      BY <1>4, <1>6, <2>1 DEF Once, n
    <3> QED BY <1>1, <3>1
  <2> QED BY <2>1 DEF Once
<1>7. ASSUME Once(q, x), q[i] = x PROVE ~Has(rest, x)
  BY <1>1, <1>4, <1>7 DEF Has, Once, n
<1> QED BY <1>5, <1>6, <1>7 DEF rest, n

\* Pushing puts the one job into the one queue.
LEMMA PushPlaces ==
  ASSUME HubTypeOK, NEW s \in Sessions, NEW x \in Requests, Push(s, x), NEW r,
         NEW t \in Sessions
  PROVE  /\ Has(pending'[t], r) => Has(pending[t], r) \/ (t = s /\ r = x)
         /\ Once(pending[t], r) /\ (r = x => ~Has(pending[t], r))
              => Once(pending'[t], r)
<1>1. CASE UNCHANGED queueVars
  BY <1>1 DEF queueVars
<1>2. CASE pending' = [pending EXCEPT ![s] = Append(Room(s), x)]
  <2>1. pending[s] \in Seq(Requests)
    BY DEF HubTypeOK
  <2>2. /\ Room(s) \in Seq(Requests)
        /\ Has(Room(s), r) => Has(pending[s], r)
        /\ Once(pending[s], r) => Once(Room(s), r)
    BY <2>1, LiveIsPart, LiveHolds DEF Room
  <2>3. pending'[t] = IF t = s THEN Append(Room(s), x) ELSE pending[t]
    BY <1>2 DEF HubTypeOK
  <2>4. /\ Has(Append(Room(s), x), r) <=> Has(Room(s), r) \/ r = x
        /\ Once(Room(s), r) /\ (r = x => ~Has(Room(s), r))
             => Once(Append(Room(s), x), r)
    BY <2>2, AppendHolds
  <2>5. CASE t = s
    BY <2>2, <2>3, <2>4, <2>5
  <2>6. CASE t # s
    BY <2>3, <2>6
  <2> QED BY <2>5, <2>6
<1> QED BY <1>1, <1>2 DEF Push

-----------------------------------------------------------------------------
(* A job is in one place *)

Nowhere(r) ==
  /\ \A s \in Sessions : ~Has(pending[s], r)
  /\ \A w \in Writers : held[w] # r

Placed(r) ==
  /\ \A s \in Sessions : Once(pending[s], r)
  /\ \A s, t \in Sessions : Has(pending[s], r) /\ Has(pending[t], r) => s = t
  /\ \A w, v \in Writers : held[w] = r /\ held[v] = r => w = v
  /\ \A w \in Writers : held[w] = r => \A s \in Sessions : ~Has(pending[s], r)

PlaceInv == \A r \in Requests : Placed(r)

LEMMA PlaceInit == HubInit => PlaceInv
<1> SUFFICES ASSUME HubInit, NEW r \in Requests PROVE Placed(r)
  BY DEF PlaceInv
<1>1. \A s \in Sessions : pending[s] = << >>
  BY DEF HubInit, OwnHubInit
<1>2. \A w \in Writers : held[w] # r
  BY CallsAssumption DEF HubInit, OwnHubInit
<1>3. ~Has(<< >>, r) /\ Once(<< >>, r)
  BY EmptySeq DEF Has, Once
<1> QED BY <1>1, <1>2, <1>3 DEF Placed

\* Jobs that only go away stay in one place.
LEMMA LessIsPlaced ==
  ASSUME NEW r, Placed(r),
         \A w \in Writers : held'[w] = r => held[w] = r,
         \A t \in Sessions : /\ Has(pending'[t], r) => Has(pending[t], r)
                             /\ Once(pending[t], r) => Once(pending'[t], r)
  PROVE  Placed(r)'
BY DEF Placed

\* A job that is nowhere may be pushed.
LEMMA PushedIsPlaced ==
  ASSUME HubTypeOK, PlaceInv, NEW s \in Sessions, NEW x \in Requests, Push(s, x),
         \A t \in Sessions : ~Has(pending[t], x),
         \A w \in Writers : held'[w] # x,
         \A w \in Writers : held'[w] # None => held'[w] = held[w]
  PROVE  PlaceInv'
<1> SUFFICES ASSUME NEW r \in Requests PROVE Placed(r)'
  BY DEF PlaceInv
<1>1. Placed(r) /\ r # None
  BY CallsAssumption DEF PlaceInv
<1>2. ASSUME NEW t \in Sessions
      PROVE  /\ Has(pending'[t], r) => Has(pending[t], r) \/ (t = s /\ r = x)
             /\ Once(pending[t], r) => Once(pending'[t], r)
  BY PushPlaces
<1>3. CASE r = x
  BY <1>1, <1>2, <1>3 DEF Placed
<1>4. CASE r # x
  BY <1>1, <1>2, <1>4, LessIsPlaced
<1> QED BY <1>3, <1>4

LEMMA PlaceStep == HubInv /\ PlaceInv /\ [HubNext]_hubVars => PlaceInv'
<1> SUFFICES ASSUME HubInv, PlaceInv, [HubNext]_hubVars PROVE PlaceInv'
  OBVIOUS
<1>1. HubTypeOK /\ TargetInv /\ JobsAtHome
  BY DEF HubInv, QueueInv
<1>2. None \notin Requests
  BY CallsAssumption
<1>3. ASSUME UNCHANGED <<pending, held>> PROVE PlaceInv'
  BY <1>3 DEF PlaceInv, Placed, Has, Once
<1>4. ASSUME NEW r \in Requests, PushJob(r) PROVE PlaceInv'
  <2>1. callPc[r] = "stored" /\ target[r] \in Sessions /\ UNCHANGED held
    BY <1>1, <1>4 DEF PushJob, TargetInv
  <2>2. ~Disclosed(r)
    BY <2>1 DEF Disclosed
  <2>3. Nowhere(r)
    BY <1>1, <1>2, <2>2 DEF JobsAtHome, Fits, Has, Nowhere
  <2>4. CASE UNCHANGED queueVars
    BY <1>3, <2>1, <2>4 DEF queueVars
  <2>5. CASE Push(target[r], r)
    BY <1>1, <2>1, <2>3, <2>5, PushedIsPlaced DEF Nowhere
  <2> QED BY <1>4, <2>4, <2>5 DEF PushJob
<1>5. ASSUME NEW r \in Requests, InvokeStep(r), ~PushJob(r)
      PROVE  PlaceInv'
  BY <1>3, <1>5
  DEF InvokeStep, PickSession, StoreWaiter, DropWaiter, TakeResult, GiveUp,
      ExpireWaiter, queueVars
<1>6. ASSUME NEW r \in Requests, DeadlinePasses(r) \/ CtxEnds(r) \/ Age(r)
      PROVE  PlaceInv'
  BY <1>3, <1>6 DEF DeadlinePasses, CtxEnds, Age, queueVars
<1>7. ASSUME NEW c \in Clients, NEW r \in Requests, SubmitResult(c, r)
      PROVE  PlaceInv'
  BY <1>3, <1>7 DEF SubmitResult, queueVars
<1>8. ASSUME NEW s \in Sessions, UNCHANGED held,
             pending' = [pending EXCEPT ![s] = << >>]
      PROVE  PlaceInv'
  <2> SUFFICES ASSUME NEW r \in Requests PROVE Placed(r)'
    BY DEF PlaceInv
  <2>1. ~Has(<< >>, r) /\ Once(<< >>, r)
    BY EmptySeq DEF Has, Once
  <2>2. \A t \in Sessions :
          pending'[t] = IF t = s THEN << >> ELSE pending[t]
    BY <1>1, <1>8 DEF HubTypeOK
  <2> QED BY <1>8, <2>1, <2>2, LessIsPlaced DEF PlaceInv
<1>9. ASSUME NEW c \in Clients, NEW g \in Groups, NEW asked \in Limits,
             NEW s \in Sessions, RegisterFresh(c, g, asked, s)
      PROVE  PlaceInv'
  BY <1>8, <1>9 DEF RegisterFresh
<1>10. ASSUME NEW w \in Writers, NEW s \in Sessions, Pop(w, s) PROVE PlaceInv'
  <2>1. CASE PopJob(w, s)
    <3> DEFINE q == pending[s]
               rest(i) == SubSeq(q, i + 1, Len(q))
    <3>1. PICK i \in 1..Len(q) :
            /\ q[i] \in Requests
            /\ held' = [held EXCEPT ![w] = q[i]]
            /\ pending' = [pending EXCEPT ![s] = rest(i)]
      BY <1>1, <2>1, PopTakes
    <3>2. q \in Seq(Requests) /\ Has(q, q[i])
      BY <1>1, <3>1 DEF HubTypeOK, Has
    <3>3. \A t \in Sessions : pending'[t] = IF t = s THEN rest(i) ELSE pending[t]
      BY <1>1, <3>1 DEF HubTypeOK
    <3>4. \A v \in Writers : held'[v] = IF v = w THEN q[i] ELSE held[v]
      BY <1>1, <3>1 DEF HubTypeOK
    <3> SUFFICES ASSUME NEW r \in Requests PROVE Placed(r)'
      BY DEF PlaceInv
    <3>5. Placed(r)
      BY DEF PlaceInv
    <3>6. /\ Has(rest(i), r) => Has(q, r)
          /\ Once(q, r) => Once(rest(i), r) /\ (q[i] = r => ~Has(rest(i), r))
      BY <3>2, RestHolds
    <3> HIDE DEF rest
    <3>7. CASE r # q[i]
      <4>1. \A v \in Writers : held'[v] = r => held[v] = r
        BY <3>4, <3>7
      <4>2. \A t \in Sessions : /\ Has(pending'[t], r) => Has(pending[t], r)
                                /\ Once(pending[t], r) => Once(pending'[t], r)
        BY <3>3, <3>6
      <4> QED BY <3>5, <4>1, <4>2, LessIsPlaced
    <3>8. CASE r = q[i]
      <4>1. /\ \A v \in Writers : held[v] # r
            /\ \A t \in Sessions : Has(pending[t], r) => t = s
            /\ \A t \in Sessions : Once(pending[t], r)
        BY <3>2, <3>5, <3>8 DEF Placed
      <4>2. \A t \in Sessions : ~Has(pending'[t], r) /\ Once(pending'[t], r)
        BY <3>3, <3>6, <3>8, <4>1
      <4>3. \A v \in Writers : held'[v] = r => v = w
        BY <3>4, <4>1
      <4> QED BY <4>2, <4>3 DEF Placed
    <3> QED BY <3>7, <3>8
  <2>2. CASE PopParks(w, s)
    BY <1>8, <2>2 DEF PopParks
  <2> QED BY <1>10, <2>1, <2>2 DEF Pop
<1>11. ASSUME NEW w \in Writers, NEW s \in Sessions, PutBack(w, s) PROVE PlaceInv'
  <2>1. /\ held[w] \in Requests /\ Push(s, held[w])
        /\ \A v \in Writers : held'[v] = IF v = w THEN None ELSE held[v]
    BY <1>1, <1>11 DEF PutBack, HubTypeOK
  <2>2. Placed(held[w])
    BY <2>1 DEF PlaceInv
  <2>3. \A t \in Sessions : ~Has(pending[t], held[w])
    BY <2>2 DEF Placed
  <2>4. \A v \in Writers : held'[v] # held[w]
    BY <1>2, <2>1, <2>2 DEF Placed
  <2>5. \A v \in Writers : held'[v] # None => held'[v] = held[v]
    BY <2>1
  <2> QED BY <1>1, <2>1, <2>3, <2>4, <2>5, PushedIsPlaced
<1>12. ASSUME NEW w \in Writers, LeavePop(w) PROVE PlaceInv'
  BY <1>3, <1>12 DEF LeavePop
<1>13. ASSUME NEW w \in Writers, LetGo(w) PROVE PlaceInv'
  <2>1. /\ UNCHANGED pending
        /\ \A v \in Writers : held'[v] = IF v = w THEN None ELSE held[v]
    BY <1>1, <1>13 DEF LetGo, HubTypeOK, queueVars
  <2> SUFFICES ASSUME NEW r \in Requests PROVE Placed(r)'
    BY DEF PlaceInv
  <2> QED BY <1>2, <2>1, LessIsPlaced DEF PlaceInv
<1>14. CASE RegistryStep
  BY <1>3, <1>14 DEF RegistryStep, ownHubVars, queueVars
<1>15. CASE UNCHANGED hubVars
  BY <1>3, <1>15 DEF hubVars, ownHubVars, queueVars
<1> QED
  BY <1>4, <1>5, <1>6, <1>7, <1>9, <1>10, <1>11, <1>12, <1>13, <1>14, <1>15
  DEF HubNext

\* However a job is popped, put back and pruned, it is in one place at most:
\* in one position of one queue, or in the hands of one writer, so it is sent
\* by one writer at a time.
THEOREM JobsInOnePlace == HubSpec => []JobInOnePlace
<1>1. ASSUME HubInv, PlaceInv, NEW r \in Requests
      PROVE  Cardinality(Places(r)) + Cardinality(Hands(r)) <= 1
  <2>1. Placed(r)
    BY <1>1 DEF PlaceInv
  <2>2. \A s \in Sessions : DOMAIN pending[s] = 1..Len(pending[s])
    BY <1>1, LenProperties DEF HubInv, HubTypeOK
  <2>3. \A p \in Places(r) :
          /\ p = <<p[1], p[2]>> /\ p[1] \in Sessions
          /\ p[2] \in 1..Len(pending[p[1]]) /\ pending[p[1]][p[2]] = r
    BY <2>2 DEF Places
  <2>4. \A p \in Places(r) : Has(pending[p[1]], r)
    BY <2>3 DEF Has
  <2>5. \A p, o \in Places(r) : p = o
    <3> SUFFICES ASSUME NEW p \in Places(r), NEW o \in Places(r) PROVE p = o
      OBVIOUS
    <3>1. p[1] = o[1]
      BY <2>1, <2>3, <2>4 DEF Placed
    <3>2. p[2] = o[2]
      BY <2>1, <2>3, <3>1 DEF Placed, Once
    <3> QED BY <2>3, <3>1, <3>2
  <2>6. \A w, v \in Hands(r) : w = v
    BY <2>1 DEF Hands, Placed
  <2>7. Hands(r) # {} => Places(r) = {}
    BY <2>1, <2>3, <2>4 DEF Hands, Placed
  <2>8. ASSUME NEW S, \A x, y \in S : x = y
        PROVE  Cardinality(S) = IF S = {} THEN 0 ELSE 1
    <3>1. CASE S = {}
      BY <3>1, FS_EmptySet
    <3>2. CASE S # {}
      <4>1. PICK x \in S : S = {x}
        BY <2>8, <3>2
      <4>2. Cardinality({x}) = 1
        BY FS_Singleton
      <4> QED BY <3>2, <4>1, <4>2
    <3> QED BY <3>1, <3>2
  <2>9. Cardinality(Places(r)) = IF Places(r) = {} THEN 0 ELSE 1
    BY <2>5, <2>8
  <2>10. Cardinality(Hands(r)) = IF Hands(r) = {} THEN 0 ELSE 1
    BY <2>6, <2>8
  <2> QED BY <2>7, <2>9, <2>10
<1>2. HubInv /\ PlaceInv => JobInOnePlace
  BY <1>1 DEF JobInOnePlace
<1> QED
  BY <1>2, HubInvInit, HubInvStep, PlaceInit, PlaceStep, PTL DEF HubSpec

-----------------------------------------------------------------------------
(* No queue loses a job that is not expired *)

\* Pruning keeps what is not expired.
LEMMA LiveKeeps ==
  ASSUME NEW queue \in Seq(Requests), NEW x, Has(queue, x), x \notin expired
  PROVE  Has(Live(queue), x)
<1> DEFINE n == Len(queue)
           kept == CHOOSE f : f = [m \in 0..n |-> KeptStep(queue, f, m)]
           Whole(m) == /\ kept[m] \in Seq(Requests)
                       /\ (\E j \in 1..m : queue[j] = x) => Has(kept[m], x)
           bad == {m \in 0..n : ~Whole(m)}
<1>1. n \in Nat /\ \A i \in 1..n : queue[i] \in Requests
  BY LenProperties, ElementOfSeq
<1>2. Live(queue) = kept[n]
  BY DEF Live, KeptStep
<1>3. kept = [m \in 0..n |-> KeptStep(queue, kept, m)]
  BY <1>1, KeptExists
<1> HIDE DEF kept
<1>4. ASSUME bad # {} PROVE FALSE
  <2>1. PICK m \in bad : \A y \in bad : m <= y
    <3>1. bad \in SUBSET Nat
      BY <1>1
    <3> HIDE DEF bad
    <3> QED BY <3>1, <1>4, LeastNumber
  <2>2. m \in 0..n /\ kept[m] = KeptStep(queue, kept, m)
    BY <1>3
  <2>3. CASE m = 0
    <3>1. kept[m] = << >>
      BY <2>2, <2>3 DEF KeptStep
    <3>2. kept[m] \in Seq(Requests) /\ ~(\E j \in 1..m : queue[j] = x)
      BY <3>1, <2>3, EmptySeq
    <3> QED BY <3>2
  <2>4. CASE m # 0
    <3>1. m - 1 \in 0..n /\ ~(m <= m - 1) /\ m \in 1..n
          /\ \A j \in 1..m : j = m \/ j \in 1..(m - 1)
      BY <1>1, <2>2, <2>4
    <3>2. Whole(m - 1)
      BY <2>1, <3>1
    <3> DEFINE before == kept[m - 1]
    <3>3. /\ before \in Seq(Requests)
          /\ (\E j \in 1..(m - 1) : queue[j] = x) => Has(before, x)
      BY <3>2
    <3>4. /\ queue[m] \in expired => kept[m] = before
          /\ queue[m] \notin expired => kept[m] = Append(before, queue[m])
      BY <2>2, <2>4 DEF KeptStep
    <3>5. queue[m] \in Requests
      BY <1>1, <3>1
    <3> HIDE DEF before
    <3>6. CASE queue[m] \in expired
      BY <3>1, <3>3, <3>4, <3>6
    <3>7. CASE queue[m] \notin expired
      <4>1. /\ kept[m] \in Seq(Requests)
            /\ Has(kept[m], x) <=> Has(before, x) \/ x = queue[m]
        <5>1. kept[m] = Append(before, queue[m])
          BY <3>4, <3>7
        <5>2. /\ Append(before, queue[m]) \in Seq(Requests)
              /\ Has(Append(before, queue[m]), x) <=> Has(before, x) \/ x = queue[m]
          BY <3>3, <3>5, AppendHolds
        <5> QED BY <5>1, <5>2
      <4>2. (\E j \in 1..m : queue[j] = x) => Has(kept[m], x)
        BY <3>1, <3>3, <4>1
      <4>3. Whole(m)
        BY <4>1, <4>2
      <4> QED BY <4>3
    <3> QED BY <3>6, <3>7
  <2> QED BY <2>3, <2>4
<1>5. n \in 0..n /\ \E j \in 1..n : queue[j] = x
  BY <1>1 DEF Has
<1>6. Whole(n)
  BY <1>4, <1>5
<1> QED BY <1>2, <1>5, <1>6

\* Pushing loses no job, and if it is not refused the new one is there.
LEMMA PushKeepsJobs ==
  ASSUME HubTypeOK, NEW s \in Sessions, NEW x \in Requests, Push(s, x),
         NEW r \in Requests \ expired, NEW t \in Sessions
  PROVE  /\ Has(pending[t], r) => Has(pending'[t], r)
         /\ r = x /\ ~PushRefused(s, x) => Has(pending'[s], r)
<1>1. CASE UNCHANGED queueVars /\ (x \in expired \/ PushRefused(s, x))
  BY <1>1 DEF queueVars
<1>2. CASE pending' = [pending EXCEPT ![s] = Append(Room(s), x)]
  <2>1. pending[s] \in Seq(Requests)
    BY DEF HubTypeOK
  <2>2. Room(s) \in Seq(Requests) /\ (Has(pending[s], r) => Has(Room(s), r))
    BY <2>1, LiveIsPart, LiveKeeps DEF Room
  <2>3. \A u \in Sessions :
          pending'[u] = IF u = s THEN Append(Room(s), x) ELSE pending[u]
    BY <1>2 DEF HubTypeOK
  <2>4. Has(Append(Room(s), x), r) <=> Has(Room(s), r) \/ r = x
    BY <2>2, AppendHolds
  <2> QED BY <2>2, <2>3, <2>4
<1> QED BY <1>1, <1>2 DEF Push

\* Popping passes over expired jobs only.
LEMMA PopKeepsJobs ==
  ASSUME HubTypeOK, NEW w \in Writers, NEW s \in Sessions, Pop(w, s),
         NEW r \in Requests \ expired, NEW t \in Sessions, Has(pending[t], r)
  PROVE  Has(pending'[t], r) \/ held'[w] = r
<1>1. CASE t # s
  <2>1. pending'[t] = pending[t]
    BY <1>1 DEF Pop, PopJob, PopParks, HubTypeOK
  <2> QED BY <2>1
<1>2. CASE t = s
  <2> DEFINE q == pending[s]
             i == HeadPosition(s)
             n == Len(q)
             rest == SubSeq(q, i + 1, n)
  <2>1. q \in Seq(Requests) /\ n \in Nat /\ DOMAIN q = 1..n
    BY LenProperties DEF HubTypeOK
  <2>2. PICK j \in 1..n : q[j] = r
    BY <1>2 DEF Has
  <2>3. j \in LivePositions(s) /\ LivePositions(s) \subseteq 1..n
    BY <2>1, <2>2 DEF LivePositions
  <2>4. PopJob(w, s)
    BY <2>3 DEF Pop, PopParks
  <2>5. \E m \in LivePositions(s) : \A l \in LivePositions(s) : m <= l
    <3>1. LivePositions(s) \in SUBSET Nat
      BY <2>1, <2>3
    <3> QED BY <3>1, <2>3, LeastNumber
  <2>6. i \in 1..n /\ i <= j
    BY <2>3, <2>5 DEF HeadPosition
  <2>7. held'[w] = q[i] /\ pending'[s] = rest
    BY <2>4 DEF PopJob, HubTypeOK
  <2> HIDE DEF i, n
  <2>8. CASE i = j
    BY <2>2, <2>7, <2>8
  <2>9. CASE i # j
    <3>1. i + 1 \in Int /\ n \in Int /\ \A k \in (i + 1)..n : q[k] \in Requests
      BY <2>1, <2>6, ElementOfSeq DEF n
    <3>2. /\ rest \in Seq(Requests)
          /\ Len(rest) = IF i + 1 <= n THEN n - (i + 1) + 1 ELSE 0
          /\ \A k \in 1..(n - (i + 1) + 1) : rest[k] = q[(i + 1) + k - 1]
      BY <3>1, SubSeqProperties
    <3> HIDE DEF rest
    <3>3. /\ i + 1 <= n /\ j - i \in 1..(n - (i + 1) + 1)
          /\ (i + 1) + (j - i) - 1 = j
      BY <2>1, <2>2, <2>6, <2>9
    <3>4. j - i \in 1..Len(rest) /\ rest[j - i] = q[j]
      BY <3>2, <3>3
    <3> QED BY <1>2, <2>2, <2>7, <3>4 DEF Has
  <2> QED BY <2>8, <2>9
<1> QED BY <1>1, <1>2

\* A queue as long as there are calls always has room for one more job.
LEMMA RoomForAll ==
  ASSUME HubTypeOK, PlaceInv, IsFiniteSet(Requests),
         Cardinality(Requests) <= PendingSize,
         NEW r \in Requests, NEW s \in Sessions, ~Has(pending[s], r)
  PROVE  ~PushRefused(s, r)
<1> DEFINE q == pending[s]
           n == Len(q)
           T == Requests \ {r}
<1>1. q \in Seq(Requests) /\ n \in Nat /\ \A i \in 1..n : q[i] \in Requests
  BY LenProperties, ElementOfSeq DEF HubTypeOK
<1>2. /\ IsFiniteSet(T) /\ Cardinality(T) = Cardinality(Requests) - 1
      /\ Cardinality(T) \in Nat /\ Cardinality(Requests) \in Nat
  BY FS_RemoveElement, FS_CardinalityType
<1>3. IsFiniteSet(1..n) /\ Cardinality(1..n) = n
  <2> HIDE DEF n
  <2>1. 0 \in Int /\ 1 \in Int /\ n \in Int /\ (IF 1 > n THEN 0 ELSE n - 1 + 1) = n
    BY <1>1
  <2> QED BY <2>1, FS_Interval
<1>4. n <= Cardinality(T)
  <2> SUFFICES ASSUME Cardinality(T) < n PROVE FALSE
    BY <1>1, <1>2
  <2> DEFINE f == [i \in 1..n |-> q[i]]
  <2>1. f \in [1..n -> T]
    BY <1>1 DEF Has
  <2> HIDE DEF T
  <2>2. Cardinality(T) < Cardinality(1..n)
    BY <1>3
  <2>3. \E i, j \in 1..n : i # j /\ f[i] = f[j]
    <3> HIDE DEF f, n
    <3> QED BY <1>2, <1>3, <2>1, <2>2, FS_PigeonHole
  <2>4. PICK i \in 1..n, j \in 1..n : i # j /\ q[i] = q[j]
    BY <2>3
  <2>5. q[i] \in Requests
    BY <1>1
  <2>6. Once(q, q[i])
    BY <2>5 DEF PlaceInv, Placed
  <2> QED BY <2>4, <2>6 DEF Once
<1>5. n < PendingSize
  <2> HIDE DEF n, T
  <2> QED BY <1>1, <1>2, <1>4, CallsAssumption
<1>6. n \in Nat /\ PendingSize \in Nat
  BY <1>1, CallsAssumption
<1>7. Room(s) = q
  BY <1>5, <1>6 DEF Room
<1>8. ~(Len(Room(s)) >= PendingSize)
  BY <1>5, <1>6, <1>7
<1> QED BY <1>8 DEF PushRefused
=============================================================================
