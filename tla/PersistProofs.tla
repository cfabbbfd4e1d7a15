---------------------------- MODULE PersistProofs ----------------------------
(***************************************************************************)
(* Proofs about Persist, for every set of calls and workers, every size of *)
(* channel and batch, and any number of failures and restarts.             *)
(*                                                                         *)
(* A call is counted once because its metric task is in one place at a     *)
(* time, and only as long as it has not been counted.  A restart counts    *)
(* the rows, so a call whose task is still to come must have no row yet.   *)
(***************************************************************************)
EXTENDS Persist, TLAPS, SequenceTheorems, FiniteSetTheorems,
        WellFoundedInduction

-----------------------------------------------------------------------------
(* Operators *)

\* A set of numbers that is not empty has a least element.
LEMMA LeastNumber ==
  ASSUME NEW S \in SUBSET Nat, S # {}
  PROVE  \E x \in S : \A y \in S : x <= y
<1>1. PICK x \in S : \A y \in S : ~(<<y, x>> \in OpToRel(<, Nat))
  BY NatLessThanWellFounded, WFMin
<1>2. ASSUME NEW y \in S PROVE x <= y
  <2>1. ~(y < x)
    BY <1>1 DEF OpToRel
  <2> QED BY <2>1
<1> QED BY <1>2

\* The rows after the first n upserts of a batch.
AfterStep(tasks, f, n) ==
  IF n = 0 THEN rpcRequests ELSE Upserted(f[n - 1], tasks[n])

LEMMA AfterExists ==
  ASSUME NEW tasks, NEW n \in Nat
  PROVE  \E f : f = [m \in 0..n |-> AfterStep(tasks, f, m)]
<1> DEFINE Good(k) == \E f : f = [m \in 0..k |-> AfterStep(tasks, f, m)]
           bad == {k \in Nat : ~Good(k)}
<1>1. SUFFICES ASSUME bad # {} PROVE FALSE
  OBVIOUS
<1>2. PICK k \in bad : \A y \in bad : k <= y
  BY <1>1, LeastNumber
<1>3. CASE k = 0
  <2> DEFINE f == [m \in 0..0 |-> rpcRequests]
  <2>1. f = [m \in 0..k |-> AfterStep(tasks, f, m)]
    BY <1>3 DEF AfterStep
  <2> QED BY <2>1
<1>4. CASE k # 0
  <2>1. k - 1 \in Nat /\ ~(k <= k - 1)
    BY <1>4
  <2>2. PICK f : f = [m \in 0..(k - 1) |-> AfterStep(tasks, f, m)]
    BY <2>1, <1>2
  <2> DEFINE g == [m \in 0..k |-> IF m = k THEN AfterStep(tasks, f, k) ELSE f[m]]
  <2>3. \A m \in 0..(k - 1) : g[m] = f[m] /\ f[m] = AfterStep(tasks, f, m)
    BY <2>1, <2>2
  <2>4. ASSUME NEW m \in 0..k PROVE g[m] = AfterStep(tasks, g, m)
    <3>1. AfterStep(tasks, g, m) = AfterStep(tasks, f, m)
      <4>1. CASE m = 0
        BY <4>1 DEF AfterStep
      <4>2. CASE m # 0
        <5>1. m - 1 \in 0..(k - 1)
          BY <4>2
        <5>2. g[m - 1] = f[m - 1]
          BY <5>1, <2>3
        <5> QED BY <5>2, <4>2 DEF AfterStep
      <4> QED BY <4>1, <4>2
    <3>2. CASE m = k
      BY <3>1, <3>2
    <3>3. CASE m # k
      <4>1. m \in 0..(k - 1)
        BY <3>3
      <4> QED BY <4>1, <2>3, <3>1
    <3> QED BY <3>2, <3>3
  <2>5. g = [m \in 0..k |-> AfterStep(tasks, g, m)]
    <3> DEFINE h == [m \in 0..k |-> AfterStep(tasks, g, m)]
    <3>1. \A m \in 0..k : g[m] = h[m]
      BY <2>4
    <3>2. g = [m \in 0..k |-> g[m]] /\ h = [m \in 0..k |-> h[m]]
      OBVIOUS
    <3> HIDE DEF g, h
    <3>3. g = h
      BY <3>1, <3>2
    <3> QED BY <3>3 DEF h
  <2> HIDE DEF g
  <2>6. Good(k)
    BY <2>5
  <2> QED BY <2>6
<1> QED BY <1>3, <1>4

\* A row that an upsert of records adds is that of one of the records.
LEMMA RowsAreOfRecords ==
  ASSUME NEW tasks \in Seq(Tasks), rpcRequests \in Seq(Requests)
  PROVE  /\ WithRows(tasks) \in Seq(Requests)
         /\ \A r \in Range(WithRows(tasks)) :
              \/ r \in Range(rpcRequests)
              \/ \E i \in 1..Len(tasks) : tasks[i] = Record(r)
<1> DEFINE n == Len(tasks)
           after == CHOOSE f : f = [m \in 0..n |-> AfterStep(tasks, f, m)]
           Fine(m) == /\ after[m] \in Seq(Requests)
                      /\ \A r \in Range(after[m]) :
                           \/ r \in Range(rpcRequests)
                           \/ \E i \in 1..n : tasks[i] = Record(r)
           bad == {m \in 0..n : ~Fine(m)}
<1>1. n \in Nat /\ \A i \in 1..n : tasks[i] \in Tasks
  BY LenProperties, ElementOfSeq
<1>2. WithRows(tasks) = after[n]
  BY DEF WithRows, AfterStep
<1>3. after = [m \in 0..n |-> AfterStep(tasks, after, m)]
  BY <1>1, AfterExists
<1> HIDE DEF after
<1>4. ASSUME bad # {} PROVE FALSE
  <2>1. PICK m \in bad : \A y \in bad : m <= y
    <3>1. bad \in SUBSET Nat
      BY <1>1
    <3> HIDE DEF bad
    <3> QED BY <3>1, <1>4, LeastNumber
  <2>2. m \in 0..n /\ after[m] = AfterStep(tasks, after, m)
    BY <1>3
  <2>3. CASE m = 0
    BY <2>1, <2>2, <2>3 DEF AfterStep
  <2>4. CASE m # 0
    <3>1. m - 1 \in 0..n /\ ~(m <= m - 1) /\ m \in 1..n
      BY <1>1, <2>2, <2>4
    <3>2. Fine(m - 1)
      BY <2>1, <3>1
    <3>3. after[m] = Upserted(after[m - 1], tasks[m])
      BY <2>2, <2>4 DEF AfterStep
    <3>4. CASE after[m] = after[m - 1]
      BY <2>1, <3>2, <3>4
    <3>5. CASE /\ tasks[m][2] = "record"
               /\ after[m] = Append(after[m - 1], tasks[m][1])
      <4> DEFINE r == tasks[m][1]
      <4>1. r \in Requests /\ tasks[m] = Record(r)
        BY <1>1, <3>1, <3>5 DEF Tasks, Record
      <4>2. /\ after[m] \in Seq(Requests)
            /\ \A x \in Range(after[m]) : x \in Range(after[m - 1]) \/ x = r
        <5> DEFINE old == after[m - 1]
        <5>1. /\ old \in Seq(Requests) /\ Len(old) \in Nat
              /\ DOMAIN old = 1..Len(old)
          BY <3>2, LenProperties
        <5>2. after[m] = Append(old, r)
          BY <3>5
        <5> HIDE DEF old, r
        <5>3. /\ after[m] \in Seq(Requests)
              /\ Len(after[m]) = Len(old) + 1
              /\ \A i \in 1..Len(old) : after[m][i] = old[i]
              /\ after[m][Len(old) + 1] = r
          BY <4>1, <5>1, <5>2, AppendProperties
        <5>4. DOMAIN after[m] = 1..(Len(old) + 1)
          BY <5>3, LenProperties
        <5>5. ASSUME NEW i \in 1..(Len(old) + 1)
              PROVE  after[m][i] \in Range(old) \/ after[m][i] = r
          <6>1. CASE i = Len(old) + 1
            BY <6>1, <5>3
          <6>2. CASE i # Len(old) + 1
            <7>1. i \in 1..Len(old)
              BY <6>2, <5>1
            <7> QED BY <7>1, <5>1, <5>3 DEF Range
          <6> QED BY <6>1, <6>2
        <5> QED BY <5>3, <5>4, <5>5 DEF Range, old
      <4>3. Fine(m)
        BY <3>1, <3>2, <4>1, <4>2
      <4> QED BY <2>1, <4>3
    <3> QED BY <3>3, <3>4, <3>5 DEF Upserted
  <2> QED BY <2>3, <2>4
<1>5. n \in 0..n
  BY <1>1
<1>6. Fine(n)
  BY <1>4, <1>5
<1> QED BY <1>2, <1>6

\* A batch counts a call as often as it holds its metric task.
LEMMA CountsOnce ==
  ASSUME NEW tasks \in Seq(Tasks), counted \in [Requests -> Nat],
         NEW r \in Requests
  PROVE  /\ CountedWith(tasks)[r] \in Nat
         /\ (\A i \in 1..Len(tasks) : tasks[i] # Metric(r))
              => CountedWith(tasks)[r] = counted[r]
         /\ (\A i, j \in 1..Len(tasks) :
               tasks[i] = Metric(r) /\ tasks[j] = Metric(r) => i = j)
              => CountedWith(tasks)[r] <= counted[r] + 1
<1> DEFINE n == Len(tasks)
           at == {i \in 1..n : tasks[i] = Metric(r)}
<1>1. n \in Nat /\ DOMAIN tasks = 1..n
  BY LenProperties
<1>2. IsFiniteSet(at) /\ Cardinality(at) \in Nat
  <2>1. IsFiniteSet(1..n)
    BY <1>1, FS_Interval
  <2>2. at \in SUBSET (1..n)
    OBVIOUS
  <2> HIDE DEF at
  <2> QED BY <2>1, <2>2, FS_Subset, FS_CardinalityType
<1>3. CountedWith(tasks)[r] = counted[r] + Cardinality(at)
  BY <1>1 DEF CountedWith
<1>4. ASSUME \A i \in 1..n : tasks[i] # Metric(r)
      PROVE  Cardinality(at) = 0
  BY <1>4, FS_EmptySet
<1>5. ASSUME \A i, j \in 1..n : tasks[i] = Metric(r) /\ tasks[j] = Metric(r) => i = j
      PROVE  Cardinality(at) <= 1
  <2>1. CASE at = {}
    <3> HIDE DEF at
    <3>1. Cardinality(at) = 0
      BY <2>1, FS_EmptySet
    <3> QED BY <3>1
  <2>2. CASE at # {}
    <3>1. PICK i \in at : TRUE
      BY <2>2
    <3>2. at = {i}
      BY <1>5, <3>1
    <3> HIDE DEF at
    <3>3. Cardinality(at) = 1
      BY <3>2, FS_Singleton
    <3> QED BY <3>3
  <2> QED BY <2>1, <2>2
<1> HIDE DEF at, n
<1>6. counted[r] \in Nat
  OBVIOUS
<1> QED BY <1>2, <1>3, <1>4, <1>5, <1>6 DEF n

-----------------------------------------------------------------------------
(* Where a task is *)

Has(s, x) == \E i \in 1..Len(s) : s[i] = x
Once(s, x) == \A i, j \in 1..Len(s) : s[i] = x /\ s[j] = x => i = j

LEMMA EmptyHolds ==
  ASSUME NEW x
  PROVE  << >> \in Seq(Tasks) /\ ~Has(<< >>, x) /\ Once(<< >>, x)
BY EmptySeq DEF Has, Once

LEMMA EmptyLength ==
  ASSUME NEW s \in Seq(Tasks)
  PROVE  s = << >> <=> Len(s) = 0
BY EmptySeq

LEMMA SingleHolds ==
  ASSUME NEW x, NEW y \in Tasks
  PROVE  /\ <<y>> \in Seq(Tasks) /\ Len(<<y>>) = 1 /\ <<y>> # << >>
         /\ Has(<<y>>, x) <=> x = y
         /\ Once(<<y>>, x)
<1>1. <<y>> \in Seq(Tasks) /\ Len(<<y>>) = 1 /\ <<y>>[1] = y
  OBVIOUS
<1> QED BY <1>1 DEF Has, Once

LEMMA AppendHolds ==
  ASSUME NEW x, NEW y \in Tasks, NEW s \in Seq(Tasks)
  PROVE  /\ Append(s, y) \in Seq(Tasks) /\ Len(Append(s, y)) = Len(s) + 1
         /\ Append(s, y) # << >>
         /\ Has(Append(s, y), x) <=> Has(s, x) \/ x = y
         /\ Once(s, x) /\ (x = y => ~Has(s, x)) => Once(Append(s, y), x)
<1> DEFINE t == Append(s, y)
<1>1. /\ t \in Seq(Tasks) /\ Len(s) \in Nat /\ Len(t) = Len(s) + 1
      /\ \A i \in 1..Len(s) : t[i] = s[i]
      /\ t[Len(s) + 1] = y /\ t # << >>
  BY AppendProperties, LenProperties
<1> HIDE DEF t
<1>2. ASSUME NEW i \in 1..Len(t)
      PROVE  i \in 1..Len(s) \/ (i = Len(s) + 1 /\ t[i] = y)
  BY <1>1
<1>3. 1..Len(s) \subseteq 1..Len(t) /\ Len(s) + 1 \in 1..Len(t)
  BY <1>1
<1>4. Has(t, x) <=> Has(s, x) \/ x = y
  BY <1>1, <1>2, <1>3 DEF Has
<1>5. ASSUME Once(s, x), x = y => ~Has(s, x) PROVE Once(t, x)
  BY <1>1, <1>2, <1>5 DEF Has, Once
<1> QED BY <1>1, <1>4, <1>5 DEF t

LEMMA TailHolds ==
  ASSUME NEW x, NEW s \in Seq(Tasks), s # << >>
  PROVE  /\ Head(s) \in Tasks /\ Tail(s) \in Seq(Tasks)
         /\ Len(s) \in Nat \ {0} /\ Len(Tail(s)) = Len(s) - 1
         /\ Has(s, x) <=> x = Head(s) \/ Has(Tail(s), x)
         /\ Once(s, x) => /\ Once(Tail(s), x)
                          /\ x = Head(s) => ~Has(Tail(s), x)
<1> DEFINE t == Tail(s)
<1>1. /\ Head(s) \in Tasks /\ Head(s) = s[1]
      /\ t \in Seq(Tasks) /\ Len(t) = Len(s) - 1
      /\ \A i \in 1..Len(t) : t[i] = s[i + 1]
  BY HeadTailProperties
<1>2. Len(s) \in Nat \ {0}
  BY EmptySeq, LenProperties
<1> HIDE DEF t
<1>3. \A i \in 1..Len(t) : i + 1 \in 1..Len(s) /\ i + 1 # 1
  BY <1>1, <1>2
<1>4. \A i \in 1..Len(s) : i = 1 \/ i - 1 \in 1..Len(t)
  BY <1>1, <1>2
<1>5. ASSUME NEW i \in 1..Len(s), i # 1 PROVE i - 1 \in 1..Len(t) /\ t[i - 1] = s[i]
  BY <1>1, <1>4, <1>5
<1>6. Has(s, x) => x = Head(s) \/ Has(t, x)
  BY <1>1, <1>5 DEF Has
<1>7. x = Head(s) \/ Has(t, x) => Has(s, x)
  <2>1. 1 \in 1..Len(s)
    BY <1>2
  <2> QED BY <1>1, <1>3, <2>1 DEF Has
<1>8. ASSUME Once(s, x) PROVE Once(t, x)
  <2>1. ASSUME NEW i \in 1..Len(t), NEW j \in 1..Len(t), t[i] = x, t[j] = x
        PROVE  i = j
    <3>1. i + 1 = j + 1
      BY <1>1, <1>3, <1>8, <2>1 DEF Once
    <3> QED BY <3>1
  <2> QED BY <2>1 DEF Once
<1>9. ASSUME Once(s, x), x = Head(s), Has(t, x) PROVE FALSE
  <2>1. PICK i \in 1..Len(t) : t[i] = x
    BY <1>9 DEF Has
  <2>2. 1 \in 1..Len(s)
    BY <1>2
  <2> QED BY <1>1, <1>3, <1>9, <2>1, <2>2 DEF Once
<1> QED BY <1>1, <1>2, <1>6, <1>7, <1>8, <1>9 DEF t

-----------------------------------------------------------------------------
(* What a step writes *)

\* What a batch makes of the totals.
LEMMA BatchCounted ==
  ASSUME NEW tasks \in Seq(Tasks), counted \in [Requests -> Nat]
  PROVE  /\ CountedWith(tasks) \in [Requests -> Nat]
         /\ \A r \in Requests :
              /\ ~Has(tasks, Metric(r)) => CountedWith(tasks)[r] = counted[r]
              /\ Once(tasks, Metric(r)) => CountedWith(tasks)[r] <= counted[r] + 1
<1>1. \A r \in Requests : CountedWith(tasks)[r] \in Nat
  BY CountsOnce
<1>2. CountedWith(tasks) \in [Requests -> Nat]
  BY <1>1 DEF CountedWith
<1> QED BY <1>2, CountsOnce DEF Has, Once

\* What a single task makes of the tables.
LEMMA TaskWrites ==
  ASSUME NEW task \in Tasks, RunPersistTask(task),
         counted \in [Requests -> Nat], rpcRequests \in Seq(Requests)
  PROVE  /\ counted' \in [Requests -> Nat] /\ rpcRequests' \in Seq(Requests)
         /\ \A r \in Requests :
              /\ task # Metric(r) => counted'[r] = counted[r]
              /\ counted'[r] <= counted[r] + 1
              /\ r \in Range(rpcRequests') =>
                   r \in Range(rpcRequests) \/ task = Record(r)
<1>1. CASE UNCHANGED dbVars
  BY <1>1 DEF dbVars
<1>2. CASE rpcRequests' = WithRows(<<task>>) /\ counted' = CountedWith(<<task>>)
  <2>1. /\ <<task>> \in Seq(Tasks) /\ Len(<<task>>) = 1 /\ <<task>>[1] = task
        /\ \A x : (Has(<<task>>, x) <=> x = task) /\ Once(<<task>>, x)
    BY SingleHolds
  <2>2. /\ counted' \in [Requests -> Nat]
        /\ \A r \in Requests :
              /\ task # Metric(r) => counted'[r] = counted[r]
              /\ counted'[r] <= counted[r] + 1
    BY <1>2, <2>1, BatchCounted
  <2>3. /\ rpcRequests' \in Seq(Requests)
        /\ \A r \in Range(rpcRequests') :
             r \in Range(rpcRequests) \/ \E i \in 1..1 : <<task>>[i] = Record(r)
    BY <1>2, <2>1, RowsAreOfRecords
  <2>4. ASSUME NEW i \in 1..1 PROVE <<task>>[i] = task
    BY <2>1
  <2> QED BY <2>2, <2>3, <2>4
<1> QED BY <1>1, <1>2 DEF RunPersistTask

\* A trim makes up no rows.
LEMMA TrimKeepsRows ==
  ASSUME rpcRequests \in Seq(Requests), Trim
  PROVE  rpcRequests' \in Seq(Requests) /\ Range(rpcRequests') \subseteq Range(rpcRequests)
<1> DEFINE n == Len(rpcRequests)
           m == n - KeepLatest + 1
<1>1. n \in Nat /\ m \in 1..(n + 1) /\ n > KeepLatest
  BY PersistAssumption, LenProperties DEF Trim
<1>2. rpcRequests' = SubSeq(rpcRequests, m, n)
  BY DEF Trim
<1>3. \A i \in m..n : rpcRequests[i] \in Requests /\ i \in DOMAIN rpcRequests
  BY <1>1, ElementOfSeq, LenProperties
<1> HIDE DEF m, n
<1>4. m \in Int /\ n \in Int
  BY <1>1
<1>5. /\ rpcRequests' \in Seq(Requests)
      /\ Len(rpcRequests') = IF m <= n THEN n - m + 1 ELSE 0
      /\ \A i \in 1..(n - m + 1) : rpcRequests'[i] = rpcRequests[m + i - 1]
  BY <1>1, <1>2, <1>3, <1>4, SubSeqProperties
<1>6. DOMAIN rpcRequests' = 1..Len(rpcRequests')
  BY <1>5, LenProperties
<1>7. ASSUME NEW i \in DOMAIN rpcRequests'
      PROVE  rpcRequests'[i] \in Range(rpcRequests)
  <2>1. i \in 1..(n - m + 1) /\ m + i - 1 \in m..n
    BY <1>1, <1>4, <1>5, <1>6
  <2> QED BY <2>1, <1>3, <1>5 DEF Range
<1>8. Range(rpcRequests') \subseteq Range(rpcRequests)
  BY <1>7 DEF Range
<1> QED BY <1>5, <1>8

-----------------------------------------------------------------------------
(* Types *)

\* A step of worker w that leaves it a proper batch is a typed one.
LEMMA WorkerTyped ==
  ASSUME PersistTypeOK, NEW w \in Workers,
         NEW b \in Seq(Tasks), Len(b) <= BatchSize,
         NEW pc \in {"take", "drain", "records", "metrics", "fallback"},
         b = << >> <=> pc = "take",
         batch' = [batch EXCEPT ![w] = b], workerPc' = [workerPc EXCEPT ![w] = pc]
  PROVE  /\ batch' \in [Workers -> Seq(Tasks)]
         /\ workerPc' \in
              [Workers -> {"take", "drain", "records", "metrics", "fallback"}]
         /\ \A v \in Workers : Len(batch'[v]) <= BatchSize
                               /\ (batch'[v] = << >> <=> workerPc'[v] = "take")
BY DEF PersistTypeOK

LEMMA EnqueueTyped ==
  ASSUME PersistTypeOK, NEW task \in Tasks, Enqueue(task)
  PROVE  /\ persistCh' \in Seq(Tasks) /\ Len(persistCh') <= QueueSize
         /\ overflow' \in SUBSET Tasks
<1>1. Len(persistCh) \in Nat /\ QueueSize \in Nat /\ persistCh \in Seq(Tasks)
  BY PersistAssumption, LenProperties DEF PersistTypeOK
<1>2. Append(persistCh, task) \in Seq(Tasks)
      /\ Len(Append(persistCh, task)) = Len(persistCh) + 1
  BY <1>1, AppendHolds
<1>3. overflow \in SUBSET Tasks /\ Len(persistCh) <= QueueSize
  BY DEF PersistTypeOK
<1>4. CASE Len(persistCh) < QueueSize
  <2>1. persistCh' = Append(persistCh, task) /\ overflow' = overflow
    BY <1>4 DEF Enqueue
  <2> QED BY <1>1, <1>2, <1>3, <1>4, <2>1
<1>5. CASE ~(Len(persistCh) < QueueSize)
  <2>1. overflow' = overflow \cup {task} /\ persistCh' = persistCh
    BY <1>5 DEF Enqueue
  <2> QED BY <1>1, <1>3, <2>1
<1> QED BY <1>4, <1>5

LEMMA InitTyped == Init => PersistTypeOK
<1> SUFFICES ASSUME Init PROVE PersistTypeOK
  OBVIOUS
<1>1. Len(<< >>) = 0 /\ << >> \in Seq(Tasks) /\ << >> \in Seq(Requests)
  BY EmptySeq
<1> QED BY <1>1, PersistAssumption DEF Init, Idle, PersistTypeOK

LEMMA StepTyped ==
  ASSUME PersistTypeOK, [Next]_vars
  PROVE  PersistTypeOK'
<1>1. /\ Len(persistCh) \in Nat /\ Len(persistCh) <= QueueSize
      /\ persistCh \in Seq(Tasks)
      /\ BatchSize \in Nat \ {0} /\ QueueSize \in Nat \ {0}
      /\ \A w \in Workers :
           batch[w] \in Seq(Tasks) /\ Len(batch[w]) \in Nat /\ Len(batch[w]) <= BatchSize
      /\ << >> \in Seq(Tasks) /\ Len(<< >>) = 0
      /\ counted \in [Requests -> Nat] /\ rpcRequests \in Seq(Requests)
  BY PersistAssumption, LenProperties, EmptySeq DEF PersistTypeOK
<1>2. ASSUME NEW r \in Requests, EnqueueRecord(r) PROVE PersistTypeOK'
  <2>1. Record(r) \in Tasks
    BY DEF Record, Tasks
  <2>2. callPc' \in [Requests -> {"running", "metric", "done"}]
    BY <1>2 DEF EnqueueRecord, PersistTypeOK
  <2> QED BY <1>2, <2>1, <2>2, EnqueueTyped
          DEF EnqueueRecord, PersistTypeOK, workerVars, dbVars
<1>3. ASSUME NEW r \in Requests, EnqueueMetric(r) PROVE PersistTypeOK'
  <2>1. Metric(r) \in Tasks
    BY DEF Metric, Tasks
  <2>2. callPc' \in [Requests -> {"running", "metric", "done"}]
    BY <1>3 DEF EnqueueMetric, PersistTypeOK
  <2> QED BY <1>3, <2>1, <2>2, EnqueueTyped
          DEF EnqueueMetric, PersistTypeOK, workerVars, dbVars
<1>4. ASSUME NEW task \in Tasks, OverflowSends(task) PROVE PersistTypeOK'
  <2>1. persistCh' \in Seq(Tasks) /\ Len(persistCh') <= QueueSize
    BY <1>1, <1>4, AppendHolds DEF OverflowSends
  <2> QED BY <1>4, <2>1 DEF OverflowSends, PersistTypeOK, workerVars, dbVars
<1>5. ASSUME NEW task \in Tasks, OverflowRuns(task) PROVE PersistTypeOK'
  BY <1>1, <1>5, TaskWrites DEF OverflowRuns, PersistTypeOK, workerVars
<1>6. ASSUME NEW w \in Workers, WorkerStep(w) PROVE PersistTypeOK'
  <2>1. CASE Take(w)
    <3>1. /\ <<Head(persistCh)>> \in Seq(Tasks) /\ Len(<<Head(persistCh)>>) = 1
          /\ <<Head(persistCh)>> # << >>
          /\ Tail(persistCh) \in Seq(Tasks) /\ Len(Tail(persistCh)) <= QueueSize
      BY <1>1, <2>1, TailHolds, SingleHolds DEF Take
    <3> QED BY <1>1, <2>1, <3>1, WorkerTyped DEF Take, PersistTypeOK, dbVars
  <2>2. CASE Drain(w)
    <3>1. CASE Len(batch[w]) < BatchSize /\ persistCh # << >>
      <4> DEFINE b == Append(batch[w], Head(persistCh))
      <4>1. /\ b \in Seq(Tasks) /\ Len(b) <= BatchSize /\ b # << >>
            /\ Tail(persistCh) \in Seq(Tasks) /\ Len(Tail(persistCh)) <= QueueSize
        <5>1. /\ Head(persistCh) \in Tasks /\ Tail(persistCh) \in Seq(Tasks)
              /\ Len(Tail(persistCh)) = Len(persistCh) - 1
          BY <1>1, <3>1, TailHolds
        <5>2. b \in Seq(Tasks) /\ Len(b) = Len(batch[w]) + 1 /\ b # << >>
          BY <1>1, <5>1, AppendHolds
        <5> HIDE DEF b
        <5> QED BY <1>1, <3>1, <5>1, <5>2
      <4>2. /\ batch' = [batch EXCEPT ![w] = b] /\ persistCh' = Tail(persistCh)
            /\ workerPc' = workerPc /\ workerPc[w] = "drain"
            /\ UNCHANGED <<callPc, overflow, dbVars, failures, restarts>>
        BY <2>2, <3>1 DEF Drain
      <4>3. workerPc' = [workerPc EXCEPT ![w] = "drain"]
        BY <4>2 DEF PersistTypeOK
      <4> HIDE DEF b
      <4> QED BY <1>1, <4>1, <4>2, <4>3, WorkerTyped DEF PersistTypeOK, dbVars
    <3>2. CASE ~(Len(batch[w]) < BatchSize /\ persistCh # << >>)
      BY <2>2, <3>2 DEF Drain, PersistTypeOK, dbVars
    <3> QED BY <3>1, <3>2
  <2>3. ASSUME BatchFails(w) \/ BatchEnds(w), workerPc[w] # "take"
        PROVE  /\ batch' \in [Workers -> Seq(Tasks)]
               /\ workerPc' \in
                    [Workers -> {"take", "drain", "records", "metrics", "fallback"}]
               /\ \A v \in Workers : Len(batch'[v]) <= BatchSize
                                  /\ (batch'[v] = << >> <=> workerPc'[v] = "take")
    <3>1. CASE BatchEnds(w)
      <4> DEFINE b == << >>
      <4>1. b \in Seq(Tasks) /\ Len(b) <= BatchSize /\ b = << >>
        BY <1>1
      <4>2. /\ batch' = [batch EXCEPT ![w] = b]
            /\ workerPc' = [workerPc EXCEPT ![w] = "take"]
        BY <3>1 DEF BatchEnds
      <4> HIDE DEF b
      <4> QED BY <4>1, <4>2, WorkerTyped
    <3>2. CASE BatchFails(w) /\ ~BatchEnds(w)
      BY <2>3, <3>2 DEF BatchFails, PersistTypeOK
    <3> QED BY <2>3, <3>1, <3>2
  <2>4. CASE WriteRecords(w)
    <3>1. CASE BatchFails(w) /\ UNCHANGED rpcRequests
      BY <2>3, <2>4, <3>1 DEF WriteRecords, PersistTypeOK, channelVars
    <3>2. CASE /\ rpcRequests' = WithRows(batch[w]) /\ UNCHANGED batch
               /\ workerPc' = [workerPc EXCEPT ![w] = "metrics"]
      <4>1. rpcRequests' \in Seq(Requests)
        BY <1>1, <3>2, RowsAreOfRecords
      <4> QED BY <2>4, <3>2, <4>1 DEF WriteRecords, PersistTypeOK, channelVars
    <3> QED BY <2>4, <3>1, <3>2 DEF WriteRecords
  <2>5. CASE WriteMetrics(w)
    <3>1. counted' \in [Requests -> Nat]
      BY <1>1, <2>5, BatchCounted DEF WriteMetrics
    <3> QED BY <2>3, <2>5, <3>1 DEF WriteMetrics, PersistTypeOK, channelVars
  <2>6. CASE Fallback(w)
    <3>1. batch[w] # << >>
      BY <2>6 DEF Fallback, PersistTypeOK
    <3>2. /\ Head(batch[w]) \in Tasks /\ Tail(batch[w]) \in Seq(Tasks)
          /\ Len(Tail(batch[w])) = Len(batch[w]) - 1 /\ Len(batch[w]) # 0
      BY <1>1, <3>1, TailHolds
    <3>3. Tail(batch[w]) = << >> <=> Len(batch[w]) = 1
      <4>1. Tail(batch[w]) = << >> <=> Len(Tail(batch[w])) = 0
        BY <3>2, EmptyLength
      <4>2. Len(batch[w]) - 1 = 0 <=> Len(batch[w]) = 1
        BY <1>1
      <4> QED BY <3>2, <4>1, <4>2
    <3>4. counted' \in [Requests -> Nat] /\ rpcRequests' \in Seq(Requests)
      BY <1>1, <2>6, <3>2, TaskWrites DEF Fallback
    <3> DEFINE pc == IF Len(batch[w]) = 1 THEN "take" ELSE "fallback"
               b == Tail(batch[w])
    <3>5. /\ batch' = [batch EXCEPT ![w] = b] /\ workerPc' = [workerPc EXCEPT ![w] = pc]
          /\ UNCHANGED <<callPc, channelVars, restarts>>
      BY <2>6 DEF Fallback
    <3>6. /\ b \in Seq(Tasks) /\ Len(b) <= BatchSize
          /\ pc \in {"take", "drain", "records", "metrics", "fallback"}
          /\ b = << >> <=> pc = "take"
      BY <1>1, <3>2, <3>3
    <3> HIDE DEF pc, b
    <3> QED BY <3>4, <3>5, <3>6, WorkerTyped DEF PersistTypeOK, channelVars
  <2> QED BY <1>6, <2>1, <2>2, <2>4, <2>5, <2>6 DEF WorkerStep
<1>7. ASSUME Trim PROVE PersistTypeOK'
  BY <1>1, <1>7, TrimKeepsRows DEF Trim, PersistTypeOK, channelVars, workerVars
<1>8. ASSUME Restart PROVE PersistTypeOK'
  <2>1. /\ persistCh' \in Seq(Tasks) /\ Len(persistCh') <= QueueSize
        /\ overflow' \in SUBSET Tasks
    BY <1>1, <1>8 DEF Restart
  <2>2. /\ batch' \in [Workers -> Seq(Tasks)]
        /\ workerPc' \in
             [Workers -> {"take", "drain", "records", "metrics", "fallback"}]
        /\ \A w \in Workers : Len(batch'[w]) <= BatchSize
                              /\ (batch'[w] = << >> <=> workerPc'[w] = "take")
    <3> DEFINE b == << >>
    <3>1. b \in Seq(Tasks) /\ Len(b) <= BatchSize /\ b = << >>
      BY <1>1
    <3>2. /\ batch' = [w \in Workers |-> b]
          /\ workerPc' = [w \in Workers |-> "take"]
      BY <1>8 DEF Restart, Idle
    <3> HIDE DEF b
    <3> QED BY <3>1, <3>2
  <2>3. callPc' \in [Requests -> {"running", "metric", "done"}]
    BY <1>8 DEF Restart
  <2>4. rpcRequests' \in Seq(Requests) /\ counted' \in [Requests -> Nat]
    BY <1>1, <1>8 DEF Restart, Rebuild
  <2> QED BY <2>1, <2>2, <2>3, <2>4 DEF PersistTypeOK
<1>9. ASSUME UNCHANGED vars PROVE PersistTypeOK'
  BY <1>9 DEF vars, channelVars, workerVars, dbVars, PersistTypeOK
<1> QED BY <1>2, <1>3, <1>4, <1>5, <1>6, <1>7, <1>8, <1>9 DEF Next, OverflowStep

\* Type correctness of the pipeline: the channel and the batches never exceed
\* their sizes, a worker between batches holds nothing, and the tables hold
\* rows of calls and counts.
THEOREM PersistTypeCorrect == Spec => []PersistTypeOK
<1>1. Init => PersistTypeOK
  BY InitTyped
<1>2. PersistTypeOK /\ [Next]_vars => PersistTypeOK'
  BY StepTyped
<1> QED BY <1>1, <1>2, PTL DEF Spec

-----------------------------------------------------------------------------
(* The way of a task *)

\* Task x is in one place only: the channel, an overflow goroutine, a batch.
Placed(x) ==
  /\ Once(persistCh, x)
  /\ \A w \in Workers : Once(batch[w], x)
  /\ Has(persistCh, x) => x \notin overflow
  /\ \A w \in Workers : Has(batch[w], x) =>
       /\ ~Has(persistCh, x) /\ x \notin overflow
       /\ \A v \in Workers : Has(batch[v], x) => v = w

OnItsWay(x) ==
  \/ Has(persistCh, x)
  \/ x \in overflow
  \/ \E w \in Workers : Has(batch[w], x)

\* A step that hands nothing over loses tasks or moves them.
KeepsWay == \A x \in Tasks :
  Placed(x) => Placed(x)' /\ (OnItsWay(x)' => OnItsWay(x))

LEMMA EnqueuePlaces ==
  ASSUME PersistTypeOK, NEW task \in Tasks, Enqueue(task), batch' = batch,
         NEW x \in Tasks, Placed(x), x = task => ~OnItsWay(x)
  PROVE  Placed(x)' /\ (OnItsWay(x)' => OnItsWay(x) \/ x = task)
<1>1. persistCh \in Seq(Tasks)
  BY DEF PersistTypeOK
<1>2. CASE persistCh' = Append(persistCh, task) /\ overflow' = overflow
  <2>1. /\ Has(persistCh', x) <=> Has(persistCh, x) \/ x = task
        /\ Once(persistCh', x)
    <3>1. Once(persistCh, x) /\ (x = task => ~Has(persistCh, x))
      BY DEF Placed, OnItsWay
    <3> QED BY <1>1, <1>2, <3>1, AppendHolds
  <2> QED BY <1>2, <2>1 DEF Placed, OnItsWay
<1>3. CASE persistCh' = persistCh /\ overflow' = overflow \cup {task}
  BY <1>3 DEF Placed, OnItsWay
<1> QED BY <1>2, <1>3 DEF Enqueue

LEMMA OverflowSendsKeeps ==
  ASSUME PersistTypeOK, NEW task \in Tasks, OverflowSends(task)
  PROVE  KeepsWay
<1> SUFFICES ASSUME NEW x \in Tasks, Placed(x)
             PROVE  Placed(x)' /\ (OnItsWay(x)' => OnItsWay(x))
  BY DEF KeepsWay
<1>1. /\ persistCh' = Append(persistCh, task) /\ overflow' = overflow \ {task}
      /\ task \in overflow /\ batch' = batch /\ persistCh \in Seq(Tasks)
  BY DEF OverflowSends, workerVars, PersistTypeOK
<1>2. Once(persistCh, x) /\ (x = task => ~Has(persistCh, x))
  BY <1>1 DEF Placed
<1>3. /\ Has(persistCh', x) <=> Has(persistCh, x) \/ x = task
      /\ Once(persistCh', x)
  BY <1>1, <1>2, AppendHolds
<1> QED BY <1>1, <1>3 DEF Placed, OnItsWay

\* A worker takes the head of the channel to the batch it has.
LEMMA TakingKeeps ==
  ASSUME PersistTypeOK, NEW w \in Workers, NEW b, persistCh # << >>,
         batch' = [batch EXCEPT ![w] = b],
         persistCh' = Tail(persistCh), overflow' = overflow,
         \A x \in Tasks : /\ Has(b, x) <=> Has(batch[w], x) \/ x = Head(persistCh)
                          /\ \/ Once(b, x)
                             \/ ~Once(batch[w], x)
                             \/ x = Head(persistCh) /\ Has(batch[w], x)
  PROVE  KeepsWay
<1> SUFFICES ASSUME NEW x \in Tasks, Placed(x)
             PROVE  Placed(x)' /\ (OnItsWay(x)' => OnItsWay(x))
  BY DEF KeepsWay
<1>1. /\ Has(persistCh, x) <=> x = Head(persistCh) \/ Has(persistCh', x)
      /\ Once(persistCh', x)
      /\ x = Head(persistCh) => ~Has(persistCh', x)
  BY TailHolds DEF PersistTypeOK, Placed
<1>2. batch'[w] = b /\ \A v \in Workers : v # w => batch'[v] = batch[v]
  BY DEF PersistTypeOK
<1>3. Once(b, x)
  BY <1>1 DEF Placed
<1>4. Has(b, x) <=> Has(batch[w], x) \/ x = Head(persistCh)
  OBVIOUS
<1>5. \A v \in Workers : Once(batch'[v], x)
  BY <1>2, <1>3 DEF Placed
<1>6. OnItsWay(x)' => OnItsWay(x)
  BY <1>1, <1>2, <1>4 DEF OnItsWay
<1>7. Has(persistCh', x) => x \notin overflow'
  BY <1>1 DEF Placed
<1>8. ASSUME NEW v \in Workers, Has(batch'[v], x)
      PROVE  /\ ~Has(persistCh', x) /\ x \notin overflow'
             /\ \A u \in Workers : Has(batch'[u], x) => u = v
  BY <1>1, <1>2, <1>4, <1>8 DEF Placed
<1> QED BY <1>1, <1>5, <1>6, <1>7, <1>8 DEF Placed

\* A worker drops tasks of its batch.
LEMMA DroppingKeeps ==
  ASSUME PersistTypeOK, NEW w \in Workers, NEW b,
         batch' = [batch EXCEPT ![w] = b], UNCHANGED channelVars,
         \A x \in Tasks : /\ Has(b, x) => Has(batch[w], x)
                          /\ Once(batch[w], x) => Once(b, x)
  PROVE  /\ KeepsWay
         /\ \A x \in Tasks : /\ Placed(x) /\ Has(batch[w], x) /\ ~Has(b, x)
                                  => ~OnItsWay(x)'
<1>1. batch'[w] = b /\ \A v \in Workers : v # w => batch'[v] = batch[v]
  BY DEF PersistTypeOK
<1>2. persistCh' = persistCh /\ overflow' = overflow
  BY DEF channelVars
<1>3. ASSUME NEW x \in Tasks, Placed(x)
      PROVE  Placed(x)' /\ (OnItsWay(x)' => OnItsWay(x))
  BY <1>1, <1>2, <1>3 DEF Placed, OnItsWay
<1>4. ASSUME NEW x \in Tasks, Placed(x), Has(batch[w], x), ~Has(b, x)
      PROVE  ~OnItsWay(x)'
  BY <1>1, <1>2, <1>4 DEF Placed, OnItsWay
<1> QED BY <1>3, <1>4 DEF KeepsWay

-----------------------------------------------------------------------------
(* Counting once *)

\* A metric task on its way has not been counted, and a call that has not
\* ended has neither a task nor a row, which a restart would count.
CallInv(r) ==
  /\ Placed(Metric(r)) /\ Placed(Record(r))
  /\ OnItsWay(Metric(r)) => callPc[r] = "done" /\ counted[r] = 0
  /\ OnItsWay(Record(r)) => callPc[r] # "running"
  /\ callPc[r] = "running" => r \notin Range(rpcRequests)
  /\ callPc[r] # "done" => counted[r] = 0
  /\ counted[r] <= 1

CallsInv == \A r \in Requests : CallInv(r)

LEMMA TasksDiffer ==
  /\ \A r \in Requests : Metric(r) \in Tasks /\ Record(r) \in Tasks
  /\ \A r, q \in Requests : /\ Metric(r) # Record(q)
                            /\ Metric(r) = Metric(q) => r = q
                            /\ Record(r) = Record(q) => r = q
BY DEF Metric, Record, Tasks

\* What a writer does: what it counts was on its way and is so no longer.
LEMMA WritingKeeps ==
  ASSUME PersistTypeOK, PersistTypeOK', CallsInv, KeepsWay, callPc' = callPc,
         \A r \in Requests :
           /\ \/ counted'[r] = counted[r]
              \/ /\ OnItsWay(Metric(r)) /\ ~OnItsWay(Metric(r))'
                 /\ counted'[r] <= counted[r] + 1
           /\ r \in Range(rpcRequests') =>
                r \in Range(rpcRequests) \/ OnItsWay(Record(r))
  PROVE  CallsInv'
<1> SUFFICES ASSUME NEW r \in Requests PROVE CallInv(r)'
  BY DEF CallsInv
<1>1. CallInv(r) /\ counted[r] \in Nat /\ counted'[r] \in Nat
  BY DEF CallsInv, PersistTypeOK
<1>2. /\ Placed(Metric(r))' /\ Placed(Record(r))'
      /\ OnItsWay(Metric(r))' => OnItsWay(Metric(r))
      /\ OnItsWay(Record(r))' => OnItsWay(Record(r))
  <2>1. Metric(r)' = Metric(r) /\ Record(r)' = Record(r)
    BY DEF Metric, Record
  <2> QED BY <1>1, <2>1, TasksDiffer DEF CallInv, KeepsWay
<1>3. counted'[r] <= 1 /\ (callPc'[r] # "done" => counted'[r] = 0)
  <2>1. CASE counted'[r] = counted[r]
    BY <1>1, <2>1 DEF CallInv
  <2>2. CASE OnItsWay(Metric(r)) /\ counted'[r] <= counted[r] + 1
    <3>1. callPc[r] = "done" /\ counted[r] = 0
      BY <1>1, <2>2 DEF CallInv
    <3> QED BY <1>1, <2>2, <3>1
  <2> QED BY <2>1, <2>2
<1>4. OnItsWay(Metric(r))' => callPc'[r] = "done" /\ counted'[r] = 0
  BY <1>1, <1>2 DEF CallInv
<1>5. OnItsWay(Record(r))' => callPc'[r] # "running"
  BY <1>1, <1>2 DEF CallInv
<1>6. callPc'[r] = "running" => r \notin Range(rpcRequests')
  BY <1>1 DEF CallInv
<1> QED BY <1>2, <1>3, <1>4, <1>5, <1>6 DEF CallInv, Metric, Record

LEMMA InitCounts == Init => CallsInv
<1> SUFFICES ASSUME Init, NEW r \in Requests PROVE CallInv(r)
  BY DEF CallsInv
<1>1. \A x : ~Has(<< >>, x) /\ Once(<< >>, x)
  BY EmptyHolds
<1>2. /\ persistCh = << >> /\ overflow = {} /\ rpcRequests = << >>
      /\ \A w \in Workers : batch[w] = << >>
      /\ counted[r] = 0 /\ callPc[r] = "running"
  BY DEF Init, Idle
<1>3. \A x : Placed(x) /\ ~OnItsWay(x)
  BY <1>1, <1>2 DEF Placed, OnItsWay
<1>4. Range(rpcRequests) = {}
  <2>1. DOMAIN << >> = {}
    OBVIOUS
  <2> QED BY <1>2, <2>1 DEF Range
<1> QED BY <1>2, <1>3, <1>4 DEF CallInv

LEMMA EnqueueRecordCounts ==
  ASSUME PersistTypeOK, CallsInv, NEW r \in Requests, EnqueueRecord(r)
  PROVE  CallsInv'
<1> SUFFICES ASSUME NEW q \in Requests PROVE CallInv(q)'
  BY DEF CallsInv
<1>1. /\ callPc[r] = "running" /\ Enqueue(Record(r)) /\ batch' = batch
      /\ rpcRequests' = rpcRequests /\ counted' = counted
      /\ callPc'[r] = "metric" /\ (q # r => callPc'[q] = callPc[q])
  BY DEF EnqueueRecord, PersistTypeOK, workerVars, dbVars
<1>2. CallInv(q) /\ CallInv(r)
  BY DEF CallsInv
<1>3. Placed(Metric(q)) /\ Placed(Record(q)) /\ ~OnItsWay(Record(r))
  BY <1>1, <1>2 DEF CallInv
<1>4. Metric(q) # Record(r) /\ (Record(q) = Record(r) => q = r)
  BY TasksDiffer
<1> DEFINE m == Metric(q)
           c == Record(q)
<1>5. m \in Tasks /\ c \in Tasks /\ Record(r) \in Tasks
  BY TasksDiffer
<1>6. Placed(m)' /\ (OnItsWay(m)' => OnItsWay(m))
  <2> HIDE DEF c
  <2>1. Placed(m)' /\ (OnItsWay(m)' => OnItsWay(m) \/ m = Record(r))
    BY <1>1, <1>3, <1>4, <1>5, EnqueuePlaces
  <2> QED BY <1>4, <2>1
<1>7. Placed(c)' /\ (OnItsWay(c)' => OnItsWay(c) \/ q = r)
  <2>1. Placed(c)' /\ (OnItsWay(c)' => OnItsWay(c) \/ c = Record(r))
    BY <1>1, <1>3, <1>5, EnqueuePlaces
  <2> QED BY <1>4, <2>1
<1>8. CASE q = r
  <2>1. counted[q] = 0 /\ callPc'[q] = "metric"
    BY <1>1, <1>2, <1>8 DEF CallInv
  <2>2. ~OnItsWay(m)'
    BY <1>1, <1>2, <1>6, <1>8 DEF CallInv
  <2> QED BY <1>1, <1>6, <1>7, <2>1, <2>2 DEF CallInv
<1>9. CASE q # r
  BY <1>1, <1>2, <1>6, <1>7, <1>9 DEF CallInv
<1> QED BY <1>8, <1>9

LEMMA EnqueueMetricCounts ==
  ASSUME PersistTypeOK, CallsInv, NEW r \in Requests, EnqueueMetric(r)
  PROVE  CallsInv'
<1> SUFFICES ASSUME NEW q \in Requests PROVE CallInv(q)'
  BY DEF CallsInv
<1>1. /\ callPc[r] = "metric" /\ Enqueue(Metric(r)) /\ batch' = batch
      /\ rpcRequests' = rpcRequests /\ counted' = counted
      /\ callPc'[r] = "done" /\ (q # r => callPc'[q] = callPc[q])
  BY DEF EnqueueMetric, PersistTypeOK, workerVars, dbVars
<1>2. CallInv(q) /\ CallInv(r)
  BY DEF CallsInv
<1>3. Placed(Metric(q)) /\ Placed(Record(q)) /\ ~OnItsWay(Metric(r))
  BY <1>1, <1>2 DEF CallInv
<1>4. Record(q) # Metric(r) /\ (Metric(q) = Metric(r) => q = r)
  BY TasksDiffer
<1> DEFINE m == Metric(q)
           c == Record(q)
<1>5. m \in Tasks /\ c \in Tasks /\ Metric(r) \in Tasks
  BY TasksDiffer
<1>6. Placed(m)' /\ (OnItsWay(m)' => OnItsWay(m) \/ q = r)
  <2>1. Placed(m)' /\ (OnItsWay(m)' => OnItsWay(m) \/ m = Metric(r))
    BY <1>1, <1>3, <1>5, EnqueuePlaces
  <2> QED BY <1>4, <2>1
<1>7. Placed(c)' /\ (OnItsWay(c)' => OnItsWay(c))
  <2> HIDE DEF m
  <2>1. Placed(c)' /\ (OnItsWay(c)' => OnItsWay(c) \/ c = Metric(r))
    BY <1>1, <1>3, <1>4, <1>5, EnqueuePlaces
  <2> QED BY <1>4, <2>1
<1>8. CASE q = r
  <2>1. counted[q] = 0 /\ callPc'[q] = "done"
    BY <1>1, <1>2, <1>8 DEF CallInv
  <2> QED BY <1>1, <1>6, <1>7, <2>1 DEF CallInv
<1>9. CASE q # r
  BY <1>1, <1>2, <1>6, <1>7, <1>9 DEF CallInv
<1> QED BY <1>8, <1>9

\* The rows are counted anew: a call that has not ended has none.
LEMMA RestartCounts ==
  ASSUME PersistTypeOK, CallsInv, Restart
  PROVE  CallsInv'
<1> SUFFICES ASSUME NEW r \in Requests PROVE CallInv(r)'
  BY DEF CallsInv
<1>1. CallInv(r) /\ counted[r] \in Nat
  BY DEF CallsInv, PersistTypeOK
<1>2. \A x : ~Has(<< >>, x) /\ Once(<< >>, x)
  BY EmptyHolds
<1>3. /\ persistCh' = << >> /\ overflow' = {} /\ rpcRequests' = rpcRequests
      /\ \A w \in Workers : batch'[w] = << >>
      /\ callPc'[r] = IF callPc[r] = "running" THEN "running" ELSE "done"
  BY DEF Restart, Idle
<1>4. \A x : Placed(x)' /\ ~OnItsWay(x)'
  BY <1>2, <1>3 DEF Placed, OnItsWay
<1>5. \/ counted'[r] = counted[r]
      \/ counted'[r] = IF r \in Range(rpcRequests) THEN 1 ELSE 0
  BY DEF Restart, Rebuild
<1>6. counted'[r] <= 1 /\ (callPc[r] = "running" => counted'[r] = 0)
  BY <1>1, <1>5 DEF CallInv
<1>7. callPc'[r] = "running" => callPc[r] = "running" /\ r \notin Range(rpcRequests')
  BY <1>1, <1>3 DEF CallInv
<1>8. callPc'[r] # "done" => counted'[r] = 0
  BY <1>3, <1>6
<1> QED BY <1>4, <1>6, <1>7, <1>8 DEF CallInv

\* Nothing moves.
LEMMA StayingKeeps ==
  ASSUME UNCHANGED channelVars, batch' = batch
  PROVE  KeepsWay
BY DEF channelVars, KeepsWay, Placed, OnItsWay

LEMMA BatchOverKeeps ==
  ASSUME PersistTypeOK, NEW w \in Workers, UNCHANGED channelVars,
         BatchFails(w) \/ BatchEnds(w)
  PROVE  /\ KeepsWay
         /\ BatchEnds(w) => \A x \in Tasks :
              Placed(x) /\ Has(batch[w], x) => ~OnItsWay(x)'
<1>1. ASSUME BatchEnds(w)
      PROVE  /\ KeepsWay
             /\ \A x \in Tasks : Placed(x) /\ Has(batch[w], x) => ~OnItsWay(x)'
  <2> DEFINE b == << >>
  <2>1. \A x : ~Has(b, x) /\ Once(b, x)
    BY EmptyHolds
  <2>2. batch' = [batch EXCEPT ![w] = b]
    BY <1>1 DEF BatchEnds
  <2> HIDE DEF b
  <2> QED BY <2>1, <2>2, DroppingKeeps
<1>2. CASE ~BatchEnds(w)
  <2>1. batch' = batch
    BY <1>2 DEF BatchFails
  <2> QED BY <1>2, <2>1, StayingKeeps
<1> QED BY <1>1, <1>2

LEMMA OverflowRunsCounts ==
  ASSUME PersistTypeOK, PersistTypeOK', CallsInv,
         NEW task \in Tasks, OverflowRuns(task)
  PROVE  CallsInv'
<1>1. /\ task \in overflow /\ overflow' = overflow \ {task}
      /\ persistCh' = persistCh /\ batch' = batch /\ callPc' = callPc
      /\ RunPersistTask(task)
  BY DEF OverflowRuns, workerVars
<1>2. KeepsWay
  <2>1. ASSUME NEW x \in Tasks, Placed(x)
        PROVE  Placed(x)' /\ (OnItsWay(x)' => OnItsWay(x))
    BY <1>1, <2>1 DEF Placed, OnItsWay
  <2> QED BY <2>1 DEF KeepsWay
<1>3. ASSUME NEW x, Placed(x), x = task PROVE OnItsWay(x) /\ ~OnItsWay(x)'
  BY <1>1, <1>3 DEF Placed, OnItsWay
<1>4. \A r \in Requests :
        /\ task # Metric(r) => counted'[r] = counted[r]
        /\ counted'[r] <= counted[r] + 1
        /\ r \in Range(rpcRequests') => r \in Range(rpcRequests) \/ task = Record(r)
  BY <1>1, TaskWrites DEF PersistTypeOK
<1>5. ASSUME NEW r \in Requests
      PROVE  /\ \/ counted'[r] = counted[r]
                \/ /\ OnItsWay(Metric(r)) /\ ~OnItsWay(Metric(r))'
                   /\ counted'[r] <= counted[r] + 1
             /\ r \in Range(rpcRequests') =>
                  r \in Range(rpcRequests) \/ OnItsWay(Record(r))
  <2>1. Placed(Metric(r)) /\ Placed(Record(r))
    BY DEF CallsInv, CallInv
  <2> DEFINE m == Metric(r)
             c == Record(r)
  <2>2. /\ task = m => OnItsWay(m) /\ ~OnItsWay(m)'
        /\ task = c => OnItsWay(c)
    <3> HIDE DEF m, c
    <3> QED BY <1>3, <2>1 DEF m, c
  <2> QED BY <1>4, <2>2
<1> QED BY <1>1, <1>2, <1>5, WritingKeeps

LEMMA WorkerCounts ==
  ASSUME PersistTypeOK, PersistTypeOK', CallsInv,
         NEW w \in Workers, WorkerStep(w)
  PROVE  CallsInv'
<1>1. /\ batch[w] \in Seq(Tasks) /\ persistCh \in Seq(Tasks)
      /\ counted \in [Requests -> Nat] /\ rpcRequests \in Seq(Requests)
  BY DEF PersistTypeOK
<1>2. \A r \in Requests : /\ Placed(Metric(r)) /\ Placed(Record(r))
                          /\ Metric(r) \in Tasks /\ Record(r) \in Tasks
  BY TasksDiffer DEF CallsInv, CallInv
<1>3. \A x : Has(batch[w], x) => OnItsWay(x)
  BY DEF OnItsWay
<1>4. CASE Take(w)
  <2> DEFINE b == <<Head(persistCh)>>
  <2>1. /\ persistCh # << >> /\ batch' = [batch EXCEPT ![w] = b]
        /\ persistCh' = Tail(persistCh) /\ overflow' = overflow
        /\ callPc' = callPc /\ counted' = counted /\ rpcRequests' = rpcRequests
        /\ workerPc[w] = "take"
    BY <1>4 DEF Take, dbVars
  <2>2. Head(persistCh) \in Tasks
    BY <1>1, <2>1, TailHolds
  <2>3. \A x : (Has(b, x) <=> x = Head(persistCh)) /\ Once(b, x)
    BY <2>2, SingleHolds
  <2>4. \A x : ~Has(batch[w], x)
    <3>1. batch[w] = << >>
      BY <2>1 DEF PersistTypeOK
    <3> QED BY <3>1, EmptyHolds
  <2> HIDE DEF b
  <2>5. KeepsWay
    BY <2>1, <2>3, <2>4, TakingKeeps
  <2> QED BY <2>1, <2>5, WritingKeeps
<1>5. CASE Drain(w)
  <2>1. CASE Len(batch[w]) < BatchSize /\ persistCh # << >>
    <3> DEFINE b == Append(batch[w], Head(persistCh))
    <3>1. /\ batch' = [batch EXCEPT ![w] = b]
          /\ persistCh' = Tail(persistCh) /\ overflow' = overflow
          /\ callPc' = callPc /\ counted' = counted /\ rpcRequests' = rpcRequests
      BY <1>5, <2>1 DEF Drain, dbVars
    <3>2. Head(persistCh) \in Tasks
      BY <1>1, <2>1, TailHolds
    <3>3. \A x : /\ Has(b, x) <=> Has(batch[w], x) \/ x = Head(persistCh)
                 /\ Once(batch[w], x) /\ (x = Head(persistCh) => ~Has(batch[w], x))
                      => Once(b, x)
      BY <1>1, <3>2, AppendHolds
    <3> HIDE DEF b
    <3>4. KeepsWay
      BY <2>1, <3>1, <3>3, TakingKeeps
    <3> QED BY <3>1, <3>4, WritingKeeps
  <2>2. CASE ~(Len(batch[w]) < BatchSize /\ persistCh # << >>)
    <3>1. /\ UNCHANGED channelVars /\ batch' = batch
          /\ callPc' = callPc /\ counted' = counted /\ rpcRequests' = rpcRequests
      BY <1>5, <2>2 DEF Drain, dbVars, channelVars
    <3> QED BY <3>1, StayingKeeps, WritingKeeps
  <2> QED BY <2>1, <2>2
<1>6. CASE WriteRecords(w)
  <2>1. UNCHANGED channelVars /\ callPc' = callPc /\ counted' = counted
    BY <1>6 DEF WriteRecords
  <2>2. CASE rpcRequests' = WithRows(batch[w]) /\ batch' = batch
    <3>1. \A r \in Range(rpcRequests') :
            r \in Range(rpcRequests) \/ Has(batch[w], Record(r))
      BY <1>1, <2>2, RowsAreOfRecords DEF Has
    <3> QED BY <1>3, <2>1, <2>2, <3>1, StayingKeeps, WritingKeeps
  <2>3. CASE BatchFails(w) /\ rpcRequests' = rpcRequests
    BY <2>1, <2>3, BatchOverKeeps, WritingKeeps
  <2> QED BY <1>6, <2>2, <2>3 DEF WriteRecords
<1>7. CASE WriteMetrics(w)
  <2>1. UNCHANGED channelVars /\ callPc' = callPc /\ rpcRequests' = rpcRequests
    BY <1>7 DEF WriteMetrics
  <2>2. CASE counted' = CountedWith(batch[w]) /\ BatchEnds(w)
    <3>1. KeepsWay /\ \A x \in Tasks :
            Placed(x) /\ Has(batch[w], x) => ~OnItsWay(x)'
      BY <2>1, <2>2, BatchOverKeeps
    <3>2. ASSUME NEW r \in Requests
          PROVE  \/ counted'[r] = counted[r]
                 \/ /\ OnItsWay(Metric(r)) /\ ~OnItsWay(Metric(r))'
                    /\ counted'[r] <= counted[r] + 1
      <4>1. Once(batch[w], Metric(r))
        BY <1>2 DEF Placed
      <4>2. /\ ~Has(batch[w], Metric(r)) => counted'[r] = counted[r]
            /\ counted'[r] <= counted[r] + 1
        BY <1>1, <2>2, <4>1, BatchCounted
      <4> DEFINE m == Metric(r)
      <4>3. Has(batch[w], m) => OnItsWay(m) /\ ~OnItsWay(m)'
        <5>1. Placed(m) /\ m \in Tasks
          BY <1>2
        <5> HIDE DEF m
        <5> QED BY <1>3, <3>1, <5>1
      <4> QED BY <4>2, <4>3
    <3> QED BY <2>1, <3>1, <3>2, WritingKeeps
  <2>3. CASE BatchFails(w) /\ counted' = counted
    BY <2>1, <2>3, BatchOverKeeps, WritingKeeps
  <2> QED BY <1>7, <2>2, <2>3 DEF WriteMetrics
<1>8. CASE Fallback(w)
  <2> DEFINE b == Tail(batch[w])
             task == Head(batch[w])
  <2>1. /\ UNCHANGED channelVars /\ callPc' = callPc /\ RunPersistTask(task)
        /\ batch' = [batch EXCEPT ![w] = b] /\ batch[w] # << >>
    BY <1>8 DEF Fallback, PersistTypeOK
  <2>2. /\ task \in Tasks
        /\ \A x : /\ Has(batch[w], x) <=> x = task \/ Has(b, x)
                  /\ Once(batch[w], x) => Once(b, x) /\ (x = task => ~Has(b, x))
    BY <1>1, <2>1, TailHolds
  <2> HIDE DEF b, task
  <2>3. /\ KeepsWay
        /\ \A x \in Tasks : Placed(x) /\ Has(batch[w], x) /\ ~Has(b, x)
                              => ~OnItsWay(x)'
    BY <2>1, <2>2, DroppingKeeps
  <2>4. \A r \in Requests :
          /\ task # Metric(r) => counted'[r] = counted[r]
          /\ counted'[r] <= counted[r] + 1
          /\ r \in Range(rpcRequests') => r \in Range(rpcRequests) \/ task = Record(r)
    BY <1>1, <2>1, <2>2, TaskWrites
  <2>5. ASSUME NEW r \in Requests
        PROVE  /\ \/ counted'[r] = counted[r]
                  \/ /\ OnItsWay(Metric(r)) /\ ~OnItsWay(Metric(r))'
                     /\ counted'[r] <= counted[r] + 1
               /\ r \in Range(rpcRequests') =>
                    r \in Range(rpcRequests) \/ OnItsWay(Record(r))
    <3> DEFINE m == Metric(r)
               c == Record(r)
    <3>1. Placed(m) /\ m \in Tasks
      BY <1>2
    <3>2. task = m => OnItsWay(m) /\ ~OnItsWay(m)'
      <4> HIDE DEF m
      <4>1. Once(batch[w], m)
        BY <3>1 DEF Placed
      <4> QED BY <1>3, <2>2, <2>3, <3>1, <4>1
    <3>3. task = c => OnItsWay(c)
      BY <1>3, <2>2
    <3> QED BY <2>4, <3>2, <3>3
  <2> QED BY <2>1, <2>3, <2>5, WritingKeeps
<1> QED BY <1>4, <1>5, <1>6, <1>7, <1>8 DEF WorkerStep

LEMMA StepCounts ==
  ASSUME PersistTypeOK, PersistTypeOK', CallsInv, [Next]_vars
  PROVE  CallsInv'
<1>1. ASSUME NEW task \in Tasks, OverflowSends(task) PROVE CallsInv'
  <2>1. UNCHANGED <<callPc, counted, rpcRequests>>
    BY <1>1 DEF OverflowSends, dbVars
  <2> QED BY <1>1, <2>1, OverflowSendsKeeps, WritingKeeps
<1>2. ASSUME Trim PROVE CallsInv'
  <2>1. /\ UNCHANGED channelVars /\ batch' = batch
        /\ callPc' = callPc /\ counted' = counted
    BY <1>2 DEF Trim, workerVars
  <2>2. Range(rpcRequests') \subseteq Range(rpcRequests)
    BY <1>2, TrimKeepsRows DEF PersistTypeOK
  <2> QED BY <2>1, <2>2, StayingKeeps, WritingKeeps
<1>3. ASSUME UNCHANGED vars PROVE CallsInv'
  <2>1. /\ UNCHANGED channelVars /\ batch' = batch
        /\ UNCHANGED <<callPc, counted, rpcRequests>>
    BY <1>3 DEF vars, workerVars, dbVars
  <2> QED BY <2>1, StayingKeeps, WritingKeeps
<1> QED BY <1>1, <1>2, <1>3, EnqueueRecordCounts, EnqueueMetricCounts,
           RestartCounts, OverflowRunsCounts, WorkerCounts DEF Next, OverflowStep

\* No call is counted twice, however batches fail and are repeated, whoever
\* writes a task, and however often the server stops between two steps.
THEOREM CountedAtMostOnce == Spec => []CountedOnce
<1> DEFINE Inv == PersistTypeOK /\ CallsInv
<1>1. Init => Inv
  BY InitTyped, InitCounts
<1>2. Inv /\ [Next]_vars => Inv'
  BY StepTyped, StepCounts
<1>3. Inv => CountedOnce
  BY DEF CallsInv, CallInv, CountedOnce
<1> QED BY <1>1, <1>2, <1>3, PTL DEF Spec
=============================================================================
