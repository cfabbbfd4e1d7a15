----------------------------- MODULE PanelProofs -----------------------------
(***************************************************************************)
(* What is proved of the panel, for any hooks, queries, groups, filters    *)
(* and pages of records and any number of requests in flight.              *)
(*                                                                         *)
(* First the hook that pages load their data with, under the most general  *)
(* page.  The hooks are independent, so the argument is about one: Sound   *)
(* relates its state v to its requests cs.  It says more than the          *)
(* properties: what a live request asks, and when its answer was read,     *)
(* which is what the page will show once it is delivered.                  *)
(*                                                                         *)
(* Then the panel.  Each of its steps is a step of every hook (HooksMove), *)
(* so Sound holds on every page; it is what tells the pages that the       *)
(* answer that arrives is the one they wait for.  PageInv says the rest:   *)
(* what each page keeps beside its hooks, and how the two fit.             *)
(***************************************************************************)
EXTENDS Panel, TLAPS, FiniteSetTheorems

-----------------------------------------------------------------------------
(* The hook *)


Live(cs, i) == cs[i] # None /\ cs[i].alive

\* c asks what v wants to know, and if it was answered, then after v asked.
AsksFor(c, v, n) ==
  /\ c.query = v.query /\ c.query \in Queries
  /\ c.asked = v.asked
  /\ c.status = "ok" => c.asked <= c.at /\ c.at <= n

Typed(v, cs) == v \in FetchState /\ cs \in [Slots -> Call \cup {None}]

OneLive(v, cs, n) ==
  /\ v.loading <=> \E i \in Slots : Live(cs, i)
  /\ \A i, j \in Slots : Live(cs, i) /\ Live(cs, j) => i = j
  /\ \A i \in Slots : Live(cs, i) => AsksFor(cs[i], v, n)

Shows(v, n) ==
  v.mounted /\ ~v.loading /\ v.data # None =>
    /\ v.data.query = v.query
    /\ v.asked <= v.data.at /\ v.data.at <= n

Sound(v, cs, n) ==
  /\ Typed(v, cs) /\ OneLive(v, cs, n) /\ Shows(v, n)
  /\ v.asked <= n
  /\ v.loading => v.mounted

IInv == now \in Nat /\ \A h \in Hooks : Sound(hook[h], calls[h], now)

\* hook and calls are functions on Hooks; Sound says the rest of their types.
Functions ==
  hook = [h \in Hooks |-> hook[h]] /\ calls = [h \in Hooks |-> calls[h]]

-----------------------------------------------------------------------------
(* Requests *)

\* A free slot is found when there is room.
LEMMA FreeSlotIsFree ==
  ASSUME NEW cs, HasRoom(cs)
  PROVE  FreeSlot(cs) \in Slots /\ cs[FreeSlot(cs)] = None
BY DEF HasRoom, FreeSlot

\* The cleanup of an effect leaves no live request, and takes no slot.
LEMMA NoneLiveAfterOrphans ==
  ASSUME NEW cs \in [Slots -> Call \cup {None}]
  PROVE  /\ Orphans(cs) \in [Slots -> Call \cup {None}]
         /\ \A i \in Slots : ~Live(Orphans(cs), i)
         /\ HasRoom(cs) => HasRoom(Orphans(cs))
<1>1. ASSUME NEW i \in Slots, cs[i] # None
      PROVE  [cs[i] EXCEPT !.alive = FALSE] \in Call
  BY <1>1 DEF Call
<1>2. Orphans(cs) \in [Slots -> Call \cup {None}]
  BY <1>1 DEF Orphans
<1>3. \A i \in Slots : ~Live(Orphans(cs), i)
  BY DEF Orphans, Live, Call
<1>4. HasRoom(cs) => HasRoom(Orphans(cs))
  BY DEF HasRoom, Orphans
<1> QED BY <1>2, <1>3, <1>4

\* Nor does leaving the page.
LEMMA NoneLiveAfterStrays ==
  ASSUME NEW cs \in [Slots -> Call \cup {None}]
  PROVE  /\ Strays(cs) \in [Slots -> Call \cup {None}]
         /\ \A i \in Slots : ~Live(Strays(cs), i)
         /\ HasRoom(cs) => HasRoom(Strays(cs))
<1> DEFINE Stray(c) ==
      [c EXCEPT !.alive = FALSE, !.asked = 0, !.at = 0,
                !.query = IF c.query \in Public THEN c.query ELSE None]
<1>1. ASSUME NEW c \in Call PROVE Stray(c) \in Call /\ ~Stray(c).alive
  BY DEF Call
<1>2. Strays(cs) = [i \in Slots |-> IF cs[i] = None THEN None ELSE Stray(cs[i])]
  BY DEF Strays
<1> HIDE DEF Stray
<1>3. Strays(cs) \in [Slots -> Call \cup {None}]
  BY <1>1, <1>2
<1>4. \A i \in Slots : ~Live(Strays(cs), i)
  BY <1>1, <1>2 DEF Live
<1>5. HasRoom(cs) => HasRoom(Strays(cs))
  BY <1>2 DEF HasRoom
<1> QED BY <1>3, <1>4, <1>5

-----------------------------------------------------------------------------
(* One step of one hook *)

\* The effect starts with no live request: afterwards its own is the only one.
LEMMA EffectStarts ==
  ASSUME now \in Nat,
         NEW v \in FetchState, NEW cs \in [Slots -> Call \cup {None}],
         \A i \in Slots : ~Live(cs, i), HasRoom(cs),
         NEW q \in Queries, NEW good \in BOOLEAN
  PROVE  Sound(Loading(v, q), Sent(cs, Request(q, good)), now)
<1> DEFINE r == Request(q, good)
           w == Loading(v, q)
           ds == Sent(cs, r)
           k == FreeSlot(cs)
<1>1. r \in Call /\ r.alive /\ AsksFor(r, w, now)
  BY DEF Request, Loading, Call, Statuses, AsksFor
<1>2. k \in Slots
  BY FreeSlotIsFree
<1>3. ds \in [Slots -> Call \cup {None}] /\ ds[k] = r
      /\ \A i \in Slots : i # k => ds[i] = cs[i]
  BY <1>1, <1>2 DEF Sent
<1>4. \A i \in Slots : Live(ds, i) <=> i = k
  BY <1>1, <1>2, <1>3, NoneAssumption DEF Live
<1>5. w \in FetchState /\ w.loading /\ w.mounted /\ w.asked = now
  BY DEF Loading, FetchState
<1> HIDE DEF r, w, ds, k
<1>6. Typed(w, ds)
  BY <1>3, <1>5 DEF Typed
<1>7. OneLive(w, ds, now)
  BY <1>1, <1>2, <1>3, <1>4, <1>5 DEF OneLive
<1>8. Shows(w, now) /\ w.asked <= now /\ (w.loading => w.mounted)
  BY <1>5 DEF Shows
<1> QED BY <1>6, <1>7, <1>8 DEF Sound, r, w, ds

\* A hook that is gone shows nothing and waits for nothing.
LEMMA BlankIsSound ==
  ASSUME now \in Nat, NEW cs \in [Slots -> Call \cup {None}],
         \A i \in Slots : ~Live(cs, i)
  PROVE  Blank \in FetchState /\ Sound(Blank, cs, now)
BY DEF Blank, FetchState, Sound, Typed, OneLive, Shows

\* Requests that change neither in being live nor in what they will bring.
LEMMA SameLiveRequests ==
  ASSUME NEW n \in Nat, NEW v, NEW cs, NEW ds, Sound(v, cs, n),
         ds \in [Slots -> Call \cup {None}],
         \A i \in Slots : Live(ds, i) <=> Live(cs, i),
         \A i \in Slots : Live(ds, i) => AsksFor(ds[i], v, n)
  PROVE  Sound(v, ds, n)
BY DEF Sound, Typed, OneLive

LEMMA LapseIsSound ==
  ASSUME now \in Nat, NEW h \in Hooks, Sound(hook[h], calls[h], now), Lapse(h)
  PROVE  Sound(hook'[h], calls'[h], now)
<1> DEFINE v == hook[h]
           cs == calls[h]
           ds == Lapsed(cs)
           Still(c) == [c EXCEPT !.good = FALSE]
<1>1. Sound(v, cs, now) /\ cs \in [Slots -> Call \cup {None}]
  BY DEF Sound, Typed
<1>2. ASSUME NEW c \in Call
      PROVE  /\ Still(c) \in Call
             /\ Still(c).alive = c.alive
             /\ AsksFor(c, v, now) => AsksFor(Still(c), v, now)
  BY DEF Call, AsksFor
<1>3. ds = [i \in Slots |-> IF cs[i] = None THEN None ELSE Still(cs[i])]
  BY DEF Lapsed
<1>4. Sound(v, ds, now)
  <2> HIDE DEF v, cs, ds, Still
  <2>1. ds \in [Slots -> Call \cup {None}]
    BY <1>1, <1>2, <1>3
  <2>2. \A i \in Slots : Live(ds, i) <=> Live(cs, i)
    BY <1>1, <1>2, <1>3, NoneAssumption DEF Live
  <2>3. \A i \in Slots : Live(ds, i) => AsksFor(ds[i], v, now)
    <3> SUFFICES ASSUME NEW i \in Slots, Live(ds, i)
                 PROVE  AsksFor(ds[i], v, now)
      OBVIOUS
    <3>1. Live(cs, i) /\ AsksFor(cs[i], v, now)
      BY <1>1, <2>2 DEF Sound, OneLive
    <3>2. cs[i] \in Call /\ ds[i] = Still(cs[i])
      BY <1>1, <1>3, <3>1 DEF Live
    <3> QED BY <1>2, <3>1, <3>2
  <2> QED BY <1>1, <2>1, <2>2, <2>3, SameLiveRequests
<1> QED BY <1>4 DEF Lapse

LEMMA LoadIsSound ==
  ASSUME now \in Nat, NEW h \in Hooks, Sound(hook[h], calls[h], now), Load(h)
  PROVE  Sound(hook'[h], calls'[h], now)
<1> DEFINE q == hook'[h].query
           cs == calls[h]
           Starts(v, ds) ==
             /\ hook'[h] = Loading(v, q)
             /\ \E good \in BOOLEAN : calls'[h] = Sent(ds, Request(q, good))
<1>1. q \in Queries /\ HasRoom(cs) /\ cs \in [Slots -> Call \cup {None}]
      /\ hook[h] \in FetchState
  BY DEF Load, Sound, Typed
<1>2. Starts(hook[h], Orphans(cs)) \/ Starts(Blank, Strays(cs))
  BY DEF Load
<1>3. CASE Starts(hook[h], Orphans(cs))
  <2> PICK good \in BOOLEAN : calls'[h] = Sent(Orphans(cs), Request(q, good))
    BY <1>3
  <2> HIDE DEF q, cs
  <2>1. Sound(Loading(hook[h], q), Sent(Orphans(cs), Request(q, good)), now)
    BY <1>1, NoneLiveAfterOrphans, EffectStarts
  <2> QED BY <2>1, <1>3
<1>4. CASE Starts(Blank, Strays(cs))
  <2> PICK good \in BOOLEAN : calls'[h] = Sent(Strays(cs), Request(q, good))
    BY <1>4
  <2> HIDE DEF q, cs
  <2>1. Sound(Loading(Blank, q), Sent(Strays(cs), Request(q, good)), now)
    BY <1>1, NoneLiveAfterStrays, BlankIsSound, EffectStarts
  <2> QED BY <2>1, <1>4
<1> QED BY <1>2, <1>3, <1>4

LEMMA LeaveIsSound ==
  ASSUME now \in Nat, NEW h \in Hooks, Sound(hook[h], calls[h], now), Leave(h)
  PROVE  Sound(hook'[h], calls'[h], now)
BY NoneLiveAfterStrays, BlankIsSound DEF Leave, Sound, Typed

LEMMA ServeIsSound ==
  ASSUME now \in Nat, NEW h \in Hooks, Sound(hook[h], calls[h], now), Serve(h)
  PROVE  Sound(hook'[h], calls'[h], now)
<1> DEFINE v == hook[h]
           cs == calls[h]
<1>1. PICK k \in Slots, st \in Statuses \ {"pending"} :
        /\ cs[k] # None
        /\ calls'[h] = [cs EXCEPT ![k] = Answered(cs[k], st)]
        /\ hook'[h] = v
  BY DEF Serve
<1> DEFINE c == Answered(cs[k], st)
           ds == [cs EXCEPT ![k] = c]
<1>2. cs \in [Slots -> Call \cup {None}] /\ cs[k] \in Call /\ v \in FetchState
  BY <1>1 DEF Sound, Typed
<1>3. c \in Call /\ c.alive = cs[k].alive
  BY <1>2 DEF Answered, Call
<1>4. AsksFor(cs[k], v, now) => AsksFor(c, v, now)
  <2>1. c.query = cs[k].query /\ c.asked = cs[k].asked /\ c.status = st
        /\ (st = "ok" => c.at = now)
    BY <1>2 DEF Answered, Call
  <2>2. v.asked <= now
    BY DEF Sound
  <2> HIDE DEF c, cs, v
  <2> QED BY <2>1, <2>2 DEF AsksFor
<1> HIDE DEF c
<1>5. ds \in [Slots -> Call \cup {None}]
  BY <1>2, <1>3
<1>6. \A i \in Slots : Live(ds, i) <=> Live(cs, i)
  BY <1>1, <1>2, <1>3, NoneAssumption DEF Live
<1>7. \A i \in Slots : Live(ds, i) => AsksFor(ds[i], v, now)
  <2>1. \A i \in Slots : Live(cs, i) => AsksFor(cs[i], v, now)
    BY DEF Sound, OneLive
  <2>2. \A i \in Slots : ds[i] = IF i = k THEN c ELSE cs[i]
    BY <1>2
  <2> HIDE DEF ds, cs, v
  <2> QED BY <2>1, <2>2, <1>4, <1>6
<1>8. Sound(v, ds, now)
  <2>1. Sound(v, cs, now)
    OBVIOUS
  <2> HIDE DEF v, cs, ds
  <2> QED BY <2>1, <1>5, <1>6, <1>7, SameLiveRequests
<1> QED BY <1>1, <1>8 DEF c

\* The answer to an orphan changes nothing; the answer to the live request is
\* the answer to the question.
LEMMA DeliverIsSound ==
  ASSUME now \in Nat, NEW h \in Hooks, Sound(hook[h], calls[h], now), Deliver(h)
  PROVE  Sound(hook'[h], calls'[h], now)
<1> DEFINE v == hook[h]
           cs == calls[h]
<1>1. PICK k \in Slots :
        /\ cs[k] # None
        /\ hook'[h] = AfterAnswer(v, cs[k])
        /\ calls'[h] = [cs EXCEPT ![k] = None]
  BY DEF Deliver
<1> DEFINE ds == [cs EXCEPT ![k] = None]
           w == AfterAnswer(v, cs[k])
<1>2. Sound(v, cs, now) /\ cs \in [Slots -> Call \cup {None}] /\ v \in FetchState
      /\ cs[k] \in Call
  BY <1>1 DEF Sound, Typed
<1>3. ds \in [Slots -> Call \cup {None}]
      /\ \A i \in Slots : ds[i] = IF i = k THEN None ELSE cs[i]
  BY <1>2
<1> HIDE DEF v, cs, ds
<1>4. CASE ~cs[k].alive
  <2>1. w = v
    BY <1>4 DEF AfterAnswer
  <2>2. \A i \in Slots : Live(ds, i) <=> Live(cs, i)
    BY <1>3, <1>4 DEF Live
  <2>3. \A i \in Slots : Live(ds, i) => AsksFor(ds[i], v, now)
    BY <1>2, <1>3, <2>2 DEF Sound, OneLive, Live
  <2>4. Sound(v, ds, now)
    BY <1>2, <1>3, <2>2, <2>3, SameLiveRequests
  <2> QED BY <1>1, <2>1, <2>4 DEF ds
<1>5. CASE cs[k].alive
  <2>1. Live(cs, k)
    BY <1>1, <1>5 DEF Live
  <2>2. \A i \in Slots : ~Live(ds, i)
    BY <1>2, <1>3, <2>1 DEF Sound, OneLive, Live
  <2>3. AsksFor(cs[k], v, now) /\ v.loading /\ v.mounted /\ v.asked <= now
    BY <1>2, <2>1 DEF Sound, OneLive
  <2>4. cs[k].status = "ok" => DataOf(cs[k]) \in Data
    BY <1>2, <2>3 DEF DataOf, Data, AsksFor, Call
  <2>5. /\ w \in FetchState /\ ~w.loading /\ w.mounted = v.mounted
        /\ w.asked = v.asked /\ w.query = v.query
        /\ w.data = IF cs[k].status = "ok" THEN DataOf(cs[k]) ELSE None
    BY <1>2, <1>5, <2>4 DEF AfterAnswer, FetchState
  <2>6. Shows(w, now)
    BY <2>3, <2>5 DEF Shows, DataOf, AsksFor
  <2>7. Sound(w, ds, now)
    <3> HIDE DEF w
    <3> QED BY <1>3, <2>2, <2>3, <2>5, <2>6 DEF Sound, Typed, OneLive
  <2> QED BY <1>1, <2>7 DEF ds
<1> QED BY <1>4, <1>5

\* Every step of a hook keeps it sound.
LEMMA HookStepIsSound ==
  ASSUME now \in Nat, NEW h \in Hooks, Sound(hook[h], calls[h], now), HookStep(h)
  PROVE  Sound(hook'[h], calls'[h], now)
<1>1. CASE hook'[h] = hook[h] /\ calls'[h] = calls[h]
  BY <1>1
<1>2. CASE Lapse(h)
  BY <1>2, LapseIsSound
<1>3. CASE Load(h)
  BY <1>3, LoadIsSound
<1>4. CASE Leave(h)
  BY <1>4, LeaveIsSound
<1>5. CASE Serve(h)
  BY <1>5, ServeIsSound
<1>6. CASE Deliver(h)
  BY <1>6, DeliverIsSound
<1> QED BY <1>1, <1>2, <1>3, <1>4, <1>5, <1>6 DEF HookStep

\* So does a change of the data on the server.
LEMMA SoundLater ==
  ASSUME NEW n \in Nat, NEW m \in {n, n + 1}, NEW v, NEW cs, Sound(v, cs, n)
  PROVE  Sound(v, cs, m)
<1>1. Typed(v, cs) /\ v.asked \in Nat
  BY DEF Sound, Typed, FetchState
<1>2. \A i \in Slots : Live(cs, i) => AsksFor(cs[i], v, m)
  <2> SUFFICES ASSUME NEW i \in Slots, Live(cs, i)
               PROVE  AsksFor(cs[i], v, m)
    OBVIOUS
  <2>1. AsksFor(cs[i], v, n)
    BY DEF Sound, OneLive
  <2>2. cs[i].at \in Nat
    BY <1>1 DEF Typed, Live, Call
  <2> QED BY <2>1, <2>2 DEF AsksFor
<1>3. Shows(v, m)
  <2> SUFFICES ASSUME v.mounted, ~v.loading, v.data # None
               PROVE  /\ v.data.query = v.query
                      /\ v.asked <= v.data.at /\ v.data.at <= m
    BY DEF Shows
  <2>1. v.data.query = v.query /\ v.asked <= v.data.at /\ v.data.at <= n
    BY DEF Sound, Shows
  <2>2. v.data.at \in Nat
    BY <1>1 DEF Typed, FetchState, Data
  <2> QED BY <2>1, <2>2
<1>4. v.asked <= m
  BY <1>1 DEF Sound
<1> QED BY <1>1, <1>2, <1>3, <1>4 DEF Sound, OneLive

-----------------------------------------------------------------------------
(* The invariant and what follows from it *)

LEMMA InitSound == FetchInit => IInv /\ Functions
<1> SUFFICES ASSUME FetchInit PROVE IInv /\ Functions
  OBVIOUS
<1>1. now \in Nat /\ Functions
  BY DEF FetchInit, Functions
<1>2. ASSUME NEW h \in Hooks PROVE Sound(hook[h], calls[h], now)
  <2>1. hook[h] = Blank /\ calls[h] \in [Slots -> Call \cup {None}]
        /\ \A i \in Slots : ~Live(calls[h], i)
    BY DEF FetchInit, Live
  <2> QED BY <1>1, <2>1, BlankIsSound
<1> QED BY <1>1, <1>2 DEF IInv

LEMMA StepSound == IInv /\ Functions /\ [FetchNext]_fetchVars => IInv' /\ Functions'
<1> SUFFICES ASSUME IInv, Functions, [FetchNext]_fetchVars
             PROVE  IInv' /\ Functions'
  OBVIOUS
<1>1. CASE FetchNext
  <2>1. now \in Nat /\ now' \in {now, now + 1} /\ now' \in Nat
    BY <1>1 DEF FetchNext, IInv
  <2>2. Functions'
    BY <1>1 DEF FetchNext, Functions
  <2>3. ASSUME NEW h \in Hooks PROVE Sound(hook'[h], calls'[h], now')
    <3>1. Sound(hook[h], calls[h], now) /\ HookStep(h)
      BY <1>1 DEF FetchNext, IInv
    <3>2. Sound(hook'[h], calls'[h], now)
      BY <2>1, <3>1, HookStepIsSound
    <3> QED BY <2>1, <3>2, SoundLater
  <2>4. \A h \in Hooks : Sound(hook[h], calls[h], now)'
    BY <2>3 DEF Sound, Typed, OneLive, Shows, Live, AsksFor
  <2> QED BY <2>1, <2>2, <2>4 DEF IInv
<1>2. CASE UNCHANGED fetchVars
  BY <1>2 DEF fetchVars, IInv, Functions, Sound, Typed, OneLive, Shows, Live, AsksFor
<1> QED BY <1>1, <1>2

LEMMA AlwaysSound == FetchSpec => [](IInv /\ Functions)
BY InitSound, StepSound, PTL DEF FetchSpec

\* The hooks and their requests are always well formed.
THEOREM FetchTypeCorrect == FetchSpec => []FetchTypeOK
<1>1. IInv /\ Functions => FetchTypeOK
  BY DEF IInv, Functions, Sound, Typed, FetchTypeOK
<1> QED BY <1>1, AlwaysSound, PTL

\* A hook waits for exactly one answer while it shows the spinner, for the one
\* to what the page wants now, and for none otherwise.
THEOREM LiveCallIsUnique == FetchSpec => []OneLiveCall
<1>1. IInv /\ Functions => OneLiveCall
  BY DEF IInv, Sound, OneLive, OneLiveCall, Live, Alive, AsksFor
<1> QED BY <1>1, AlwaysSound, PTL

\* No answer to an earlier question is ever shown, whatever the order in which
\* requests are answered and answers arrive.
THEOREM NothingStaleIsShown == FetchSpec => []ShownAnswersQuestion
<1>1. IInv /\ Functions => ShownAnswersQuestion
  BY DEF IInv, Sound, Shows, ShownAnswersQuestion
<1> QED BY <1>1, AlwaysSound, PTL

-----------------------------------------------------------------------------
(* Refinement *)

\* A step of the hook is a step of the view it implements.
LEMMA HookStepMoves ==
  ASSUME now \in Nat, NEW h \in Hooks, Sound(hook[h], calls[h], now), HookStep(h)
  PROVE  Latest!Move(h)
<1>1. CASE hook'[h] = hook[h]
  BY <1>1 DEF Latest!Move
<1>2. CASE Load(h)
  <2>1. hook'[h] = Loading(hook[h], hook'[h].query)
        \/ hook'[h] = Loading(Blank, hook'[h].query)
    BY <1>2 DEF Load
  <2>2. Latest!Asked(hook[h], hook'[h])
    BY <2>1 DEF Loading, Blank, Latest!Asked
  <2> QED BY <2>2 DEF Latest!Move
<1>3. CASE Leave(h)
  BY <1>3 DEF Leave, Blank, Latest!Move, Latest!Gone, Latest!Blank
<1>4. CASE Deliver(h)
  <2> DEFINE v == hook[h]
  <2>1. PICK k \in Slots : /\ calls[h][k] # None
                           /\ hook'[h] = AfterAnswer(v, calls[h][k])
    BY <1>4 DEF Deliver
  <2> DEFINE c == calls[h][k]
  <2>2. CASE ~c.alive
    BY <1>1, <2>1, <2>2 DEF AfterAnswer
  <2>3. CASE c.alive
    <3>1. AsksFor(c, v, now) /\ v.loading /\ v.mounted /\ v \in FetchState
      BY <2>1, <2>3 DEF Sound, OneLive, Live, Typed
    <3>2. hook'[h] = [v EXCEPT !.loading = FALSE,
                        !.data = IF c.status = "ok" THEN DataOf(c) ELSE None]
      BY <2>1, <2>3 DEF AfterAnswer
    <3>3. hook'[h].data = IF c.status = "ok" THEN DataOf(c) ELSE None
      BY <3>1, <3>2 DEF FetchState
    <3>4. hook'[h].data = None \/ Latest!Answers(hook'[h].data, v)
      BY <3>1, <3>3 DEF DataOf, AsksFor, Latest!Answers
    <3>5. Latest!Settled(v, hook'[h])
      BY <3>1, <3>2, <3>3, <3>4 DEF Latest!Settled
    <3> QED BY <3>5 DEF Latest!Move
  <2> QED BY <2>2, <2>3
<1>5. CASE Lapse(h) \/ Serve(h)
  BY <1>1, <1>5 DEF Lapse, Serve
<1> QED BY <1>1, <1>2, <1>3, <1>4, <1>5 DEF HookStep

\* The hook with its requests implements a view that knows of none: it goes
\* from a question to an answer to that question, read after it was asked.
THEOREM HookImplementsView == FetchSpec => LatestSpec
<1>1. FetchInit => Latest!Init
  BY DEF FetchInit, Latest!Init, Blank, Latest!Blank
<1>2. IInv /\ [FetchNext]_fetchVars => [Latest!Next]_<<now, hook>>
  <2> SUFFICES ASSUME IInv, [FetchNext]_fetchVars
               PROVE  [Latest!Next]_<<now, hook>>
    OBVIOUS
  <2>1. CASE FetchNext
    <3>1. \A h \in Hooks : Latest!Move(h)
      BY <2>1, HookStepMoves DEF FetchNext, IInv
    <3> QED BY <2>1, <3>1 DEF FetchNext, Latest!Next
  <2>2. CASE UNCHANGED fetchVars
    BY <2>2 DEF fetchVars
  <2> QED BY <2>1, <2>2
<1> QED BY <1>1, <1>2, AlwaysSound, PTL DEF FetchSpec, LatestSpec, Latest!Spec

-----------------------------------------------------------------------------
(* The pages: what they keep beside their hooks *)

\* Each page has a form of its own.
FormTyped(p, f) ==
  /\ p = "login" => f \in [busy : BOOLEAN]
  /\ p = "overview" => f \in [chart : 0..MaxNow \cup {None}]
  /\ p = "clients" => f \in [group : AllGroups \cup {None}]
  /\ p = "requests" =>
       f \in [page : Numbers, filter : Filters, turned : 0..MaxNow, blind : BOOLEAN]
  /\ p = "invoke" =>
       f \in [group : AllGroups \cup {None}, action : AllGroups \cup {None},
              early : BOOLEAN, running : BOOLEAN, press : 0..MaxPress, result : 0..MaxPress \cup {None}]
  /\ p \in RowPages =>
       f \in [dialog : {None, "confirm", "create", "edit"}, list : Filters,
              known : 0..MaxNow, missed : {{}}]

\* The tab, and that the data is one of those the server has answers for.
TabInv ==
  /\ token \in {"good", "bad", None} /\ cookie \in BOOLEAN
  /\ route \in Pages /\ hash \in Pages
  /\ now \in 0..MaxNow
  /\ FormTyped(route, form)

\* A request that a component waits for was sent from the page that is there.
Home(kind) ==
  CASE kind = "login" -> {"login"}
    [] kind = "poll" -> {"overview"}
    [] kind = "invoke" -> {"invoke"}
    [] OTHER -> RowPages
PostSound(c, p, n) ==
  /\ c \in PostType
  /\ c.page => p \in Home(c.kind)
  /\ c.at <= n
  /\ c.got \subseteq c.done /\ c.done \subseteq c.asked
  /\ c.kind \in Kinds /\ c.status \in {"pending", "ok"} => c.asked # c.got
  /\ c.kind \in Kinds /\ c.status = "ok" => NextPart(c) \in c.done
PostsInv ==
  /\ posts \in [Slots -> PostType \cup {None}]
  /\ \A i \in Slots : posts[i] # None => PostSound(posts[i], route, now)

FlightInv == InFlight(calls, posts) <= MaxFlight

\* What the hooks ask and show is what their page asks for, of a moment that
\* the server has an answer for.
Lists == {"list"} \X Filters \X Numbers
AskInv ==
  /\ \A h \in Hooks : hook[h].data # None => hook[h].data.at <= now
  /\ route \in RowPages => hook.first.query \in Queries
  /\ route = "clients" => hook.second.query \in Queries
  /\ route = "requests" =>
       /\ hook.first.query \in Lists
       /\ hook.first.data # None => hook.first.data.query \in Lists

\* The options of the test call are asked for the group it is for, and those
\* that are offered are of some group.
MenuInv ==
  route = "invoke" =>
    /\ Group # None =>
         hook.second.query = About("invoke", Group) /\ hook.second.mounted
    /\ Group = None => hook.second.data = None /\ ~hook.second.loading
    /\ hook.second.data # None =>
         \E g \in AllGroups : hook.second.data.query = About("invoke", g)

\* The list of groups is loaded once, and the action entered is the group's.
GroupInv ==
  /\ route \in GroupPage /\ hook.first.loading => hook.first.data = None
  /\ SettledActionOfGroup
  /\ MenuInv

\* A test call that somebody waits for is the last one started, and the only.
Pressed(i) == posts[i] # None /\ posts[i].kind = "invoke" /\ posts[i].page
PressInv ==
  route = "invoke" =>
    /\ \A i \in Slots : Pressed(i) => form.running /\ posts[i].press = form.press
    /\ \A i, j \in Slots : Pressed(i) /\ Pressed(j) => i = j
    /\ form.running => form.result = None
    /\ form.result # None => form.result = form.press

\* The list was asked for after the last change that was reported.
RowInv == route \in RowPages => form.known <= hook.first.asked /\ hook.first.mounted

\* What the handler of a write knows when its await has returned: a part that
\* it has seen succeed was carried out.
HeardSound(c, n) ==
  /\ c.at \in 0..MaxNow /\ c.at <= n
  /\ c.got \subseteq c.done /\ c.done \subseteq c.asked

LEMMA ReturnedKeeps ==
  ASSUME NEW c, NEW n, PostSound(c, route, n), c.kind \in Kinds
  PROVE  LET e == Returned(c) IN
         /\ e \in PostType /\ HeardSound(e, n) /\ e.kind = c.kind
         /\ e.page = c.page /\ e.press = c.press /\ e.at = c.at
         /\ e.status = c.status
<1>1. c \in PostType /\ c.got \subseteq c.done /\ c.done \subseteq c.asked /\ c.at <= n
  BY DEF PostSound
<1>2. CASE c.status # "ok"
  BY <1>1, <1>2 DEF Returned, HeardSound, PostType
<1>3. CASE c.status = "ok"
  <2>1. NextPart(c) \in c.done
    BY <1>3 DEF PostSound
  <2>2. Returned(c) = [c EXCEPT !.got = @ \cup {NextPart(c)}]
    BY <1>3 DEF Returned
  <2> DEFINE x == NextPart(c)
  <2>3. c.got \cup {x} \subseteq c.done /\ c.got \cup {x} \in SUBSET Parts
    BY <1>1, <2>1 DEF PostType
  <2> HIDE DEF x
  <2> QED BY <1>1, <2>2, <2>3 DEF HeardSound, PostType, x
<1> QED BY <1>2, <1>3

-----------------------------------------------------------------------------
(* Pages *)

LEMMA FreshIsTyped == ASSUME NEW p \in Pages PROVE FormTyped(p, Fresh(p))
<1>1. CASE p = "login"
  BY <1>1 DEF Fresh, FormTyped, RowPages
<1>2. CASE p = "overview"
  BY <1>2 DEF Fresh, FormTyped, RowPages
<1>3. CASE p = "clients"
  BY <1>3 DEF Fresh, FormTyped, RowPages
<1>4. CASE p = "requests"
  BY <1>4, FiltersAssumption, NowAssumption DEF Fresh, FormTyped, RowPages, Numbers
<1>5. CASE p = "invoke"
  BY <1>5, GroupsAssumption DEF Fresh, FormTyped, RowPages
<1>6. CASE p \in RowPages
  BY <1>6, FiltersAssumption, NowAssumption DEF Fresh, FormTyped, RowPages
<1> QED BY <1>1, <1>2, <1>3, <1>4, <1>5, <1>6 DEF Pages

LEMMA TypedHasFields ==
  ASSUME NEW p \in Pages, NEW f, FormTyped(p, f) PROVE DOMAIN f = DOMAIN Fresh(p)
<1>1. CASE p = "login"
  BY <1>1 DEF Fresh, FormTyped
<1>2. CASE p = "overview"
  BY <1>2 DEF Fresh, FormTyped, RowPages
<1>3. CASE p = "clients"
  BY <1>3 DEF Fresh, FormTyped, RowPages
<1>4. CASE p = "requests"
  BY <1>4 DEF Fresh, FormTyped, RowPages
<1>5. CASE p = "invoke"
  BY <1>5 DEF Fresh, FormTyped, RowPages
<1>6. CASE p \in RowPages
  BY <1>6 DEF Fresh, FormTyped, RowPages
<1> QED BY <1>1, <1>2, <1>3, <1>4, <1>5, <1>6 DEF Pages

LEMMA CredentialsAreGoodOrNot == TabInv => Credentials \in BOOLEAN
BY DEF TabInv, Credentials

-----------------------------------------------------------------------------
(* A render is a step of every hook *)

HooksMove ==
  /\ hook' = [h \in Hooks |-> hook'[h]]
  /\ calls' = [h \in Hooks |-> calls'[h]]
  /\ \A h \in Hooks : HookStep(h)

\* What one hook does when the page stays.
LEMMA EffectsAt ==
  ASSUME NEW hs, NEW cs, NEW asks, NEW good, Effects(hs, cs, {}, asks, good),
         NEW h \in Hooks
  PROVE  /\ hook'[h] = IF h \in DOMAIN asks THEN Loading(hs[h], asks[h]) ELSE hs[h]
         /\ calls'[h] = IF h \in DOMAIN asks
                        THEN Sent(Orphans(cs[h]), Request(asks[h], good)) ELSE cs[h]
         /\ h \in DOMAIN asks => HasRoom(cs[h])
BY DEF Effects, HooksAfter, CallsAfter

\* What one hook does when a page appears.
LEMMA ShownAt ==
  ASSUME NEW asks, NEW good, Effects(hook, calls, Hooks, asks, good), NEW h \in Hooks
  PROVE  /\ hook'[h] = IF h \in DOMAIN asks THEN Loading(Blank, asks[h]) ELSE Blank
         /\ calls'[h] = IF h \in DOMAIN asks
                        THEN Sent(Strays(calls[h]), Request(asks[h], good))
                        ELSE Strays(calls[h])
         /\ h \in DOMAIN asks => HasRoom(calls[h])
BY DEF Effects, HooksAfter, CallsAfter

LEMMA EffectsAreFunctions ==
  ASSUME NEW hs, NEW cs, NEW gone, NEW asks, NEW good, Effects(hs, cs, gone, asks, good)
  PROVE  hook' = [h \in Hooks |-> hook'[h]] /\ calls' = [h \in Hooks |-> calls'[h]]
BY DEF Effects, HooksAfter, CallsAfter

LEMMA EffectsMove ==
  ASSUME NEW asks, NEW good \in BOOLEAN, Effects(hook, calls, {}, asks, good),
         \A h \in Hooks \cap DOMAIN asks : asks[h] \in Queries
  PROVE  HooksMove
<1>1. ASSUME NEW h \in Hooks PROVE HookStep(h)
  <2>1. CASE h \in DOMAIN asks
    <3>1. hook'[h] = Loading(hook[h], asks[h]) /\ HasRoom(calls[h])
          /\ calls'[h] = Sent(Orphans(calls[h]), Request(asks[h], good))
      BY <2>1, EffectsAt
    <3>2. hook'[h].query = asks[h]
      BY <3>1 DEF Loading
    <3>3. Load(h)
      BY <2>1, <3>1, <3>2 DEF Load
    <3> QED BY <3>3 DEF HookStep
  <2>2. CASE h \notin DOMAIN asks
    BY <2>2, EffectsAt DEF HookStep
  <2> QED BY <2>1, <2>2
<1> QED BY <1>1, EffectsAreFunctions DEF HooksMove

LEMMA ShowMoves ==
  ASSUME NEW p \in Pages, NEW ps, NEW good \in BOOLEAN, Show(p, ps, good)
  PROVE  HooksMove
<1> DEFINE asks == Uses(p)
<1>1. Effects(hook, calls, Hooks, asks, good)
  BY DEF Show
<1>2. \A h \in Hooks \cap DOMAIN asks : asks[h] \in Queries
  BY UsesAssumption
<1> HIDE DEF asks
<1>3. ASSUME NEW h \in Hooks PROVE HookStep(h)
  <2>1. CASE h \in DOMAIN asks
    <3>1. hook'[h] = Loading(Blank, asks[h]) /\ HasRoom(calls[h])
          /\ calls'[h] = Sent(Strays(calls[h]), Request(asks[h], good))
      BY <1>1, <2>1, ShownAt
    <3>2. hook'[h].query = asks[h]
      BY <3>1 DEF Loading
    <3>3. Load(h)
      BY <1>2, <2>1, <3>1, <3>2 DEF Load
    <3> QED BY <3>3 DEF HookStep
  <2>2. CASE h \notin DOMAIN asks
    BY <1>1, <2>2, ShownAt DEF HookStep, Leave
  <2> QED BY <2>1, <2>2
<1> QED BY <1>1, <1>3, EffectsAreFunctions DEF HooksMove

LEMMA IdleMoves == Functions /\ Idle => HooksMove
BY DEF Functions, Idle, HooksMove, HookStep

LEMMA ServeMoves ==
  ASSUME Functions, NEW k \in Hooks, NEW i \in Slots, ServeCall(k, i)
  PROVE  HooksMove
<1>1. PICK st \in VerdictsOf(calls[k][i]) :
        calls' = [calls EXCEPT ![k][i] = Answered(calls[k][i], st)]
  BY DEF ServeCall
<1>2. st \in Statuses \ {"pending"}
  BY DEF VerdictsOf, Checked, Statuses
<1>3. hook' = hook /\ calls[k][i] # None /\ calls[k][i].status = "pending"
  BY DEF ServeCall, Waiting
<1>4. ASSUME NEW h \in Hooks PROVE HookStep(h)
  <2>1. CASE h = k
    <3>1. calls'[h] = [calls[h] EXCEPT ![i] = Answered(calls[h][i], st)]
      BY <1>1, <2>1 DEF Functions
    <3> QED BY <1>2, <1>3, <2>1, <3>1 DEF HookStep, Serve
  <2>2. CASE h # k
    BY <1>1, <1>3, <2>2 DEF HookStep, Functions
  <2> QED BY <2>1, <2>2
<1> QED BY <1>1, <1>3, <1>4 DEF HooksMove, Functions

LEMMA ExpireMoves == Functions /\ Expire => HooksMove
BY DEF Functions, Expire, HooksMove, HookStep, Lapse

\* An answer is delivered to hook k, and no other hook moves.
LEMMA DeliverMoves ==
  ASSUME Functions, NEW k \in Hooks, NEW i \in Slots, AnsweredYet(calls[k][i]),
         hook' = [hook EXCEPT ![k] = AfterAnswer(hook[k], calls[k][i])],
         calls' = [calls EXCEPT ![k][i] = None]
  PROVE  HooksMove
<1>1. ASSUME NEW h \in Hooks PROVE HookStep(h)
  <2>1. CASE h = k
    <3>1. calls'[h] = [calls[h] EXCEPT ![i] = None]
          /\ hook'[h] = AfterAnswer(hook[h], calls[h][i])
      BY <2>1 DEF Functions
    <3> QED BY <2>1, <3>1 DEF HookStep, Deliver, AnsweredYet
  <2>2. CASE h # k
    BY <2>2 DEF HookStep, Functions
  <2> QED BY <2>1, <2>2
<1> QED BY <1>1 DEF HooksMove, Functions
-----------------------------------------------------------------------------
(* Answers *)

\* The answer to the live request settles its hook, with what it had asked.
LEMMA AnswerSettles ==
  ASSUME IInv, NEW k \in Hooks, NEW i \in Slots, Live(calls[k], i),
         NEW v, v = AfterAnswer(hook[k], calls[k][i])
  PROVE  /\ hook[k].loading /\ hook[k].mounted
         /\ ~v.loading /\ v.mounted
         /\ v.query = hook[k].query /\ v.asked = hook[k].asked
         /\ v.data # None => /\ v.data.query = hook[k].query
                             /\ v.data.at \in 0..now
<1> DEFINE c == calls[k][i]
           old == hook[k]
<1>1. Sound(old, calls[k], now) /\ now \in Nat
  BY DEF IInv
<1>2. old \in FetchState /\ c \in Call /\ c.alive
  BY <1>1 DEF Sound, Typed, Live
<1>3. old.loading /\ old.mounted /\ AsksFor(c, old, now)
  BY <1>1 DEF Sound, OneLive
<1>4. v = [old EXCEPT !.loading = FALSE,
                      !.data = IF c.status = "ok" THEN DataOf(c) ELSE None]
  BY <1>2 DEF AfterAnswer
<1> HIDE DEF c, old
<1>5. /\ ~v.loading /\ v.mounted = old.mounted /\ v.query = old.query
      /\ v.asked = old.asked
      /\ v.data = IF c.status = "ok" THEN DataOf(c) ELSE None
  BY <1>2, <1>4 DEF FetchState
<1>6. c.status = "ok" => c.at \in 0..now
  BY <1>1, <1>2, <1>3 DEF AsksFor, Call
<1>7. c.status = "ok" => DataOf(c).query = old.query /\ DataOf(c).at \in 0..now
  BY <1>3, <1>6 DEF DataOf, AsksFor
<1> QED BY <1>3, <1>5, <1>7 DEF old

\* The group asked about when the list arrives is one of the list.
LEMMA ArrivedGroupIsListed ==
  ASSUME IInv, TabInv, GroupInv, NEW i \in Slots, Live(calls["first"], i),
         route \in GroupPage,
         NEW v, v = AfterAnswer(hook.first, calls["first"][i]),
         EffGroup(form, v) # EffGroup(form, hook.first)
  PROVE  EffGroup(form, v) \in AllGroups
<1>1. hook.first.loading /\ (v.data # None => v.data.at \in 0..now)
  BY AnswerSettles, HooksAssumption
<1>2. hook.first.data = None
  BY <1>1 DEF GroupInv
<1>3. EffGroup(form, hook.first) = form.group
  BY <1>2 DEF EffGroup, Listed
<1>4. Listed(v) # <<>> /\ EffGroup(form, v) = Head(Listed(v))
  BY <1>3 DEF EffGroup
<1>5. v.data # None /\ Listed(v) = GroupsAt[v.data.at]
  BY <1>4 DEF Listed
<1>6. v.data.at \in DOMAIN GroupsAt
  BY <1>1, <1>5, NowAssumption DEF TabInv
<1>7. Listed(v) \in Seq(AllGroups)
  BY <1>5, <1>6, GroupsAssumption
<1> QED BY <1>4, <1>7

LEMMA ArriveMoves ==
  ASSUME IInv, Functions, TabInv, GroupInv, NEW i \in Slots, Live(calls["first"], i),
         AnsweredYet(calls["first"][i]), route \in GroupPage,
         GroupsArrive([calls EXCEPT !["first"][i] = None], calls["first"][i])
  PROVE  HooksMove
<1> DEFINE c == calls["first"][i]
           cs == [calls EXCEPT !["first"][i] = None]
           v == AfterAnswer(hook.first, c)
           hs == [hook EXCEPT !.first = v]
           g == EffGroup(form, v)
<1>1. CASE g = EffGroup(form, hook.first)
  <2>1. hook' = hs /\ calls' = cs
    BY <1>1 DEF GroupsArrive
  <2> QED BY <2>1, DeliverMoves, HooksAssumption
<1>2. CASE g # EffGroup(form, hook.first)
  <2> DEFINE asks == [second |-> About(route, g)]
  <2>1. Effects(hs, cs, {}, asks, Credentials)
    BY <1>2 DEF GroupsArrive
  <2>2. About(route, g) \in Queries
    BY <1>2, ArrivedGroupIsListed, GroupsAssumption
  <2>3. /\ hs["first"] = v /\ \A h \in Hooks : h # "first" => hs[h] = hook[h]
        /\ cs["first"] = [calls["first"] EXCEPT ![i] = None]
        /\ \A h \in Hooks : h # "first" => cs[h] = calls[h]
    BY HooksAssumption DEF Functions
  <2>4. Credentials \in BOOLEAN
    BY CredentialsAreGoodOrNot
  <2> HIDE DEF hs, cs, g
  <2>5. ASSUME NEW h \in Hooks PROVE HookStep(h)
    <3>1. CASE h = "first"
      <4>1. hook'[h] = hs[h] /\ calls'[h] = cs[h]
        BY <2>1, <3>1, EffectsAt
      <4> QED BY <2>3, <3>1, <4>1 DEF HookStep, Deliver, AnsweredYet
    <3>2. CASE h = "second"
      <4>1. /\ hook'[h] = Loading(hs[h], About(route, g))
            /\ calls'[h] = Sent(Orphans(cs[h]), Request(About(route, g), Credentials))
            /\ HasRoom(cs[h])
        BY <2>1, <3>2, EffectsAt
      <4>2. hs[h] = hook[h] /\ cs[h] = calls[h]
        BY <2>3, <3>2
      <4>3. hook'[h].query = About(route, g)
        BY <4>1 DEF Loading
      <4> QED BY <2>2, <2>4, <4>1, <4>2, <4>3 DEF HookStep, Load
    <3>3. CASE h \notin {"first", "second"}
      <4>1. hook'[h] = hs[h] /\ calls'[h] = cs[h]
        BY <2>1, <3>3, EffectsAt
      <4> QED BY <2>3, <3>3, <4>1 DEF HookStep
    <3> QED BY <3>1, <3>2, <3>3
  <2> QED BY <2>1, <2>5, EffectsAreFunctions DEF HooksMove
<1> QED BY <1>1, <1>2
-----------------------------------------------------------------------------
(* The pager *)

LEMMA NumbersAreDense ==
  /\ 1 \in Numbers
  /\ Numbers \subseteq Nat \ {0}
  /\ \A n \in Numbers : n > 1 => n - 1 \in Numbers
  /\ \A x \in Filters, v \in 0..MaxNow : /\ PagesAt[x][v] \in Nat
                                         /\ 1..PagesAt[x][v] \subseteq Numbers
<1>1. \A x \in Filters, v \in 0..MaxNow : v \in DOMAIN PagesAt[x] /\ PagesAt[x][v] \in Nat
  BY NowAssumption, FiltersAssumption
<1>2. \A n : n \in Numbers <=>
        n = 1 \/ \E x \in Filters : \E v \in 0..MaxNow : n \in 1..PagesAt[x][v]
  BY NowAssumption DEF Numbers
<1>3. ASSUME NEW n \in Numbers PROVE n \in Nat \ {0} /\ (n > 1 => n - 1 \in Numbers)
  <2>1. CASE n = 1
    BY <2>1
  <2>2. CASE \E x \in Filters : \E v \in 0..MaxNow : n \in 1..PagesAt[x][v]
    <3> PICK x \in Filters, v \in 0..MaxNow : n \in 1..PagesAt[x][v]
      BY <2>2
    <3>1. n \in Nat \ {0} /\ (n > 1 => n - 1 \in 1..PagesAt[x][v])
      BY <1>1
    <3> QED BY <1>2, <3>1
  <2> QED BY <1>2, <2>1, <2>2
<1> QED BY <1>1, <1>2, <1>3

\* The pager leads to pages that the list on the screen has.
LEMMA TurnedIsTyped ==
  ASSUME TabInv, AskInv, IInv, route = "requests", NEW f \in Turned(form, hook.first)
  PROVE  /\ FormTyped(route, f)
         /\ f.filter = form.filter
         /\ PageExists /\ f.page > 1 /\ ~f.blind => f.page <= PagesAt[f.filter][f.turned]
<1> DEFINE d == hook.first.data
           T == Total(hook.first)
<1>1. form \in [page : Numbers, filter : Filters, turned : 0..MaxNow, blind : BOOLEAN]
      /\ now \in 0..MaxNow
  BY DEF TabInv, FormTyped
<1>2. ~(T <= 1)
  BY DEF Turned
<1>3. d # None /\ T = PagesAt[d.query[2]][d.at]
  BY <1>2 DEF Total
<1>4. d.query[2] \in Filters
  BY <1>3 DEF AskInv, Lists
<1>5. d.at \in 0..MaxNow
  <2>1. hook.first \in FetchState
    BY HooksAssumption DEF IInv, Sound, Typed
  <2>2. d.at \in Nat /\ d.at <= now
    BY <1>3, <2>1, HooksAssumption DEF FetchState, Data, AskInv
  <2> QED BY <1>1, <2>2, NowAssumption
<1>6. T \in Nat /\ 1..T \subseteq Numbers
  BY <1>3, <1>4, <1>5, NumbersAreDense
<1>7. form.page \in Nat \ {0}
  BY <1>1, NumbersAreDense
<1>8. CASE f = Forward(form, hook.first) /\ form.page < T
  <2>1. /\ f.page = form.page + 1 /\ f.filter = form.filter /\ f.turned = d.at
        /\ f.blind = (form.blind \/ d.query[2] # form.filter)
        /\ f = [page |-> f.page, filter |-> f.filter, turned |-> f.turned,
                blind |-> f.blind]
    BY <1>1, <1>8 DEF Forward
  <2>2. f.page \in 1..T
    BY <1>6, <1>7, <1>8, <2>1
  <2>3. FormTyped(route, f)
    BY <1>1, <1>5, <1>6, <2>1, <2>2 DEF FormTyped, RowPages
  <2>4. ~f.blind => f.page <= PagesAt[f.filter][f.turned]
    <3>1. ~f.blind => T = PagesAt[f.filter][f.turned]
      BY <1>3, <2>1
    <3> HIDE DEF T
    <3> QED BY <1>6, <2>2, <3>1
  <2> QED BY <2>1, <2>3, <2>4
<1>9. CASE f = [form EXCEPT !.page = @ - 1] /\ form.page > 1
  <2>1. /\ f.page = form.page - 1 /\ f.filter = form.filter /\ f.turned = form.turned
        /\ f.blind = form.blind
        /\ f = [page |-> f.page, filter |-> f.filter, turned |-> f.turned,
                blind |-> f.blind]
    BY <1>1, <1>9
  <2>2. f.page \in Numbers
    BY <1>1, <1>9, <2>1, NumbersAreDense
  <2>3. FormTyped(route, f)
    BY <1>1, <2>1, <2>2 DEF FormTyped, RowPages
  <2>4. PageExists /\ ~f.blind => f.page <= PagesAt[f.filter][f.turned]
    <3> SUFFICES ASSUME PageExists, ~f.blind
                 PROVE  f.page <= PagesAt[f.filter][f.turned]
      OBVIOUS
    <3>1. form.page <= PagesAt[form.filter][form.turned]
      BY <1>9, <2>1 DEF PageExists
    <3>2. PagesAt[form.filter][form.turned] \in Nat
      BY <1>1, NumbersAreDense
    <3> QED BY <1>7, <2>1, <3>1, <3>2
  <2> QED BY <2>1, <2>3, <2>4
<1> HIDE DEF d, T
<1>10. \/ f = Forward(form, hook.first) /\ form.page < T
       \/ f = [form EXCEPT !.page = @ - 1] /\ form.page > 1
  BY <1>2 DEF Turned, T
<1> QED BY <1>8, <1>9, <1>10

\* Another filter starts at its first page.
LEMMA FilteredIsTyped ==
  ASSUME TabInv, route = "requests", NEW x \in Filters
  PROVE  FormTyped(route, Filtered(form, x)) /\ Filtered(form, x).page = 1
<1>1. form \in [page : Numbers, filter : Filters, turned : 0..MaxNow, blind : BOOLEAN]
  BY DEF TabInv, FormTyped
<1>2. 1 \in Numbers /\ 0 \in 0..MaxNow
  BY NumbersAreDense, NowAssumption
<1>3. Filtered(form, x)
        \in [page : Numbers, filter : Filters, turned : 0..MaxNow, blind : BOOLEAN]
  BY <1>1, <1>2 DEF Filtered
<1>4. Filtered(form, x).page = 1
  BY <1>1 DEF Filtered
<1> QED BY <1>3, <1>4 DEF FormTyped, RowPages

\* What the list of records asks for is a question.
LEMMA ListIsAsked ==
  ASSUME NEW f, route = "requests", FormTyped(route, f)
  PROVE  List(f) \in Lists /\ List(f) \in Queries
<1>1. f.filter \in Filters /\ f.page \in Numbers
  BY DEF FormTyped
<1> QED BY <1>1, FiltersAssumption DEF List, Lists

LEMMA ListsAreQueries == Lists \subseteq Queries
BY FiltersAssumption DEF Lists
-----------------------------------------------------------------------------
(* Every step of the panel is a step of its hooks *)

\* One hook is asked something.
LEMMA AskingMoves ==
  ASSUME TabInv, NEW k \in {"first", "second"}, NEW q \in Queries,
         NEW asks, asks = [x \in {k} |-> q],
         Effects(hook, calls, {}, asks, Credentials)
  PROVE  HooksMove
BY EffectsMove, CredentialsAreGoodOrNot

LEMMA AsksOfOne ==
  ASSUME NEW q
  PROVE  /\ [first |-> q] = [x \in {"first"} |-> q]
         /\ [second |-> q] = [x \in {"second"} |-> q]
OBVIOUS

LEMMA BrowserMoves ==
  ASSUME TabInv, PostsInv, Functions,
         \/ \E p \in Pages : Go(p)
         \/ Follow \/ Logout \/ Login \/ Expire
         \/ \E i \in Slots : ServeLogin(i) \/ LoggedIn(i) \/ NotLoggedIn(i)
  PROVE  HooksMove /\ now' = now
<1>1. ASSUME NEW p \in Pages, Go(p) PROVE HooksMove /\ now' = now
  <2>1. /\ Show(IF token = None THEN "login" ELSE p, posts, Credentials)
        /\ now' = now
    BY <1>1 DEF Go
  <2>2. (IF token = None THEN "login" ELSE p) \in Pages
    BY DEF Pages
  <2> QED BY <2>1, <2>2, ShowMoves, CredentialsAreGoodOrNot
<1>2. CASE Follow
  BY <1>2, ShowMoves, CredentialsAreGoodOrNot DEF Follow, TabInv
<1>3. CASE Logout
  <2>1. Show("login", posts, FALSE) /\ now' = now /\ "login" \in Pages
    BY <1>3 DEF Logout, Pages
  <2> QED BY <2>1, ShowMoves
<1>4. CASE Login
  BY <1>4, IdleMoves DEF Login
<1>5. CASE Expire
  BY <1>5, ExpireMoves DEF Expire
<1>6. ASSUME NEW i \in Slots, ServeLogin(i) \/ NotLoggedIn(i)
      PROVE  HooksMove /\ now' = now
  BY <1>6, IdleMoves DEF ServeLogin, NotLoggedIn
<1>7. ASSUME NEW i \in Slots, LoggedIn(i) PROVE HooksMove /\ now' = now
  <2>1. /\ now' = now
        /\ Idle \/ Show("overview", [posts EXCEPT ![i] = None], posts[i].good)
    BY <1>7 DEF LoggedIn
  <2>2. "overview" \in Pages /\ posts[i].good \in BOOLEAN
    BY <1>7 DEF Pages, LoggedIn, PostsInv, PostSound, PostType
  <2> QED BY <2>1, <2>2, ShowMoves, IdleMoves
<1> QED BY <1>1, <1>2, <1>3, <1>4, <1>5, <1>6, <1>7

LEMMA GroupPageMoves ==
  ASSUME TabInv, Functions,
         \/ \E g \in AllGroups : ChooseGroup(g)
         \/ TypeAction \/ PickAction \/ ClearAction \/ Invoke
  PROVE  HooksMove /\ now' = now
<1>1. ASSUME NEW g \in AllGroups, ChooseGroup(g) PROVE HooksMove /\ now' = now
  <2>1. /\ Effects(hook, calls, {}, [second |-> About(route, g)], Credentials)
        /\ route \in GroupPage /\ now' = now
    BY <1>1 DEF ChooseGroup, Here
  <2>2. About(route, g) \in Queries
    BY <2>1, GroupsAssumption
  <2> QED BY <2>1, <2>2, AskingMoves, AsksOfOne
<1>2. CASE TypeAction \/ PickAction
  BY <1>2, IdleMoves DEF TypeAction, PickAction, Here
<1>3. CASE ClearAction
  BY <1>3, IdleMoves DEF ClearAction, Here
<1>4. CASE Invoke
  BY <1>4, IdleMoves DEF Invoke, Here
<1> QED BY <1>1, <1>2, <1>3, <1>4

LEMMA RelistMoves ==
  ASSUME TabInv, Functions, route = "requests", NEW f, FormTyped(route, f), Relist(f)
  PROVE  HooksMove /\ now' = now
<1>1. now' = now
  BY DEF Relist, Stays
<1>2. CASE List(f) = List(form)
  BY <1>1, <1>2, IdleMoves DEF Relist
<1>3. CASE List(f) # List(form)
  <2>1. Effects(hook, calls, {}, [first |-> List(f)], Credentials)
    BY <1>3 DEF Relist
  <2>2. List(f) \in Queries
    BY ListIsAsked
  <2> QED BY <1>1, <2>1, <2>2, AskingMoves, AsksOfOne
<1> QED BY <1>2, <1>3

LEMMA ListPageMoves ==
  ASSUME TabInv, AskInv, IInv, Functions,
         \/ Poll \/ Turn
         \/ \E x \in Filters : SetFilter(x)
         \/ \E p \in Pages, h \in Hooks : Refresh(p, h)
  PROVE  HooksMove /\ now' = now
<1>1. CASE Poll
  BY <1>1, IdleMoves DEF Poll, Stays
<1>2. CASE Turn
  <2>1. PICK f \in Turned(form, hook.first) : Relist(f)
    BY <1>2 DEF Turn
  <2>2. route = "requests"
    BY <1>2 DEF Turn
  <2> QED BY <2>1, <2>2, TurnedIsTyped, RelistMoves
<1>3. ASSUME NEW x \in Filters, SetFilter(x) PROVE HooksMove /\ now' = now
  BY <1>3, FilteredIsTyped, RelistMoves DEF SetFilter
<1>4. ASSUME NEW p \in Pages, NEW h \in Hooks, Refresh(p, h)
      PROVE  HooksMove /\ now' = now
  <2>1. /\ route = p /\ now' = now
        /\ <<p, h>> \in {<<"requests", "first">>, <<"clients", "second">>}
        /\ Effects(hook, calls, {}, [x \in {h} |-> hook[h].query], Credentials)
    BY <1>4 DEF Refresh, Stays
  <2>2. hook[h].query \in Queries /\ h \in {"first", "second"}
    BY <2>1, ListsAreQueries DEF AskInv
  <2> QED BY <2>1, <2>2, AskingMoves
<1> QED BY <1>1, <1>2, <1>3, <1>4

LEMMA ReloadMoves ==
  ASSUME TabInv, NEW f, NEW ps, NEW q \in Queries, Reloading(f, ps, q)
  PROVE  HooksMove
<1>1. Effects(hook, calls, {}, [first |-> q], Credentials)
  BY DEF Reloading
<1> QED BY <1>1, AskingMoves, AsksOfOne

LEMMA RowPageMoves ==
  ASSUME TabInv, AskInv, Functions,
         \/ RefreshRows \/ CloseDialog
         \/ \E x \in Filters : SetStatus(x)
         \/ \E kind \in Kinds : \/ OpenDialog(kind)
                                \/ \E parts \in SUBSET Parts : Submit(kind, parts)
  PROVE  HooksMove /\ now' = now
<1>1. CASE RefreshRows
  BY <1>1, ReloadMoves DEF RefreshRows, OnPage, AskInv
<1>2. CASE CloseDialog
  BY <1>2, IdleMoves DEF CloseDialog, OnPage
<1>3. ASSUME NEW x \in Filters, SetStatus(x) PROVE HooksMove /\ now' = now
  <2>1. Reloading([form EXCEPT !.list = x], posts, <<"devices", x>>) /\ now' = now
    BY <1>3 DEF SetStatus, OnPage
  <2> QED BY <2>1, ReloadMoves, FiltersAssumption
<1>4. ASSUME NEW kind \in Kinds, OpenDialog(kind) PROVE HooksMove /\ now' = now
  BY <1>4, IdleMoves DEF OpenDialog, OnPage
<1>5. ASSUME NEW kind \in Kinds, NEW parts \in SUBSET Parts, Submit(kind, parts)
      PROVE  HooksMove /\ now' = now
  <2>1. now' = now /\ route \in RowPages
    BY <1>5 DEF Submit, OnPage
  <2>2. \/ Idle
        \/ Reloading(Saved(form, Write(kind, parts)), posts, hook.first.query)
    BY <1>5 DEF Submit
  <2> QED BY <2>1, <2>2, ReloadMoves, IdleMoves DEF AskInv
<1> QED BY <1>1, <1>2, <1>3, <1>4, <1>5

LEMMA ServerMoves ==
  ASSUME TabInv, Functions,
         \/ Tick
         \/ \E h \in Hooks, i \in Slots : ServeCall(h, i)
         \/ \E i \in Slots : ServePost(i) \/ ServeWrite(i)
  PROVE  HooksMove /\ now' \in {now, now + 1} /\ now' \in 0..MaxNow
<1>1. now \in 0..MaxNow /\ MaxNow \in Nat
  BY NowAssumption DEF TabInv
<1>2. CASE Tick
  BY <1>1, <1>2, IdleMoves DEF Tick
<1>3. ASSUME NEW h \in Hooks, NEW i \in Slots, ServeCall(h, i)
      PROVE  HooksMove /\ now' = now
  BY <1>3, ServeMoves DEF ServeCall
<1>4. ASSUME NEW i \in Slots, ServePost(i) PROVE HooksMove /\ now' = now
  BY <1>4, IdleMoves DEF ServePost
<1>5. ASSUME NEW i \in Slots, ServeWrite(i)
      PROVE  HooksMove /\ now' \in {now, now + 1} /\ now' \in 0..MaxNow
  <2>1. Idle /\ (now' = now \/ (now < MaxNow /\ now' = now + 1))
    BY <1>5 DEF ServeWrite
  <2> QED BY <1>1, <2>1, IdleMoves
<1> QED BY <1>1, <1>2, <1>3, <1>4, <1>5

LEMMA AnswerMoves ==
  ASSUME TabInv, AskInv, GroupInv, PostsInv, IInv, Functions,
         \/ \E h \in Hooks, i \in Slots : DeliverCall(h, i)
         \/ \E i \in Slots : DeliverPost(i) \/ DeliverWrite(i)
  PROVE  HooksMove /\ now' = now
<1>1. ASSUME NEW h \in Hooks, NEW i \in Slots, DeliverCall(h, i)
      PROVE  HooksMove /\ now' = now
  <2> DEFINE c == calls[h][i]
             cs == [calls EXCEPT ![h][i] = None]
  <2>1. AnsweredYet(c) /\ now' = now
    BY <1>1 DEF DeliverCall
  <2>2. CASE h = "first" /\ route \in GroupPage /\ c.alive
    <3>1. GroupsArrive(cs, c) /\ Live(calls["first"], i)
      BY <1>1, <2>1, <2>2 DEF DeliverCall, AnsweredYet, Live
    <3> QED BY <2>1, <2>2, <3>1, ArriveMoves
  <2>3. CASE ~(h = "first" /\ route \in GroupPage /\ c.alive)
    <3>1. hook' = [hook EXCEPT ![h] = AfterAnswer(hook[h], c)] /\ calls' = cs
      BY <1>1, <2>3 DEF DeliverCall, Settled
    <3> QED BY <2>1, <3>1, DeliverMoves
  <2> QED BY <2>2, <2>3
<1>2. ASSUME NEW i \in Slots, DeliverPost(i) PROVE HooksMove /\ now' = now
  BY <1>2, IdleMoves DEF DeliverPost
<1>3. ASSUME NEW i \in Slots, DeliverWrite(i) PROVE HooksMove /\ now' = now
  <2> DEFINE c == posts[i]
  <2>1. now' = now /\ c # None /\ c.kind \in Kinds
    BY <1>3 DEF DeliverWrite, AnsweredYet
  <2> DEFINE e == Returned(c)
  <2>2. Idle \/ WriteAnswered([posts EXCEPT ![i] = None], e)
    BY <1>3 DEF DeliverWrite
  <2> HIDE DEF e
  <2>3. CASE Idle
    BY <2>1, <2>3, IdleMoves
  <2>4. CASE WriteAnswered([posts EXCEPT ![i] = None], e)
    <3> DEFINE f == Known(IF Reported(e) THEN Saved(form, e) ELSE form, e)
    <3>1. \/ Idle
          \/ e.page /\ Reloading(f, [posts EXCEPT ![i] = None], hook.first.query)
      BY <2>4 DEF WriteAnswered
    <3>2. e.page => route \in RowPages
      <4>1. PostSound(c, route, now) /\ e.page = c.page
        BY <2>1, ReturnedKeeps DEF PostsInv, e
      <4>2. c.kind \notin {"login", "poll", "invoke"}
        BY <2>1 DEF Kinds
      <4> QED BY <4>1, <4>2 DEF PostSound, Home
    <3>3. CASE Idle
      BY <2>1, <3>3, IdleMoves
    <3>4. CASE e.page /\ Reloading(f, [posts EXCEPT ![i] = None], hook.first.query)
      <4>1. hook.first.query \in Queries
        BY <3>2, <3>4 DEF AskInv
      <4> QED BY <2>1, <3>4, <4>1, ReloadMoves
    <3> QED BY <3>1, <3>3, <3>4
  <2> QED BY <2>2, <2>3, <2>4
<1> QED BY <1>1, <1>2, <1>3
-----------------------------------------------------------------------------
(* Posts *)

\* One post is sent, answered or gone; the others stay.
LEMMA OnePostMoves ==
  ASSUME PostsInv, NEW i \in Slots, NEW c, NEW n \in Nat, now <= n, TabInv,
         c = None \/ PostSound(c, route, n),
         NEW qs, qs = [posts EXCEPT ![i] = c]
  PROVE  /\ qs \in [Slots -> PostType \cup {None}]
         /\ \A j \in Slots : qs[j] # None => PostSound(qs[j], route, n)
<1>1. c \in PostType \cup {None}
  BY DEF PostSound
<1>2. \A j \in Slots : qs[j] = IF j = i THEN c ELSE posts[j]
  BY DEF PostsInv
<1>3. ASSUME NEW j \in Slots, posts[j] # None PROVE PostSound(posts[j], route, n)
  <2>1. PostSound(posts[j], route, now) /\ now \in Nat
    BY <1>3, NowAssumption DEF PostsInv, TabInv
  <2>2. posts[j].at \in Nat
    BY <2>1, NowAssumption DEF PostSound, PostType
  <2> QED BY <2>1, <2>2 DEF PostSound
<1> QED BY <1>1, <1>2, <1>3 DEF PostsInv

LEMMA PostsStay ==
  ASSUME PostsInv, TabInv, posts' = posts, route' = route, now' \in Nat, now <= now'
  PROVE  PostsInv'
<1>1. ASSUME NEW j \in Slots, posts[j] # None PROVE PostSound(posts[j], route, now')
  <2>1. PostSound(posts[j], route, now) /\ now \in Nat
    BY <1>1, NowAssumption DEF PostsInv, TabInv
  <2>2. posts[j].at \in Nat
    BY <2>1, NowAssumption DEF PostSound, PostType
  <2> QED BY <2>1, <2>2 DEF PostSound
<1> QED BY <1>1 DEF PostsInv

LEMMA OnePostKeeps ==
  ASSUME PostsInv, TabInv, NEW i \in Slots, NEW c, now' \in Nat, now <= now',
         c = None \/ PostSound(c, route, now'), route' = route,
         posts' = [posts EXCEPT ![i] = c]
  PROVE  PostsInv'
BY OnePostMoves DEF PostsInv

\* Leaving the page, the table going, and the loss of credentials.
LEMMA SameNextPart ==
  ASSUME NEW c, NEW d, c.asked = d.asked, c.got = d.got
  PROVE  NextPart(c) = NextPart(d)
BY DEF NextPart

LEMMA PostMarked ==
  ASSUME NEW c, NEW p, NEW n \in Nat, PostSound(c, p, n)
  PROVE  /\ PostSound([c EXCEPT !.row = FALSE], p, n)
         /\ PostSound([c EXCEPT !.good = FALSE], p, n)
         /\ \A q : PostSound([c EXCEPT !.page = FALSE, !.row = FALSE, !.at = 0,
                                       !.press = 0], q, n)
<1>1. c \in PostType /\ 0 \in 0..MaxNow /\ 0 \in 0..MaxPress
  BY NowAssumption, GroupsAssumption DEF PostSound
<1> DEFINE d == [c EXCEPT !.page = FALSE, !.row = FALSE, !.at = 0, !.press = 0]
<1>2. /\ d \in PostType /\ ~d.page /\ d.at = 0 /\ d.kind = c.kind
      /\ d.status = c.status /\ d.asked = c.asked /\ d.done = c.done
      /\ d.got = c.got
  BY <1>1 DEF PostType
<1>3. \A q : PostSound(d, q, n)
  <2> HIDE DEF d
  <2> QED BY <1>2, SameNextPart DEF PostSound
<1>4. ASSUME NEW e, e \in {[c EXCEPT !.row = FALSE], [c EXCEPT !.good = FALSE]}
      PROVE  PostSound(e, p, n)
  <2>1. /\ e \in PostType /\ e.page = c.page /\ e.at = c.at /\ e.kind = c.kind
        /\ e.status = c.status /\ e.asked = c.asked /\ e.done = c.done
        /\ e.got = c.got
    BY <1>1, <1>4 DEF PostType
  <2> QED BY <2>1, SameNextPart DEF PostSound
<1> QED BY <1>3, <1>4

LEMMA TableLeftKeeps ==
  ASSUME PostsInv, TabInv, NEW ps \in [Slots -> PostType \cup {None}],
         \A i \in Slots : ps[i] # None => PostSound(ps[i], route, now),
         posts' = TableLeft(ps), route' = route, now' = now
  PROVE  PostsInv'
<1>1. now \in Nat
  BY NowAssumption DEF TabInv
<1>2. ASSUME NEW i \in Slots
      PROVE  TableLeft(ps)[i] = None \/ PostSound(TableLeft(ps)[i], route, now)
  BY <1>1, PostMarked DEF TableLeft
<1>3. TableLeft(ps) \in [Slots -> PostType \cup {None}]
  BY <1>2 DEF TableLeft, PostSound
<1> QED BY <1>2, <1>3 DEF PostsInv

LEMMA LapsedKeeps ==
  ASSUME PostsInv, TabInv, posts' = Lapsed(posts), route' = route, now' = now
  PROVE  PostsInv'
<1>1. now \in Nat
  BY NowAssumption DEF TabInv
<1>2. ASSUME NEW i \in Slots
      PROVE  Lapsed(posts)[i] = None \/ PostSound(Lapsed(posts)[i], route, now)
  BY <1>1, PostMarked DEF Lapsed, PostsInv
<1>3. Lapsed(posts) \in [Slots -> PostType \cup {None}]
  BY <1>2 DEF Lapsed, PostSound
<1> QED BY <1>2, <1>3 DEF PostsInv

\* A new post.
LEMMA PostIsTyped ==
  ASSUME TabInv, NEW kind \in Kinds \cup {"login", "poll", "invoke"},
         NEW good \in BOOLEAN
  PROVE  /\ Post(kind, good) \in PostType
         /\ \A p : kind \notin Kinds /\ p \in Home(kind)
                    => PostSound(Post(kind, good), p, now)
<1>1. 0 \in 0..MaxNow /\ 0 \in 0..MaxPress /\ 0 <= now
  BY NowAssumption, GroupsAssumption DEF TabInv
<1>2. Post(kind, good) \in PostType
  BY <1>1 DEF Post, PostType, Statuses
<1> QED BY <1>1, <1>2 DEF Post, PostSound

LEMMA SentKeeps ==
  ASSUME PostsInv, TabInv, NEW r, Sends(r), PostSound(r, route, now),
         route' = route, now' = now
  PROVE  PostsInv'
<1>1. FreeSlot(posts) \in Slots /\ posts' = [posts EXCEPT ![FreeSlot(posts)] = r]
  BY FreeSlotIsFree DEF Sends, Sent
<1>2. now' \in Nat /\ now <= now'
  BY NowAssumption DEF TabInv
<1> QED BY <1>1, <1>2, OnePostKeeps

-----------------------------------------------------------------------------
(* How many requests are in flight *)

LEMMA FewerInFlight ==
  ASSUME FlightInv,
         \A h \in Hooks, i \in Slots : calls'[h][i] # None => calls[h][i] # None,
         \A i \in Slots : posts'[i] # None => posts[i] # None
  PROVE  FlightInv'
<1> DEFINE A == {u \in Hooks \X Slots : calls[u[1]][u[2]] # None}
           B == {i \in Slots : posts[i] # None}
           C == {u \in Hooks \X Slots : calls'[u[1]][u[2]] # None}
           D == {i \in Slots : posts'[i] # None}
<1>1. IsFiniteSet(Hooks \X Slots) /\ IsFiniteSet(Slots)
  BY HooksAssumption, FS_Product
<1>2. C \subseteq A /\ D \subseteq B /\ A \subseteq Hooks \X Slots /\ B \subseteq Slots
  OBVIOUS
<1>3. IsFiniteSet(A) /\ IsFiniteSet(B)
  BY <1>1, <1>2, FS_Subset
<1>4. Cardinality(C) <= Cardinality(A) /\ Cardinality(D) <= Cardinality(B)
  BY <1>2, <1>3, FS_Subset
<1>5. /\ Cardinality(A) \in Nat /\ Cardinality(B) \in Nat
      /\ Cardinality(C) \in Nat /\ Cardinality(D) \in Nat
  BY <1>2, <1>3, FS_Subset, FS_CardinalityType
<1>6. InFlight(calls, posts) = Cardinality(A) + Cardinality(B)
      /\ InFlight(calls', posts') = Cardinality(C) + Cardinality(D)
  BY DEF InFlight
<1> HIDE DEF A, B, C, D
<1> QED BY <1>4, <1>5, <1>6, HooksAssumption DEF FlightInv
-----------------------------------------------------------------------------
(* A page appears *)

PageInv ==
  /\ TabInv /\ PostsInv /\ FlightInv /\ AskInv
  /\ GroupInv /\ PressInv /\ RowInv /\ PageExists

LEMMA UsesOfPages ==
  /\ \A p \in RowPages \cup {"clients", "invoke", "requests"} : "first" \in DOMAIN Uses(p)
  /\ "second" \in DOMAIN Uses("clients")
  /\ Uses("requests")["first"] = <<"list", "all", 1>>
<1>1. \A p \in RowPages : "first" \in DOMAIN Uses(p)
  BY DEF Uses, RowPages
<1>2. "first" \in DOMAIN Uses("clients") /\ "second" \in DOMAIN Uses("clients")
  BY DEF Uses
<1>3. "first" \in DOMAIN Uses("invoke") /\ "first" \in DOMAIN Uses("requests")
  BY DEF Uses
<1>4. Uses("requests")["first"] = <<"list", "all", 1>>
  BY DEF Uses
<1> QED BY <1>1, <1>2, <1>3, <1>4

LEMMA FormsStartFresh ==
  /\ Fresh("requests").page = 1
  /\ Fresh("invoke").group = None
  /\ Fresh("invoke").action = None /\ Fresh("invoke").result = None
  /\ Fresh("invoke").running = FALSE
  /\ \A p \in RowPages : Fresh(p).known = 0
BY DEF Fresh, RowPages

LEMMA ShowKeeps ==
  ASSUME TabInv, NEW p \in Pages, NEW ps, NEW good \in BOOLEAN, Show(p, ps, good),
         now' = now, token' \in {"good", "bad", None}, cookie' \in BOOLEAN,
         ps \in [Slots -> PostType \cup {None}],
         \A i \in Slots : ps[i] # None => PostSound(ps[i], route, now)
  PROVE  PageInv'
<1> DEFINE asks == Uses(p)
<1>1. /\ route' = p /\ hash' = p /\ form' = Fresh(p)
      /\ Effects(hook, calls, Hooks, asks, good)
  BY DEF Show
<1>2. now \in Nat /\ now \in 0..MaxNow /\ 0 \in 0..now
  BY NowAssumption DEF TabInv
<1>3. TabInv'
  BY <1>1, <1>2, FreshIsTyped DEF TabInv
<1>4. /\ Left(ps) \in [Slots -> PostType \cup {None}]
      /\ \A i \in Slots : Left(ps)[i] # None =>
           PostSound(Left(ps)[i], p, now) /\ ~Left(ps)[i].page
  <2>1. ASSUME NEW i \in Slots
        PROVE  \/ Left(ps)[i] = None
               \/ PostSound(Left(ps)[i], p, now) /\ ~Left(ps)[i].page
    <3>1. CASE ps[i] = None
      BY <3>1 DEF Left
    <3>2. CASE ps[i] # None
      <4>1. Left(ps)[i] = [ps[i] EXCEPT !.page = FALSE, !.row = FALSE, !.at = 0,
                                        !.press = 0]
        BY <3>2 DEF Left
      <4>2. PostSound(Left(ps)[i], p, now)
        <5>1. PostSound(ps[i], route, now)
          BY <3>2
        <5>2. \A q : PostSound([ps[i] EXCEPT !.page = FALSE, !.row = FALSE, !.at = 0,
                                             !.press = 0], q, now)
          BY <1>2, <5>1, PostMarked
        <5> QED BY <4>1, <5>2
      <4>3. ps[i] \in PostType
        BY <3>2 DEF PostSound
      <4>4. ~Left(ps)[i].page
        BY <4>1, <4>3 DEF PostType
      <4> QED BY <4>2, <4>4
    <3> QED BY <3>1, <3>2
  <2>2. Left(ps) \in [Slots -> PostType \cup {None}]
    BY <2>1 DEF Left, PostSound
  <2> QED BY <2>1, <2>2
<1>5. /\ posts' \in [Slots -> PostType \cup {None}]
      /\ \A i \in Slots : posts'[i] # None =>
           /\ PostSound(posts'[i], p, now)
           /\ p = "invoke" => ~posts'[i].page
  <2>1. CASE p = "overview"
    <3> DEFINE r == Post("poll", good)
    <3>1. FreeSlot(ps) \in Slots /\ posts' = Sent(Left(ps), r)
      BY <2>1, FreeSlotIsFree DEF Show
    <3>2. PostSound(r, p, now)
      BY <2>1, PostIsTyped DEF Home, Kinds
    <3>3. r \in PostType
      BY <3>2 DEF PostSound
    <3>4. posts' = [Left(ps) EXCEPT ![FreeSlot(Left(ps))] = r]
      BY <3>1 DEF Sent
    <3>5. \A i \in Slots : posts'[i] = r \/ posts'[i] = Left(ps)[i]
      BY <1>4, <3>4
    <3>6. posts' \in [Slots -> PostType \cup {None}]
      BY <1>4, <3>3, <3>4
    <3> HIDE DEF r
    <3> QED BY <1>4, <2>1, <3>2, <3>5, <3>6
  <2>2. CASE p # "overview"
    <3>1. posts' = Left(ps)
      BY <2>2 DEF Show
    <3> QED BY <1>4, <3>1
  <2> QED BY <2>1, <2>2
<1>6. PostsInv'
  BY <1>1, <1>5 DEF PostsInv
<1>7. FlightInv'
  BY <1>1 DEF Effects, FlightInv
<1> DEFINE Shown(h) == IF h \in DOMAIN asks THEN Loading(Blank, asks[h]) ELSE Blank
<1>8. ASSUME NEW h \in Hooks
      PROVE  /\ hook'[h].data = None
             /\ h \in DOMAIN asks => /\ hook'[h].query = asks[h] /\ asks[h] \in Queries
                                     /\ hook'[h].asked = now /\ hook'[h].mounted
  <2>1. hook'[h] = Shown(h)
    BY <1>1, ShownAt
  <2>2. h \in DOMAIN asks => asks[h] \in Queries
    BY UsesAssumption
  <2> HIDE DEF asks
  <2> QED BY <2>1, <2>2 DEF Loading, Blank
<1>9. /\ "first" \in Hooks /\ "second" \in Hooks
  BY HooksAssumption
<1>10. AskInv'
  <2>1. \A h \in Hooks : hook'[h].data = None
    BY <1>8
  <2>2. p \in RowPages => hook'["first"].query \in Queries
    BY <1>8, <1>9, UsesOfPages
  <2>3. p = "clients" => hook'["second"].query \in Queries
    BY <1>8, <1>9, UsesOfPages
  <2>4. p = "requests" => hook'["first"].query \in Lists
    <3>1. <<"list", "all", 1>> \in Lists
      BY FiltersAssumption, NumbersAreDense DEF Lists
    <3> QED BY <1>8, <1>9, <3>1, UsesOfPages
  <2> HIDE DEF asks
  <2> QED BY <1>1, <1>9, <2>1, <2>2, <2>3, <2>4 DEF AskInv
<1>11. GroupInv'
  <2>1. hook'["first"].data = None /\ hook'["second"].data = None
    BY <1>8, <1>9
  <2>2. p = "invoke" => ~hook'["second"].loading
    <3>1. p = "invoke" => "second" \notin DOMAIN asks
      BY DEF Uses
    <3>2. hook'["second"] = Shown("second")
      BY <1>1, <1>9, ShownAt
    <3> HIDE DEF asks
    <3> QED BY <3>1, <3>2 DEF Blank
  <2>3. p = "invoke" => form'.group = None /\ form'.action = None
    BY <1>1, FormsStartFresh
  <2> HIDE DEF asks
  <2> QED BY <1>1, <2>1, <2>2, <2>3
          DEF GroupInv, SettledActionOfGroup, MenuInv, Group, EffGroup, Listed
<1>12. PressInv'
  BY <1>1, <1>5, FormsStartFresh DEF PressInv, Pressed
<1>13. RowInv'
  BY <1>1, <1>2, <1>8, <1>9, UsesOfPages, FormsStartFresh DEF RowInv
<1>14. PageExists'
  BY <1>1, FormsStartFresh DEF PageExists
<1> QED BY <1>3, <1>6, <1>7, <1>10, <1>11, <1>12, <1>13, <1>14 DEF PageInv
-----------------------------------------------------------------------------
(* What does not move *)

LEMMA AskStays ==
  ASSUME AskInv, IInv, hook' = hook, route' = route, now' \in Nat, now <= now'
  PROVE  AskInv'
<1>1. ASSUME NEW h \in Hooks, hook[h].data # None PROVE hook[h].data.at <= now'
  <2>1. hook[h].data.at \in Nat
    BY <1>1 DEF IInv, Sound, Typed, FetchState, Data
  <2> QED BY <1>1, <2>1 DEF AskInv, IInv
<1> QED BY <1>1 DEF AskInv

LEMMA FormStays ==
  ASSUME GroupInv, RowInv, PageExists, form' = form, hook' = hook, route' = route
  PROVE  GroupInv' /\ RowInv' /\ PageExists'
BY DEF GroupInv, SettledActionOfGroup, MenuInv, Group, EffGroup, Listed, RowInv, PageExists

LEMMA PressStays ==
  ASSUME PressInv, route' = route,
         route = "invoke" => /\ form'.running = form.running
                             /\ form'.press = form.press /\ form'.result = form.result,
         \A i \in Slots : Pressed(i)' => Pressed(i) /\ posts'[i].press = posts[i].press
  PROVE  PressInv'
BY DEF PressInv

LEMMA SimplePage ==
  ASSUME route' = route, route \in {"login", "overview"}
  PROVE  GroupInv' /\ RowInv' /\ PageExists' /\ PressInv'
BY DEF GroupInv, GroupPage, SettledActionOfGroup, MenuInv, RowInv, RowPages, PageExists, PressInv

LEMMA OnePostLess ==
  ASSUME PostsInv, NEW i \in Slots, posts' = [posts EXCEPT ![i] = None]
  PROVE  /\ \A j \in Slots : posts'[j] # None => posts[j] # None /\ posts'[j] = posts[j]
         /\ \A j \in Slots : Pressed(j)' => Pressed(j) /\ posts'[j].press = posts[j].press
BY DEF PostsInv, Pressed

\* One post is answered, and is still a post of its kind.
LEMMA OnePostServed ==
  ASSUME PostsInv, NEW i \in Slots, posts[i] # None, NEW c,
         posts' = [posts EXCEPT ![i] = c],
         c.kind = posts[i].kind, c.page = posts[i].page, c.press = posts[i].press
  PROVE  /\ \A j \in Slots : posts'[j] # None => posts[j] # None
         /\ \A j \in Slots : Pressed(j)' => Pressed(j) /\ posts'[j].press = posts[j].press
<1>1. \A j \in Slots : posts'[j] = IF j = i THEN c ELSE posts[j]
  BY DEF PostsInv
<1> QED BY <1>1 DEF Pressed

LEMMA IdleFlight ==
  ASSUME FlightInv, Idle, \A i \in Slots : posts'[i] # None => posts[i] # None
  PROVE  FlightInv'
BY FewerInFlight DEF Idle

-----------------------------------------------------------------------------
(* The tab *)

LEMMA NowIsNumber == TabInv => now \in Nat /\ now \in 0..MaxNow /\ now <= now
BY NowAssumption DEF TabInv

LEMMA LoginKeeps == PageInv /\ IInv /\ Login => PageInv'
<1> SUFFICES ASSUME PageInv, IInv, Login PROVE PageInv'
  OBVIOUS
<1>1. /\ TabInv /\ PostsInv /\ AskInv /\ route = "login" /\ route' = route
      /\ now' = now /\ hook' = hook /\ token' = token /\ cookie' = cookie
      /\ hash' = hash /\ form' = [form EXCEPT !.busy = TRUE]
  BY DEF PageInv, Login, Idle, sessionVars, placeVars
<1>2. form' \in [busy : BOOLEAN]
  BY <1>1 DEF TabInv, FormTyped
<1>3. TabInv'
  BY <1>1, <1>2 DEF TabInv, FormTyped, RowPages
<1>4. PostsInv'
  <2>1. PostSound(Post("login", Credentials), route, now)
    BY <1>1, PostIsTyped, CredentialsAreGoodOrNot DEF Home, Kinds
  <2> QED BY <1>1, <2>1, SentKeeps DEF Login
<1>5. FlightInv'
  BY DEF Login, Idle, FlightInv
<1> QED BY <1>1, <1>3, <1>4, <1>5, AskStays, SimplePage, NowIsNumber DEF PageInv

LEMMA ServeLoginKeeps ==
  ASSUME PageInv, IInv, NEW i \in Slots, ServeLogin(i) PROVE PageInv'
<1>1. PICK st \in {"ok", "failed"} :
        posts' = [posts EXCEPT ![i].status = st, ![i].good = (st = "ok")]
  BY DEF ServeLogin
<1> DEFINE c == [posts[i] EXCEPT !.status = st, !.good = (st = "ok")]
<1>2. /\ TabInv /\ PostsInv /\ AskInv /\ FlightInv /\ posts[i] # None
      /\ posts[i].kind = "login"
      /\ UNCHANGED <<now, hook, calls, token, cookie, route, hash, form>>
  BY DEF PageInv, ServeLogin, Idle, sessionVars, placeVars
<1>3. posts' = [posts EXCEPT ![i] = c]
  BY <1>1, <1>2 DEF PostsInv
<1>4. PostSound(posts[i], route, now)
  BY <1>2 DEF PostsInv
<1>5. /\ c \in PostType /\ c.page = posts[i].page /\ c.kind = posts[i].kind
      /\ c.at = posts[i].at /\ c.done = posts[i].done /\ c.asked = posts[i].asked
      /\ c.got = posts[i].got
      /\ c.press = posts[i].press
  BY <1>4 DEF PostSound, PostType, Statuses
<1> HIDE DEF c
<1>6. PostSound(c, route, now)
  BY <1>2, <1>4, <1>5 DEF PostSound, Kinds
<1>7. PostsInv'
  BY <1>2, <1>3, <1>6, OnePostKeeps, NowIsNumber
<1>8. TabInv'
  BY <1>2 DEF TabInv
<1>9. FlightInv'
  BY <1>2, <1>3, <1>5, OnePostServed, IdleFlight DEF Idle
<1>10. PressInv'
  BY <1>2, <1>3, <1>5, OnePostServed, PressStays DEF PageInv
<1> QED BY <1>2, <1>7, <1>8, <1>9, <1>10, AskStays, FormStays, NowIsNumber DEF PageInv

LEMMA LoggedInKeeps ==
  ASSUME PageInv, IInv, NEW i \in Slots, LoggedIn(i) PROVE PageInv'
<1> DEFINE rest == [posts EXCEPT ![i] = None]
<1>1. /\ TabInv /\ PostsInv /\ AskInv /\ FlightInv /\ posts[i] # None
      /\ now' = now
      /\ token' = (IF posts[i].good THEN "good" ELSE "bad")
      /\ cookie' = posts[i].good
  BY DEF PageInv, LoggedIn
<1>2. posts[i].good \in BOOLEAN
  BY <1>1 DEF PostsInv, PostSound, PostType
<1>3. CASE route = "overview"
  <2>1. hash' = "overview" /\ posts' = rest /\ Idle /\ UNCHANGED <<route, form>>
    BY <1>3 DEF LoggedIn
  <2>2. TabInv'
    BY <1>1, <1>2, <2>1 DEF TabInv, Pages
  <2>3. PostsInv'
    BY <1>1, <2>1, OnePostKeeps, NowIsNumber
  <2>4. FlightInv'
    BY <1>1, <2>1, OnePostLess, IdleFlight
  <2> QED BY <1>1, <1>3, <2>1, <2>2, <2>3, <2>4, AskStays, SimplePage, NowIsNumber
       DEF PageInv, Idle
<1>4. CASE route # "overview"
  <2>1. Show("overview", rest, posts[i].good) /\ "overview" \in Pages
    BY <1>4 DEF LoggedIn, Pages
  <2>2. /\ rest \in [Slots -> PostType \cup {None}]
        /\ \A j \in Slots : rest[j] # None => PostSound(rest[j], route, now)
    BY <1>1, OnePostMoves, NowIsNumber
  <2> HIDE DEF rest
  <2> QED BY <1>1, <1>2, <2>1, <2>2, ShowKeeps
<1> QED BY <1>3, <1>4

LEMMA NotLoggedInKeeps ==
  ASSUME PageInv, IInv, NEW i \in Slots, NotLoggedIn(i) PROVE PageInv'
<1>1. /\ TabInv /\ PostsInv /\ AskInv /\ FlightInv /\ posts[i] # None
      /\ posts[i].kind = "login"
      /\ posts' = [posts EXCEPT ![i] = None]
      /\ UNCHANGED <<now, hook, calls, token, cookie, route, hash>>
      /\ form' = IF posts[i].page THEN [form EXCEPT !.busy = FALSE] ELSE form
  BY DEF PageInv, NotLoggedIn, Idle, sessionVars, placeVars
<1>2. PostsInv'
  BY <1>1, OnePostKeeps, NowIsNumber
<1>3. FlightInv'
  BY <1>1, OnePostLess, IdleFlight DEF Idle
<1>4. AskInv'
  BY <1>1, AskStays, NowIsNumber
<1>5. CASE ~posts[i].page
  <2>1. form' = form
    BY <1>1, <1>5
  <2>2. TabInv'
    BY <1>1, <2>1 DEF TabInv
  <2>3. PressInv'
    BY <1>1, <2>1, OnePostLess, PressStays DEF PageInv
  <2> QED BY <1>1, <1>2, <1>3, <1>4, <2>1, <2>2, <2>3, FormStays DEF PageInv
<1>6. CASE posts[i].page
  <2>1. route = "login"
    BY <1>1, <1>6 DEF PostsInv, PostSound, Home
  <2>2. form' \in [busy : BOOLEAN]
    BY <1>1, <1>6, <2>1 DEF TabInv, FormTyped
  <2>3. TabInv'
    BY <1>1, <2>1, <2>2 DEF TabInv, FormTyped, RowPages
  <2> QED BY <1>1, <1>2, <1>3, <1>4, <2>1, <2>3, SimplePage DEF PageInv
<1> QED BY <1>5, <1>6

LEMMA ExpireKeeps == PageInv /\ IInv /\ Expire => PageInv'
<1> SUFFICES ASSUME PageInv, IInv, Expire PROVE PageInv'
  OBVIOUS
<1>1. /\ TabInv /\ PostsInv /\ AskInv /\ FlightInv /\ PressInv
      /\ UNCHANGED <<now, hook, route, hash, form>>
      /\ token' = (IF token = "good" THEN "bad" ELSE token) /\ cookie' = FALSE
      /\ calls' = [h \in Hooks |-> Lapsed(calls[h])]
      /\ posts' = Lapsed(posts)
  BY DEF PageInv, Expire, placeVars
<1>2. TabInv'
  BY <1>1 DEF TabInv
<1>3. PostsInv'
  BY <1>1, LapsedKeeps
<1>4. FlightInv'
  <2>1. \A h \in Hooks, i \in Slots : calls'[h][i] # None => calls[h][i] # None
    BY <1>1 DEF Lapsed
  <2>2. \A i \in Slots : posts'[i] # None => posts[i] # None
    BY <1>1 DEF Lapsed
  <2> QED BY <1>1, <2>1, <2>2, FewerInFlight
<1>5. PressInv'
  <2>1. ASSUME NEW i \in Slots, Pressed(i)'
        PROVE  Pressed(i) /\ posts'[i].press = posts[i].press
    <3>1. posts[i] # None /\ posts'[i] = [posts[i] EXCEPT !.good = FALSE]
      BY <1>1, <2>1 DEF Pressed, Lapsed
    <3>2. posts[i] \in PostType
      BY <1>1, <3>1 DEF PostsInv, PostSound
    <3>3. /\ posts'[i].kind = posts[i].kind /\ posts'[i].page = posts[i].page
          /\ posts'[i].press = posts[i].press
      BY <3>1, <3>2 DEF PostType
    <3> QED BY <2>1, <3>1, <3>3 DEF Pressed
  <2> QED BY <1>1, <2>1, PressStays
<1> QED BY <1>1, <1>2, <1>3, <1>4, <1>5, AskStays, FormStays, NowIsNumber DEF PageInv

LEMMA MovingAboutKeeps ==
  ASSUME PageInv, IInv, (\E p \in Pages : Go(p)) \/ Follow \/ Logout
  PROVE  PageInv'
<1>1. TabInv /\ PostsInv /\ Credentials \in BOOLEAN
  BY CredentialsAreGoodOrNot DEF PageInv
<1>2. /\ posts \in [Slots -> PostType \cup {None}]
      /\ \A i \in Slots : posts[i] # None => PostSound(posts[i], route, now)
  BY <1>1 DEF PostsInv
<1>3. ASSUME NEW p \in Pages, Go(p) PROVE PageInv'
  <2> DEFINE shown == IF token = None THEN "login" ELSE p
  <2>1. Show(shown, posts, Credentials) /\ UNCHANGED <<now, token, cookie>>
    BY <1>3 DEF Go, sessionVars
  <2>2. shown \in Pages
    BY DEF Pages
  <2> HIDE DEF shown
  <2>3. token' \in {"good", "bad", None} /\ cookie' \in BOOLEAN
    BY <1>1, <2>1 DEF TabInv
  <2> QED BY <1>1, <1>2, <2>1, <2>2, <2>3, ShowKeeps
<1>4. CASE Follow
  <2>1. Show(hash, posts, Credentials) /\ UNCHANGED <<now, token, cookie>>
    BY <1>4 DEF Follow, sessionVars
  <2>2. hash \in Pages /\ token' \in {"good", "bad", None} /\ cookie' \in BOOLEAN
    BY <1>1, <2>1 DEF TabInv
  <2> QED BY <1>1, <1>2, <2>1, <2>2, ShowKeeps
<1>5. CASE Logout
  <2>1. Show("login", posts, FALSE) /\ now' = now /\ token' = None /\ cookie' = cookie
    BY <1>5 DEF Logout
  <2>2. "login" \in Pages /\ token' \in {"good", "bad", None} /\ cookie' \in BOOLEAN
    BY <1>1, <2>1 DEF TabInv, Pages
  <2> QED BY <1>1, <1>2, <2>1, <2>2, ShowKeeps
<1> QED BY <1>3, <1>4, <1>5
-----------------------------------------------------------------------------
(* The pages that work on one group *)

\* One hook is asked something, the other keeps what it has.
LEMMA OneHookAsked ==
  ASSUME NEW k \in {"first", "second"}, NEW q, NEW asks, asks = [x \in {k} |-> q],
         NEW good, Effects(hook, calls, {}, asks, good), IInv
  PROVE  /\ hook'[k].query = q /\ hook'[k].asked = now /\ hook'[k].mounted
         /\ hook'[k].loading
         /\ \A h \in Hooks : hook'[h].data = hook[h].data
         /\ \A h \in Hooks \ {k} : hook'[h] = hook[h]
         /\ FlightInv'
<1>1. k \in Hooks /\ DOMAIN asks = {k} /\ asks[k] = q
  BY HooksAssumption
<1>2. hook'[k] = Loading(hook[k], q)
  BY <1>1, EffectsAt
<1>3. \A h \in Hooks \ {k} : hook'[h] = hook[h]
  BY <1>1, EffectsAt
<1> QED BY <1>1, <1>2, <1>3 DEF Loading, Effects, FlightInv

LEMMA AskedAgain ==
  ASSUME AskInv, IInv, now' = now, route' = route,
         NEW k \in {"first", "second"}, NEW q \in Queries,
         NEW asks, asks = [x \in {k} |-> q],
         NEW good, Effects(hook, calls, {}, asks, good),
         k = "first" /\ route = "requests" => q \in Lists
  PROVE  AskInv'
<1>1. /\ hook'[k].query = q
      /\ \A h \in Hooks : hook'[h].data = hook[h].data
      /\ \A h \in Hooks \ {k} : hook'[h] = hook[h]
  BY OneHookAsked
<1>2. "first" \in Hooks /\ "second" \in Hooks
  BY HooksAssumption
<1>3. \A h \in Hooks : hook'[h].data # None => hook'[h].data.at <= now
  BY <1>1 DEF AskInv
<1>4. route \in RowPages => hook'["first"].query \in Queries
  BY <1>1, <1>2 DEF AskInv
<1>5. route = "clients" => hook'["second"].query \in Queries
  BY <1>1, <1>2 DEF AskInv
<1>6. route = "requests" =>
       /\ hook'["first"].query \in Lists
       /\ hook'["first"].data # None => hook'["first"].data.query \in Lists
  BY <1>1, <1>2 DEF AskInv
<1> QED BY <1>3, <1>4, <1>5, <1>6 DEF AskInv

\* A form of a page on one group, with the group changed and the action gone.
LEMMA ForNewGroupIsTyped ==
  ASSUME route \in GroupPage, NEW f, FormTyped(route, f),
         NEW g \in AllGroups \cup {None}
  PROVE  /\ FormTyped(route, [f EXCEPT !.group = g])
         /\ FormTyped(route, ForNewGroup(route, f))
         /\ route = "invoke" =>
              LET e == ForNewGroup(route, [f EXCEPT !.group = g]) IN
              /\ e.action = None /\ e.group = g
              /\ e.running = f.running /\ e.press = f.press /\ e.result = f.result
         /\ route = "invoke" =>
              LET e == ForNewGroup(route, f) IN
              /\ e.action = None /\ e.group = f.group
              /\ e.running = f.running /\ e.press = f.press /\ e.result = f.result
<1>1. CASE route = "invoke"
  <2> DEFINE T == [group : AllGroups \cup {None}, action : AllGroups \cup {None},
                   early : BOOLEAN, running : BOOLEAN, press : 0..MaxPress,
                   result : 0..MaxPress \cup {None}]
             h == [f EXCEPT !.group = g]
  <2>1. f \in T
    BY <1>1 DEF FormTyped
  <2>2. /\ h \in T /\ h.group = g /\ h.running = f.running /\ h.press = f.press
        /\ h.result = f.result
    BY <2>1
  <2>3. ASSUME NEW e \in T
        PROVE  LET d == ForNewGroup(route, e) IN
               /\ d \in T /\ d.action = None /\ d.group = e.group
               /\ d.running = e.running /\ d.press = e.press /\ d.result = e.result
    BY <1>1 DEF ForNewGroup
  <2>4. \A e \in T : FormTyped(route, e)
    BY <1>1 DEF FormTyped, RowPages
  <2> HIDE DEF T, h
  <2>5. LET d == ForNewGroup(route, f) IN
        /\ d \in T /\ d.action = None /\ d.group = f.group
        /\ d.running = f.running /\ d.press = f.press /\ d.result = f.result
    BY <2>1, <2>3
  <2>6. LET d == ForNewGroup(route, h) IN
        /\ d \in T /\ d.action = None /\ d.group = h.group
        /\ d.running = h.running /\ d.press = h.press /\ d.result = h.result
    BY <2>2, <2>3
  <2> QED BY <2>2, <2>4, <2>5, <2>6 DEF h
<1>2. CASE route = "clients"
  <2>1. f \in [group : AllGroups \cup {None}]
    BY <1>2 DEF FormTyped
  <2>2. [f EXCEPT !.group = g] \in [group : AllGroups \cup {None}]
    BY <2>1
  <2> QED BY <1>2, <2>1, <2>2 DEF FormTyped, RowPages, ForNewGroup
<1> QED BY <1>1, <1>2 DEF GroupPage

LEMMA GroupPageOnly ==
  ASSUME route' = route, route \in GroupPage
  PROVE  RowInv' /\ PageExists'
BY DEF RowInv, RowPages, PageExists, GroupPage

LEMMA ChooseGroupKeeps ==
  ASSUME PageInv, IInv, NEW g \in AllGroups, ChooseGroup(g) PROVE PageInv'
<1> DEFINE f == [form EXCEPT !.group = g]
           asks == [x \in {"second"} |-> About(route, g)]
<1>1. /\ route \in GroupPage /\ form' = ForNewGroup(route, f) /\ posts' = posts
      /\ Effects(hook, calls, {}, asks, Credentials)
      /\ UNCHANGED <<now, token, cookie, route, hash>>
  BY AsksOfOne DEF ChooseGroup, Here, sessionVars, placeVars
<1>2. TabInv /\ PostsInv /\ AskInv /\ GroupInv /\ PressInv /\ FormTyped(route, form)
  BY DEF PageInv, TabInv
<1>3. FormTyped(route, form')
  <2>1. FormTyped(route, f)
    BY <1>1, <1>2, ForNewGroupIsTyped
  <2> QED BY <1>1, <1>2, <2>1, ForNewGroupIsTyped
<1>4. route = "invoke" => /\ form'.action = None /\ form'.group = g
                          /\ form'.running = form.running
                          /\ form'.press = form.press /\ form'.result = form.result
  BY <1>1, <1>2, ForNewGroupIsTyped
<1>5. TabInv'
  BY <1>1, <1>2, <1>3 DEF TabInv
<1>6. PostsInv'
  BY <1>1, <1>2, PostsStay, NowIsNumber
<1>7. FlightInv' /\ hook'["first"] = hook["first"]
  BY <1>1, OneHookAsked, HooksAssumption
<1>8. AskInv'
  BY <1>1, <1>2, AskedAgain, GroupsAssumption
<1>9. GroupInv'
  <2>1. /\ hook'["second"].query = About(route, g) /\ hook'["second"].mounted
        /\ hook'["second"].data = hook["second"].data
    BY <1>1, OneHookAsked, HooksAssumption
  <2>2. route = "invoke" => Group' = g /\ g # None
    BY <1>4, GroupsAssumption DEF Group, EffGroup
  <2> QED BY <1>1, <1>2, <1>4, <1>7, <2>1, <2>2
          DEF GroupInv, SettledActionOfGroup, MenuInv, Group
<1>10. PressInv'
  <2>1. \A i \in Slots : Pressed(i)' => Pressed(i) /\ posts'[i].press = posts[i].press
    BY <1>1 DEF Pressed
  <2> QED BY <1>1, <1>2, <1>4, <2>1, PressStays
<1> QED BY <1>1, <1>5, <1>6, <1>7, <1>8, <1>9, <1>10, GroupPageOnly DEF PageInv

LEMMA GroupIsListed ==
  ASSUME PageInv, IInv, route = "invoke" PROVE Group \in AllGroups \cup {None}
<1>1. TabInv /\ AskInv /\ form.group \in AllGroups \cup {None}
  BY DEF PageInv, TabInv, FormTyped
<1>2. CASE Group = form.group
  BY <1>1, <1>2
<1>3. CASE Group # form.group
  <2> DEFINE d == hook.first.data
  <2>1. Listed(hook.first) # <<>> /\ Group = Head(Listed(hook.first))
    BY <1>3 DEF Group, EffGroup
  <2>2. d # None /\ Listed(hook.first) = GroupsAt[d.at]
    BY <2>1 DEF Listed
  <2>3. d.at \in 0..MaxNow
    <3>1. d.at \in Nat
      BY <2>2, HooksAssumption DEF IInv, Sound, Typed, FetchState, Data
    <3>2. d.at <= now
      BY <1>1, <2>2, HooksAssumption DEF AskInv
    <3> QED BY <1>1, <3>1, <3>2, NowAssumption DEF TabInv
  <2>4. Listed(hook.first) \in Seq(AllGroups)
    BY <2>2, <2>3, GroupsAssumption, NowAssumption
  <2> QED BY <2>1, <2>4
<1> QED BY <1>2, <1>3

\* An option that is offered is of some group, and once the group's own have
\* come, of the group that is chosen.
LEMMA OptionsAreOfGroup ==
  ASSUME PageInv, IInv, route = "invoke", hook.second.data # None
  PROVE  /\ hook.second.data.query[2] \in AllGroups
         /\ hook.second.loading \/ hook.second.data.query[2] = Group
<1>1. PICK g \in AllGroups : hook.second.data.query = About("invoke", g)
  BY DEF PageInv, GroupInv, MenuInv
<1>2. hook.second.data.query[2] = g
  BY <1>1 DEF About
<1>3. ASSUME ~hook.second.loading PROVE g = Group
  <2>1. hook.second.query = About("invoke", Group) /\ hook.second.mounted
    BY DEF PageInv, GroupInv, MenuInv
  <2>2. hook.second.data.query = hook.second.query
    BY <1>3, <2>1, HooksAssumption DEF IInv, Sound, Shows
  <2> QED BY <1>1, <2>1, <2>2 DEF About
<1> QED BY <1>2, <1>3

\* setAction: an action is typed, picked, or cleared.
LEMMA ActionKeeps ==
  ASSUME PageInv, IInv, TypeAction \/ PickAction \/ ClearAction PROVE PageInv'
<1> DEFINE T == [group : AllGroups \cup {None}, action : AllGroups \cup {None},
                 early : BOOLEAN, running : BOOLEAN, press : 0..MaxPress,
                 result : 0..MaxPress \cup {None}]
<1>1. PICK a, b :
        /\ route = "invoke" /\ form' = [form EXCEPT !.action = a, !.early = b]
        /\ posts' = posts /\ hook' = hook /\ calls' = calls
        /\ UNCHANGED <<now, token, cookie, route, hash>>
        /\ \/ a \in {Group, None} /\ b = FALSE
           \/ /\ hook.second.data # None /\ a = hook.second.data.query[2]
              /\ b = hook.second.loading
  BY DEF TypeAction, PickAction, ClearAction, Here, Idle, sessionVars, placeVars
<1>2. TabInv /\ PostsInv /\ AskInv /\ GroupInv /\ PressInv /\ FlightInv /\ form \in T
  BY <1>1 DEF PageInv, TabInv, FormTyped
<1>3. /\ a \in AllGroups \cup {None} /\ b \in BOOLEAN
      /\ a = None \/ b \/ a = Group
  <2>1. hook.second.loading \in BOOLEAN
    BY HooksAssumption DEF IInv, Sound, Typed, FetchState
  <2> QED BY <1>1, <2>1, GroupIsListed, OptionsAreOfGroup
<1>4. /\ form' \in T /\ form'.action = a /\ form'.early = b
      /\ form'.group = form.group
      /\ form'.running = form.running /\ form'.press = form.press
      /\ form'.result = form.result
  BY <1>1, <1>2, <1>3
<1>5. TabInv'
  BY <1>1, <1>2, <1>4 DEF TabInv, FormTyped, RowPages
<1>6. PostsInv'
  BY <1>1, <1>2, PostsStay, NowIsNumber
<1>7. FlightInv'
  BY <1>1, <1>2 DEF FlightInv
<1>8. GroupInv'
  <2>1. Group' = Group
    BY <1>1, <1>4 DEF Group, EffGroup, Listed
  <2>2. SettledActionOfGroup'
    BY <1>3, <1>4, <2>1 DEF SettledActionOfGroup, Group
  <2> QED BY <1>1, <1>2, <2>1, <2>2 DEF GroupInv, MenuInv
<1>9. PressInv'
  <2>1. \A i \in Slots : Pressed(i)' => Pressed(i) /\ posts'[i].press = posts[i].press
    BY <1>1 DEF Pressed
  <2> QED BY <1>1, <1>2, <1>4, <2>1, PressStays
<1>10. route \in GroupPage
  BY <1>1 DEF GroupPage
<1> QED BY <1>1, <1>2, <1>5, <1>6, <1>7, <1>8, <1>9, <1>10, AskStays, GroupPageOnly,
           NowIsNumber DEF PageInv

LEMMA InvokeKeeps == PageInv /\ IInv /\ Invoke => PageInv'
<1> SUFFICES ASSUME PageInv, IInv, Invoke PROVE PageInv'
  OBVIOUS
<1> DEFINE T == [group : AllGroups \cup {None}, action : AllGroups \cup {None},
                 early : BOOLEAN, running : BOOLEAN, press : 0..MaxPress,
                 result : 0..MaxPress \cup {None}]
           r == [Post("invoke", token = "good") EXCEPT !.press = form.press + 1]
<1>1. /\ route = "invoke" /\ ~form.running /\ form.press < MaxPress
      /\ form' = [form EXCEPT !.running = TRUE, !.press = @ + 1, !.result = None]
      /\ Sends(r) /\ InFlight(calls, posts') <= MaxFlight
      /\ UNCHANGED <<now, token, cookie, route, hash, hook, calls>>
  BY DEF Invoke, MayPress, Here, Idle, sessionVars, placeVars
<1>2. TabInv /\ PostsInv /\ AskInv /\ GroupInv /\ PressInv /\ form \in T
  BY <1>1 DEF PageInv, TabInv, FormTyped
<1>3. form.press + 1 \in 0..MaxPress
  BY <1>1, <1>2, GroupsAssumption
<1>4. /\ form' \in T /\ form'.action = form.action /\ form'.group = form.group
      /\ form'.early = form.early
      /\ form'.running /\ form'.press = form.press + 1 /\ form'.result = None
  BY <1>1, <1>2, <1>3
<1>5. TabInv'
  BY <1>1, <1>2, <1>4 DEF TabInv, FormTyped, RowPages
<1>6. PostSound(r, route, now) /\ r.press = form.press + 1
  <2>1. PostSound(Post("invoke", token = "good"), route, now)
    BY <1>1, <1>2, PostIsTyped DEF Home, Kinds
  <2> DEFINE p == Post("invoke", token = "good")
  <2>2. p \in PostType /\ p.kind = "invoke"
    BY <2>1 DEF PostSound, Post
  <2> HIDE DEF p
  <2>3. /\ r \in PostType /\ r.kind = p.kind /\ r.page = p.page /\ r.at = p.at
        /\ r.asked = p.asked /\ r.done = p.done /\ r.got = p.got
        /\ r.press = form.press + 1
    BY <1>3, <2>2 DEF PostType, p
  <2> HIDE DEF r
  <2> QED BY <2>1, <2>2, <2>3 DEF PostSound, Kinds, p
<1> HIDE DEF r
<1>7. PostsInv'
  BY <1>1, <1>2, <1>6, SentKeeps
<1>8. GroupInv'
  BY <1>1, <1>2, <1>4 DEF GroupInv, SettledActionOfGroup, MenuInv, Group, EffGroup, Listed
<1>9. PressInv'
  <2>1. \A i \in Slots : ~Pressed(i)
    BY <1>1, <1>2 DEF PressInv
  <2>2. \A i \in Slots : i # FreeSlot(posts) => posts'[i] = posts[i]
    BY <1>1, <1>2 DEF Sends, Sent, PostsInv
  <2>3. FreeSlot(posts) \in Slots => posts'[FreeSlot(posts)] = r
    BY <1>1, <1>2 DEF Sends, Sent, PostsInv
  <2>4. \A i \in Slots : Pressed(i)' => i = FreeSlot(posts)
    BY <2>1, <2>2 DEF Pressed
  <2> QED BY <1>4, <1>6, <2>3, <2>4 DEF PressInv
<1>10. route \in GroupPage
  BY <1>1 DEF GroupPage
<1>11. FlightInv'
  BY <1>1 DEF FlightInv
<1> QED BY <1>1, <1>2, <1>5, <1>7, <1>8, <1>9, <1>10, <1>11, AskStays, GroupPageOnly,
           NowIsNumber DEF PageInv
-----------------------------------------------------------------------------
(* The pages that only read *)

LEMMA PollKeeps == PageInv /\ IInv /\ Poll => PageInv'
<1> SUFFICES ASSUME PageInv, IInv, Poll PROVE PageInv'
  OBVIOUS
<1> DEFINE r == Post("poll", Credentials)
<1>1. /\ route = "overview" /\ Sends(r) /\ InFlight(calls, posts') <= MaxFlight
      /\ UNCHANGED <<now, token, cookie, route, hash, hook, calls, form>>
  BY DEF Poll, Stays, Idle, sessionVars, placeVars
<1>2. TabInv /\ PostsInv /\ AskInv
  BY DEF PageInv
<1>3. PostSound(r, route, now)
  BY <1>1, <1>2, PostIsTyped, CredentialsAreGoodOrNot DEF Home, Kinds
<1> HIDE DEF r
<1>4. PostsInv'
  BY <1>1, <1>2, <1>3, SentKeeps
<1>5. TabInv' /\ FlightInv'
  BY <1>1, <1>2 DEF TabInv, FlightInv
<1> QED BY <1>1, <1>2, <1>4, <1>5, AskStays, SimplePage, NowIsNumber DEF PageInv

LEMMA RequestsPageOnly ==
  ASSUME route' = route, route = "requests"
  PROVE  RowInv' /\ GroupInv' /\ PressInv'
BY DEF RowInv, RowPages, GroupInv, GroupPage, SettledActionOfGroup, MenuInv, PressInv

LEMMA RelistKeeps ==
  ASSUME PageInv, IInv, route = "requests", NEW f, FormTyped(route, f), Relist(f),
         f.page > 1 /\ ~f.blind => f.page <= PagesAt[f.filter][f.turned]
  PROVE  PageInv'
<1> DEFINE asks == [x \in {"first"} |-> List(f)]
<1>1. /\ form' = f /\ posts' = posts
      /\ Idle \/ Effects(hook, calls, {}, asks, Credentials)
      /\ UNCHANGED <<now, token, cookie, route, hash>>
  BY AsksOfOne DEF Relist, Stays, sessionVars, placeVars
<1>2. TabInv /\ PostsInv /\ AskInv /\ FlightInv
  BY DEF PageInv
<1>3. TabInv'
  BY <1>1, <1>2 DEF TabInv
<1>4. PostsInv'
  BY <1>1, <1>2, PostsStay, NowIsNumber
<1>5. PageExists'
  BY <1>1 DEF PageExists
<1>6. AskInv' /\ FlightInv'
  <2>1. CASE Idle
    BY <1>1, <1>2, <2>1, AskStays, NowIsNumber DEF Idle, FlightInv
  <2>2. CASE Effects(hook, calls, {}, asks, Credentials)
    <3>1. List(f) \in Lists /\ List(f) \in Queries
      BY ListIsAsked
    <3> QED BY <1>1, <1>2, <2>2, <3>1, AskedAgain, OneHookAsked
  <2> QED BY <1>1, <2>1, <2>2
<1> QED BY <1>1, <1>3, <1>4, <1>5, <1>6, RequestsPageOnly DEF PageInv

LEMMA RefreshKeeps ==
  ASSUME PageInv, IInv, NEW p \in Pages, NEW h \in Hooks, Refresh(p, h) PROVE PageInv'
<1> DEFINE q == hook[h].query
           asks == [x \in {h} |-> q]
<1>1. /\ route = p /\ form' = form /\ posts' = posts
      /\ <<p, h>> \in {<<"requests", "first">>, <<"clients", "second">>}
      /\ Effects(hook, calls, {}, asks, Credentials)
      /\ UNCHANGED <<now, token, cookie, route, hash>>
  BY DEF Refresh, Stays, sessionVars, placeVars
<1>2. TabInv /\ PostsInv /\ AskInv /\ FlightInv /\ GroupInv
  BY DEF PageInv
<1>3. /\ q \in Queries /\ h \in {"first", "second"}
      /\ h = "first" /\ route = "requests" => q \in Lists
  BY <1>1, <1>2, ListsAreQueries DEF AskInv
<1>4. TabInv'
  BY <1>1, <1>2 DEF TabInv
<1>5. PostsInv'
  BY <1>1, <1>2, PostsStay, NowIsNumber
<1> HIDE DEF q
<1>6. AskInv' /\ FlightInv' /\ \A x \in Hooks \ {h} : hook'[x] = hook[x]
  BY <1>1, <1>2, <1>3, AskedAgain, OneHookAsked
<1>7. CASE route = "requests"
  <2>1. PageExists'
    BY <1>1 DEF PageExists, PageInv
  <2> QED BY <1>1, <1>4, <1>5, <1>6, <1>7, <2>1, RequestsPageOnly DEF PageInv
<1>8. CASE route = "clients"
  <2>1. hook'["first"] = hook["first"]
    BY <1>1, <1>6, <1>8, HooksAssumption
  <2>2. GroupInv' /\ PressInv' /\ route \in GroupPage
    BY <1>1, <1>2, <1>8, <2>1 DEF GroupInv, GroupPage, SettledActionOfGroup, MenuInv, PressInv
  <2> QED BY <1>1, <1>4, <1>5, <1>6, <2>2, GroupPageOnly DEF PageInv
<1> QED BY <1>1, <1>7, <1>8

LEMMA ListPageKeeps ==
  ASSUME PageInv, IInv,
         \/ Poll \/ Turn
         \/ \E x \in Filters : SetFilter(x)
         \/ \E p \in Pages, h \in Hooks : Refresh(p, h)
  PROVE  PageInv'
<1>1. CASE Turn
  <2>1. PICK f \in Turned(form, hook.first) : Relist(f)
    BY <1>1 DEF Turn
  <2>2. route = "requests" /\ TabInv /\ AskInv /\ PageExists
    BY <1>1 DEF Turn, PageInv
  <2>3. /\ FormTyped(route, f)
        /\ f.page > 1 /\ ~f.blind => f.page <= PagesAt[f.filter][f.turned]
    BY <2>2, TurnedIsTyped
  <2> QED BY <2>1, <2>2, <2>3, RelistKeeps
<1>2. ASSUME NEW x \in Filters, SetFilter(x) PROVE PageInv'
  <2>1. route = "requests" /\ Relist(Filtered(form, x)) /\ TabInv
    BY <1>2 DEF SetFilter, PageInv
  <2>2. FormTyped(route, Filtered(form, x)) /\ Filtered(form, x).page = 1
    BY <2>1, FilteredIsTyped
  <2> QED BY <2>1, <2>2, RelistKeeps
<1> QED BY <1>1, <1>2, PollKeeps, RefreshKeeps

-----------------------------------------------------------------------------
(* The pages that change what they list *)

RowForm ==
  [dialog : {None, "confirm", "create", "edit"}, list : Filters,
   known : 0..MaxNow, missed : {{}}]

LEMMA RowFormIsTyped ==
  ASSUME route \in RowPages, NEW f
  PROVE  FormTyped(route, f) <=> f \in RowForm
BY DEF FormTyped, RowPages, RowForm

LEMMA RowPageOnly ==
  ASSUME route' = route, route \in RowPages
  PROVE  GroupInv' /\ PressInv' /\ PageExists'
BY DEF RowPages, GroupInv, GroupPage, SettledActionOfGroup, MenuInv, PressInv, PageExists

\* The list is loaded again, with a form and posts that are in order.
LEMMA ReloadKeeps ==
  ASSUME PageInv, IInv, route \in RowPages, now' = now,
         token' \in {"good", "bad", None}, UNCHANGED <<cookie, route>>, hash' \in Pages,
         NEW f \in RowForm, f.known <= now, NEW q \in Queries,
         NEW ps \in [Slots -> PostType \cup {None}],
         \A i \in Slots : ps[i] # None => PostSound(ps[i], route, now),
         Reloading(f, ps, q)
  PROVE  PageInv'
<1> DEFINE asks == [x \in {"first"} |-> q]
<1>1. /\ form' = WithoutTable(f) /\ posts' = TableLeft(ps)
      /\ Effects(hook, calls, {}, asks, Credentials)
  BY AsksOfOne DEF Reloading
<1>2. TabInv /\ PostsInv /\ AskInv
  BY DEF PageInv
<1>3. form' \in RowForm /\ form'.known = f.known
  BY <1>1 DEF WithoutTable, RowForm
<1>4. TabInv'
  BY <1>2, <1>3, RowFormIsTyped DEF TabInv
<1>5. PostsInv'
  BY <1>1, <1>2, TableLeftKeeps
<1>6. FlightInv' /\ hook'["first"].asked = now /\ hook'["first"].mounted
  BY <1>1, OneHookAsked
<1>7. AskInv'
  <2>1. route # "requests"
    BY DEF RowPages
  <2> QED BY <1>1, <1>2, <2>1, AskedAgain
<1>8. RowInv'
  BY <1>3, <1>6 DEF RowInv
<1> QED BY <1>4, <1>5, <1>6, <1>7, <1>8, RowPageOnly DEF PageInv

\* The hooks are left alone, and so is what is known.
LEMMA RowsStay ==
  ASSUME PageInv, IInv, route \in RowPages, now' = now, Idle,
         UNCHANGED <<cookie, route>>, hash' \in Pages,
         token' \in {"good", "bad", None},
         form' \in RowForm, form'.known = form.known, PostsInv', FlightInv'
  PROVE  PageInv'
<1>1. TabInv /\ AskInv /\ RowInv
  BY DEF PageInv
<1>2. TabInv'
  BY <1>1, RowFormIsTyped DEF TabInv
<1>3. RowInv'
  BY <1>1 DEF RowInv, Idle
<1> QED BY <1>1, <1>2, <1>3, AskStays, RowPageOnly, NowIsNumber DEF PageInv, Idle
LEMMA KnownIsPast ==
  ASSUME PageInv, IInv, route \in RowPages
  PROVE  form \in RowForm /\ form.known <= now /\ hook.first.query \in Queries
<1>1. form \in RowForm
  BY RowFormIsTyped DEF PageInv, TabInv
<1>2. form.known <= hook.first.asked /\ hook.first.query \in Queries
  BY DEF PageInv, RowInv, AskInv
<1>3. hook.first.asked \in Nat /\ hook.first.asked <= now /\ now \in Nat
  BY HooksAssumption DEF IInv, Sound, Typed, FetchState
<1>4. form.known \in Nat
  BY <1>1, NowAssumption DEF RowForm
<1> QED BY <1>1, <1>2, <1>3, <1>4

LEMMA DialogChanges ==
  ASSUME NEW f \in RowForm, NEW d \in {None, "confirm", "create", "edit"}
  PROVE  [f EXCEPT !.dialog = d] \in RowForm /\ [f EXCEPT !.dialog = d].known = f.known
BY DEF RowForm

\* What a submission sends is a post, with something to do.
LEMMA WriteIsSound ==
  ASSUME TabInv, route \in RowPages, NEW kind \in Kinds, NEW parts \in SUBSET Parts,
         parts # {}
  PROVE  PostSound(Write(kind, parts), route, now)
<1> DEFINE p == Post(kind, Credentials)
<1>1. p \in PostType
  BY PostIsTyped, CredentialsAreGoodOrNot
<1>2. /\ p.kind = kind /\ p.at = 0 /\ p.done = {} /\ p.got = {}
      /\ p.status = "pending"
  BY DEF Post
<1>3. /\ Write(kind, parts) \in PostType /\ Write(kind, parts).kind = kind
      /\ Write(kind, parts).at = 0 /\ Write(kind, parts).done = {}
      /\ Write(kind, parts).asked = parts /\ Write(kind, parts).got = {}
      /\ Write(kind, parts).status = "pending"
  <2>1. ASSUME NEW b \in BOOLEAN
        PROVE  LET w == [p EXCEPT !.row = b, !.asked = parts] IN
               /\ w \in PostType /\ w.kind = p.kind /\ w.at = p.at /\ w.done = p.done
               /\ w.asked = parts /\ w.got = p.got /\ w.status = p.status
    <3> HIDE DEF p
    <3> QED BY <1>1 DEF PostType
  <2>2. (kind \in OfRow) \in BOOLEAN
    OBVIOUS
  <2>3. LET w == [p EXCEPT !.row = (kind \in OfRow), !.asked = parts] IN
        /\ w \in PostType /\ w.kind = p.kind /\ w.at = p.at /\ w.done = p.done
        /\ w.asked = parts /\ w.got = p.got /\ w.status = p.status
    <3> HIDE DEF p
    <3> QED BY <2>1, <2>2
  <2> QED BY <1>2, <2>3 DEF Write
<1>4. route \in Home(kind)
  BY DEF Home, Kinds
<1> QED BY <1>3, <1>4, NowIsNumber DEF PostSound

LEMMA RowPageKeeps ==
  ASSUME PageInv, IInv,
         \/ RefreshRows \/ CloseDialog
         \/ \E x \in Filters : SetStatus(x)
         \/ \E kind \in Kinds : \/ OpenDialog(kind)
                                \/ \E parts \in SUBSET Parts : Submit(kind, parts)
  PROVE  PageInv'
<1>1. TabInv /\ PostsInv /\ FlightInv /\ hash \in Pages /\ token \in {"good", "bad", None}
  BY DEF PageInv, TabInv
<1>2. /\ posts \in [Slots -> PostType \cup {None}]
      /\ \A i \in Slots : posts[i] # None => PostSound(posts[i], route, now)
  BY <1>1 DEF PostsInv
<1>3. CASE RefreshRows
  <2>1. /\ route \in RowPages /\ Reloading(form, posts, hook.first.query)
        /\ UNCHANGED <<now, token, cookie, route, hash>>
    BY <1>3 DEF RefreshRows, OnPage, sessionVars, placeVars
  <2> QED BY <1>1, <1>2, <2>1, KnownIsPast, ReloadKeeps
<1>4. ASSUME NEW x \in Filters, SetStatus(x) PROVE PageInv'
  <2> DEFINE f == [form EXCEPT !.list = x]
  <2>1. /\ route \in RowPages /\ Reloading(f, posts, <<"devices", x>>)
        /\ UNCHANGED <<now, token, cookie, route, hash>>
    BY <1>4 DEF SetStatus, OnPage, sessionVars, placeVars, RowPages
  <2>2. f \in RowForm /\ f.known = form.known
    BY <2>1, KnownIsPast DEF RowForm
  <2>3. <<"devices", x>> \in Queries
    BY FiltersAssumption
  <2> HIDE DEF f
  <2> QED BY <1>1, <1>2, <2>1, <2>2, <2>3, KnownIsPast, ReloadKeeps
<1>5. ASSUME NEW d \in {None, "confirm", "create", "edit"}, route \in RowPages,
             form' = [form EXCEPT !.dialog = d], posts' = posts, Idle, OnPage
      PROVE  PageInv'
  <2>1. form' \in RowForm /\ form'.known = form.known
    BY <1>5, KnownIsPast, DialogChanges
  <2>2. UNCHANGED <<now, token, cookie, route, hash>>
    BY <1>5 DEF OnPage, sessionVars, placeVars
  <2>3. PostsInv' /\ FlightInv'
    BY <1>1, <1>5, <2>2, PostsStay, NowIsNumber DEF FlightInv, Idle
  <2>4. token' \in {"good", "bad", None}
    BY <1>1, <2>2 DEF TabInv
  <2> QED BY <1>1, <1>5, <2>1, <2>2, <2>3, <2>4, RowsStay
<1>6. CASE CloseDialog
  BY <1>5, <1>6 DEF CloseDialog
<1>7. ASSUME NEW kind \in Kinds, OpenDialog(kind) PROVE PageInv'
  <2>1. kind \in {"confirm", "create", "edit"}
    BY <1>7 DEF OpenDialog, Kinds
  <2> QED BY <1>5, <1>7, <2>1 DEF OpenDialog
<1>8. ASSUME NEW kind \in Kinds, NEW parts \in SUBSET Parts, Submit(kind, parts)
      PROVE  PageInv'
  <2>1. /\ route \in RowPages /\ UNCHANGED <<now, token, cookie, route, hash>>
    BY <1>8 DEF Submit, OnPage, sessionVars, placeVars
  <2>2. token' \in {"good", "bad", None}
    BY <1>1, <2>1 DEF TabInv
  <2>3. CASE parts = {}
    <3> DEFINE c == Write(kind, parts)
               f == Saved(form, c)
    <3>1. Reloading(f, posts, hook.first.query)
      BY <1>8, <2>3 DEF Submit
    <3>2. c.asked = {}
      BY <2>3 DEF Write, Post
    <3> HIDE DEF c
    <3>3. f \in RowForm /\ f.known = form.known
      BY <2>1, <3>2, KnownIsPast DEF Saved, RowForm
    <3> HIDE DEF f
    <3> QED BY <1>1, <1>2, <2>1, <3>1, <3>3, KnownIsPast, ReloadKeeps
  <2>4. CASE parts # {}
    <3>1. /\ form' = (IF kind = "confirm" THEN [form EXCEPT !.dialog = None] ELSE form)
          /\ Sends(Write(kind, parts)) /\ InFlight(calls, posts') <= MaxFlight
          /\ Idle
      BY <1>8, <2>4 DEF Submit
    <3>2. form' \in RowForm /\ form'.known = form.known
      BY <2>1, <3>1, KnownIsPast, DialogChanges
    <3>3. PostsInv'
      BY <1>1, <2>1, <2>4, <3>1, WriteIsSound, SentKeeps
    <3>4. FlightInv'
      BY <3>1 DEF FlightInv, Idle
    <3> QED BY <1>1, <2>1, <2>2, <3>1, <3>2, <3>3, <3>4, RowsStay
  <2> QED BY <2>3, <2>4
<1> QED BY <1>3, <1>4, <1>6, <1>7, <1>8

-----------------------------------------------------------------------------
(* The server *)

LEMMA TickKeeps == PageInv /\ IInv /\ Tick => PageInv'
<1> SUFFICES ASSUME PageInv, IInv, Tick PROVE PageInv'
  OBVIOUS
<1>1. /\ now < MaxNow /\ now' = now + 1
      /\ UNCHANGED <<hook, calls, token, cookie, route, hash, form, posts>>
  BY DEF Tick, Idle, sessionVars, placeVars
<1>2. TabInv /\ PostsInv /\ AskInv /\ FlightInv /\ PressInv
  BY DEF PageInv
<1>3. now' \in Nat /\ now <= now' /\ now' \in 0..MaxNow
  BY <1>1, <1>2, NowAssumption DEF TabInv
<1>4. TabInv' /\ FlightInv'
  BY <1>1, <1>2, <1>3 DEF TabInv, FlightInv
<1>5. PressInv'
  BY <1>1, <1>2 DEF PressInv, Pressed
<1> QED BY <1>1, <1>2, <1>3, <1>4, <1>5, PostsStay, AskStays, FormStays DEF PageInv

LEMMA ServeCallKeeps ==
  ASSUME PageInv, IInv, Functions, NEW h \in Hooks, NEW i \in Slots, ServeCall(h, i)
  PROVE  PageInv'
<1>1. UNCHANGED <<now, hook, token, cookie, route, hash, form, posts>>
  BY DEF ServeCall, sessionVars, placeVars
<1>2. TabInv /\ PostsInv /\ AskInv /\ FlightInv /\ PressInv
  BY DEF PageInv
<1>3. PICK st : calls' = [calls EXCEPT ![h][i] = Answered(calls[h][i], st)]
  BY DEF ServeCall
<1>4. calls[h][i] # None
  BY DEF ServeCall, Waiting
<1>5. \A k \in Hooks, j \in Slots : calls'[k][j] # None => calls[k][j] # None
  BY <1>3, <1>4 DEF Functions
<1>6. FlightInv'
  BY <1>1, <1>2, <1>5, FewerInFlight
<1>7. TabInv' /\ PressInv'
  BY <1>1, <1>2 DEF TabInv, PressInv, Pressed
<1> QED BY <1>1, <1>2, <1>6, <1>7, PostsStay, AskStays, FormStays, NowIsNumber DEF PageInv

\* One post is served.
LEMMA ServedKeeps ==
  ASSUME PageInv, IInv, NEW i \in Slots, posts[i] # None, NEW c,
         posts' = [posts EXCEPT ![i] = c], now' \in 0..MaxNow, now <= now',
         PostSound(c, route, now'),
         c.kind = posts[i].kind, c.page = posts[i].page, c.press = posts[i].press,
         Idle, UNCHANGED <<form, token, cookie, route, hash>>
  PROVE  PageInv'
<1>1. TabInv /\ PostsInv /\ AskInv /\ FlightInv /\ PressInv /\ now' \in Nat
  BY NowAssumption DEF PageInv
<1>2. TabInv'
  BY <1>1 DEF TabInv
<1>3. PostsInv'
  BY <1>1, OnePostKeeps
<1>4. FlightInv'
  BY <1>1, OnePostServed, IdleFlight
<1>5. PressInv'
  BY <1>1, OnePostServed, PressStays
<1> QED BY <1>1, <1>2, <1>3, <1>4, <1>5, AskStays, FormStays DEF PageInv, Idle

LEMMA ServePostKeeps ==
  ASSUME PageInv, IInv, NEW i \in Slots, ServePost(i) PROVE PageInv'
<1> DEFINE c == posts[i]
<1>1. /\ c # None /\ c.kind \in {"poll", "invoke"}
      /\ Idle /\ UNCHANGED <<now, token, cookie, route, hash, form>>
  BY DEF ServePost, Waiting, sessionVars, placeVars
<1>2. PICK st \in {"ok", "failed", "refused"} :
        posts' = [posts EXCEPT ![i].status = st, ![i].good = FALSE,
                               ![i].at = IF c.kind = "poll" THEN now ELSE @]
  BY DEF ServePost, Checked
<1> DEFINE d == [c EXCEPT !.status = st, !.good = FALSE,
                          !.at = IF c.kind = "poll" THEN now ELSE @]
<1>3. posts' = [posts EXCEPT ![i] = d]
  BY <1>1, <1>2 DEF PageInv, PostsInv
<1>4. PostSound(c, route, now) /\ TabInv
  BY <1>1 DEF PageInv, PostsInv
<1>5. /\ d \in PostType /\ d.kind = c.kind /\ d.page = c.page /\ d.press = c.press
      /\ d.asked = c.asked /\ d.done = c.done /\ d.got = c.got
      /\ d.at = (IF c.kind = "poll" THEN now ELSE c.at)
  BY <1>4, NowIsNumber DEF PostSound, PostType, Statuses
<1> HIDE DEF d
<1>6. PostSound(d, route, now)
  BY <1>1, <1>4, <1>5, NowIsNumber DEF PostSound, Kinds
<1> QED BY <1>1, <1>3, <1>4, <1>5, <1>6, ServedKeeps, NowIsNumber

\* The part of a write that is on its way is one of those not yet seen to succeed.
LEMMA NextPartIsLeft ==
  ASSUME NEW c, c.asked \subseteq Parts, c.got \subseteq c.asked, c.asked # c.got
  PROVE  NextPart(c) \in c.asked \ c.got
<1> DEFINE left == c.asked \ c.got
<1>1. \E x \in left : x = "password" => left = {"password"}
  <2>1. CASE left = {"password"}
    BY <2>1
  <2>2. CASE left # {"password"}
    <3>1. left # {}
      OBVIOUS
    <3>2. \E x \in left : x # "password"
      BY <2>2, <3>1
    <3> QED BY <3>2
  <2> QED BY <2>1, <2>2
<1> QED BY <1>1 DEF NextPart

LEMMA ServeWriteKeeps ==
  ASSUME PageInv, IInv, NEW i \in Slots, ServeWrite(i) PROVE PageInv'
<1> DEFINE c == posts[i]
<1>1. /\ c # None /\ c.kind \in Kinds /\ c.status = "pending"
      /\ Idle /\ UNCHANGED <<token, cookie, route, hash, form>>
  BY DEF ServeWrite, Waiting, sessionVars, placeVars
<1>2. PostSound(c, route, now) /\ TabInv
  BY <1>1 DEF PageInv, PostsInv
<1>3. ASSUME now < MaxNow, now' = now + 1, NEW st \in {"ok", "failed"},
             posts' = [posts EXCEPT ![i] = Effected(c, st)]
      PROVE  PageInv'
  <2> DEFINE d == Effected(c, st)
  <2>1. now' \in 0..MaxNow /\ now <= now' /\ now' <= now'
    BY <1>2, <1>3, NowAssumption DEF TabInv
  <2>2. NextPart(c) \in c.asked /\ c.done \subseteq c.asked /\ c \in PostType
    BY <1>1, <1>2, NextPartIsLeft DEF PostSound, PostType
  <2>3. /\ d \in PostType /\ d.kind = c.kind /\ d.page = c.page /\ d.press = c.press
        /\ d.asked = c.asked /\ d.done = c.done \cup {NextPart(c)} /\ d.at = now'
        /\ d.got = c.got /\ d.status = st
    BY <2>1, <2>2 DEF Effected, PostType, Statuses
  <2> HIDE DEF d
  <2>4. PostSound(d, route, now')
    BY <1>1, <1>2, <2>1, <2>2, <2>3, SameNextPart DEF PostSound
  <2> QED BY <1>1, <1>3, <2>1, <2>3, <2>4, ServedKeeps DEF d
<1>4. ASSUME now' = now, NEW st \in {"failed", "refused"},
             posts' = [posts EXCEPT ![i].status = st, ![i].good = FALSE]
      PROVE  PageInv'
  <2> DEFINE d == [c EXCEPT !.status = st, !.good = FALSE]
  <2>1. posts' = [posts EXCEPT ![i] = d]
    BY <1>4 DEF PageInv, PostsInv
  <2>2. /\ d \in PostType /\ d.kind = c.kind /\ d.page = c.page /\ d.press = c.press
        /\ d.asked = c.asked /\ d.done = c.done /\ d.got = c.got
        /\ d.at = c.at /\ d.status = st
    BY <1>2 DEF PostSound, PostType, Statuses
  <2> HIDE DEF d
  <2>3. PostSound(d, route, now)
    BY <1>2, <2>2 DEF PostSound
  <2> QED BY <1>1, <1>2, <1>4, <2>1, <2>2, <2>3, ServedKeeps, NowIsNumber
<1> QED BY <1>3, <1>4 DEF ServeWrite, Checked
-----------------------------------------------------------------------------
(* Answers arrive *)

LEMMA HeardIsTyped ==
  ASSUME TabInv, NEW c, Heard(c)
  PROVE  /\ token' \in {"good", "bad", None} /\ cookie' \in BOOLEAN /\ hash' \in Pages
         /\ cookie' = cookie /\ route' = route
BY DEF TabInv, Heard, TokenAfter, HashAfter, Pages

LEMMA OneCallLess ==
  ASSUME Functions, FlightInv, NEW h \in Hooks, NEW i \in Slots,
         calls' = [calls EXCEPT ![h][i] = None], posts' = posts
  PROVE  FlightInv'
<1>1. \A k \in Hooks, j \in Slots : calls'[k][j] # None => calls[k][j] # None
  BY DEF Functions
<1> QED BY <1>1, FewerInFlight

\* An answer to a hook of which nothing else on the page depends.
LEMMA SettledKeeps ==
  ASSUME PageInv, IInv, Functions, NEW h \in Hooks, NEW i \in Slots,
         calls[h][i] # None, Heard(calls[h][i]), now' = now,
         ~(h = "first" /\ route \in GroupPage /\ calls[h][i].alive),
         hook' = [hook EXCEPT ![h] = AfterAnswer(hook[h], calls[h][i])],
         calls' = [calls EXCEPT ![h][i] = None], UNCHANGED <<form, posts>>
  PROVE  PageInv'
<1> DEFINE c == calls[h][i]
           v == AfterAnswer(hook[h], c)
<1>1. TabInv /\ PostsInv /\ AskInv /\ FlightInv /\ PressInv /\ GroupInv /\ RowInv
      /\ PageExists
  BY DEF PageInv
<1>2. TabInv' /\ route' = route
  BY <1>1, HeardIsTyped DEF TabInv
<1>3. PostsInv' /\ FlightInv'
  BY <1>1, <1>2, PostsStay, NowIsNumber, OneCallLess
<1>4. PressInv' /\ PageExists'
  BY <1>1, <1>2 DEF PressInv, Pressed, PageExists
<1>5. CASE ~c.alive
  <2>1. hook' = hook
    BY <1>5 DEF AfterAnswer, Functions
  <2> QED BY <1>1, <1>2, <1>3, <1>4, <2>1, AskStays, FormStays, NowIsNumber DEF PageInv
<1>6. CASE c.alive
  <2>1. Live(calls[h], i)
    BY <1>6 DEF Live
  <2>2. /\ v.query = hook[h].query /\ v.asked = hook[h].asked /\ v.mounted
        /\ hook[h].loading /\ ~v.loading
        /\ v.data # None => v.data.query = hook[h].query /\ v.data.at \in 0..now
    BY <2>1, AnswerSettles
  <2>3. hook'[h] = v /\ \A k \in Hooks : k # h => hook'[k] = hook[k]
    BY DEF Functions
  <2>4. "first" \in Hooks /\ "second" \in Hooks
    BY HooksAssumption
  <2> HIDE DEF v, c
  <2>5. AskInv'
    <3>1. \A k \in Hooks : hook'[k].data # None => hook'[k].data.at <= now
      BY <1>1, <2>2, <2>3, NowIsNumber DEF AskInv
    <3>2. \A k \in Hooks : hook'[k].query = hook[k].query
      BY <2>2, <2>3
    <3>3. route = "requests" /\ hook'["first"].data # None
            => hook'["first"].data.query \in Lists
      BY <1>1, <2>2, <2>3, <2>4 DEF AskInv
    <3> QED BY <1>1, <1>2, <2>4, <3>1, <3>2, <3>3 DEF AskInv
  <2>6. GroupInv'
    <3>1. route \in GroupPage => hook'["first"] = hook["first"]
      BY <1>6, <2>3, <2>4 DEF c
    <3>2. CASE h # "second" \/ route # "invoke"
      <4>1. route = "invoke" => hook'["second"] = hook["second"]
        BY <2>3, <2>4, <3>2
      <4> QED BY <1>1, <1>2, <3>1, <4>1
              DEF GroupInv, GroupPage, SettledActionOfGroup, MenuInv, Group, EffGroup,
                  Listed
    <3>3. CASE h = "second" /\ route = "invoke"
      <4>1. hook.second.query = About("invoke", Group) /\ Group \in AllGroups
        BY <1>1, <2>2, <3>3, GroupIsListed DEF GroupInv, MenuInv
      <4>2. Group' = Group /\ Group # None
        BY <1>1, <1>2, <2>2, <3>1, <3>3
        DEF GroupInv, MenuInv, Group, EffGroup, Listed, GroupPage
      <4>3. MenuInv'
        BY <1>2, <2>2, <2>3, <3>3, <4>1, <4>2 DEF MenuInv
      <4> QED BY <1>1, <1>2, <3>1, <3>3, <4>2, <4>3
              DEF GroupInv, GroupPage, SettledActionOfGroup, Group
    <3> QED BY <3>2, <3>3
  <2>7. RowInv'
    BY <1>1, <1>2, <2>2, <2>3, <2>4 DEF RowInv
  <2> QED BY <1>2, <1>3, <1>4, <2>5, <2>6, <2>7 DEF PageInv
<1> QED BY <1>5, <1>6

\* The list of groups arrives.
LEMMA ArriveKeeps ==
  ASSUME PageInv, IInv, Functions, NEW i \in Slots, Live(calls["first"], i),
         Heard(calls["first"][i]), now' = now, route \in GroupPage,
         GroupsArrive([calls EXCEPT !["first"][i] = None], calls["first"][i])
  PROVE  PageInv'
<1> DEFINE c == calls["first"][i]
           cs == [calls EXCEPT !["first"][i] = None]
           v == AfterAnswer(hook.first, c)
           hs == [hook EXCEPT !.first = v]
           g == EffGroup(form, v)
<1>1. TabInv /\ PostsInv /\ AskInv /\ FlightInv /\ PressInv /\ GroupInv
  BY DEF PageInv
<1>2. FormTyped(route, form') => TabInv'
  BY <1>1, HeardIsTyped DEF TabInv
<1>3. route' = route
  BY DEF Heard
<1>4. "first" \in Hooks /\ "second" \in Hooks
  BY HooksAssumption
<1>5. /\ ~v.loading
      /\ v.data # None => v.data.at \in 0..now
  BY <1>4, AnswerSettles
<1>6. hs["first"] = v /\ \A k \in Hooks : k # "first" => hs[k] = hook[k]
  BY <1>4 DEF Functions
<1>7. \A k \in Hooks : hs[k].data # None => hs[k].data.at <= now
  <2> HIDE DEF v, hs
  <2> QED BY <1>1, <1>5, <1>6, NowIsNumber DEF AskInv
<1>8. posts' = posts
  BY DEF GroupsArrive
<1>9. PostsInv'
  BY <1>1, <1>3, <1>8, PostsStay, NowIsNumber
<1>10. CASE g = EffGroup(form, hook.first)
  <2>1. hook' = hs /\ calls' = cs /\ form' = form
    BY <1>10 DEF GroupsArrive
  <2>2. TabInv'
    BY <1>1, <1>2, <2>1 DEF TabInv
  <2>3. FlightInv'
    BY <1>1, <1>4, <1>8, <2>1, OneCallLess
  <2>4. AskInv'
    <3>1. route \notin RowPages /\ route # "requests"
      BY DEF GroupPage, RowPages
    <3>2. hook'["second"] = hook["second"]
      BY <1>4, <1>6, <2>1
    <3> HIDE DEF hs
    <3> QED BY <1>1, <1>3, <1>7, <2>1, <3>1, <3>2 DEF AskInv
  <2>5. GroupInv'
    <3>1. hook'["first"] = v
      BY <1>6, <2>1
    <3>2. Group' = Group /\ hook'["second"] = hook["second"]
      <4>1. Group' = EffGroup(form, v)
        <5> HIDE DEF v, hs
        <5> QED BY <2>1, <3>1 DEF Group, EffGroup, Listed
      <4>2. hook'["second"] = hook["second"]
        BY <1>4, <1>6, <2>1
      <4> QED BY <1>10, <4>1, <4>2 DEF Group
    <3> HIDE DEF v, hs
    <3>3. SettledActionOfGroup'
      BY <1>1, <1>3, <2>1, <3>2 DEF GroupInv, SettledActionOfGroup, Group
    <3>4. MenuInv'
      BY <1>1, <1>3, <3>2 DEF GroupInv, MenuInv
    <3> QED BY <1>5, <3>1, <3>3, <3>4 DEF GroupInv
  <2>6. PressInv'
    BY <1>1, <1>3, <1>8, <2>1 DEF PressInv, Pressed
  <2> QED BY <1>3, <1>9, <2>2, <2>3, <2>4, <2>5, <2>6, GroupPageOnly DEF PageInv
<1>11. CASE g # EffGroup(form, hook.first)
  <2> DEFINE asks == [second |-> About(route, g)]
  <2>1. Effects(hs, cs, {}, asks, Credentials) /\ form' = ForNewGroup(route, form)
    BY <1>11 DEF GroupsArrive
  <2>2. About(route, g) \in Queries /\ g # None
    BY <1>1, <1>11, ArrivedGroupIsListed, GroupsAssumption
  <2>3. /\ hook'["second"] = Loading(hs["second"], About(route, g))
        /\ \A k \in Hooks : k # "second" => hook'[k] = hs[k]
    <3> HIDE DEF hs, cs, g
    <3> QED BY <1>4, <2>1, EffectsAt
  <2>4. /\ FormTyped(route, form')
        /\ route = "invoke" => /\ form'.action = None /\ form'.group = form.group
                               /\ form'.running = form.running
                               /\ form'.press = form.press /\ form'.result = form.result
    BY <1>1, <2>1, ForNewGroupIsTyped DEF TabInv
  <2>5. TabInv'
    BY <1>2, <2>4
  <2>6. FlightInv'
    BY <2>1 DEF Effects, FlightInv
  <2> HIDE DEF v, hs, cs, g
  <2>7. AskInv'
    <3>1. route \notin RowPages /\ route # "requests"
      BY DEF GroupPage, RowPages
    <3>2. hook'["second"].query \in Queries /\ hook'["second"].data = hs["second"].data
      BY <2>2, <2>3 DEF Loading
    <3>3. \A k \in Hooks : hook'[k].data # None => hook'[k].data.at <= now
      BY <1>4, <1>7, <2>3, <3>2
    <3> QED BY <1>3, <3>1, <3>2, <3>3 DEF AskInv
  <2>8. hook'["first"] = v
    BY <1>4, <1>6, <2>3
  <2>9. GroupInv'
    <3>1. route = "invoke" => Group' = g
      BY <2>4, <2>8 DEF Group, EffGroup, Listed, g
    <3>2. /\ hook'["second"].query = About(route, g) /\ hook'["second"].mounted
          /\ hook'["second"].data = hook["second"].data
      BY <1>4, <1>6, <2>3 DEF Loading
    <3>3. MenuInv'
      BY <1>1, <1>3, <2>2, <3>1, <3>2 DEF GroupInv, MenuInv
    <3> QED BY <1>3, <1>5, <2>4, <2>8, <3>3 DEF GroupInv, SettledActionOfGroup
  <2>10. PressInv'
    <3>1. \A j \in Slots : Pressed(j)' => Pressed(j) /\ posts'[j].press = posts[j].press
      BY <1>8 DEF Pressed
    <3> QED BY <1>1, <1>3, <2>4, <3>1, PressStays
  <2> QED BY <1>3, <1>9, <2>5, <2>6, <2>7, <2>9, <2>10, GroupPageOnly DEF PageInv
<1> QED BY <1>10, <1>11

LEMMA DeliverCallKeeps ==
  ASSUME PageInv, IInv, Functions, NEW h \in Hooks, NEW i \in Slots, DeliverCall(h, i)
  PROVE  PageInv'
<1> DEFINE c == calls[h][i]
           cs == [calls EXCEPT ![h][i] = None]
<1>1. c # None /\ Heard(c) /\ now' = now
  BY DEF DeliverCall, AnsweredYet
<1>2. CASE h = "first" /\ route \in GroupPage /\ c.alive
  <2>1. GroupsArrive(cs, c)
    BY <1>2 DEF DeliverCall
  <2>2. Live(calls["first"], i)
    BY <1>1, <1>2 DEF Live
  <2> QED BY <1>1, <1>2, <2>1, <2>2, ArriveKeeps
<1>3. CASE ~(h = "first" /\ route \in GroupPage /\ c.alive)
  <2>1. /\ hook' = [hook EXCEPT ![h] = AfterAnswer(hook[h], c)]
        /\ calls' = cs /\ UNCHANGED <<form, posts>>
    BY <1>3 DEF DeliverCall, Settled
  <2> QED BY <1>1, <1>3, <2>1, SettledKeeps
<1> QED BY <1>2, <1>3

LEMMA DeliverPostKeeps ==
  ASSUME PageInv, IInv, NEW i \in Slots, DeliverPost(i) PROVE PageInv'
<1> DEFINE c == posts[i]
<1>1. /\ c # None /\ c.kind \in {"poll", "invoke"} /\ Heard(c)
      /\ posts' = [posts EXCEPT ![i] = None] /\ Idle /\ now' = now
      /\ form' = (IF c.kind = "poll" THEN PollAnswered(form, c)
                  ELSE InvokeAnswered(form, c))
  BY DEF DeliverPost, AnsweredYet
<1>2. TabInv /\ PostsInv /\ AskInv /\ FlightInv /\ PressInv /\ GroupInv
  BY DEF PageInv
<1>3. PostSound(c, route, now) /\ c \in PostType
  BY <1>1, <1>2 DEF PostsInv, PostSound
<1>4. /\ token' \in {"good", "bad", None} /\ cookie' \in BOOLEAN /\ hash' \in Pages
      /\ route' = route
  BY <1>1, <1>2, HeardIsTyped
<1>5. PostsInv'
  BY <1>1, <1>2, <1>4, OnePostKeeps, NowIsNumber
<1>6. FlightInv'
  BY <1>1, <1>2, OnePostLess, IdleFlight
<1>7. AskInv'
  BY <1>1, <1>2, <1>4, AskStays, NowIsNumber DEF Idle
<1>8. CASE form' = form
  <2>1. TabInv'
    BY <1>1, <1>2, <1>4, <1>8 DEF TabInv
  <2>2. PressInv'
    BY <1>1, <1>2, <1>4, <1>8, OnePostLess, PressStays
  <2> QED BY <1>1, <1>4, <1>5, <1>6, <1>7, <1>8, <2>1, <2>2, FormStays DEF PageInv, Idle
<1>9. CASE c.kind = "poll" /\ c.page
  <2>1. route = "overview"
    BY <1>3, <1>9 DEF PostSound, Home
  <2>2. form \in [chart : 0..MaxNow \cup {None}]
    BY <1>2, <2>1 DEF TabInv, FormTyped
  <2>3. form' \in [chart : 0..MaxNow \cup {None}]
    BY <1>1, <1>3, <1>9, <2>2 DEF PollAnswered, PostType
  <2>4. TabInv'
    BY <1>1, <1>2, <1>4, <2>1, <2>3 DEF TabInv, FormTyped, RowPages
  <2> QED BY <1>4, <1>5, <1>6, <1>7, <2>1, <2>4, SimplePage DEF PageInv
<1>10. CASE c.kind = "invoke" /\ c.page
  <2> DEFINE T == [group : AllGroups \cup {None}, action : AllGroups \cup {None},
                   early : BOOLEAN, running : BOOLEAN, press : 0..MaxPress,
                   result : 0..MaxPress \cup {None}]
  <2>1. route = "invoke" /\ route \in GroupPage
    BY <1>3, <1>10 DEF PostSound, Home, GroupPage
  <2>2. form \in T /\ c.press \in 0..MaxPress
    BY <1>2, <1>3, <2>1 DEF TabInv, FormTyped, PostType
  <2>3. form' = [form EXCEPT !.running = FALSE, !.result = c.press]
    BY <1>1, <1>10 DEF InvokeAnswered
  <2>4. /\ form' \in T /\ form'.group = form.group /\ form'.action = form.action
        /\ form'.early = form.early
        /\ ~form'.running /\ form'.press = form.press /\ form'.result = c.press
    BY <2>2, <2>3
  <2>5. TabInv'
    BY <1>1, <1>2, <1>4, <2>1, <2>4 DEF TabInv, FormTyped, RowPages
  <2>6. GroupInv'
    BY <1>1, <1>2, <1>4, <2>4 DEF GroupInv, SettledActionOfGroup, MenuInv, Group, EffGroup, Listed, Idle
  <2>7. PressInv'
    <3>1. Pressed(i)
      BY <1>1, <1>10 DEF Pressed
    <3>2. c.press = form.press /\ \A j \in Slots : Pressed(j) => j = i
      BY <1>2, <2>1, <3>1 DEF PressInv
    <3>3. \A j \in Slots : ~Pressed(j)'
      <4>1. posts'[i] = None
        BY <1>1, <1>2 DEF PostsInv
      <4>2. \A j \in Slots : Pressed(j)' => Pressed(j)
        BY <1>1, <1>2, OnePostLess
      <4> QED BY <3>2, <4>1, <4>2 DEF Pressed
    <3> QED BY <2>4, <3>2, <3>3 DEF PressInv
  <2> QED BY <1>4, <1>5, <1>6, <1>7, <2>1, <2>5, <2>6, <2>7, GroupPageOnly DEF PageInv
<1>11. c.page \/ form' = form
  BY <1>1 DEF PollAnswered, InvokeAnswered
<1> QED BY <1>1, <1>8, <1>9, <1>10, <1>11

\* What the form is after the answer to a write: what is known is of the past,
\* and what is reported has taken effect, since of each part that was seen to
\* succeed the server had said so.
LEMMA AnsweredForm ==
  ASSUME PageInv, IInv, route \in RowPages, NEW c, HeardSound(c, now),
         NEW f, f = Known(IF Reported(c) THEN Saved(form, c) ELSE form, c)
  PROVE  /\ f \in RowForm /\ f.known <= now
         /\ ~Reloads(c) => f.known = form.known
<1> DEFINE e == IF Reported(c) THEN Saved(form, c) ELSE form
<1>1. form \in RowForm /\ form.known <= now
  BY KnownIsPast
<1>2. e \in RowForm /\ e.known = form.known
  <2>1. CASE Reported(c)
    <3>1. c.asked \ c.done = {}
      BY <2>1 DEF Reported, HeardSound
    <3> QED BY <1>1, <2>1, <3>1 DEF Saved, RowForm
  <2>2. CASE ~Reported(c)
    BY <1>1, <2>2
  <2> QED BY <2>1, <2>2
<1>3. c.at \in 0..MaxNow /\ c.at <= now
  BY DEF HeardSound
<1> HIDE DEF e
<1>4. PICK n \in {e.known, c.at} :
        /\ f = [e EXCEPT !.known = n]
        /\ ~(c.kind = "toggle" \/ (c.status = "ok" /\ c.got = c.asked)) => n = e.known
  BY DEF Known, e
<1>5. f \in RowForm /\ f.known = n
  BY <1>2, <1>3, <1>4 DEF RowForm
<1> QED BY <1>1, <1>2, <1>3, <1>4, <1>5 DEF Reloads, Reported

LEMMA DeliverWriteKeeps ==
  ASSUME PageInv, IInv, NEW i \in Slots, DeliverWrite(i) PROVE PageInv'
<1> DEFINE b == posts[i]
           c == Returned(b)
           ps == [posts EXCEPT ![i] = None]
<1>1. b # None /\ b.kind \in Kinds /\ Heard(b) /\ now' = now
  BY DEF DeliverWrite, AnsweredYet
<1>2. TabInv /\ PostsInv /\ FlightInv /\ AskInv
  BY DEF PageInv
<1>3. /\ PostSound(b, route, now) /\ c \in PostType /\ HeardSound(c, now)
      /\ c.kind = b.kind /\ c.page = b.page /\ c.press = b.press
      /\ c.at = b.at /\ c.status = b.status
  BY <1>1, <1>2, ReturnedKeeps, NowIsNumber DEF PostsInv, PostSound
<1> HIDE DEF c
<1>4. /\ token' \in {"good", "bad", None} /\ cookie' \in BOOLEAN /\ hash' \in Pages
      /\ cookie' = cookie /\ route' = route
  BY <1>1, <1>2, HeardIsTyped
<1>5. CASE GoesOn(c)
  <2> DEFINE d == [c EXCEPT !.status = "pending", !.good = Credentials]
  <2>1. posts' = [posts EXCEPT ![i] = d] /\ Idle /\ form' = form
    BY <1>5 DEF DeliverWrite, c
  <2>2. /\ d \in PostType /\ d.kind = c.kind /\ d.page = c.page /\ d.press = c.press
        /\ d.at = c.at /\ d.asked = c.asked /\ d.done = c.done /\ d.got = c.got
        /\ d.status = "pending"
    BY <1>2, <1>3, CredentialsAreGoodOrNot DEF PostType, Statuses
  <2> HIDE DEF d
  <2>3. c.asked # c.got /\ token' = token /\ hash' = hash
    BY <1>1, <1>3, <1>5 DEF GoesOn, Heard, TokenAfter, HashAfter, Unauthorized
  <2>4. PostSound(d, route, now)
    BY <1>3, <2>2, <2>3 DEF PostSound, HeardSound
  <2> QED BY <1>1, <1>2, <1>3, <1>4, <2>1, <2>2, <2>3, <2>4, ServedKeeps, NowIsNumber
<1>6. CASE ~GoesOn(c)
  <2>1. WriteAnswered(ps, c)
    BY <1>6 DEF DeliverWrite, c
  <2>2. /\ ps \in [Slots -> PostType \cup {None}]
        /\ \A j \in Slots : ps[j] # None => PostSound(ps[j], route, now)
    BY <1>2, OnePostMoves, NowIsNumber
  <2>3. posts' = ps => PostsInv'
    BY <1>1, <1>2, <1>4, OnePostKeeps, NowIsNumber
  <2>4. posts' = ps /\ Idle => FlightInv'
    BY <1>2, OnePostLess, IdleFlight
  <2> HIDE DEF ps, b
  <2>5. CASE ~c.page
    <3>1. posts' = ps /\ Idle /\ form' = form
      BY <2>1, <2>5 DEF WriteAnswered
    <3>2. TabInv'
      BY <1>1, <1>2, <1>4, <3>1 DEF TabInv
    <3>3. PressInv'
      BY <1>2, <1>4, <3>1, OnePostLess, PressStays DEF PageInv, ps
    <3> QED BY <1>1, <1>2, <1>4, <2>3, <2>4, <3>1, <3>2, <3>3, AskStays, FormStays,
               NowIsNumber DEF PageInv, Idle
  <2>6. CASE c.page
    <3> DEFINE f == Known(IF Reported(c) THEN Saved(form, c) ELSE form, c)
    <3>1. route \in RowPages
      <4>1. c.kind \notin {"login", "poll", "invoke"}
        BY <1>1, <1>3 DEF Kinds
      <4> QED BY <1>3, <2>6, <4>1 DEF PostSound, Home
    <3>2. /\ f \in RowForm /\ f.known <= now
          /\ ~Reloads(c) => f.known = form.known
      BY <1>3, <3>1, AnsweredForm
    <3>3. CASE Reloads(c)
      <4>1. Reloading(f, ps, hook.first.query)
        BY <2>1, <2>6, <3>3 DEF WriteAnswered
      <4> HIDE DEF f
      <4> QED BY <1>1, <1>4, <2>2, <3>1, <3>2, <4>1, KnownIsPast, ReloadKeeps
    <3>4. CASE ~Reloads(c)
      <4>1. form' = f /\ posts' = ps /\ Idle
        BY <2>1, <2>6, <3>4 DEF WriteAnswered
      <4> HIDE DEF f
      <4> QED BY <1>1, <1>4, <2>3, <2>4, <3>1, <3>2, <3>4, <4>1, RowsStay
    <3> QED BY <3>3, <3>4
  <2> QED BY <2>5, <2>6
<1> QED BY <1>5, <1>6

-----------------------------------------------------------------------------
(* The panel *)

LEMMA PanelInitKeeps == PanelInit => PageInv
<1> SUFFICES ASSUME PanelInit PROVE PageInv
  OBVIOUS
<1>1. /\ now = 0 /\ hook = [h \in Hooks |-> Blank]
      /\ calls = [h \in Hooks |-> [i \in Slots |-> None]]
      /\ token = None /\ cookie = FALSE /\ route = "login" /\ hash = "login"
      /\ form = Fresh("login") /\ posts = [i \in Slots |-> None]
  BY DEF PanelInit, FetchInit
<1>2. TabInv
  <2>1. route \in Pages /\ now \in 0..MaxNow
    BY <1>1, NowAssumption DEF Pages
  <2> QED BY <1>1, <2>1, FreshIsTyped DEF TabInv
<1>3. PostsInv
  BY <1>1 DEF PostsInv
<1>4. FlightInv
  <2>1. {u \in Hooks \X Slots : calls[u[1]][u[2]] # None} = {}
    BY <1>1
  <2>2. {i \in Slots : posts[i] # None} = {}
    BY <1>1
  <2>3. InFlight(calls, posts) = 0
    BY <2>1, <2>2, FS_EmptySet DEF InFlight
  <2> QED BY <2>3, HooksAssumption DEF FlightInv
<1>5. AskInv
  BY <1>1 DEF AskInv, Blank, RowPages
<1>6. GroupInv /\ PressInv /\ RowInv /\ PageExists
  BY <1>1 DEF GroupInv, GroupPage, SettledActionOfGroup, MenuInv, PressInv, RowInv, RowPages, PageExists
<1> QED BY <1>2, <1>3, <1>4, <1>5, <1>6 DEF PageInv

PanelInv == IInv /\ Functions /\ PageInv

\* Whatever the tab, its pages and the server do, each hook makes a step that
\* it may make by itself.
LEMMA PanelStepIsFetchStep ==
  ASSUME PanelInv, PanelNext PROVE FetchNext
<1>1. /\ IInv /\ Functions /\ TabInv /\ AskInv /\ GroupInv /\ PostsInv
  BY DEF PanelInv, PageInv
<1>2. HooksMove /\ now' \in {now, now + 1}
  BY <1>1, BrowserMoves, GroupPageMoves, ListPageMoves, RowPageMoves, ServerMoves,
     AnswerMoves DEF PanelNext
<1> QED BY <1>2 DEF HooksMove, FetchNext

LEMMA PanelStepKeeps ==
  ASSUME PanelInv, PanelNext PROVE PageInv'
<1>1. IInv /\ Functions /\ PageInv
  BY DEF PanelInv
<1> QED
  BY <1>1, MovingAboutKeeps, LoginKeeps, ServeLoginKeeps, LoggedInKeeps,
     NotLoggedInKeeps, ExpireKeeps, ChooseGroupKeeps, ActionKeeps, InvokeKeeps,
     ListPageKeeps, RowPageKeeps, TickKeeps, ServeCallKeeps, ServePostKeeps,
     ServeWriteKeeps, DeliverCallKeeps, DeliverPostKeeps, DeliverWriteKeeps
     DEF PanelNext

LEMMA PanelInvStep == PanelInv /\ [PanelNext]_panelVars => PanelInv'
<1> SUFFICES ASSUME PanelInv, [PanelNext]_panelVars PROVE PanelInv'
  OBVIOUS
<1>1. CASE PanelNext
  <2>1. FetchNext
    BY <1>1, PanelStepIsFetchStep
  <2>2. IInv' /\ Functions'
    BY <2>1, StepSound DEF PanelInv
  <2> QED BY <1>1, <2>2, PanelStepKeeps DEF PanelInv
<1>2. CASE UNCHANGED panelVars
  <2>1. UNCHANGED fetchVars
    BY <1>2 DEF panelVars, fetchVars
  <2>2. IInv' /\ Functions'
    BY <2>1, StepSound DEF PanelInv
  <2>3. TabInv /\ AskInv /\ PageInv /\ IInv
    BY DEF PanelInv, PageInv
  <2>4. TabInv' /\ FlightInv' /\ PressInv'
    BY <1>2, <2>3 DEF panelVars, TabInv, PageInv, FlightInv, PressInv, Pressed
  <2>5. AskInv' /\ GroupInv' /\ RowInv' /\ PageExists'
    BY <1>2, <2>3, AskStays, FormStays, NowIsNumber DEF panelVars, PageInv
  <2>6. PostsInv'
    BY <1>2, <2>3, PostsStay, NowIsNumber DEF panelVars, PageInv
  <2> QED BY <2>2, <2>4, <2>5, <2>6 DEF PanelInv, PageInv
<1> QED BY <1>1, <1>2

LEMMA PanelInOrder == PanelSpec => []PanelInv
<1>1. PanelInit => PanelInv
  BY PanelInitKeeps, InitSound DEF PanelInit, PanelInv
<1> QED BY <1>1, PanelInvStep, PTL DEF PanelSpec

\* Whatever the pages do, the hooks on them stay what they are by themselves:
\* every render, every leaving of a page, every answer and refusal is a step of
\* useFetch, and no page ever asks what cannot be asked.
THEOREM PanelImplementsHooks == PanelSpec => HooksAsSpecified
<1>1. PanelInit => FetchInit
  BY DEF PanelInit
<1>2. PanelInv /\ [PanelNext]_panelVars => [FetchNext]_fetchVars
  BY PanelStepIsFetchStep DEF panelVars, fetchVars
<1> QED BY <1>1, <1>2, PanelInOrder, PTL DEF PanelSpec, HooksAsSpecified, FetchSpec

\* So what is proved of the hook holds on every page of the panel: one request
\* behind each spinner, and nothing stale on the screen.
THEOREM PanelKeepsHooks ==
  PanelSpec => []FetchTypeOK /\ []OneLiveCall /\ []ShownAnswersQuestion /\ LatestSpec
BY PanelImplementsHooks, FetchTypeCorrect, LiveCallIsUnique, NothingStaleIsShown,
   HookImplementsView DEF HooksAsSpecified

\* The tab's own state is well formed, each page's form has the fields of that
\* page, and the requests stay within their bound.
THEOREM PanelTypeCorrect == PanelSpec => []PanelTypeOK
<1>1. PanelInv => PanelTypeOK
  <2> SUFFICES ASSUME PanelInv PROVE PanelTypeOK
    OBVIOUS
  <2>1. TabInv /\ PostsInv /\ FlightInv
    BY DEF PanelInv, PageInv
  <2>2. FetchTypeOK
    BY DEF PanelInv, IInv, Functions, Sound, Typed, FetchTypeOK
  <2>3. DOMAIN form = DOMAIN Fresh(route)
    BY <2>1, TypedHasFields DEF TabInv
  <2>4. \A i \in Slots : posts[i] # None => posts[i] \in PostType
    BY <2>1 DEF PostsInv, PostSound
  <2> QED BY <2>1, <2>2, <2>3, <2>4 DEF PanelTypeOK, TabInv, FlightInv
<1> QED BY <1>1, PanelInOrder, PTL

\* The pager of RequestsPage leads to pages that the list had when it led there.
THEOREM PageAskedForExists == PanelSpec => []PageExists
<1>1. PanelInv => PageExists
  BY DEF PanelInv, PageInv
<1> QED BY <1>1, PanelInOrder, PTL

\* However the group changes and in whatever order the lists of actions arrive, a
\* test call names an action of the group it is sent to, unless it was chosen
\* while the options of another group were still offered.
THEOREM ActionBelongsToGroup == PanelSpec => []SettledActionOfGroup
<1>1. PanelInv => SettledActionOfGroup
  BY DEF PanelInv, PageInv, GroupInv
<1> QED BY <1>1, PanelInOrder, PTL

\* The result shown by InvokePage is that of the last call started from it.
THEOREM ResultIsOfLastPress == PanelSpec => []ResultOfLastPress
<1>1. PanelInv => ResultOfLastPress
  BY DEF PanelInv, PageInv, PressInv, ResultOfLastPress, TabInv, FormTyped
<1> QED BY <1>1, PanelInOrder, PTL

\* A list never comes to rest on the page as it was before a change that was
\* reported as saved, or before a switch that was thrown.
THEOREM ListHasMyWrites == PanelSpec => []ShownHasMyWrites
<1>1. PanelInv => ShownHasMyWrites
  <2> SUFFICES ASSUME PanelInv, route \in RowPages, ~hook.first.loading,
                      hook.first.data # None
               PROVE  hook.first.data.at >= form.known
    BY DEF ShownHasMyWrites
  <2>1. form.known <= hook.first.asked /\ hook.first.mounted
    BY DEF PanelInv, PageInv, RowInv
  <2>2. /\ hook.first \in FetchState
        /\ hook.first.asked <= hook.first.data.at
    BY <2>1, HooksAssumption DEF PanelInv, IInv, Sound, Typed, Shows
  <2>3. hook.first.asked \in Nat /\ hook.first.data.at \in Nat
    BY <2>2 DEF FetchState, Data
  <2>4. form.known \in Nat
    BY KnownIsPast, NowAssumption DEF PanelInv, RowForm
  <2> QED BY <2>1, <2>2, <2>3, <2>4
<1> QED BY <1>1, PanelInOrder, PTL

\* What was reported as saved took effect in all its parts.
THEOREM SavedIsWhole == PanelSpec => []SavedMeansWhole
<1>1. PanelInv => SavedMeansWhole
  BY DEF PanelInv, PageInv, TabInv, FormTyped, SavedMeansWhole
<1> QED BY <1>1, PanelInOrder, PTL
=============================================================================
