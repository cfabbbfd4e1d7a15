---------------------------- MODULE RosterProofs ----------------------------
(***************************************************************************)
(* Proofs about Roster, for every set of devices and any number of         *)
(* requests handled side by side.                                          *)
(*                                                                         *)
(* Each safety property is strengthened by what the handlers under way     *)
(* know (Typed, KnownInv, KeyInv, FlushInv, SteadyInv).  Most steps are    *)
(* one handler going on to its next step; Moved says what that does to     *)
(* the handlers, and the proofs use nothing else of it.                    *)
(***************************************************************************)
EXTENDS Roster, TLAPS

OpsTyped == ops \in [Ops -> Handler \cup {None}]

DevicePcs == {"upsert", "register", "mark", "touch", "write", "reset"}

RowsTyped ==
  /\ keys \in 0..MaxKeys /\ revoked \subseteq 1..keys
  /\ group \in Group \cup {None} /\ (group # None => group.api <= keys)
  /\ listed \subseteq Devices /\ tokens \subseteq Devices /\ known \subseteq Devices
  /\ owed \subseteq Devices /\ recent \subseteq Devices
  /\ session \in [Devices -> {"none", "fresh", "silent"}]

\* Handlers of a device have one.
HandlersTyped ==
  /\ OpsTyped
  /\ \A o \in Ops : ops[o] # None =>
       /\ ops[o].key <= keys
       /\ ops[o].pc \in DevicePcs => ops[o].dev \in Devices

Typed == RowsTyped /\ HandlersTyped

\* Handler o goes on to pc, or is done; the others stay.
Moved(o, pc) ==
  /\ OpsTyped'
  /\ \A x \in Ops \ {o} : ops'[x] = ops[x]
  /\ pc = "done" => ops'[o] = None
  /\ pc # "done" =>
       /\ ops'[o] # None
       /\ ops'[o].pc = pc
       /\ ops'[o].dev = ops[o].dev
       /\ ops'[o].mode = ops[o].mode
       /\ ops'[o].key = ops[o].key
       /\ ops'[o].steady = ops[o].steady

\* A handler of kind r starts.
Arrived(o, r) ==
  /\ OpsTyped' /\ ops[o] = None
  /\ \A x \in Ops \ {o} : ops'[x] = ops[x]
  /\ ops'[o] = r /\ r # None

LEMMA GoesMoves ==
  ASSUME OpsTyped, NEW o \in Ops, ops[o] # None, NEW pc \in Pcs \cup {"done"},
         Goes(o, pc)
  PROVE  Moved(o, pc)
<1>1. ops[o] \in Handler
  BY DEF OpsTyped
<1> DEFINE r == [ops[o] EXCEPT !.pc = pc]
<1>2. ASSUME pc # "done"
      PROVE  /\ r \in Handler
             /\ r.pc = pc /\ r.dev = ops[o].dev /\ r.mode = ops[o].mode
             /\ r.key = ops[o].key /\ r.steady = ops[o].steady
  BY <1>1, <1>2 DEF Handler
<1>3. ops' = [ops EXCEPT ![o] = IF pc = "done" THEN None ELSE r]
  BY DEF Goes
<1> HIDE DEF r
<1>4. ops'[o] = (IF pc = "done" THEN None ELSE r)
      /\ \A x \in Ops \ {o} : ops'[x] = ops[x]
  BY <1>3 DEF OpsTyped
<1>5. OpsTyped'
  BY <1>2, <1>3 DEF OpsTyped
<1> QED BY <1>2, <1>4, <1>5, NoneAssumption DEF Moved

LEMMA RequestArrives ==
  ASSUME OpsTyped, NEW o \in Ops, NEW r \in Handler, Arrives(o, r)
  PROVE  Arrived(o, r)
BY NoneAssumption DEF OpsTyped, Arrives, Arrived

\* The four kinds of request, as they arrive.
LEMMA Requests ==
  ASSUME NEW d \in Devices \cup {None}, NEW m \in Modes, NEW s \in SUBSET Devices
  PROVE  /\ [Op("upsert") EXCEPT !.dev = d] \in Handler
         /\ [Op("touch") EXCEPT !.dev = d] \in Handler
         /\ [Op("profile") EXCEPT !.mode = m] \in Handler
         /\ [Op("check") EXCEPT !.dev = d, !.steady = s] \in Handler
BY DEF Op, Handler, Pcs, Modes

-----------------------------------------------------------------------------
(* The actions in four groups, by what they do to the handlers *)

\* A request arrives: nothing else changes.
Arrival(o, r) ==
  /\ Arrived(o, r) /\ r \in Handler /\ r.key = 0
  /\ \/ r.pc = "upsert" /\ r.dev \in Devices
     \/ r.pc = "touch" /\ r.dev \in tokens
     \/ r.pc = "profile"
     \/ /\ r.pc = "check"
        /\ r.steady = {x \in Concerned(r.dev) : session[x] = "fresh"}
  /\ UNCHANGED <<deviceVars, groupVars>>

Arriving ==
  \E o \in Ops :
    \/ \E d \in Devices : \/ LoginArrives(o, d) \/ DeleteArrives(o, d)
                          \/ \E opens \in BOOLEAN : ContactArrives(o, d, opens)
    \/ \E requested \in Requested : UpdateArrives(o, requested)
    \/ DeleteArrives(o, None)

LEMMA ArrivingArrives ==
  ASSUME Typed, Arriving
  PROVE  \E o \in Ops, r \in Handler : Arrival(o, r)
<1>0. OpsTyped
  BY DEF Typed, HandlersTyped
<1> PICK o \in Ops :
    \/ \E d \in Devices : \/ LoginArrives(o, d) \/ DeleteArrives(o, d)
                          \/ \E opens \in BOOLEAN : ContactArrives(o, d, opens)
    \/ \E requested \in Requested : UpdateArrives(o, requested)
    \/ DeleteArrives(o, None)
  BY DEF Arriving
<1>1. ASSUME NEW d \in Devices, LoginArrives(o, d)
      PROVE  \E r \in Handler : Arrival(o, r)
  <2> DEFINE r == [Op("upsert") EXCEPT !.dev = d]
  <2>1. r \in Handler /\ r.pc = "upsert" /\ r.dev = d /\ r.key = 0
    BY <1>1 DEF Op, Handler, Pcs, Modes
  <2>2. Arrived(o, r)
    BY <1>0, <1>1, <2>1, RequestArrives DEF LoginArrives
  <2> HIDE DEF r
  <2> QED BY <1>1, <2>1, <2>2 DEF Arrival, LoginArrives
<1>2. ASSUME NEW d \in Devices, NEW opens \in BOOLEAN, ContactArrives(o, d, opens)
      PROVE  \E r \in Handler : Arrival(o, r)
  <2> DEFINE r == [Op("touch") EXCEPT !.dev = d]
  <2>1. r \in Handler /\ r.pc = "touch" /\ r.dev = d /\ r.key = 0
    BY <1>2 DEF Op, Handler, Pcs, Modes
  <2>2. Arrived(o, r)
    BY <1>0, <1>2, <2>1, RequestArrives DEF ContactArrives
  <2> HIDE DEF r
  <2> QED BY <1>2, <2>1, <2>2 DEF Arrival, ContactArrives
<1>3. ASSUME NEW requested \in Requested, UpdateArrives(o, requested)
      PROVE  \E r \in Handler : Arrival(o, r)
  <2> DEFINE r == [Op("profile") EXCEPT !.mode = NormalizeAuthMode(requested)]
  <2>1. r \in Handler /\ r.pc = "profile" /\ r.key = 0
    BY <1>3 DEF Op, Handler, Pcs, Modes, NormalizeAuthMode
  <2>2. Arrived(o, r)
    BY <1>0, <1>3, <2>1, RequestArrives DEF UpdateArrives
  <2> HIDE DEF r
  <2> QED BY <1>3, <2>1, <2>2 DEF Arrival, UpdateArrives
<1>4. ASSUME NEW d \in Devices \cup {None}, DeleteArrives(o, d)
      PROVE  \E r \in Handler : Arrival(o, r)
  <2> DEFINE s == {x \in Concerned(d) : session[x] = "fresh"}
             r == [Op("check") EXCEPT !.dev = d, !.steady = s]
  <2>1. s \in SUBSET Devices
    BY NoneAssumption DEF Concerned
  <2>2. r \in Handler /\ r.pc = "check" /\ r.dev = d /\ r.steady = s /\ r.key = 0
    <3> HIDE DEF s
    <3> QED BY <2>1 DEF Op, Handler, Pcs, Modes
  <2>3. Arrived(o, r)
    BY <1>0, <1>4, <2>2, RequestArrives DEF DeleteArrives
  <2> HIDE DEF r
  <2> QED BY <1>4, <2>2, <2>3 DEF Arrival, DeleteArrives
<1> QED BY <1>1, <1>2, <1>3, <1>4

\* Whoever takes a step of the handler of a request is at work on it.
HandlerStep(o) ==
  \/ UpsertDevice(o) \/ RegisterDevice(o) \/ MarkPresenceFlushed(o)
  \/ TouchClientPresence(o) \/ TouchDevice(o) \/ ResetPresenceFlush(o)
  \/ UpdateGroupProfile(o) \/ ReadGroup(o) \/ StoreAuthMode(o)
  \/ CheckOnline(o) \/ Delete(o)

LEMMA NextCases ==
  ASSUME Next
  PROVE  \/ Arriving
         \/ \E o \in Ops : HandlerStep(o)
         \/ \E d \in Devices : Leave(d) \/ FallSilent(d)
         \/ \E d \in Devices : Age(d)
         \/ \E enabled \in BOOLEAN : UpdateGroupStatus(enabled)
         \/ \E requested \in Requested, enabled \in BOOLEAN : CreateGroup(requested, enabled)
         \/ RotateGroupAPIKey
         \/ Restart
BY DEF Next, Arriving, HandlerStep

\* Where a handler may go from where it is.
Successors(pc) ==
  CASE pc = "upsert" -> {"register", "done"}
    [] pc = "register" -> {"mark"}
    [] pc = "touch" -> {"write", "done"}
    [] pc = "write" -> {"reset", "done"}
    [] pc = "profile" -> {"read", "done"}
    [] pc = "check" -> {"delete", "done"}
    [] OTHER -> {"done"}

\* ReadGroup apart, which finds the key to store, a handler's step moves it.
LEMMA StepMoves ==
  ASSUME OpsTyped, NEW o \in Ops, HandlerStep(o)
  PROVE  /\ ops[o] # None /\ ops[o] \in Handler
         /\ \/ \E pc \in Successors(ops[o].pc) : Goes(o, pc) /\ Moved(o, pc)
            \/ ReadGroup(o)
<1>1. ops[o] # None /\ ops[o] \in Handler
  BY DEF HandlerStep, UpsertDevice, RegisterDevice, MarkPresenceFlushed,
    TouchClientPresence, TouchDevice, ResetPresenceFlush, UpdateGroupProfile,
    ReadGroup, StoreAuthMode, CheckOnline, Delete, At, OpsTyped
<1>2. \A pc \in Successors(ops[o].pc) : pc \in Pcs \cup {"done"}
  BY DEF Successors, Pcs
<1>3. ASSUME ~ReadGroup(o)
      PROVE  \E pc \in Successors(ops[o].pc) : Goes(o, pc)
  <2>1. CASE UpsertDevice(o)
    BY <2>1 DEF UpsertDevice, At, AfterUpsert, Successors
  <2>2. CASE RegisterDevice(o)
    BY <2>2 DEF RegisterDevice, At, Successors
  <2>3. CASE MarkPresenceFlushed(o)
    BY <2>3 DEF MarkPresenceFlushed, At, Successors
  <2>4. CASE TouchClientPresence(o)
    BY <2>4 DEF TouchClientPresence, At, Successors
  <2>5. CASE TouchDevice(o)
    BY <2>5 DEF TouchDevice, At, AfterWrite, Successors
  <2>6. CASE ResetPresenceFlush(o)
    BY <2>6 DEF ResetPresenceFlush, At, Successors
  <2>7. CASE UpdateGroupProfile(o)
    BY <2>7 DEF UpdateGroupProfile, At, Successors
  <2>8. CASE StoreAuthMode(o)
    BY <2>8 DEF StoreAuthMode, At, Successors
  <2>9. CASE CheckOnline(o)
    BY <2>9 DEF CheckOnline, At, Successors
  <2>10. CASE Delete(o)
    BY <2>10 DEF Delete, At, Successors
  <2> QED BY <1>3, <2>1, <2>2, <2>3, <2>4, <2>5, <2>6, <2>7, <2>8, <2>9, <2>10
             DEF HandlerStep
<1> QED BY <1>1, <1>2, <1>3, GoesMoves

\* The step of ReadGroup that finds the group.
KeyFound(o) ==
  /\ group # None
  /\ Generated(ops[o].mode, group.api)
  /\ ops' = [ops EXCEPT ![o].pc = "store",
                        ![o].key = KeyFor(ops[o].mode, group.api)]

LEMMA ReadGroupMoves ==
  ASSUME OpsTyped, NEW o \in Ops, ReadGroup(o)
  PROVE  /\ ops[o] # None /\ ops[o].pc = "read"
         /\ \/ Moved(o, "done") /\ UNCHANGED keys
            \/ KeyFound(o)
BY GoesMoves DEF ReadGroup, At, KeyFound

LEMMA KeyFoundMoves ==
  ASSUME RowsTyped, HandlersTyped, NEW o \in Ops, ops[o] # None, KeyFound(o)
  PROVE  /\ keys <= keys' /\ keys' \in 0..MaxKeys
         /\ OpsTyped'
         /\ \A x \in Ops \ {o} : ops'[x] = ops[x]
         /\ ops'[o] # None /\ ops'[o].pc = "store" /\ ops'[o].mode = ops[o].mode
         /\ ops'[o].key = KeyFor(ops[o].mode, group.api) /\ ops'[o].key <= keys'
         /\ ops'[o].steady = ops[o].steady
<1> DEFINE k == KeyFor(ops[o].mode, group.api)
           r == [ops[o] EXCEPT !.pc = "store", !.key = k]
<1>1. group \in Group /\ group.api \in 0..keys /\ keys \in 0..MaxKeys
  BY DEF RowsTyped, KeyFound, Group
<1>2. k \in Nat /\ k <= keys' /\ keys <= keys' /\ keys' \in 0..MaxKeys
  BY <1>1, MaxKeysAssumption DEF KeyFound, Generated, KeyFor, GenAPIKey
<1> HIDE DEF k
<1>3. /\ r \in Handler /\ r.pc = "store" /\ r.mode = ops[o].mode /\ r.key = k
      /\ r.steady = ops[o].steady
  BY <1>2 DEF HandlersTyped, OpsTyped, Handler, Pcs
<1>4. ops' = [ops EXCEPT ![o] = r]
  BY DEF KeyFound, k
<1> HIDE DEF r
<1>5. OpsTyped' /\ ops'[o] = r /\ \A x \in Ops \ {o} : ops'[x] = ops[x]
  BY <1>3, <1>4 DEF HandlersTyped, OpsTyped
<1> QED BY <1>2, <1>3, <1>5, NoneAssumption DEF k

\* A session ends: the handlers only forget who was online all along.
LEMMA SessionEndsMoves ==
  ASSUME OpsTyped, NEW d \in Devices, NEW how, SessionEnds(d, how)
  PROVE  /\ OpsTyped'
         /\ \A o \in Ops : ops[o] = None <=> ops'[o] = None
         /\ \A o \in Ops : ops[o] # None =>
              /\ ops'[o].pc = ops[o].pc /\ ops'[o].dev = ops[o].dev
              /\ ops'[o].mode = ops[o].mode /\ ops'[o].key = ops[o].key
              /\ ops'[o].steady = ops[o].steady \ {d}
<1> DEFINE Less(r) == [r EXCEPT !.steady = r.steady \ {d}]
<1>1. ASSUME NEW r \in Handler
      PROVE  /\ Less(r) \in Handler /\ Less(r).pc = r.pc /\ Less(r).dev = r.dev
             /\ Less(r).mode = r.mode /\ Less(r).key = r.key
             /\ Less(r).steady = r.steady \ {d}
  BY DEF Handler
<1>2. ops' = [o \in Ops |-> IF ops[o] = None THEN None ELSE Less(ops[o])]
  BY DEF SessionEnds
<1> HIDE DEF Less
<1>3. OpsTyped'
  BY <1>1, <1>2 DEF OpsTyped
<1> QED BY <1>1, <1>2, <1>3, NoneAssumption DEF OpsTyped

-----------------------------------------------------------------------------
(* Types *)

\* The rows keep their types, whatever a handler does next.
LEMMA RowsStep ==
  ASSUME Typed, NEW o \in Ops, HandlerStep(o)
  PROVE  RowsTyped'
<1>0. ops[o] # None /\ ops[o] \in Handler /\ OpsTyped
  BY StepMoves DEF Typed, HandlersTyped
<1>1. ops[o].pc \in DevicePcs => ops[o].dev \in Devices
  BY <1>0 DEF Typed, HandlersTyped
<1>2. CASE UpsertDevice(o)
  BY <1>1, <1>2 DEF UpsertDevice, At, DevicePcs, Typed, RowsTyped, groupVars
<1>3. CASE RegisterDevice(o)
  BY <1>1, <1>3 DEF RegisterDevice, At, DevicePcs, Typed, RowsTyped, groupVars
<1>4. CASE MarkPresenceFlushed(o)
  BY <1>1, <1>4 DEF MarkPresenceFlushed, At, DevicePcs, Typed, RowsTyped, groupVars
<1>5. CASE TouchClientPresence(o)
  BY <1>1, <1>5 DEF TouchClientPresence, At, DevicePcs, Typed, RowsTyped, groupVars
<1>6. CASE TouchDevice(o)
  BY <1>6 DEF TouchDevice, Typed, RowsTyped, groupVars
<1>7. CASE ResetPresenceFlush(o)
  BY <1>7 DEF ResetPresenceFlush, Typed, RowsTyped, groupVars
<1>8. CASE UpdateGroupProfile(o) \/ CheckOnline(o)
  BY <1>8 DEF UpdateGroupProfile, CheckOnline, Typed, RowsTyped, groupVars, deviceVars
<1>9. CASE ReadGroup(o)
  <2>1. keys <= keys' /\ keys' \in 0..MaxKeys
    BY <1>0, <1>9, ReadGroupMoves, KeyFoundMoves DEF Typed, RowsTyped
  <2>2. UNCHANGED <<deviceVars, group, revoked>>
    BY <1>9 DEF ReadGroup
  <2>3. group # None => group.api \in Nat
    BY DEF Typed, RowsTyped, Group
  <2> QED BY <2>1, <2>2, <2>3 DEF Typed, RowsTyped, deviceVars
<1>10. CASE StoreAuthMode(o)
  <2>1. /\ UNCHANGED <<deviceVars, keys, revoked>>
        /\ \/ UNCHANGED group
           \/ /\ group \in Group
              /\ group' = [group EXCEPT !.mode = ops[o].mode, !.api = ops[o].key]
    BY <1>10 DEF StoreAuthMode, Typed, RowsTyped
  <2>2. ops[o].mode \in Modes /\ ops[o].key \in Nat /\ ops[o].key <= keys
    BY <1>0 DEF Handler, Typed, HandlersTyped
  <2>3. group' \in Group \cup {None} /\ (group' # None => group'.api <= keys)
    BY <2>1, <2>2 DEF Group, Typed, RowsTyped
  <2> QED BY <2>1, <2>3 DEF Typed, RowsTyped, deviceVars
<1>11. CASE Delete(o)
  <2>1. group # None => Revoked \subseteq 1..keys
    BY DEF Revoked, Typed, RowsTyped, Group
  <2> QED BY <1>11, <2>1 DEF Delete, DeletesGroup, DeletesDevice, Typed, RowsTyped
<1> QED BY <1>2, <1>3, <1>4, <1>5, <1>6, <1>7, <1>8, <1>9, <1>10, <1>11 DEF HandlerStep

LEMMA HandlersStep ==
  ASSUME Typed, NEW o \in Ops, HandlerStep(o)
  PROVE  HandlersTyped'
<1>0. OpsTyped /\ ops[o] # None /\ ops[o] \in Handler /\ keys \in Nat
  BY StepMoves DEF Typed, HandlersTyped, RowsTyped
<1>1. CASE ReadGroup(o) /\ KeyFound(o)
  <2>1. /\ OpsTyped' /\ keys <= keys' /\ keys' \in Nat
        /\ \A x \in Ops \ {o} : ops'[x] = ops[x]
        /\ ops'[o].pc = "store" /\ ops'[o].key <= keys'
    BY <1>0, <1>1, KeyFoundMoves DEF Typed
  <2>2. \A x \in Ops : ops[x] # None => ops[x].key \in Nat
    BY <1>0 DEF OpsTyped, Handler
  <2>3. ASSUME NEW x \in Ops, ops'[x] # None
        PROVE  /\ ops'[x].key <= keys'
               /\ ops'[x].pc \in DevicePcs => ops'[x].dev \in Devices
    <3>1. CASE x = o
      BY <2>1, <3>1 DEF DevicePcs
    <3>2. CASE x # o
      <4>1. ops'[x] = ops[x]
        BY <2>1, <3>2
      <4>2. /\ ops[x].key <= keys /\ ops[x].key \in Nat
            /\ ops[x].pc \in DevicePcs => ops[x].dev \in Devices
        BY <2>2, <2>3, <4>1 DEF Typed, HandlersTyped
      <4> HIDE DEF DevicePcs
      <4> QED BY <1>0, <2>1, <4>1, <4>2
    <3> QED BY <3>1, <3>2
  <2> QED BY <2>1, <2>3 DEF HandlersTyped
<1>2. CASE ~(ReadGroup(o) /\ KeyFound(o))
  <2>1. PICK pc \in Successors(ops[o].pc) : Moved(o, pc)
    <3>1. CASE ReadGroup(o)
      BY <1>0, <1>2, <3>1, ReadGroupMoves DEF Successors
    <3>2. CASE ~ReadGroup(o)
      BY <1>0, <3>2, StepMoves
    <3> QED BY <3>1, <3>2
  <2>2. keys' = keys
    BY <1>0, <1>2, ReadGroupMoves DEF HandlerStep, UpsertDevice, RegisterDevice,
      MarkPresenceFlushed, TouchClientPresence, TouchDevice, ResetPresenceFlush,
      UpdateGroupProfile, StoreAuthMode, CheckOnline, Delete, groupVars
  <2>3. pc \in DevicePcs => ops[o].pc \in DevicePcs
    BY <1>0, <2>1 DEF Successors, DevicePcs, Handler, Pcs
  <2>4. ASSUME NEW x \in Ops, ops'[x] # None
        PROVE  /\ ops'[x].key <= keys'
               /\ ops'[x].pc \in DevicePcs => ops'[x].dev \in Devices
    <3>1. CASE x = o
      <4>1. /\ ops'[o].pc = pc /\ ops'[o].dev = ops[o].dev
            /\ ops'[o].key = ops[o].key
        BY <2>1, <2>4, <3>1 DEF Moved
      <4>2. /\ ops[o].key <= keys
            /\ ops[o].pc \in DevicePcs => ops[o].dev \in Devices
        BY <1>0 DEF Typed, HandlersTyped
      <4> QED BY <2>2, <2>3, <3>1, <4>1, <4>2
    <3>2. CASE x # o
      BY <2>1, <2>2, <2>4, <3>2 DEF Moved, Typed, HandlersTyped
    <3> QED BY <3>1, <3>2
  <2>5. OpsTyped'
    BY <2>1 DEF Moved
  <2> QED BY <2>4, <2>5 DEF HandlersTyped
<1> QED BY <1>1, <1>2

LEMMA TypedStep == Typed /\ [Next]_vars => Typed'
<1> SUFFICES ASSUME Typed, Next PROVE Typed'
  <2>1. ASSUME UNCHANGED vars PROVE Typed <=> Typed'
    BY <2>1 DEF vars, Typed, RowsTyped, HandlersTyped, OpsTyped
  <2> QED BY <2>1
<1>0. OpsTyped /\ RowsTyped /\ HandlersTyped /\ keys \in Nat
  BY DEF Typed, HandlersTyped, RowsTyped
<1>1. CASE Arriving
  <2>1. PICK o \in Ops, r \in Handler : Arrival(o, r)
    BY <1>1, ArrivingArrives
  <2>2. RowsTyped'
    BY <1>0, <2>1 DEF Arrival, RowsTyped, deviceVars, groupVars
  <2>3. r.key = 0 /\ (r.pc \in DevicePcs => r.dev \in Devices)
    BY <1>0, <2>1 DEF Arrival, DevicePcs, RowsTyped
  <2>4. HandlersTyped'
    BY <1>0, <2>1, <2>3 DEF Arrival, Arrived, HandlersTyped, groupVars
  <2> QED BY <2>2, <2>4 DEF Typed
<1>2. CASE \E o \in Ops : HandlerStep(o)
  BY <1>2, RowsStep, HandlersStep DEF Typed
<1>3. ASSUME NEW d \in Devices, Leave(d) \/ FallSilent(d)
      PROVE  Typed'
  <2>1. PICK how \in {"none", "silent"} : SessionEnds(d, how)
    BY <1>3 DEF Leave, FallSilent
  <2>2. RowsTyped'
    BY <1>0, <2>1 DEF SessionEnds, RowsTyped, groupVars
  <2>3. HandlersTyped'
    BY <1>0, <2>1, SessionEndsMoves DEF SessionEnds, HandlersTyped, groupVars
  <2> QED BY <2>2, <2>3 DEF Typed
<1>4. CASE \E d \in Devices : Age(d)
  BY <1>4 DEF Age, Typed, RowsTyped, HandlersTyped, OpsTyped, groupVars
<1>5. ASSUME NEW enabled \in BOOLEAN, UpdateGroupStatus(enabled)
      PROVE  Typed'
  <2>1. group' \in Group /\ group'.api = group.api /\ group # None
    BY <1>0, <1>5 DEF UpdateGroupStatus, RowsTyped, Group
  <2> QED BY <1>5, <2>1 DEF UpdateGroupStatus, Typed, RowsTyped, HandlersTyped,
                            OpsTyped, deviceVars
<1>6. ASSUME NEW requested \in Requested, NEW enabled \in BOOLEAN,
             CreateGroup(requested, enabled)
      PROVE  Typed'
  <2> DEFINE mode == NormalizeAuthMode(requested)
             k == KeyFor(mode, 0)
  <2>1. mode \in Modes
    BY DEF NormalizeAuthMode, Modes
  <2> HIDE DEF mode
  <2>2. k \in Nat /\ k <= keys' /\ keys <= keys' /\ keys' \in 0..MaxKeys
    BY <1>0, <1>6, MaxKeysAssumption
    DEF CreateGroup, Generated, KeyFor, GenAPIKey, RowsTyped, mode
  <2>3. group' = [enabled |-> enabled, mode |-> mode, api |-> k]
        /\ UNCHANGED <<deviceVars, ops, revoked>>
    BY <1>6 DEF CreateGroup, mode
  <2> HIDE DEF k
  <2>4. RowsTyped'
    BY <1>0, <2>1, <2>2, <2>3 DEF RowsTyped, deviceVars, Group
  <2>5. HandlersTyped'
    <3>1. \A o \in Ops : ops[o] # None => ops[o].key \in Nat
      BY <1>0 DEF OpsTyped, Handler
    <3> QED BY <1>0, <2>2, <2>3, <3>1 DEF HandlersTyped, OpsTyped
  <2> QED BY <2>4, <2>5 DEF Typed
<1>7. CASE RotateGroupAPIKey
  <2>1. group \in Group /\ group.api \in Nat /\ group.api <= keys
    BY <1>0, <1>7 DEF RotateGroupAPIKey, RowsTyped, Group
  <2>2. group' \in Group /\ group'.api = keys + 1
    BY <1>0, <1>7, <2>1 DEF RotateGroupAPIKey, GenAPIKey, Group
  <2>3. Revoked \subseteq 1..keys
    BY <2>1, <1>0 DEF Revoked
  <2>4. RowsTyped'
    BY <1>0, <1>7, <2>2, <2>3, MaxKeysAssumption DEF RotateGroupAPIKey, RowsTyped, deviceVars
  <2>5. HandlersTyped'
    <3>1. \A o \in Ops : ops[o] # None => ops[o].key \in Nat
      BY <1>0 DEF OpsTyped, Handler
    <3> QED BY <1>0, <1>7, <3>1 DEF RotateGroupAPIKey, HandlersTyped, OpsTyped
  <2> QED BY <2>4, <2>5 DEF Typed
<1>8. CASE Restart
  BY <1>8 DEF Restart, Typed, RowsTyped, HandlersTyped, OpsTyped, groupVars
<1> QED BY <1>1, <1>2, <1>3, <1>4, <1>5, <1>6, <1>7, <1>8, NextCases

LEMMA InitTyped == Init => Typed
BY MaxKeysAssumption DEF Init, Typed, RowsTyped, HandlersTyped, OpsTyped

\* Rows, sessions and handlers are always well formed.
THEOREM RosterTypeCorrect == Spec => []RosterTypeOK
<1>1. Typed => RosterTypeOK
  BY DEF Typed, RowsTyped, HandlersTyped, OpsTyped, RosterTypeOK
<1> QED BY <1>1, InitTyped, TypedStep, PTL DEF Spec

-----------------------------------------------------------------------------
(* Deletions *)

\* Between its look at the sessions and its deletion a handler has found the
\* devices it is concerned with offline, so none was online all along.
SteadyInv ==
  \A o \in Ops : ops[o] # None =>
    /\ ops[o].pc = "check" => ops[o].steady \subseteq Concerned(ops[o].dev) \cap Realtime
    /\ ops[o].pc = "delete" => ops[o].steady = {}

\* Sessions are never lost in a handler's step.
LEMMA StepKeepsSessions ==
  ASSUME Typed, NEW o \in Ops, HandlerStep(o)
  PROVE  Realtime \subseteq Realtime'
BY DEF HandlerStep, UpsertDevice, RegisterDevice, MarkPresenceFlushed,
  TouchClientPresence, TouchDevice, ResetPresenceFlush, UpdateGroupProfile, ReadGroup,
  StoreAuthMode, CheckOnline, Delete, deviceVars, Realtime, Typed, RowsTyped

\* A deletion goes ahead only when nothing it is concerned with is online.
LEMMA DeleteAfterCheck ==
  ASSUME OpsTyped, NEW o \in Ops, HandlerStep(o), Moved(o, "delete")
  PROVE  ops[o].pc = "check" /\ Concerned(ops[o].dev) \cap Realtime = {}
<1>1. ops[o] # None /\ ops[o] \in Handler
  BY StepMoves
<1>2. CASE ReadGroup(o)
  <2>1. ops'[o] # None /\ ops'[o].pc = "delete"
    BY DEF Moved
  <2>2. CASE Goes(o, "done")
    BY <1>1, <2>1, <2>2 DEF Goes, OpsTyped
  <2>3. CASE KeyFound(o)
    <3> DEFINE r == [ops[o] EXCEPT !.pc = "store",
                       !.key = KeyFor(ops[o].mode, group.api)]
    <3>1. r.pc = "store"
      BY <1>1 DEF Handler
    <3>2. ops'[o] = r
      BY <2>3 DEF KeyFound, OpsTyped
    <3> HIDE DEF r
    <3> QED BY <2>1, <3>1, <3>2
  <2> QED BY <1>2, <2>2, <2>3 DEF ReadGroup, KeyFound
<1>3. CASE ~ReadGroup(o)
  <2>1. PICK pc \in Successors(ops[o].pc) : Moved(o, pc)
    BY <1>3, StepMoves
  <2>2. pc = "delete"
    BY <2>1 DEF Moved
  <2>3. ops[o].pc = "check"
    BY <2>1, <2>2 DEF Successors
  <2>4. CheckOnline(o)
    BY <2>3, <1>3 DEF HandlerStep, UpsertDevice, RegisterDevice, MarkPresenceFlushed,
      TouchClientPresence, TouchDevice, ResetPresenceFlush, UpdateGroupProfile,
      StoreAuthMode, Delete, At
  <2>5. ASSUME Concerned(ops[o].dev) \cap Realtime # {} PROVE FALSE
    <3>1. ops'[o] = None
      BY <1>1, <2>4, <2>5 DEF CheckOnline, Goes, OpsTyped
    <3> QED BY <2>2, <2>1, <3>1 DEF Moved
  <2> QED BY <2>3, <2>5
<1> QED BY <1>2, <1>3

LEMMA SteadyStep == Typed /\ SteadyInv /\ [Next]_vars => SteadyInv'
<1> SUFFICES ASSUME Typed, SteadyInv, Next PROVE SteadyInv'
  <2>1. ASSUME UNCHANGED vars PROVE SteadyInv <=> SteadyInv'
    BY <2>1 DEF vars, SteadyInv, Realtime
  <2> QED BY <2>1
<1>0. OpsTyped
  BY DEF Typed, HandlersTyped
<1>1. CASE Arriving
  <2>1. PICK o \in Ops, r \in Handler : Arrival(o, r)
    BY <1>1, ArrivingArrives
  <2>2. session' = session
    BY <2>1 DEF Arrival, deviceVars
  <2>3. r.pc = "check" => r.steady \subseteq Concerned(r.dev) \cap Realtime
    <3>1. Concerned(r.dev) \subseteq Devices
      BY <2>1 DEF Concerned, Handler
    <3>2. r.pc = "check" => r.steady = {x \in Concerned(r.dev) : session[x] = "fresh"}
      BY <2>1 DEF Arrival
    <3> QED BY <3>1, <3>2 DEF Realtime
  <2>4. r.pc # "delete"
    BY <2>1 DEF Arrival
  <2> QED BY <2>1, <2>2, <2>3, <2>4 DEF Arrival, Arrived, SteadyInv, Realtime
<1>2. ASSUME NEW o \in Ops, HandlerStep(o)
      PROVE  SteadyInv'
  <2>1. Realtime \subseteq Realtime' /\ ops[o] # None
    BY <1>0, <1>2, StepKeepsSessions, StepMoves
  <2>2. \A x \in Ops \ {o} : ops'[x] = ops[x]
    BY <1>0, <1>2, StepMoves, ReadGroupMoves, KeyFoundMoves DEF Typed, Moved
  <2>3. ASSUME ops'[o] # None
        PROVE  /\ ops'[o].pc # "check"
               /\ ops'[o].pc = "delete" => ops'[o].steady = {}
    <3>1. CASE ReadGroup(o)
      BY <1>0, <2>1, <2>3, <3>1, ReadGroupMoves, KeyFoundMoves DEF Typed, Moved
    <3>2. CASE ~ReadGroup(o)
      <4>1. PICK pc \in Successors(ops[o].pc) : Moved(o, pc)
        BY <1>0, <1>2, <3>2, StepMoves
      <4>2. pc # "check"
        BY <4>1 DEF Successors
      <4>3. ops'[o].pc = pc /\ ops'[o].steady = ops[o].steady
        BY <2>3, <4>1 DEF Moved
      <4>4. ASSUME pc = "delete" PROVE ops[o].steady = {}
        <5>1. ops[o].pc = "check" /\ Concerned(ops[o].dev) \cap Realtime = {}
          BY <1>0, <1>2, <4>1, <4>4, DeleteAfterCheck
        <5> QED BY <2>1, <5>1 DEF SteadyInv
      <4> QED BY <4>2, <4>3, <4>4
    <3> QED BY <3>1, <3>2
  <2> QED BY <2>1, <2>2, <2>3 DEF SteadyInv
<1>3. ASSUME NEW d \in Devices, Leave(d) \/ FallSilent(d)
      PROVE  SteadyInv'
  <2>1. PICK how \in {"none", "silent"} : SessionEnds(d, how)
    BY <1>3 DEF Leave, FallSilent
  <2>2. Realtime' = Realtime \ {d}
    BY <2>1 DEF SessionEnds, Realtime, Typed, RowsTyped
  <2> QED BY <1>0, <2>1, <2>2, SessionEndsMoves DEF SteadyInv
<1>4. CASE UNCHANGED <<ops, session>>
  BY <1>4 DEF SteadyInv, Realtime
<1>5. CASE Restart
  BY <1>5 DEF Restart, SteadyInv
<1>6. (\E d \in Devices : Age(d)) => UNCHANGED <<ops, session>>
  BY DEF Age
<1>7. (\E enabled \in BOOLEAN : UpdateGroupStatus(enabled)) => UNCHANGED <<ops, session>>
  BY DEF UpdateGroupStatus, deviceVars
<1>8. (\E requested \in Requested, enabled \in BOOLEAN : CreateGroup(requested, enabled))
        => UNCHANGED <<ops, session>>
  BY DEF CreateGroup, deviceVars
<1>9. RotateGroupAPIKey => UNCHANGED <<ops, session>>
  BY DEF RotateGroupAPIKey, deviceVars
<1> QED BY <1>1, <1>2, <1>3, <1>4, <1>5, <1>6, <1>7, <1>8, <1>9, NextCases

\* Nothing is deleted that was online all the time its deletion took.
THEOREM OnlineIsSpared == Spec => DeletionSparesOnline
<1>1. Init => SteadyInv
  BY DEF Init, SteadyInv
<1>2. SteadyInv /\ [Next]_vars =>
        [\A o \in Ops :
           At(o, "delete") /\ ops'[o] = None /\ (DeletesGroup(o) \/ DeletesDevice(o))
             => ops[o].steady = {}]_vars
  BY DEF SteadyInv, At
<1> QED BY <1>1, <1>2, InitTyped, TypedStep, SteadyStep, PTL
        DEF Spec, DeletionSparesOnline

-----------------------------------------------------------------------------
(* What the hub knows was in the list before *)

\* So were the devices of the handlers that tell the hub, and of the tokens.
KnownInv ==
  /\ OnlineWasListed
  /\ tokens \subseteq known
  /\ \A o \in Ops :
       ops[o] # None /\ ops[o].pc \in DevicePcs \ {"upsert"} => ops[o].dev \in known

LEMMA KnownHandlerStep ==
  ASSUME Typed, KnownInv, NEW o \in Ops, HandlerStep(o)
  PROVE  KnownInv'
<1>0. OpsTyped /\ ops[o] # None /\ ops[o] \in Handler
  BY StepMoves DEF Typed, HandlersTyped
<1>1. \A x \in Ops \ {o} : ops'[x] = ops[x]
  BY <1>0, StepMoves, ReadGroupMoves, KeyFoundMoves DEF Typed, Moved
<1>2. CASE UpsertDevice(o)
  <2>1. PICK ok \in BOOLEAN :
          /\ Goes(o, AfterUpsert(ok))
          /\ known' = IF ok THEN known \cup {ops[o].dev} ELSE known
    BY <1>2 DEF UpsertDevice
  <2>2. Moved(o, AfterUpsert(ok))
    BY <1>0, <2>1, GoesMoves DEF AfterUpsert, Pcs
  <2>3. ops'[o] # None => ops'[o].dev \in known'
    BY <2>1, <2>2 DEF Moved, AfterUpsert
  <2>4. known \subseteq known' /\ session' = session /\ tokens' = tokens
    BY <1>2, <2>1 DEF UpsertDevice
  <2> QED BY <1>1, <2>3, <2>4 DEF KnownInv, OnlineWasListed
<1>3. CASE HandlerStep(o) /\ ~UpsertDevice(o)
  <2>1. known' = known
    BY <1>3 DEF HandlerStep, RegisterDevice, MarkPresenceFlushed,
      TouchClientPresence, TouchDevice, ResetPresenceFlush, UpdateGroupProfile,
      ReadGroup, StoreAuthMode, CheckOnline, Delete, deviceVars
  <2>2. ASSUME ops'[o] # None, ops'[o].pc \in DevicePcs \ {"upsert"}
        PROVE  ops'[o].dev \in known
    <3>1. CASE ReadGroup(o)
      BY <1>0, <2>2, <3>1, ReadGroupMoves, KeyFoundMoves DEF Typed, Moved, DevicePcs
    <3>2. CASE ~ReadGroup(o)
      <4>1. PICK pc \in Successors(ops[o].pc) : Moved(o, pc)
        BY <1>0, <1>3, <3>2, StepMoves
      <4>2. ops'[o].pc = pc /\ ops'[o].dev = ops[o].dev
        BY <2>2, <4>1 DEF Moved
      <4>3. ops[o].pc # "upsert"
        BY <1>3, <3>2 DEF HandlerStep, RegisterDevice, MarkPresenceFlushed,
          TouchClientPresence, TouchDevice, ResetPresenceFlush, UpdateGroupProfile,
          StoreAuthMode, CheckOnline, Delete, At
      <4>4. ops[o].pc \in DevicePcs \ {"upsert"}
        BY <2>2, <4>1, <4>2, <4>3 DEF Successors, DevicePcs
      <4> QED BY <1>0, <4>2, <4>4 DEF KnownInv
    <3> QED BY <3>1, <3>2
  <2>3. /\ tokens' \subseteq known
        /\ \A d \in Devices : session'[d] # "none" => d \in known
    <3>1. CASE RegisterDevice(o) \/ MarkPresenceFlushed(o) \/ TouchClientPresence(o)
      <4>1. ops[o].dev \in known
        BY <1>0, <3>1 DEF RegisterDevice, MarkPresenceFlushed, TouchClientPresence, At,
          KnownInv, DevicePcs
      <4> QED BY <3>1, <4>1 DEF RegisterDevice, MarkPresenceFlushed,
                TouchClientPresence, KnownInv, OnlineWasListed, Typed, RowsTyped
    <3>2. CASE UNCHANGED <<tokens, session>>
      BY <3>2 DEF KnownInv, OnlineWasListed
    <3> QED BY <1>3, <3>1, <3>2 DEF HandlerStep, TouchDevice, ResetPresenceFlush,
              UpdateGroupProfile, ReadGroup, StoreAuthMode, CheckOnline, Delete, deviceVars
  <2> QED BY <1>1, <2>1, <2>2, <2>3 DEF KnownInv, OnlineWasListed
<1> QED BY <1>2, <1>3

LEMMA KnownStep == Typed /\ KnownInv /\ [Next]_vars => KnownInv'
<1> SUFFICES ASSUME Typed, KnownInv, Next PROVE KnownInv'
  <2>1. ASSUME UNCHANGED vars PROVE KnownInv <=> KnownInv'
    BY <2>1 DEF vars, KnownInv, OnlineWasListed
  <2> QED BY <2>1
<1>0. OpsTyped
  BY DEF Typed, HandlersTyped
<1>1. CASE Arriving
  <2>1. PICK o \in Ops, r \in Handler : Arrival(o, r)
    BY <1>1, ArrivingArrives
  <2>2. r.pc \in DevicePcs \ {"upsert"} => r.dev \in known
    BY <2>1 DEF Arrival, KnownInv, DevicePcs
  <2> QED BY <2>1, <2>2 DEF Arrival, Arrived, KnownInv, OnlineWasListed, deviceVars
<1>2. CASE \E o \in Ops : HandlerStep(o)
  BY <1>2, KnownHandlerStep
<1>3. ASSUME NEW d \in Devices, Leave(d) \/ FallSilent(d)
      PROVE  KnownInv'
  <2>1. PICK how \in {"none", "silent"} :
          SessionEnds(d, how) /\ (how = "none" \/ session[d] = "fresh")
    BY <1>3 DEF Leave, FallSilent
  <2>2. OnlineWasListed' /\ UNCHANGED <<tokens, known>>
    BY <2>1 DEF SessionEnds, KnownInv, OnlineWasListed, Typed, RowsTyped
  <2> QED BY <1>0, <2>1, <2>2, SessionEndsMoves DEF KnownInv
<1>4. CASE UNCHANGED <<ops, session, tokens, known>>
  BY <1>4 DEF KnownInv, OnlineWasListed
<1>5. CASE Restart
  BY <1>5 DEF Restart, KnownInv, OnlineWasListed
<1>6. (\E d \in Devices : Age(d)) => UNCHANGED <<ops, session, tokens, known>>
  BY DEF Age
<1>7. (\E enabled \in BOOLEAN : UpdateGroupStatus(enabled))
        => UNCHANGED <<ops, session, tokens, known>>
  BY DEF UpdateGroupStatus, deviceVars
<1>8. (\E requested \in Requested, enabled \in BOOLEAN : CreateGroup(requested, enabled))
        => UNCHANGED <<ops, session, tokens, known>>
  BY DEF CreateGroup, deviceVars
<1>9. RotateGroupAPIKey => UNCHANGED <<ops, session, tokens, known>>
  BY DEF RotateGroupAPIKey, deviceVars
<1> QED BY <1>1, <1>2, <1>3, <1>4, <1>5, <1>6, <1>7, <1>8, <1>9, NextCases

\* No device is online that was never in the list.
THEOREM OnlineIsListedFirst == Spec => []OnlineWasListed
<1>1. Init => KnownInv
  BY DEF Init, KnownInv, OnlineWasListed
<1>2. KnownInv => OnlineWasListed
  BY DEF KnownInv
<1> QED BY <1>1, <1>2, InitTyped, TypedStep, KnownStep, PTL DEF Spec

-----------------------------------------------------------------------------
(* The presence cache *)

Writing(d) == \E o \in Ops : (At(o, "write") \/ At(o, "reset")) /\ ops[o].dev = d

\* A login that has written the row owes nothing, so that it may say so.
FlushInv ==
  /\ \A d \in owed \cap recent : Writing(d)
  /\ \A d \in owed : ~LoggingIn(d)

LEMMA FlushHandlerStep ==
  ASSUME Typed, FlushInv, NEW o \in Ops, HandlerStep(o)
  PROVE  FlushInv'
<1> DEFINE D == ops[o].dev
<1>0. OpsTyped /\ ops[o] # None /\ ops[o] \in Handler
  BY StepMoves DEF Typed, HandlersTyped
<1>1. \A x \in Ops \ {o} : ops'[x] = ops[x]
  BY <1>0, StepMoves, ReadGroupMoves, KeyFoundMoves DEF Typed, Moved
<1>2. CASE UpsertDevice(o)
  <2>1. PICK ok \in BOOLEAN :
          /\ Goes(o, AfterUpsert(ok))
          /\ owed' = IF ok THEN owed \ {D} ELSE owed
    BY <1>2 DEF UpsertDevice
  <2>2. Moved(o, AfterUpsert(ok)) /\ ops[o].pc = "upsert" /\ recent' = recent
    BY <1>0, <1>2, <2>1, GoesMoves DEF AfterUpsert, Pcs, UpsertDevice, At
  <2>3. ASSUME NEW d \in owed' PROVE ~LoggingIn(d)' /\ (Writing(d) => Writing(d)')
    BY <1>1, <2>1, <2>2, <2>3 DEF FlushInv, LoggingIn, Writing, At, Moved, AfterUpsert
  <2> QED BY <2>1, <2>2, <2>3 DEF FlushInv
<1>3. CASE RegisterDevice(o)
  <2>1. Moved(o, "mark") /\ ops[o].pc = "register" /\ recent' = recent /\ owed' = owed
    BY <1>0, <1>3, GoesMoves DEF Pcs, RegisterDevice, At
  <2>2. ASSUME NEW d \in owed PROVE ~LoggingIn(d)' /\ (Writing(d) => Writing(d)')
    BY <1>0, <1>1, <2>1, <2>2 DEF FlushInv, LoggingIn, Writing, At, Moved
  <2> QED BY <2>1, <2>2 DEF FlushInv
<1>4. CASE MarkPresenceFlushed(o)
  <2>1. /\ Moved(o, "done") /\ ops[o].pc = "mark"
        /\ recent' = recent \cup {D} /\ owed' = owed
    BY <1>0, <1>4, GoesMoves DEF MarkPresenceFlushed, At
  <2>2. D \notin owed
    BY <1>0, <2>1 DEF FlushInv, LoggingIn, At
  <2>3. ASSUME NEW d \in owed PROVE ~LoggingIn(d)' /\ (Writing(d) => Writing(d)')
    BY <1>0, <1>1, <2>1, <2>3 DEF FlushInv, LoggingIn, Writing, At, Moved
  <2> QED BY <2>1, <2>2, <2>3 DEF FlushInv
<1>5. CASE TouchClientPresence(o)
  <2>1. ops[o].pc = "touch"
    BY <1>5 DEF TouchClientPresence, At
  <2>2. CASE D \in recent
    <3>1. Moved(o, "done") /\ UNCHANGED <<recent, owed>>
      BY <1>0, <1>5, <2>2, GoesMoves DEF TouchClientPresence
    <3>2. ASSUME NEW d \in owed PROVE ~LoggingIn(d)' /\ (Writing(d) => Writing(d)')
      BY <1>0, <1>1, <2>1, <3>1, <3>2 DEF FlushInv, LoggingIn, Writing, At, Moved
    <3> QED BY <3>1, <3>2 DEF FlushInv
  <2>3. CASE D \notin recent
    <3>1. /\ Moved(o, "write") /\ recent' = recent \cup {D}
          /\ owed' = IF LoggingIn(D) THEN owed ELSE owed \cup {D}
      BY <1>0, <1>5, <2>3, GoesMoves DEF TouchClientPresence, Pcs
    <3>2. ASSUME NEW d PROVE LoggingIn(d)' <=> LoggingIn(d)
      BY <1>0, <1>1, <2>1, <3>1 DEF LoggingIn, At, Moved
    <3>3. ASSUME NEW d PROVE Writing(d) => Writing(d)'
      BY <1>0, <1>1, <2>1, <3>1 DEF Writing, At, Moved
    <3>4. \A d \in owed' : ~LoggingIn(d)'
      BY <3>1, <3>2 DEF FlushInv
    <3>5. \A d \in owed' \cap recent' : Writing(d)'
      <4> SUFFICES ASSUME NEW d \in owed' \cap recent' PROVE Writing(d)'
        OBVIOUS
      <4>1. CASE d = D
        BY <3>1, <4>1 DEF Writing, At, Moved
      <4>2. CASE d # D
        <5>1. d \in owed \cap recent
          BY <3>1, <4>2
        <5> QED BY <3>3, <5>1 DEF FlushInv
      <4> QED BY <4>1, <4>2
    <3> QED BY <3>4, <3>5 DEF FlushInv
  <2> QED BY <2>2, <2>3
<1>6. CASE TouchDevice(o)
  <2>1. PICK ok \in BOOLEAN :
          Goes(o, AfterWrite(ok)) /\ owed' = IF ok THEN owed \ {D} ELSE owed
    BY <1>6 DEF TouchDevice
  <2>2. Moved(o, AfterWrite(ok)) /\ ops[o].pc = "write" /\ recent' = recent
    BY <1>0, <1>6, <2>1, GoesMoves DEF TouchDevice, At, AfterWrite, Pcs
  <2>3. ASSUME NEW d \in owed' PROVE ~LoggingIn(d)' /\ (Writing(d) => Writing(d)')
    BY <1>0, <1>1, <2>1, <2>2, <2>3 DEF FlushInv, LoggingIn, Writing, At, Moved, AfterWrite
  <2> QED BY <2>1, <2>2, <2>3 DEF FlushInv
<1>7. CASE ResetPresenceFlush(o)
  <2>1. /\ Moved(o, "done") /\ ops[o].pc = "reset"
        /\ recent' = recent \ {D} /\ owed' = owed
    BY <1>0, <1>7, GoesMoves DEF ResetPresenceFlush, At
  <2>2. ASSUME NEW d \in owed
        PROVE  ~LoggingIn(d)' /\ (d # D /\ Writing(d) => Writing(d)')
    BY <1>0, <1>1, <2>1, <2>2 DEF FlushInv, LoggingIn, Writing, At, Moved
  <2> QED BY <2>1, <2>2 DEF FlushInv
<1>8. CASE UpdateGroupProfile(o) \/ ReadGroup(o) \/ StoreAuthMode(o) \/ CheckOnline(o)
           \/ Delete(o)
  <2>1. UNCHANGED <<recent, owed>>
    BY <1>8 DEF UpdateGroupProfile, ReadGroup, StoreAuthMode, CheckOnline, Delete, deviceVars
  <2>2. ops[o].pc \in {"profile", "read", "store", "check", "delete"}
    BY <1>8 DEF UpdateGroupProfile, ReadGroup, StoreAuthMode, CheckOnline, Delete, At
  <2>3. ops'[o] # None => ops'[o].pc \notin {"register", "mark", "write", "reset"}
    <3>1. CASE ReadGroup(o)
      BY <1>0, <3>1, ReadGroupMoves, KeyFoundMoves DEF Typed, Moved
    <3>2. CASE ~ReadGroup(o)
      <4>1. PICK pc \in Successors(ops[o].pc) : Moved(o, pc)
        BY <1>0, <3>2, StepMoves
      <4> QED BY <2>2, <4>1 DEF Moved, Successors
    <3> QED BY <3>1, <3>2
  <2>4. ASSUME NEW d \in owed PROVE ~LoggingIn(d)' /\ (Writing(d) => Writing(d)')
    BY <1>0, <1>1, <2>2, <2>3, <2>4 DEF FlushInv, LoggingIn, Writing, At
  <2> QED BY <2>1, <2>4 DEF FlushInv
<1> QED BY <1>2, <1>3, <1>4, <1>5, <1>6, <1>7, <1>8 DEF HandlerStep

LEMMA FlushStep == Typed /\ FlushInv /\ [Next]_vars => FlushInv'
<1> SUFFICES ASSUME Typed, FlushInv, Next PROVE FlushInv'
  <2>1. ASSUME UNCHANGED vars PROVE FlushInv <=> FlushInv'
    BY <2>1 DEF vars, FlushInv, Writing, LoggingIn, At
  <2> QED BY <2>1
<1>0. OpsTyped
  BY DEF Typed, HandlersTyped
<1>1. CASE Arriving
  <2>1. PICK o \in Ops, r \in Handler : Arrival(o, r)
    BY <1>1, ArrivingArrives
  <2>2. r.pc \notin {"register", "mark", "write", "reset"} /\ UNCHANGED <<owed, recent>>
    BY <2>1 DEF Arrival, deviceVars
  <2>3. ASSUME NEW d \in owed PROVE ~LoggingIn(d)' /\ (Writing(d) => Writing(d)')
    BY <2>1, <2>2, <2>3 DEF Arrival, Arrived, FlushInv, LoggingIn, Writing, At
  <2> QED BY <2>2, <2>3 DEF FlushInv
<1>2. CASE \E o \in Ops : HandlerStep(o)
  BY <1>2, FlushHandlerStep
<1>3. ASSUME NEW d \in Devices, Leave(d) \/ FallSilent(d)
      PROVE  FlushInv'
  <2>1. PICK how \in {"none", "silent"} : SessionEnds(d, how)
    BY <1>3 DEF Leave, FallSilent
  <2>2. UNCHANGED <<owed, recent>>
    BY <2>1 DEF SessionEnds
  <2>3. \A e : (LoggingIn(e)' <=> LoggingIn(e)) /\ (Writing(e)' <=> Writing(e))
    BY <1>0, <2>1, SessionEndsMoves DEF LoggingIn, Writing, At
  <2> QED BY <2>2, <2>3 DEF FlushInv
<1>4. CASE UNCHANGED <<ops, owed>> /\ recent' \subseteq recent
  BY <1>4 DEF FlushInv, LoggingIn, Writing, At
<1>5. CASE Restart
  BY <1>5 DEF Restart, FlushInv, LoggingIn, Writing, At
<1>6. (\E d \in Devices : Age(d)) => UNCHANGED <<ops, owed>> /\ recent' \subseteq recent
  BY DEF Age
<1>7. (\E enabled \in BOOLEAN : UpdateGroupStatus(enabled))
        => UNCHANGED <<ops, owed>> /\ recent' \subseteq recent
  BY DEF UpdateGroupStatus, deviceVars
<1>8. (\E requested \in Requested, enabled \in BOOLEAN : CreateGroup(requested, enabled))
        => UNCHANGED <<ops, owed>> /\ recent' \subseteq recent
  BY DEF CreateGroup, deviceVars
<1>9. RotateGroupAPIKey => UNCHANGED <<ops, owed>> /\ recent' \subseteq recent
  BY DEF RotateGroupAPIKey, deviceVars
<1> QED BY <1>1, <1>2, <1>3, <1>4, <1>5, <1>6, <1>7, <1>8, <1>9, NextCases

\* A write that failed is tried again by the next heartbeat.
THEOREM FailedWriteIsRetried == Spec => []FailedBeatRetried
<1>1. Init => FlushInv
  BY DEF Init, FlushInv
<1>2. FlushInv => FailedBeatRetried
  BY DEF FlushInv, FailedBeatRetried, Writing
<1> QED BY <1>1, <1>2, InitTyped, TypedStep, FlushStep, PTL DEF Spec

-----------------------------------------------------------------------------
(* API keys *)

\* What a change of mode is about to store is a mode with its key, and a key
\* that is still good.
KeyInv ==
  /\ ApiModeHasKey /\ RevokedStaysRevoked
  /\ \A o \in Ops : At(o, "store") =>
       /\ ops[o].key \notin revoked
       /\ ops[o].mode = "apikey" => ops[o].key # 0

\* A key that is settled is the one there was or a new one.
LEMMA SettledKey ==
  ASSUME RowsTyped, NEW m \in Modes, NEW k \in 0..keys
  PROVE  /\ k \notin revoked => KeyFor(m, k) \notin revoked
         /\ m = "apikey" => KeyFor(m, k) # 0
BY DEF KeyFor, GenAPIKey, RowsTyped

LEMMA KeyHandlerStep ==
  ASSUME Typed, KeyInv, NEW o \in Ops, HandlerStep(o)
  PROVE  KeyInv'
<1>0. OpsTyped /\ ops[o] # None /\ ops[o] \in Handler /\ RowsTyped
  BY StepMoves DEF Typed, HandlersTyped
<1>1. \A x \in Ops \ {o} : ops'[x] = ops[x]
  BY <1>0, StepMoves, ReadGroupMoves, KeyFoundMoves DEF Typed, Moved
<1>2. CASE ReadGroup(o) /\ KeyFound(o)
  <2>1. /\ ops'[o].key = KeyFor(ops[o].mode, group.api)
        /\ ops'[o].mode = ops[o].mode
    BY <1>0, <1>2, KeyFoundMoves DEF Typed
  <2>2. group.api \in 0..keys /\ group.api \notin revoked /\ ops[o].mode \in Modes
    BY <1>0, <1>2 DEF KeyFound, RowsTyped, Group, KeyInv, RevokedStaysRevoked, Handler
  <2>3. ops'[o].key \notin revoked /\ (ops'[o].mode = "apikey" => ops'[o].key # 0)
    BY <1>0, <2>1, <2>2, SettledKey
  <2>4. UNCHANGED <<group, revoked>>
    BY <1>2 DEF ReadGroup
  <2> QED BY <1>1, <2>3, <2>4 DEF KeyInv, ApiModeHasKey, RevokedStaysRevoked, At
<1>3. CASE ~(ReadGroup(o) /\ KeyFound(o))
  <2>1. PICK pc \in Successors(ops[o].pc) : Moved(o, pc)
    <3>1. CASE ReadGroup(o)
      BY <1>0, <1>3, <3>1, ReadGroupMoves DEF Successors
    <3>2. CASE ~ReadGroup(o)
      BY <1>0, <3>2, StepMoves
    <3> QED BY <3>1, <3>2
  <2>2. ~At(o, "store")'
    BY <2>1 DEF Successors, Moved, At
  <2>3. CASE StoreAuthMode(o)
    <3>1. /\ revoked' = revoked
          /\ \/ group' = group
             \/ group' # None => /\ group'.mode = ops[o].mode
                                /\ group'.api = ops[o].key
      BY <1>0, <2>3 DEF StoreAuthMode, RowsTyped, Group
    <3>2. ApiModeHasKey' /\ RevokedStaysRevoked'
      BY <2>3, <3>1 DEF StoreAuthMode, KeyInv, ApiModeHasKey, RevokedStaysRevoked
    <3> QED BY <1>1, <2>2, <3>1, <3>2 DEF KeyInv, At
  <2>4. CASE Delete(o)
    <3>1. UNCHANGED <<group, revoked>> \/ (group' = None /\ revoked' = revoked \cup Revoked)
      BY <2>4 DEF Delete, DeletesGroup
    <3>2. ApiModeHasKey' /\ RevokedStaysRevoked'
      BY <3>1 DEF KeyInv, ApiModeHasKey, RevokedStaysRevoked
    <3>3. \A x \in Ops : At(x, "store") => ops[x].key \notin Revoked
      BY DEF Revoked
    <3> QED BY <1>1, <2>2, <3>1, <3>2, <3>3 DEF KeyInv, At
  <2>5. CASE UNCHANGED <<group, revoked>>
    BY <1>1, <2>2, <2>5 DEF KeyInv, ApiModeHasKey, RevokedStaysRevoked, At
  <2> QED BY <2>3, <2>4, <2>5 DEF HandlerStep, UpsertDevice, RegisterDevice,
            MarkPresenceFlushed, TouchClientPresence, TouchDevice, ResetPresenceFlush,
            UpdateGroupProfile, ReadGroup, CheckOnline, groupVars
<1> QED BY <1>2, <1>3

LEMMA KeyStep == Typed /\ KeyInv /\ [Next]_vars => KeyInv'
<1> SUFFICES ASSUME Typed, KeyInv, Next PROVE KeyInv'
  <2>1. ASSUME UNCHANGED vars PROVE KeyInv <=> KeyInv'
    BY <2>1 DEF vars, KeyInv, ApiModeHasKey, RevokedStaysRevoked, At
  <2> QED BY <2>1
<1>0. OpsTyped /\ RowsTyped /\ keys \in Nat
  BY DEF Typed, HandlersTyped, RowsTyped
<1>1. CASE Arriving
  <2>1. PICK o \in Ops, r \in Handler : Arrival(o, r)
    BY <1>1, ArrivingArrives
  <2>2. r.pc # "store" /\ UNCHANGED <<group, revoked>>
    BY <2>1 DEF Arrival, groupVars
  <2> QED BY <2>1, <2>2 DEF Arrival, Arrived, KeyInv, ApiModeHasKey,
            RevokedStaysRevoked, At
<1>2. CASE \E o \in Ops : HandlerStep(o)
  BY <1>2, KeyHandlerStep
<1>3. ASSUME NEW d \in Devices, Leave(d) \/ FallSilent(d)
      PROVE  KeyInv'
  <2>1. PICK how \in {"none", "silent"} : SessionEnds(d, how)
    BY <1>3 DEF Leave, FallSilent
  <2>2. UNCHANGED <<group, revoked>>
    BY <2>1 DEF SessionEnds, groupVars
  <2> QED BY <1>0, <2>1, <2>2, SessionEndsMoves
          DEF KeyInv, ApiModeHasKey, RevokedStaysRevoked, At
<1>4. CASE \E d \in Devices : Age(d)
  BY <1>4 DEF Age, groupVars, KeyInv, ApiModeHasKey, RevokedStaysRevoked, At
<1>5. ASSUME NEW enabled \in BOOLEAN, UpdateGroupStatus(enabled)
      PROVE  KeyInv'
  <2>1. /\ group # None /\ group'.api = group.api /\ group'.mode = group.mode
        /\ UNCHANGED <<ops, revoked>>
    BY <1>0, <1>5 DEF UpdateGroupStatus, RowsTyped, Group
  <2> QED BY <2>1 DEF KeyInv, ApiModeHasKey, RevokedStaysRevoked, At
<1>6. ASSUME NEW requested \in Requested, NEW enabled \in BOOLEAN,
             CreateGroup(requested, enabled)
      PROVE  KeyInv'
  <2> DEFINE mode == NormalizeAuthMode(requested)
  <2>1. mode \in Modes /\ 0 \in 0..keys /\ 0 \notin revoked
    BY <1>0 DEF NormalizeAuthMode, Modes, RowsTyped
  <2>2. KeyFor(mode, 0) \notin revoked /\ (mode = "apikey" => KeyFor(mode, 0) # 0)
    BY <1>0, <2>1, SettledKey
  <2>3. /\ group'.api = KeyFor(mode, 0) /\ group'.mode = mode
        /\ UNCHANGED <<ops, revoked>>
    BY <1>6 DEF CreateGroup
  <2> QED BY <2>2, <2>3 DEF KeyInv, ApiModeHasKey, RevokedStaysRevoked, At
<1>7. CASE RotateGroupAPIKey
  <2>1. group \in Group /\ group.api \in 0..keys
    BY <1>0, <1>7 DEF RotateGroupAPIKey, RowsTyped, Group
  <2>2. /\ group'.api = keys + 1
        /\ revoked' = revoked \cup Revoked /\ ops' = ops
    BY <1>7, <2>1 DEF RotateGroupAPIKey, GenAPIKey, Group
  <2>3. revoked' \subseteq 1..keys
    <3>1. Revoked \subseteq 1..keys
      BY <1>0, <2>1 DEF Revoked
    <3> QED BY <1>0, <2>2, <3>1 DEF RowsTyped
  <2>4. ApiModeHasKey' /\ RevokedStaysRevoked'
    BY <1>0, <2>2, <2>3 DEF ApiModeHasKey, RevokedStaysRevoked
  <2>5. \A x \in Ops : At(x, "store") => ops[x].key \notin Revoked
    BY DEF Revoked
  <2> QED BY <2>2, <2>4, <2>5 DEF KeyInv, At
<1>8. CASE Restart
  BY <1>8 DEF Restart, groupVars, KeyInv, ApiModeHasKey, RevokedStaysRevoked, At
<1> QED BY <1>1, <1>2, <1>3, <1>4, <1>5, <1>6, <1>7, <1>8, NextCases

LEMMA AlwaysKeyInv == Spec => []KeyInv
<1>1. Init => KeyInv
  BY DEF Init, KeyInv, ApiModeHasKey, RevokedStaysRevoked, At
<1> QED BY <1>1, InitTyped, TypedStep, KeyStep, PTL DEF Spec

\* A group that asks for a key has one, whatever is under way.
THEOREM ApiModeAlwaysHasKey == Spec => []ApiModeHasKey
<1>1. KeyInv => ApiModeHasKey
  BY DEF KeyInv
<1> QED BY <1>1, AlwaysKeyInv, PTL

\* A revoked key is not good again.
THEOREM RevokedForGood == Spec => []RevokedStaysRevoked
<1>1. KeyInv => RevokedStaysRevoked
  BY DEF KeyInv
<1> QED BY <1>1, AlwaysKeyInv, PTL
=============================================================================
