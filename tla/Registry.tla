------------------------------ MODULE Registry ------------------------------
(***************************************************************************)
(* The session registry of the hub (src/internal/rpc/hub.go): which device *)
(* is in which group, the round-robin order and cursor of every group, the *)
(* dispatch slots of every device, and the writers that wait for one.      *)
(*                                                                         *)
(* Every operation below runs under Hub.mu in the code, so each is one     *)
(* atomic action.  The map-of-pointers structure is kept: a session is an  *)
(* object (an element of Sessions) that other parts of the program may     *)
(* hold on to after the registry has dropped it, and `sessions' maps a     *)
(* client to its current object.  An absent map key is None, the empty     *)
(* set, the empty sequence or 0, which is what reading it in Go yields.    *)
(* UserID and Platform are carried by the code and read by nothing here.   *)
(***************************************************************************)
EXTENDS Integers, Sequences, FiniteSets, Functions

CONSTANTS
  Clients,             \* device identities (clientId)
  Groups,              \* group names
  Sessions,            \* ClientSession objects the allocator can hand out
  Writers,             \* writer goroutines, one per WebSocket connection
  ClientOf,            \* the client a writer serves
  Limits,              \* values a login may ask for as maxInFlight
  LimitCap,            \* hard cap on maxInFlight (1024 in the code)
  DefaultMaxInFlight,  \* used when the asked value is not positive
  QuietClients,        \* clients that may fall silent for long
  None                 \* "no such entry"

ASSUME SessionsAssumption == None \notin Sessions /\ None \notin Clients
ASSUME ClientOfAssumption == ClientOf \in [Writers -> Clients]
ASSUME LimitsAssumption ==
  /\ Limits \subseteq Int
  /\ LimitCap \in Nat \ {0}
  /\ DefaultMaxInFlight \in 1..LimitCap
ASSUME QuietAssumption == QuietClients \subseteq Clients

VARIABLES
  sessions,       \* Hub.sessions: client -> current session object
  owner,          \* ClientSession.ClientID, None for an unused object
  groupOf,        \* ClientSession.Group
  maxInFlight,    \* ClientSession.MaxInFlight
  inFlight,       \* ClientSession.InFlight
  lastSeen,       \* ClientSession.LastSeenAt: "recent", or older than
                  \* DeviceOfflineSeconds ("stale")
  dispatchReady,  \* writers blocked on the channel of a session
  groups,         \* Hub.groups: the <<client, session>> entries of a group
  groupOrder,     \* Hub.groupOrder
  groupCursor     \* Hub.groupCursor

objectVars == <<owner, groupOf, maxInFlight, inFlight, lastSeen>>
rosterVars == <<groups, groupOrder, groupCursor>>
regVars == <<sessions, objectVars, dispatchReady, rosterVars>>

-----------------------------------------------------------------------------
(* Helpers *)

\* The index arithmetic of removing c from a sequence without duplicates,
\* stated pointwise (SequencesExt!Remove for such sequences).
Without(order, c) ==
  IF c \notin Range(order) THEN order
  ELSE LET p == CHOOSE i \in DOMAIN order : order[i] = c
       IN  [j \in 1..(Len(order) - 1) |->
              IF j < p THEN order[j] ELSE order[j + 1]]

NormalizeMaxInFlight(asked) ==
  IF asked <= 0 THEN DefaultMaxInFlight
  ELSE IF asked > LimitCap THEN LimitCap ELSE asked

Registered(c) == sessions[c] # None
Parked == UNION {dispatchReady[s] : s \in Sessions}

\* Mutation: the channel is replaced without being closed.
SignalDispatchLost(s) == UNCHANGED dispatchReady

\* close(dispatchReady) and a new channel: every blocked writer is freed.
SignalDispatch(s) == dispatchReady' = [dispatchReady EXCEPT ![s] = {}]

\* Mutation: the entry stays in the group's map.
LeftGroupsKept(g, c) == groups

\* removeClientFromGroup, as the new values of the three roster maps.
LeftGroups(g, c) == [groups EXCEPT ![g] = {m \in @ : m[1] # c}]
LeftOrder(g, c) == [groupOrder EXCEPT ![g] = Without(@, c)]

\* Mutation: the cursor is not reset when the order shrinks below it.
LeftCursorKept(g, c) == groupCursor

LeftCursor(g, c) ==
  [groupCursor EXCEPT ![g] =
     IF @ >= Len(Without(groupOrder[g], c)) THEN 0 ELSE @]

\* ensureGroup(g)[c] = s and ensureOrder(g, c).
EnsureGroup(members, g, c, s) ==
  [members EXCEPT ![g] = {m \in @ : m[1] # c} \cup {<<c, s>>}]
EnsureOrder(orders, g, c) ==
  [orders EXCEPT ![g] = IF c \in Range(@) THEN @ ELSE Append(@, c)]

-----------------------------------------------------------------------------
(* Registration *)

RegisterNew(c, g, asked, s) ==
  /\ ~Registered(c)
  /\ s \notin Range(sessions)
  /\ sessions' = [sessions EXCEPT ![c] = s]
  /\ owner' = [owner EXCEPT ![s] = c]
  /\ groupOf' = [groupOf EXCEPT ![s] = g]
  /\ maxInFlight' = [maxInFlight EXCEPT ![s] = NormalizeMaxInFlight(asked)]
  /\ inFlight' = [inFlight EXCEPT ![s] = 0]
  /\ lastSeen' = [lastSeen EXCEPT ![s] = "recent"]
  /\ SignalDispatch(s)    \* a channel of its own, nobody blocked on it
  /\ groups' = EnsureGroup(groups, g, c, s)
  /\ groupOrder' = EnsureOrder(groupOrder, g, c)
  /\ UNCHANGED groupCursor

RegisterExisting(c, g, asked) ==
  LET s == sessions[c]
      old == groupOf[s]
      moves == old # g
  IN
  /\ Registered(c)
  /\ groupOf' = [groupOf EXCEPT ![s] = g]
  /\ maxInFlight' = [maxInFlight EXCEPT ![s] = NormalizeMaxInFlight(asked)]
  /\ lastSeen' = [lastSeen EXCEPT ![s] = "recent"]
  /\ groups' =
       EnsureGroup(IF moves THEN LeftGroups(old, c) ELSE groups, g, c, s)
  /\ groupOrder' =
       EnsureOrder(IF moves THEN LeftOrder(old, c) ELSE groupOrder, g, c)
  /\ groupCursor' = IF moves THEN LeftCursor(old, c) ELSE groupCursor
  /\ SignalDispatch(s)
  /\ UNCHANGED <<sessions, owner, inFlight>>

Unregister(c) ==
  LET s == sessions[c] IN
  /\ Registered(c)
  /\ sessions' = [sessions EXCEPT ![c] = None]
  /\ groups' = LeftGroups(groupOf[s], c)
  /\ groupOrder' = LeftOrder(groupOf[s], c)
  /\ groupCursor' = LeftCursor(groupOf[s], c)
  /\ SignalDispatch(s)
  /\ UNCHANGED objectVars

Touch(c) ==
  /\ Registered(c)
  /\ lastSeen' = [lastSeen EXCEPT ![sessions[c]] = "recent"]
  /\ UNCHANGED <<sessions, owner, groupOf, maxInFlight, inFlight,
                 dispatchReady, rosterVars>>

\* DeviceOfflineSeconds pass without a message of the client.
FallSilent(c) ==
  /\ Registered(c)
  /\ lastSeen' = [lastSeen EXCEPT ![sessions[c]] = "stale"]
  /\ UNCHANGED <<sessions, owner, groupOf, maxInFlight, inFlight,
                 dispatchReady, rosterVars>>

-----------------------------------------------------------------------------
(* Routing.  `full' is the set of sessions whose queue is at its limit.    *)

\* Mutation: the search starts at the head, not at the cursor.
StartAtHead(g) == 0

Start(g) ==
  IF groupCursor[g] >= Len(groupOrder[g]) THEN 0 ELSE groupCursor[g]

\* How many steps after the cursor the loop visits position i (1-based).
Offset(g, i) == (i - 1 - Start(g)) % Len(groupOrder[g])

OnlinePositions(g) ==
  {i \in DOMAIN groupOrder[g] :
     LET s == sessions[groupOrder[g][i]] IN s # None /\ groupOf[s] = g}

CandidatePositions(g, full) ==
  {i \in OnlinePositions(g) : sessions[groupOrder[g][i]] \notin full}

\* Mutation: the first candidate wins, wherever the cursor is.
FirstPosition(g, full) ==
  CHOOSE i \in CandidatePositions(g, full) :
    \A j \in CandidatePositions(g, full) : i <= j

PickedPosition(g, full) ==
  CHOOSE i \in CandidatePositions(g, full) :
    \A j \in CandidatePositions(g, full) : Offset(g, i) <= Offset(g, j)

PickedClient(g, full) == groupOrder[g][PickedPosition(g, full)]

\* pickSession without a preferred client.
PickRoundRobin(g, full) ==
  /\ CandidatePositions(g, full) # {}
  /\ groupCursor' = [groupCursor EXCEPT ![g] =
                       PickedPosition(g, full) % Len(groupOrder[g])]
  /\ UNCHANGED <<sessions, objectVars, dispatchReady, groups, groupOrder>>

-----------------------------------------------------------------------------
(* Dispatch slots *)

\* Mutation: one slot too many.
HasFreeSlotOffByOne(s) == inFlight[s] <= maxInFlight[s]

HasFreeSlot(s) == inFlight[s] < maxInFlight[s]

TakeSlot(w) ==
  LET s == sessions[ClientOf[w]] IN
  /\ w \notin Parked
  /\ s # None
  /\ HasFreeSlot(s)
  /\ inFlight' = [inFlight EXCEPT ![s] = @ + 1]
  /\ UNCHANGED <<sessions, owner, groupOf, maxInFlight, lastSeen,
                 dispatchReady, rosterVars>>

ParkForSlot(w) ==
  LET s == sessions[ClientOf[w]] IN
  /\ w \notin Parked
  /\ s # None
  /\ ~HasFreeSlot(s)
  /\ dispatchReady' = [dispatchReady EXCEPT ![s] = @ \cup {w}]
  /\ UNCHANGED <<sessions, objectVars, rosterVars>>

\* The select of AcquireDispatchSlot takes the ctx.Done() branch.
StopWaiting(w) ==
  /\ w \in Parked
  /\ dispatchReady' = [s \in Sessions |-> dispatchReady[s] \ {w}]
  /\ UNCHANGED <<sessions, objectVars, rosterVars>>

\* Mutation: the count is not kept from going below zero.
ReleaseWithoutFloor(c) ==
  LET s == sessions[c] IN
  /\ Registered(c)
  /\ inFlight' = [inFlight EXCEPT ![s] = @ - 1]
  /\ SignalDispatch(s)
  /\ UNCHANGED <<sessions, owner, groupOf, maxInFlight, lastSeen, rosterVars>>

ReleaseDispatch(c) ==
  LET s == sessions[c] IN
  /\ Registered(c)
  /\ inFlight' = [inFlight EXCEPT ![s] = IF @ > 0 THEN @ - 1 ELSE @]
  /\ SignalDispatch(s)
  /\ UNCHANGED <<sessions, owner, groupOf, maxInFlight, lastSeen, rosterVars>>

-----------------------------------------------------------------------------
RegInit ==
  /\ sessions = [c \in Clients |-> None]
  /\ owner = [s \in Sessions |-> None]
  /\ groupOf = [s \in Sessions |-> None]
  /\ maxInFlight = [s \in Sessions |-> 0]
  /\ inFlight = [s \in Sessions |-> 0]
  /\ lastSeen = [s \in Sessions |-> "stale"]
  /\ dispatchReady = [s \in Sessions |-> {}]
  /\ groups = [g \in Groups |-> {}]
  /\ groupOrder = [g \in Groups |-> << >>]
  /\ groupCursor = [g \in Groups |-> 0]

RegNext ==
  \/ \E c \in Clients, g \in Groups, asked \in Limits :
       \/ \E s \in Sessions : RegisterNew(c, g, asked, s)
       \/ RegisterExisting(c, g, asked)
  \/ \E c \in Clients : Unregister(c) \/ Touch(c) \/ ReleaseDispatch(c)
  \/ \E c \in QuietClients : FallSilent(c)
  \/ \E g \in Groups, full \in SUBSET Sessions : PickRoundRobin(g, full)
  \/ \E w \in Writers : TakeSlot(w) \/ ParkForSlot(w) \/ StopWaiting(w)

RegSpec == RegInit /\ [][RegNext]_regVars

-----------------------------------------------------------------------------
(* Properties *)

\* The types of the registry's state.
RegTypeOK ==
  /\ sessions \in [Clients -> Sessions \cup {None}]
  /\ owner \in [Sessions -> Clients \cup {None}]
  /\ groupOf \in [Sessions -> Groups \cup {None}]
  /\ maxInFlight \in [Sessions -> 0..LimitCap]
  /\ inFlight \in [Sessions -> Nat]
  /\ lastSeen \in [Sessions -> {"recent", "stale"}]
  /\ dispatchReady \in [Sessions -> SUBSET Writers]
  /\ groups \in [Groups -> SUBSET (Clients \X Sessions)]
  /\ groupOrder \in [Groups -> Seq(Clients)]
  /\ groupCursor \in [Groups -> Nat]

\* A session object the registry reaches belongs to the client it is filed
\* under and to a group, so no two clients share an object.
OwnerInv ==
  \A c \in Clients : Registered(c) =>
    /\ owner[sessions[c]] = c
    /\ groupOf[sessions[c]] \in Groups
    /\ maxInFlight[sessions[c]] > 0

\* The entries of a group are exactly the registered sessions of that group.
MembersInv ==
  \A g \in Groups, c \in Clients, s \in Sessions :
    <<c, s>> \in groups[g] <=> sessions[c] = s /\ groupOf[s] = g

\* The round-robin order of a group lists every registered client of the
\* group, nobody else, and nobody twice.
OrderInv ==
  \A g \in Groups :
    /\ IsInjective(groupOrder[g])
    /\ \A c \in Clients :
         c \in Range(groupOrder[g])
           <=> Registered(c) /\ groupOf[sessions[c]] = g

\* Hub.sessions, Hub.groups and Hub.groupOrder tell the same story after any
\* sequence of registrations, moves between groups and unregistrations
\* (Register, removeClientFromGroup, ensureOrder).
RosterInv == OwnerInv /\ MembersInv /\ OrderInv

\* A stored cursor is never past the end of its group's order, however the
\* group shrank since it was stored (removeClientFromGroup, pickSession).
CursorInv ==
  \A g \in Groups :
    groupCursor[g] = 0 \/ groupCursor[g] < Len(groupOrder[g])

\* No lost wake-up: a writer stays blocked in AcquireDispatchSlot only on the
\* channel of its client's current session, and only while that session has
\* no free slot.  A signal missed on unregistration, on a re-registration
\* with a larger limit or on a release would leave a writer blocked for ever.
NoLostWakeup ==
  \A s \in Sessions : \A w \in dispatchReady[s] :
    sessions[ClientOf[w]] = s /\ ~HasFreeSlot(s)
=============================================================================
