------------------------------- MODULE Roster -------------------------------
(***************************************************************************)
(* The rows the panel administers and the devices behind them: a group     *)
(* (src/internal/store/store.go), the device rows, the sessions of the hub *)
(* and the presence cache (src/internal/app/app.go) that spares the        *)
(* database the heartbeats.  Requests of devices and of operators are      *)
(* handled side by side (src/internal/web/http.go, client_ws.go), one step *)
(* per database call or locked section, and every database call may fail.  *)
(*                                                                         *)
(* One group; what the Registry module says about the hub is here only     *)
(* whether a session is there and whether it was touched lately.           *)
(***************************************************************************)
EXTENDS Naturals

CONSTANTS
  Devices,
  Ops,       \* requests handled at a time, a bound
  MaxKeys,   \* bound on the API keys ever generated
  None

VARIABLES
  group,     \* the row of the group, or None
  listed,    \* devices with a row
  session,   \* what the hub has of a device: nothing, or a session touched
             \* within the offline time ("fresh") or not ("silent")
  recent,    \* lastPresenceFlush has the device, younger than the interval
  tokens,    \* devices that hold a token of LoginClient
  keys,      \* how many API keys were generated; 0 is the empty key
  ops,       \* what each handler is at, or None
  \* for the properties
  known,     \* devices that had a row at some time
  owed,      \* devices heard of since their row was last written
  revoked    \* keys replaced or deleted that no handler was about to write

vars == <<group, listed, session, recent, tokens, keys, ops, known, owed, revoked>>
deviceVars == <<listed, session, recent, tokens, known, owed>>
groupVars == <<group, keys, revoked>>

Modes == {"none", "apikey"}
Group == [enabled : BOOLEAN, mode : Modes, api : Nat]
Pcs == {"upsert", "register", "mark", "touch", "write", "reset", "profile",
        "read", "store", "check", "delete"}
Handler == [pc : Pcs, dev : Devices \cup {None}, mode : Modes, key : Nat,
            steady : SUBSET Devices]

ASSUME MaxKeysAssumption == MaxKeys \in Nat
ASSUME NoneAssumption == None \notin Devices \cup Group \cup Handler

Requested == Modes \cup {"oauth"}    \* an authMode the API is sent

Init ==
  /\ group = None /\ keys = 0 /\ revoked = {}
  /\ listed = {} /\ tokens = {} /\ known = {} /\ owed = {} /\ recent = {}
  /\ session = [d \in Devices |-> "none"]
  /\ ops = [o \in Ops |-> None]

-----------------------------------------------------------------------------
(* Handlers *)

Op(pc) == [pc |-> pc, dev |-> None, mode |-> "none", key |-> 0, steady |-> {}]
Arrives(o, r) == ops[o] = None /\ ops' = [ops EXCEPT ![o] = r]
At(o, pc) == ops[o] # None /\ ops[o].pc = pc
Goes(o, pc) ==
  ops' = [ops EXCEPT ![o] = IF pc = "done" THEN None ELSE [@ EXCEPT !.pc = pc]]

\* EnsureGroupActive
Active == group # None /\ group.enabled

-----------------------------------------------------------------------------
(* LoginClient: read the group, write the row, register, mark as flushed *)

LoginArrives(o, d) ==
  /\ Active
  /\ Arrives(o, [Op("upsert") EXCEPT !.dev = d])
  /\ UNCHANGED <<deviceVars, groupVars>>

AfterUpsertIgnored(ok) == "register"    \* Mutation: the error is only logged.
AfterUpsert(ok) == IF ok THEN "register" ELSE "done"
UpsertDevice(o) ==
  /\ At(o, "upsert")
  /\ \E ok \in BOOLEAN :
       /\ Goes(o, AfterUpsert(ok))
       /\ IF ok THEN /\ listed' = listed \cup {ops[o].dev}
                     /\ known' = known \cup {ops[o].dev}
                     /\ owed' = owed \ {ops[o].dev}
                ELSE UNCHANGED <<listed, known, owed>>
  /\ UNCHANGED <<session, recent, tokens, groupVars>>

RegisterDevice(o) ==
  /\ At(o, "register") /\ Goes(o, "mark")
  /\ session' = [session EXCEPT ![ops[o].dev] = "fresh"]
  /\ UNCHANGED <<listed, recent, tokens, known, owed, groupVars>>

MarkPresenceFlushed(o) ==
  /\ At(o, "mark") /\ Goes(o, "done")
  /\ recent' = recent \cup {ops[o].dev}
  /\ tokens' = tokens \cup {ops[o].dev}
  /\ UNCHANGED <<listed, session, known, owed, groupVars>>

-----------------------------------------------------------------------------
(* TouchClientPresence, by a connection that opens or a result that is     *)
(* posted, after a look at the group, and by every message of a            *)
(* connection, which may have outlived its session and its group.          *)

ContactArrives(o, d, opens) ==
  /\ d \in tokens /\ (opens => Active)
  /\ Arrives(o, [Op("touch") EXCEPT !.dev = d])
  /\ UNCHANGED <<deviceVars, groupVars>>

\* The row was written by a login that has yet to say so.
LoggingIn(d) ==
  \E o \in Ops : (At(o, "register") \/ At(o, "mark")) /\ ops[o].dev = d

\* Register, Touch and shouldFlushPresence.
TouchClientPresence(o) ==
  /\ At(o, "touch")
  /\ session' = [session EXCEPT ![ops[o].dev] = "fresh"]
  /\ IF ops[o].dev \in recent
     THEN Goes(o, "done") /\ UNCHANGED <<recent, owed>>
     ELSE /\ Goes(o, "write")
          /\ recent' = recent \cup {ops[o].dev}
          /\ owed' = IF LoggingIn(ops[o].dev) THEN owed ELSE owed \cup {ops[o].dev}
  /\ UNCHANGED <<listed, tokens, known, groupVars>>

AfterWriteOnlyLogged(ok) == "done"    \* Mutation: no resetPresenceFlush.
AfterWrite(ok) == IF ok THEN "done" ELSE "reset"
TouchDevice(o) ==
  /\ At(o, "write")
  /\ \E ok \in BOOLEAN :
       /\ Goes(o, AfterWrite(ok))
       /\ owed' = IF ok THEN owed \ {ops[o].dev} ELSE owed
  /\ UNCHANGED <<listed, session, recent, tokens, known, groupVars>>

ResetPresenceFlush(o) ==
  /\ At(o, "reset") /\ Goes(o, "done")
  /\ recent' = recent \ {ops[o].dev}
  /\ UNCHANGED <<listed, session, tokens, known, owed, groupVars>>

-----------------------------------------------------------------------------
(* Time, disconnection, restart *)

\* Deletions that are under way no longer find d online all along.
SessionEnds(d, how) ==
  /\ session' = [session EXCEPT ![d] = how]
  /\ ops' = [o \in Ops |-> IF ops[o] = None THEN None
                           ELSE [ops[o] EXCEPT !.steady = @ \ {d}]]
  /\ UNCHANGED <<listed, recent, tokens, known, owed, groupVars>>

\* handleClientLogout, or the end of the device's connection.
Leave(d) == session[d] # "none" /\ SessionEnds(d, "none")
\* The offline time passes without a touch.
FallSilent(d) == session[d] = "fresh" /\ SessionEnds(d, "silent")

\* The interval passes, and perhaps cleanupPresenceCache.
Age(d) ==
  /\ d \in recent /\ recent' = recent \ {d}
  /\ UNCHANGED <<listed, session, tokens, known, owed, groupVars, ops>>

\* The process ends and starts again: the rows and the tokens are still good.
Restart ==
  /\ session' = [d \in Devices |-> "none"] /\ recent' = {}
  /\ ops' = [o \in Ops |-> None]
  /\ UNCHANGED <<listed, tokens, known, owed, groupVars>>

-----------------------------------------------------------------------------
(* The group *)

NotNormalized(m) == m    \* Mutation: the mode is stored as it was sent.
NormalizeAuthMode(m) == IF m = "apikey" THEN "apikey" ELSE "none"

KeyOfGroup == 1          \* Mutation: the key is derived from the group's name.
GenAPIKey == keys + 1

KeyKept(m, k) == k       \* Mutation: only CreateGroup generates keys.
KeyFor(m, k) == IF m = "apikey" /\ k = 0 THEN GenAPIKey ELSE k
\* m and k are settled with at most one new key.
Generated(m, k) ==
  /\ KeyFor(m, k) # k => keys < MaxKeys
  /\ keys' = IF KeyFor(m, k) # k THEN keys + 1 ELSE keys

CreateGroup(requested, enabled) ==
  LET mode == NormalizeAuthMode(requested) IN
  /\ group = None
  /\ group' = [enabled |-> enabled, mode |-> mode, api |-> KeyFor(mode, 0)]
  /\ Generated(mode, 0)
  /\ UNCHANGED <<deviceVars, ops, revoked>>

UpdateGroupStatus(enabled) ==
  /\ group # None
  /\ group' = [group EXCEPT !.enabled = enabled]
  /\ UNCHANGED <<deviceVars, ops, keys, revoked>>

\* The key of the group is good no more, and no handler holds it.
Revoked == {group.api} \ ({0} \cup {ops[o].key : o \in {x \in Ops : At(x, "store")}})

RotateGroupAPIKey ==
  /\ group # None /\ keys < MaxKeys
  /\ group' = [group EXCEPT !.api = GenAPIKey] /\ keys' = keys + 1
  /\ revoked' = revoked \cup Revoked
  /\ UNCHANGED <<deviceVars, ops>>

\* handleUpdateGroup with an authMode: the profile, then SetGroupAuthMode.
UpdateArrives(o, requested) ==
  /\ Arrives(o, [Op("profile") EXCEPT !.mode = NormalizeAuthMode(requested)])
  /\ UNCHANGED <<deviceVars, groupVars>>

UpdateGroupProfile(o) ==
  /\ At(o, "profile")
  /\ Goes(o, "done") \/ (group # None /\ Goes(o, "read"))
  /\ UNCHANGED <<deviceVars, groupVars>>

ReadGroup(o) ==
  /\ At(o, "read")
  /\ \/ Goes(o, "done") /\ UNCHANGED keys
     \/ /\ group # None
        /\ Generated(ops[o].mode, group.api)
        /\ ops' = [ops EXCEPT ![o].pc = "store",
                              ![o].key = KeyFor(ops[o].mode, group.api)]
  /\ UNCHANGED <<deviceVars, group, revoked>>

StoreAuthMode(o) ==
  /\ At(o, "store") /\ Goes(o, "done")
  /\ \/ UNCHANGED group
     \/ /\ group # None
        /\ group' = [group EXCEPT !.mode = ops[o].mode, !.api = ops[o].key]
  /\ UNCHANGED <<deviceVars, keys, revoked>>

-----------------------------------------------------------------------------
(* Deletions: look whether anything is online, then delete *)

\* realtimeSessions
RealtimeSwapped == {d \in Devices : session[d] = "silent"}  \* Mutation: After(cutoff)
Realtime == {d \in Devices : session[d] = "fresh"}

\* The devices a deletion must find offline.
Concerned(d) == IF d = None THEN Devices ELSE {d}

\* handleDeleteDevice, or handleDeleteGroup when d is None.
DeleteArrives(o, d) ==
  /\ Arrives(o, [Op("check") EXCEPT !.dev = d,
                   !.steady = {x \in Concerned(d) : session[x] = "fresh"}])
  /\ UNCHANGED <<deviceVars, groupVars>>

CheckOnline(o) ==
  /\ At(o, "check")
  /\ Goes(o, IF Concerned(ops[o].dev) \cap Realtime # {} THEN "done" ELSE "delete")
  /\ UNCHANGED <<deviceVars, groupVars>>

DeletesGroup(o) == ops[o].dev = None /\ group # None /\ group' = None
DeletesDevice(o) == ops[o].dev \in listed /\ listed' = listed \ {ops[o].dev}
Delete(o) ==
  /\ At(o, "delete") /\ Goes(o, "done")
  /\ \/ UNCHANGED <<group, revoked, listed>>
     \/ DeletesGroup(o) /\ revoked' = revoked \cup Revoked /\ UNCHANGED listed
     \/ DeletesDevice(o) /\ UNCHANGED <<group, revoked>>
  /\ UNCHANGED <<session, recent, tokens, known, owed, keys>>

-----------------------------------------------------------------------------
Next ==
  \/ \E o \in Ops, d \in Devices :
       \/ LoginArrives(o, d) \/ DeleteArrives(o, d)
       \/ \E opens \in BOOLEAN : ContactArrives(o, d, opens)
  \/ \E o \in Ops, requested \in Requested : UpdateArrives(o, requested)
  \/ \E o \in Ops :
       \/ UpsertDevice(o) \/ RegisterDevice(o) \/ MarkPresenceFlushed(o)
       \/ TouchClientPresence(o) \/ TouchDevice(o) \/ ResetPresenceFlush(o)
       \/ UpdateGroupProfile(o) \/ ReadGroup(o) \/ StoreAuthMode(o)
       \/ DeleteArrives(o, None) \/ CheckOnline(o) \/ Delete(o)
  \/ \E d \in Devices : Leave(d) \/ FallSilent(d) \/ Age(d)
  \/ \E enabled \in BOOLEAN :
       \/ UpdateGroupStatus(enabled)
       \/ \E requested \in Requested : CreateGroup(requested, enabled)
  \/ RotateGroupAPIKey \/ Restart

Spec == Init /\ [][Next]_vars

-----------------------------------------------------------------------------
(* Properties *)

\* Rows, sessions and handlers are well formed; the stored mode is one that
\* authenticateInvokeRequest knows, whatever mode was asked for.
RosterTypeOK ==
  /\ keys \in 0..MaxKeys /\ revoked \subseteq 1..keys
  /\ group \in Group \cup {None} /\ (group # None => group.api <= keys)
  /\ listed \cup tokens \cup known \cup owed \cup recent \subseteq Devices
  /\ session \in [Devices -> {"none", "fresh", "silent"}]
  /\ ops \in [Ops -> Handler \cup {None}]
  /\ \A o \in Ops : ops[o] # None => ops[o].key <= keys

\* No device is deleted, and no group with it, that was online from the moment
\* the deletion was asked for until it was carried out, however logins,
\* heartbeats and deletions interleave (handleDeleteGroup, handleDeleteDevice).
DeletionSparesOnline ==
  [][\A o \in Ops :
       At(o, "delete") /\ ops'[o] = None /\ (DeletesGroup(o) \/ DeletesDevice(o))
         => ops[o].steady = {}]_vars

\* A group that asks its callers for a key has one, through every creation,
\* change of mode and rotation in flight at once (SetGroupAuthMode).
ApiModeHasKey == group # None /\ group.mode = "apikey" => group.api # 0

\* A key that was rotated away or deleted with its group never opens a group
\* again, unless a change of mode had read it and was about to write it back.
RevokedStaysRevoked == group # None => group.api \notin revoked

\* A device that is online was in the list at some time: the hub hears of no
\* device before the database does (LoginClient, and the token it gives out).
OnlineWasListed == \A d \in Devices : session[d] # "none" => d \in known

\* When a device's row could not be written, the next heartbeat tries again:
\* the presence cache never claims a write that did not happen, unless a
\* handler is about to make up for it (TouchClientPresence, resetPresenceFlush).
FailedBeatRetried ==
  \A d \in owed \cap recent :
    \E o \in Ops : (At(o, "write") \/ At(o, "reset")) /\ ops[o].dev = d
=============================================================================
