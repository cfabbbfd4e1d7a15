-------------------------------- MODULE Hub ---------------------------------
(***************************************************************************)
(* The whole hub (src/internal/rpc/hub.go): the registry, the job queue of *)
(* every session, and the calls that wait for an answer.  A call is one    *)
(* goroutine in Hub.Invoke; it takes Hub.mu several times and lets go of   *)
(* it in between, so each locked section is an action and everything else  *)
(* may happen between two of them.                                         *)
(*                                                                         *)
(* The rest of the program is the most general environment here: any       *)
(* writer of a client may pop any queue that client owns or ever owned,    *)
(* put its job back or write it out, and any client may answer any         *)
(* call.  ClientWS narrows this down to what the connections do.           *)
(***************************************************************************)
EXTENDS Registry

CONSTANTS
  Requests,     \* calls, each with its own random request id
  PendingSize,  \* limit of a session's queue
  GroupOfCall,  \* the group a call is sent to
  Preferred     \* the client a call names, or None

Verdicts == {"ok", "timeout", "no_client", "rejected"}
Endings == {"completed", "expired", "late"}

ASSUME CallsAssumption ==
  /\ None \notin Requests \cup Verdicts
  /\ None \notin [client : Clients, state : Endings]
  /\ PendingSize \in Nat \ {0}
  /\ GroupOfCall \in [Requests -> Groups]
  /\ Preferred \in [Requests -> Clients \cup {None}]

VARIABLES
  pending,    \* ClientSession.Pending.items
  notify,     \* writers blocked in Pop on a session's queue
  held,       \* the job a writer has popped and not yet disposed of
  waiters,    \* Hub.waiters: the client an answer must come from
  completed,  \* Hub.completed: the client and state of an ended call
  aged,       \* entries of completed older than the retention
  resultCh,   \* the buffered channel of a call: who answered, or None
  callPc,     \* where the goroutine in Invoke is
  target,     \* the session pointer Invoke holds
  assigned,   \* Job.ClientID
  verdict,    \* what Invoke returns
  expired,    \* calls whose DeadlineAt has passed
  ctxDone     \* calls whose context is done: deadline, or the caller left

queueVars == <<pending, notify>>
ledgerVars == <<waiters, completed, aged, resultCh>>
callVars == <<callPc, target, assigned, verdict>>
clockVars == <<expired, ctxDone>>
ownHubVars == <<queueVars, held, ledgerVars, callVars, clockVars>>
hubVars == <<regVars, ownHubVars>>

-----------------------------------------------------------------------------
(* Job queues *)

\* The loop of pruneExpiredLocked: the jobs among the first n it keeps.
Live(queue) ==
  LET kept[n \in 0..Len(queue)] ==
        IF n = 0 THEN << >>
        ELSE IF queue[n] \in expired THEN kept[n - 1]
        ELSE Append(kept[n - 1], queue[n])
  IN kept[Len(queue)]

\* pruneExpiredLocked runs only when the limit is reached.
Room(s) ==
  IF Len(pending[s]) >= PendingSize THEN Live(pending[s]) ELSE pending[s]

QueueFull(s) == Len(pending[s]) >= PendingSize

\* Mutation: one job more than the limit.
PushRefusedLate(s, r) == r \notin expired /\ Len(Room(s)) > PendingSize

\* Push returns ErrClientQueueFull.
PushRefused(s, r) == r \notin expired /\ Len(Room(s)) >= PendingSize

\* Mutation: the queue's channel is not closed.
PushSilent(s, r) ==
  IF r \in expired \/ PushRefused(s, r)
  THEN UNCHANGED queueVars
  ELSE /\ pending' = [pending EXCEPT ![s] = Append(Room(s), r)]
       /\ UNCHANGED notify

\* Push: an expired job is accepted and forgotten, any other is appended and
\* wakes every writer blocked on the queue.
Push(s, r) ==
  IF r \in expired \/ PushRefused(s, r)
  THEN UNCHANGED queueVars
  ELSE /\ pending' = [pending EXCEPT ![s] = Append(Room(s), r)]
       /\ notify' = [notify EXCEPT ![s] = {}]

\* popOrWaitLocked: expired jobs at the head are dropped.
LivePositions(s) == {i \in DOMAIN pending[s] : pending[s][i] \notin expired}
HeadPosition(s) ==
  CHOOSE i \in LivePositions(s) : \A j \in LivePositions(s) : i <= j

InPop == UNION {notify[s] : s \in Sessions}

\* Mutation: the popped job stays at the head.
PopJobKept(w, s) ==
  LET i == HeadPosition(s) IN
  /\ LivePositions(s) # {}
  /\ held' = [held EXCEPT ![w] = pending[s][i]]
  /\ pending' = [pending EXCEPT ![s] = SubSeq(@, i, Len(@))]
  /\ UNCHANGED notify

PopJob(w, s) ==
  LET i == HeadPosition(s) IN
  /\ LivePositions(s) # {}
  /\ held' = [held EXCEPT ![w] = pending[s][i]]
  /\ pending' = [pending EXCEPT ![s] = SubSeq(@, i + 1, Len(@))]
  /\ UNCHANGED notify

PopParks(w, s) ==
  /\ LivePositions(s) = {}
  /\ pending' = [pending EXCEPT ![s] = << >>]
  /\ notify' = [notify EXCEPT ![s] = @ \cup {w}]
  /\ UNCHANGED held

\* One turn of the loop in Pop.
Pop(w, s) ==
  /\ held[w] = None
  /\ w \notin InPop
  /\ PopJob(w, s) \/ PopParks(w, s)
  /\ UNCHANGED <<regVars, ledgerVars, callVars, clockVars>>

\* The select of Pop takes the ctx.Done() branch.
LeavePop(w) ==
  /\ w \in InPop
  /\ notify' = [s \in Sessions |-> notify[s] \ {w}]
  /\ UNCHANGED <<regVars, pending, held, ledgerVars, callVars, clockVars>>

\* The writer has written its job to the connection, or given up on it.
LetGo(w) ==
  /\ held[w] # None
  /\ held' = [held EXCEPT ![w] = None]
  /\ UNCHANGED <<regVars, queueVars, ledgerVars, callVars, clockVars>>

\* The Push of Requeue, on the session that was looked up before.
PutBack(w, s) ==
  /\ held[w] # None
  /\ Push(s, held[w])
  /\ held' = [held EXCEPT ![w] = None]
  /\ UNCHANGED <<regVars, ledgerVars, callVars, clockVars>>

-----------------------------------------------------------------------------
(* The ledger of ended calls *)

\* Mutation: the cleanup compares the wrong way round.
CleanedAll(ledger) == [r \in Requests |-> IF r \in aged THEN ledger[r] ELSE None]

\* cleanupCompletedLocked, which every operation on the ledger runs.
Cleaned(ledger) == [r \in Requests |-> IF r \in aged THEN None ELSE ledger[r]]
Ended(c, state) == [client |-> c, state |-> state]

\* More than the retention of ten minutes passes.  An entry is made when its
\* call ends, so the caller has long returned.
Age(r) ==
  /\ completed[r] # None
  /\ callPc[r] = "done"
  /\ aged' = aged \cup {r}
  /\ UNCHANGED <<regVars, queueVars, held, waiters, completed, resultCh,
                 callVars, clockVars>>

ReleaseIfRegistered(c) ==
  IF Registered(c) THEN ReleaseDispatch(c) ELSE UNCHANGED regVars

\* SubmitResult, by what it finds for the request id.
Delivered(c, r) ==
  /\ waiters[r] = c
  /\ waiters' = [waiters EXCEPT ![r] = None]
  /\ completed' = [Cleaned(completed) EXCEPT ![r] = Ended(c, "completed")]
  /\ resultCh' = [resultCh EXCEPT ![r] = IF @ = None THEN c ELSE @]
  /\ ReleaseIfRegistered(c)

Late(c, r) ==
  /\ waiters[r] = None
  /\ Cleaned(completed)[r] = Ended(c, "expired")
  /\ completed' = [Cleaned(completed) EXCEPT ![r] = Ended(c, "late")]
  /\ ReleaseIfRegistered(c)
  /\ UNCHANGED <<waiters, resultCh>>

\* Mutation: the waiter is deleted before the client is compared.
IgnoredDropsWaiter(c, r) ==
  /\ waiters[r] # c
  /\ ~(waiters[r] = None /\ Cleaned(completed)[r] = Ended(c, "expired"))
  /\ completed' = Cleaned(completed)
  /\ waiters' = [waiters EXCEPT ![r] = None]
  /\ UNCHANGED <<regVars, resultCh>>

\* A duplicate, an answer of the wrong client, or of a call that is not
\* known (any more): nothing but the cleanup.
Ignored(c, r) ==
  /\ waiters[r] # c
  /\ ~(waiters[r] = None /\ Cleaned(completed)[r] = Ended(c, "expired"))
  /\ completed' = Cleaned(completed)
  /\ UNCHANGED <<regVars, waiters, resultCh>>

\* A request id is random and leaves the server in a job, so nobody answers a
\* call whose job was not yet, or never, pushed.
Disclosed(r) == callPc[r] \in {"waiting", "expiring", "done"}

SubmitResult(c, r) ==
  /\ Delivered(c, r) \/ Late(c, r) \/ Ignored(c, r)
  /\ aged' = {}
  /\ UNCHANGED <<queueVars, held, callVars, clockVars>>

-----------------------------------------------------------------------------
(* A call *)

Return(r, v) ==
  /\ callPc' = [callPc EXCEPT ![r] = "done"]
  /\ verdict' = [verdict EXCEPT ![r] = v]
  /\ target' = [target EXCEPT ![r] = None]

Assign(r, s) ==
  /\ callPc' = [callPc EXCEPT ![r] = "picked"]
  /\ target' = [target EXCEPT ![r] = s]
  /\ assigned' = [assigned EXCEPT ![r] = owner[s]]
  /\ UNCHANGED verdict

FullSessions == {s \in Sessions : QueueFull(s)}

\* pickSession.  The named client is taken as it is: neither its group nor
\* the room in its queue is looked at.
PickPreferred(r) ==
  /\ Preferred[r] # None
  /\ IF Registered(Preferred[r])
     THEN Assign(r, sessions[Preferred[r]])
     ELSE Return(r, "no_client") /\ UNCHANGED assigned
  /\ UNCHANGED regVars

\* The search holds Hub.mu, but reads the length of each queue under that
\* queue's own lock; here they are read at one instant.  A queue that filled
\* up since is one that fills up before PushJob, which looks again.
PickInGroup(r) ==
  LET g == GroupOfCall[r] IN
  /\ Preferred[r] = None
  /\ IF CandidatePositions(g, FullSessions) # {}
     THEN /\ PickRoundRobin(g, FullSessions)
          /\ Assign(r, sessions[PickedClient(g, FullSessions)])
     ELSE /\ Return(r, IF OnlinePositions(g) = {} THEN "no_client" ELSE "rejected")
          /\ UNCHANGED <<regVars, assigned>>

PickSession(r) ==
  /\ callPc[r] = "idle"
  /\ PickPreferred(r) \/ PickInGroup(r)
  /\ UNCHANGED <<queueVars, held, ledgerVars, clockVars>>

StoreWaiter(r) ==
  /\ callPc[r] = "picked"
  /\ waiters' = [waiters EXCEPT ![r] = assigned[r]]
  /\ completed' = Cleaned(completed)
  /\ aged' = {}
  /\ callPc' = [callPc EXCEPT ![r] = "stored"]
  /\ UNCHANGED <<regVars, queueVars, held, resultCh, target, assigned, verdict,
                 clockVars>>

\* The check of ctx.Err() and the Push.  A context that ends between the two
\* is one that ends right after the Push.
PushJob(r) ==
  LET to(pc, v) == /\ callPc' = [callPc EXCEPT ![r] = pc]
                   /\ verdict' = [verdict EXCEPT ![r] = v]
  IN
  /\ callPc[r] = "stored"
  /\ IF r \in ctxDone
     THEN to("dropping", "timeout") /\ UNCHANGED queueVars
     ELSE /\ Push(target[r], r)
          /\ IF PushRefused(target[r], r) THEN to("dropping", "rejected")
                                          ELSE to("waiting", None)
  /\ UNCHANGED <<regVars, held, ledgerVars, target, assigned, clockVars>>

\* Mutation: the error path forgets the waiter.
DropWaiterForgotten(r) ==
  /\ callPc[r] = "dropping"
  /\ Return(r, verdict[r])
  /\ UNCHANGED <<regVars, queueVars, held, ledgerVars, assigned, clockVars>>

DropWaiter(r) ==
  /\ callPc[r] = "dropping"
  /\ waiters' = [waiters EXCEPT ![r] = None]
  /\ Return(r, verdict[r])
  /\ UNCHANGED <<regVars, queueVars, held, completed, aged, resultCh, assigned,
                 clockVars>>

\* The select of Invoke; when both branches are ready Go takes either.
TakeResult(r) ==
  /\ callPc[r] = "waiting"
  /\ resultCh[r] # None
  /\ Return(r, "ok")
  /\ resultCh' = [resultCh EXCEPT ![r] = None]
  /\ UNCHANGED <<regVars, queueVars, held, waiters, completed, aged, assigned,
                 clockVars>>

GiveUp(r) ==
  /\ callPc[r] = "waiting"
  /\ r \in ctxDone
  /\ callPc' = [callPc EXCEPT ![r] = "expiring"]
  /\ UNCHANGED <<regVars, queueVars, held, ledgerVars, target, assigned,
                 verdict, clockVars>>

\* Mutation: no check that the waiter is still there.
ExpireWaiterUnchecked(r) ==
  /\ callPc[r] = "expiring"
  /\ Return(r, "timeout")
  /\ completed' = [Cleaned(completed) EXCEPT ![r] = Ended(waiters[r], "expired")]
  /\ waiters' = [waiters EXCEPT ![r] = None]
  /\ aged' = {}
  /\ UNCHANGED <<regVars, queueVars, held, resultCh, assigned, clockVars>>

ExpireWaiter(r) ==
  /\ callPc[r] = "expiring"
  /\ Return(r, "timeout")
  /\ IF waiters[r] # None
     THEN /\ completed' =
               [Cleaned(completed) EXCEPT ![r] = Ended(waiters[r], "expired")]
          /\ waiters' = [waiters EXCEPT ![r] = None]
          /\ aged' = {}
     ELSE UNCHANGED <<waiters, completed, aged>>
  /\ UNCHANGED <<regVars, queueVars, held, resultCh, assigned, clockVars>>

\* DeadlineAt passes; the context of the call ends just after it, or before
\* it when the HTTP client goes away.
DeadlinePasses(r) ==
  /\ callPc[r] # "idle"
  /\ r \notin expired
  /\ expired' = expired \cup {r}
  /\ UNCHANGED <<regVars, queueVars, held, ledgerVars, callVars, ctxDone>>

CtxEnds(r) ==
  /\ callPc[r] \notin {"idle", "done"}
  /\ r \notin ctxDone
  /\ ctxDone' = ctxDone \cup {r}
  /\ UNCHANGED <<regVars, queueVars, held, ledgerVars, callVars, expired>>

InvokeStep(r) ==
  \/ PickSession(r) \/ StoreWaiter(r) \/ PushJob(r) \/ DropWaiter(r)
  \/ TakeResult(r) \/ GiveUp(r) \/ ExpireWaiter(r)

-----------------------------------------------------------------------------
(* The registry's operations, with what they do to the queues *)

\* An object nothing points to any more may be allocated again, with a queue
\* of its own.
Reusable(s) ==
  /\ notify[s] = {}
  /\ \A r \in Requests : target[r] # s

RegisterFresh(c, g, asked, s) ==
  /\ Reusable(s)
  /\ RegisterNew(c, g, asked, s)
  /\ pending' = [pending EXCEPT ![s] = << >>]
  /\ UNCHANGED <<notify, held, ledgerVars, callVars, clockVars>>

RegistryStep ==
  /\ \/ \E c \in Clients, g \in Groups, asked \in Limits :
          RegisterExisting(c, g, asked)
     \/ \E c \in Clients : Unregister(c) \/ Touch(c) \/ ReleaseDispatch(c)
     \/ \E c \in QuietClients : FallSilent(c)
     \/ \E w \in Writers : TakeSlot(w) \/ ParkForSlot(w) \/ StopWaiting(w)
  /\ UNCHANGED ownHubVars

-----------------------------------------------------------------------------
OwnHubInit ==
  /\ pending = [s \in Sessions |-> << >>]
  /\ notify = [s \in Sessions |-> {}]
  /\ held = [w \in Writers |-> None]
  /\ waiters = [r \in Requests |-> None]
  /\ completed = [r \in Requests |-> None]
  /\ aged = {}
  /\ resultCh = [r \in Requests |-> None]
  /\ callPc = [r \in Requests |-> "idle"]
  /\ target = [r \in Requests |-> None]
  /\ assigned = [r \in Requests |-> None]
  /\ verdict = [r \in Requests |-> None]
  /\ expired = {}
  /\ ctxDone = {}

HubInit == RegInit /\ OwnHubInit

HubNext ==
  \/ \E r \in Requests :
       InvokeStep(r) \/ DeadlinePasses(r) \/ CtxEnds(r) \/ Age(r)
  \/ \E c \in Clients, r \in Requests : Disclosed(r) /\ SubmitResult(c, r)
  \/ \E c \in Clients, g \in Groups, asked \in Limits, s \in Sessions :
       RegisterFresh(c, g, asked, s)
  \/ \E w \in Writers :
       \/ \E s \in Sessions :
            owner[s] = ClientOf[w] /\ (Pop(w, s) \/ PutBack(w, s))
       \/ LeavePop(w)
       \/ LetGo(w)
  \/ RegistryStep

HubSpec == HubInit /\ [][HubNext]_hubVars

-----------------------------------------------------------------------------
(* Properties *)

\* The types of the hub's own state.
HubTypeOK ==
  /\ pending \in [Sessions -> Seq(Requests)]
  /\ notify \in [Sessions -> SUBSET Writers]
  /\ held \in [Writers -> Requests \cup {None}]
  /\ waiters \in [Requests -> Clients \cup {None}]
  /\ completed \in
       [Requests -> [client : Clients, state : Endings] \cup {None}]
  /\ aged \in SUBSET Requests
  /\ resultCh \in [Requests -> Clients \cup {None}]
  /\ callPc \in [Requests -> {"idle", "picked", "stored", "waiting",
                              "expiring", "dropping", "done"}]
  /\ target \in [Requests -> Sessions \cup {None}]
  /\ assigned \in [Requests -> Clients \cup {None}]
  /\ verdict \in [Requests -> Verdicts \cup {None}]
  /\ expired \in SUBSET Requests
  /\ ctxDone \in SUBSET Requests

\* A call blocked in the select of Invoke can still be answered or already is:
\* either its waiter is registered and its channel empty, or the waiter is
\* gone and the answer of the assigned device is in the channel.  No order of
\* results, duplicates, timeouts and cleanups strands it (Invoke,
\* SubmitResult, expireWaiter).
NoStrandedCaller ==
  \A r \in Requests : callPc[r] = "waiting" =>
    \/ waiters[r] = assigned[r] /\ resultCh[r] = None
    \/ waiters[r] = None /\ resultCh[r] = assigned[r]

\* What the ledger tells a device about its answer agrees with what the caller
\* got.  "Late" is only said of a call that timed out, and a call that
\* returned an answer is on record as completed until the retention ends.
\* The one disagreement the select of Invoke allows is an answer acknowledged
\* as delivered and left unread in the channel by a call that timed out.
LedgerMatchesVerdict ==
  \A r \in Requests :
    /\ completed[r] # None =>
         /\ completed[r].client = assigned[r]
         /\ waiters[r] = None
         /\ completed[r].state \in {"expired", "late"} => verdict[r] = "timeout"
         /\ completed[r].state = "completed" /\ verdict[r] = "timeout"
              => resultCh[r] = assigned[r]
    /\ verdict[r] \in {"no_client", "rejected"} => completed[r] = None
    /\ callPc[r] = "done" => waiters[r] = None

\* The ledger of a call only goes forward: an ending is recorded for a call
\* that has a waiter, "expired" may become "late" once, and an entry vanishes
\* only after the retention.  A slot is freed on the first two of these, so
\* no number of repeated answers frees a second slot (SubmitResult).
LedgerForward ==
  [][\A r \in Requests : completed'[r] # completed[r] =>
       \/ completed[r] = None /\ waiters[r] # None /\ waiters'[r] = None
       \/ /\ completed[r] # None /\ completed'[r] # None
          /\ completed[r].state = "expired" /\ completed'[r].state = "late"
       \/ completed'[r] = None /\ r \in aged]_hubVars

\* Where job r is: queue positions and writers' hands.
Places(r) ==
  {p \in Sessions \X (1..PendingSize) :
     p[2] \in DOMAIN pending[p[1]] /\ pending[p[1]][p[2]] = r}
Hands(r) == {w \in Writers : held[w] = r}

\* However a job is popped, put back and pruned, it is never in two places,
\* so one popped job is never sent by two writers (Push, Pop, Requeue).
JobInOnePlace ==
  \A r \in Requests : Cardinality(Places(r)) + Cardinality(Hands(r)) <= 1

\* A queue holds only jobs picked for the client that owns it, although the
\* caller pushes through a pointer taken before another lock and the session
\* may have been dropped or replaced since (Invoke, Requeue); and a queue
\* never exceeds its limit.
QueuesAtHome ==
  /\ \A s \in Sessions :
       /\ Len(pending[s]) <= PendingSize
       /\ \A i \in DOMAIN pending[s] : assigned[pending[s][i]] = owner[s]
  /\ \A w \in Writers : held[w] # None => assigned[held[w]] = ClientOf[w]

\* No writer sleeps on a queue that has a job: the channel a blocked Pop
\* waits on is the one the next Push closes (popOrWaitLocked, signalLocked).
NoSleepOnJobs ==
  \A s \in Sessions : notify[s] # {} => pending[s] = << >>
=============================================================================
