------------------------------ MODULE ClientWS ------------------------------
(***************************************************************************)
(* The WebSocket side (src/internal/web/client_ws.go) and its calls into   *)
(* the application layer (src/internal/app/app.go), composed with the hub. *)
(*                                                                         *)
(* A connection is an element of Writers.  It has a handler goroutine,     *)
(* which also runs the reader loop, and a writer goroutine; the ping       *)
(* goroutine has no effect on this state.  A device logs in over HTTP,     *)
(* opens a connection, runs the jobs it is sent and answers on whichever   *)
(* of its connections is open (examples/device_client.py).  A device may   *)
(* open a new connection before the server has noticed that the old one    *)
(* is dead.                                                                *)
(***************************************************************************)
EXTENDS Hub

CONSTANTS
  ClaimGroup,   \* group in the token of a connection
  ClaimLimit,   \* maxInFlight in the token of a connection
  Impatient,    \* calls whose context may end within the run
  Faults        \* which of the faults below may happen

ASSUME ClaimsAssumption ==
  /\ None \notin Writers
  /\ ClaimGroup \in [Writers -> Groups]
  /\ ClaimLimit \in [Writers -> Limits]
ASSUME FaultsAssumption ==
  /\ Impatient \subseteq Requests
  /\ Faults \subseteq {"socket", "write", "device", "logout", "disable",
                "retention", "database"}

VARIABLES
  handlerPc,  \* where handleClientWS is
  readerPc,   \* what the reader loop is doing with the message it read
  answering,  \* the call whose answer the reader is handling
  writerPc,   \* where clientWSWriterLoop is
  acquired,   \* the session pointer the writer holds
  binding,    \* clientWSSessions.items: the current connection of a client
  previous,   \* the connection that replace is about to cancel and close
  cancelled,  \* connections whose context is cancelled
  open,       \* connections whose socket works
  onDevice,   \* <<k, r>>: job r came down connection k and is being run
  enabled,    \* groups that exist and are enabled
  admitted    \* calls that InvokeRPC has let through to the hub

connVars == <<handlerPc, readerPc, answering, writerPc, acquired, binding,
              previous, cancelled, open>>
worldVars == <<onDevice, enabled, admitted>>
wsVars == <<hubVars, connVars, worldVars>>

-----------------------------------------------------------------------------
(* Registering through the hub *)

FreeSessions ==
  {s \in Sessions : Reusable(s) /\ s \notin Range(sessions) \cup Range(acquired)}

\* Hub.Register; the allocator's choice of a free object does not matter.
Register(c, g, asked) ==
  \/ RegisterExisting(c, g, asked) /\ UNCHANGED ownHubVars
  \/ /\ FreeSessions # {}
     /\ RegisterFresh(c, g, asked, CHOOSE s \in FreeSessions : TRUE)

\* TouchClientPresence: Register, then Touch, which finds LastSeenAt just
\* set.  (What it writes to the database is a model of its own.)
TouchClientPresence(k) == Register(ClientOf[k], ClaimGroup[k], ClaimLimit[k])

\* EnsureGroupActive finds the group, and enabled.  Its query may also fail:
\* a login, a handshake or a call is then refused, which is the step not
\* taken; what becomes of an answer is in CheckGroup.
GroupActive(g) == g \in enabled

-----------------------------------------------------------------------------
(* The handler goroutine *)

\* LoginClient registers the device before it has a connection.
Login(k) ==
  /\ handlerPc[k] = "idle"
  /\ GroupActive(ClaimGroup[k])
  /\ handlerPc' = [handlerPc EXCEPT ![k] = "login"]
  /\ Register(ClientOf[k], ClaimGroup[k], ClaimLimit[k])
  /\ UNCHANGED <<readerPc, answering, writerPc, acquired, binding, previous,
                 cancelled, open, worldVars>>

\* handleClientWS up to its Register.
Accept(k) ==
  /\ handlerPc[k] = "login"
  /\ GroupActive(ClaimGroup[k])
  /\ handlerPc' = [handlerPc EXCEPT ![k] = "registered"]
  /\ open' = open \cup {k}
  /\ Register(ClientOf[k], ClaimGroup[k], ClaimLimit[k])
  /\ UNCHANGED <<readerPc, answering, writerPc, acquired, binding, previous,
                 cancelled, worldVars>>

MarkPresent(k) ==
  /\ handlerPc[k] = "registered"
  /\ handlerPc' = [handlerPc EXCEPT ![k] = "present"]
  /\ TouchClientPresence(k)
  /\ UNCHANGED <<readerPc, answering, writerPc, acquired, binding, previous,
                 cancelled, open, worldVars>>

\* Mutation: no check that there is a previous connection.
ReplaceUnchecked(k) ==
  LET c == ClientOf[k] IN
  /\ handlerPc[k] = "present"
  /\ handlerPc' = [handlerPc EXCEPT ![k] = "replaced"]
  /\ binding' = [binding EXCEPT ![c] = k]
  /\ previous' = [previous EXCEPT ![k] = binding[c]]
  /\ UNCHANGED <<hubVars, readerPc, answering, writerPc, acquired, cancelled,
                 open, worldVars>>

\* replace: under m.mu the connection enters the table ...
Replace(k) ==
  LET c == ClientOf[k] IN
  /\ handlerPc[k] = "present"
  /\ handlerPc' = [handlerPc EXCEPT
                     ![k] = IF binding[c] = None THEN "bound" ELSE "replaced"]
  /\ binding' = [binding EXCEPT ![c] = k]
  /\ previous' = [previous EXCEPT ![k] = binding[c]]
  /\ UNCHANGED <<hubVars, readerPc, answering, writerPc, acquired, cancelled,
                 open, worldVars>>

\* ... and when m.mu is let go it cancels the one it took the place of, ...
CancelPrevious(k) ==
  /\ handlerPc[k] = "replaced"
  /\ handlerPc' = [handlerPc EXCEPT ![k] = "closing"]
  /\ cancelled' = cancelled \cup {previous[k]}
  /\ UNCHANGED <<hubVars, readerPc, answering, writerPc, acquired, binding,
                 previous, open, worldVars>>

\* ... and closes it.
ClosePrevious(k) ==
  /\ handlerPc[k] = "closing"
  /\ handlerPc' = [handlerPc EXCEPT ![k] = "bound"]
  /\ open' = open \ {previous[k]}
  /\ previous' = [previous EXCEPT ![k] = None]
  /\ UNCHANGED <<hubVars, readerPc, answering, writerPc, acquired, binding,
                 cancelled, worldVars>>

\* The welcome message is written and the goroutines start, or the write
\* fails.  On a context that a newer connection has cancelled but a socket
\* it has not closed yet, either may happen.
Welcome(k) ==
  /\ handlerPc[k] = "bound"
  /\ \/ /\ k \in open
        /\ handlerPc' = [handlerPc EXCEPT ![k] = "serving"]
        /\ writerPc' = [writerPc EXCEPT ![k] = "acquire"]
     \/ /\ k \notin open \/ k \in cancelled
        /\ handlerPc' = [handlerPc EXCEPT ![k] = "cleanup"]
        /\ UNCHANGED writerPc
  /\ UNCHANGED <<hubVars, readerPc, answering, acquired, binding, previous,
                 cancelled, open, worldVars>>

\* The reader loop returns, the handler cancels the connection's context ...
ReaderEnds(k) ==
  /\ handlerPc[k] = "serving"
  /\ readerPc[k] = "read"
  /\ k \notin open \/ k \in cancelled
  /\ handlerPc' = [handlerPc EXCEPT ![k] = "draining"]
  /\ cancelled' = cancelled \cup {k}
  /\ UNCHANGED <<hubVars, readerPc, answering, writerPc, acquired, binding,
                 previous, open, worldVars>>

\* ... waits for the writer ...
Drained(k) ==
  /\ handlerPc[k] = "draining"
  /\ writerPc[k] = "done"
  /\ handlerPc' = [handlerPc EXCEPT ![k] = "cleanup"]
  /\ UNCHANGED <<hubVars, readerPc, answering, writerPc, acquired, binding,
                 previous, cancelled, open, worldVars>>

\* Mutation: the table is cleared whoever is in it.
ClearAlways(k) ==
  /\ handlerPc[k] = "cleanup"
  /\ handlerPc' = [handlerPc EXCEPT ![k] = "unregister"]
  /\ binding' = [binding EXCEPT ![ClientOf[k]] = None]
  /\ cancelled' = cancelled \cup {k}
  /\ open' = open \ {k}
  /\ UNCHANGED <<hubVars, readerPc, answering, writerPc, acquired, previous,
                 worldVars>>

\* ... and runs the deferred function: cancel, CloseNow, clearIfCurrent, ...
ClearIfCurrent(k) ==
  LET c == ClientOf[k]
      current == binding[c] = k
  IN
  /\ handlerPc[k] = "cleanup"
  /\ handlerPc' =
       [handlerPc EXCEPT ![k] = IF current THEN "unregister" ELSE "closed"]
  /\ binding' = IF current THEN [binding EXCEPT ![c] = None] ELSE binding
  /\ cancelled' = cancelled \cup {k}
  /\ open' = open \ {k}
  /\ UNCHANGED <<hubVars, readerPc, answering, writerPc, acquired, previous,
                 worldVars>>

\* ... and Unregister, which is not under the lock of clearIfCurrent.
UnregisterClosed(k) ==
  /\ handlerPc[k] = "unregister"
  /\ handlerPc' = [handlerPc EXCEPT ![k] = "closed"]
  /\ IF Registered(ClientOf[k]) THEN Unregister(ClientOf[k])
                                ELSE UNCHANGED regVars
  /\ UNCHANGED <<ownHubVars, readerPc, answering, writerPc, acquired, binding,
                 previous, cancelled, open, worldVars>>

-----------------------------------------------------------------------------
(* The reader loop *)

Reading(k) ==
  /\ handlerPc[k] = "serving"
  /\ readerPc[k] = "read"
  /\ k \in open \ cancelled

Heartbeat(k) ==
  /\ Reading(k)
  /\ TouchClientPresence(k)
  /\ UNCHANGED <<connVars, worldVars>>

\* A result message: presence first, whatever the result is.
ReceiveResult(k, job) ==
  /\ Reading(k)
  /\ job \in onDevice
  /\ ClientOf[job[1]] = ClientOf[k]
  /\ TouchClientPresence(k)
  /\ onDevice' = onDevice \ {job}
  /\ readerPc' = [readerPc EXCEPT ![k] = "check"]
  /\ answering' = [answering EXCEPT ![k] = job[2]]
  /\ UNCHANGED <<handlerPc, writerPc, acquired, binding, previous, cancelled,
                 open, enabled, admitted>>

\* SubmitClientResult: EnsureGroupActive, then the presence.  An answer is
\* dropped when its group is disabled or gone, or the query fails.
CheckGroup(k) ==
  /\ readerPc[k] = "check"
  /\ \/ /\ GroupActive(ClaimGroup[k])
        /\ TouchClientPresence(k)
        /\ readerPc' = [readerPc EXCEPT ![k] = "submit"]
        /\ UNCHANGED answering
     \/ /\ ~GroupActive(ClaimGroup[k]) \/ "database" \in Faults
        /\ readerPc' = [readerPc EXCEPT ![k] = "read"]
        /\ answering' = [answering EXCEPT ![k] = None]
        /\ UNCHANGED hubVars
  /\ UNCHANGED <<handlerPc, writerPc, acquired, binding, previous, cancelled,
                 open, worldVars>>

Submit(k) ==
  /\ readerPc[k] = "submit"
  /\ SubmitResult(ClientOf[k], answering[k])
  /\ readerPc' = [readerPc EXCEPT ![k] = "read"]
  /\ answering' = [answering EXCEPT ![k] = None]
  /\ UNCHANGED <<handlerPc, writerPc, acquired, binding, previous, cancelled,
                 open, worldVars>>

-----------------------------------------------------------------------------
(* The writer goroutine *)

WriterGoes(k, to) == writerPc' = [writerPc EXCEPT ![k] = to]
otherConnVars == <<handlerPc, readerPc, answering, binding, previous, cancelled>>

\* AcquireDispatchSlot.  It does not look at the context while a slot is
\* free, so a writer that passed the check at the top of its loop before the
\* cancellation may still take one.
AcquireDispatchSlot(k) ==
  /\ writerPc[k] = "acquire"
  /\ \/ /\ TakeSlot(k)
        /\ acquired' = [acquired EXCEPT ![k] = sessions[ClientOf[k]]]
        /\ WriterGoes(k, "pop")
     \/ ParkForSlot(k) /\ UNCHANGED <<acquired, writerPc>>
  /\ UNCHANGED <<ownHubVars, otherConnVars, open, worldVars>>

\* ctx.Err() at the top of the loop, ctx.Done() in the select, or
\* ErrClientSessionGone: the writer returns; in the last case the reader
\* keeps going.
WriterReturns(k) ==
  /\ writerPc[k] = "acquire"
  /\ \/ k \in Parked /\ k \in cancelled /\ StopWaiting(k)
     \/ /\ k \notin Parked
        /\ k \in cancelled \/ ~Registered(ClientOf[k])
        /\ UNCHANGED regVars
  /\ WriterGoes(k, "done")
  /\ UNCHANGED <<ownHubVars, otherConnVars, acquired, open, worldVars>>

PopAcquired(k) ==
  /\ writerPc[k] = "pop"
  /\ Pop(k, acquired[k])
  /\ WriterGoes(k, IF held'[k] = None THEN "pop" ELSE "have")
  /\ UNCHANGED <<otherConnVars, acquired, open, worldVars>>

PopCancelled(k) ==
  /\ writerPc[k] = "pop"
  /\ k \in cancelled
  /\ LeavePop(k)
  /\ WriterGoes(k, "release")
  /\ UNCHANGED <<otherConnVars, acquired, open, worldVars>>

\* Mutation: a job that was not written is taken for sent.
SendJobLost(k) ==
  /\ writerPc[k] = "have"
  /\ k \in open \ cancelled
  /\ LetGo(k)
  /\ acquired' = [acquired EXCEPT ![k] = None]
  /\ WriterGoes(k, "acquire")
  /\ UNCHANGED <<otherConnVars, open, worldVars>>

SendJob(k) ==
  /\ writerPc[k] = "have"
  /\ k \in open \ cancelled
  /\ LetGo(k)
  /\ onDevice' = onDevice \cup {<<k, held[k]>>}
  /\ acquired' = [acquired EXCEPT ![k] = None]
  /\ WriterGoes(k, "acquire")
  /\ UNCHANGED <<otherConnVars, open, enabled, admitted>>

\* The context is done before the write, or the socket is dead.
SendRefused(k) ==
  /\ writerPc[k] = "have"
  /\ k \in cancelled \/ k \notin open
  /\ WriterGoes(k, "release")
  /\ UNCHANGED <<hubVars, otherConnVars, acquired, open, worldVars>>

\* The write fails half-way: the frame may have reached the device, the
\* WebSocket library closes the connection.
SendFails(k) ==
  /\ "write" \in Faults
  /\ writerPc[k] = "have"
  /\ k \in open
  /\ \E arrived \in BOOLEAN :
       onDevice' = IF arrived THEN onDevice \cup {<<k, held[k]>>} ELSE onDevice
  /\ open' = open \ {k}
  /\ WriterGoes(k, "release")
  /\ UNCHANGED <<hubVars, otherConnVars, acquired, enabled, admitted>>

\* Mutation: the slot is given back only together with a job.
GiveSlotBackWithJob(k) ==
  /\ writerPc[k] = "release"
  /\ IF held[k] # None THEN ReleaseIfRegistered(ClientOf[k])
                       ELSE UNCHANGED regVars
  /\ acquired' = [acquired EXCEPT ![k] = None]
  /\ WriterGoes(k, IF held[k] = None THEN "done" ELSE "requeue")
  /\ UNCHANGED <<ownHubVars, otherConnVars, open, worldVars>>

\* ReleaseDispatchSlot, by client id: whatever session is current.
GiveSlotBack(k) ==
  /\ writerPc[k] = "release"
  /\ ReleaseIfRegistered(ClientOf[k])
  /\ acquired' = [acquired EXCEPT ![k] = None]
  /\ WriterGoes(k, IF held[k] = None THEN "done" ELSE "requeue")
  /\ UNCHANGED <<ownHubVars, otherConnVars, open, worldVars>>

\* Requeue looks the session up under the read lock and pushes without it.
RequeueLookup(k) ==
  /\ writerPc[k] = "requeue"
  /\ IF Registered(ClientOf[k])
     THEN /\ acquired' = [acquired EXCEPT ![k] = sessions[ClientOf[k]]]
          /\ WriterGoes(k, "putBack")
          /\ UNCHANGED hubVars
     ELSE LetGo(k) /\ WriterGoes(k, "done") /\ UNCHANGED acquired
  /\ UNCHANGED <<otherConnVars, open, worldVars>>

\* Mutation: the job is put back and kept.
RequeueKept(k) ==
  /\ writerPc[k] = "putBack"
  /\ Push(acquired[k], held[k])
  /\ acquired' = [acquired EXCEPT ![k] = None]
  /\ WriterGoes(k, "done")
  /\ UNCHANGED <<regVars, held, ledgerVars, callVars, clockVars,
                 otherConnVars, open, worldVars>>

RequeuePush(k) ==
  /\ writerPc[k] = "putBack"
  /\ PutBack(k, acquired[k])
  /\ acquired' = [acquired EXCEPT ![k] = None]
  /\ WriterGoes(k, "done")
  /\ UNCHANGED <<otherConnVars, open, worldVars>>

-----------------------------------------------------------------------------
(* Callers, and what may go wrong around the server *)

\* InvokeRPC: the group is checked once, before the hub is asked.
AdmitCall(r) ==
  /\ r \notin admitted
  /\ GroupActive(GroupOfCall[r])
  /\ admitted' = admitted \cup {r}
  /\ UNCHANGED <<hubVars, connVars, onDevice, enabled>>

CallStep(r) ==
  /\ r \in admitted
  /\ InvokeStep(r)
  /\ UNCHANGED <<connVars, worldVars>>

TimePasses(r) ==
  /\ r \in Impatient
  /\ DeadlinePasses(r) \/ CtxEnds(r)
  /\ UNCHANGED <<connVars, worldVars>>

\* The record of a call that ended is old enough to be cleaned up.
RetentionPasses(r) ==
  /\ "retention" \in Faults
  /\ Age(r)
  /\ UNCHANGED <<connVars, worldVars>>

BreakSocket(k) ==
  /\ "socket" \in Faults
  /\ k \in open
  /\ open' = open \ {k}
  /\ UNCHANGED <<hubVars, handlerPc, readerPc, answering, writerPc, acquired,
                 binding, previous, cancelled, worldVars>>

\* The device process dies, or drops an answer it has no socket for.
DeviceForgets(c) ==
  LET lost == {job \in onDevice : ClientOf[job[1]] = c} IN
  /\ "device" \in Faults
  /\ lost # {}
  /\ onDevice' = onDevice \ lost
  /\ UNCHANGED <<hubVars, connVars, enabled, admitted>>

\* handleClientLogout, with or without an open connection.
Logout(c) ==
  /\ "logout" \in Faults
  /\ Unregister(c)
  /\ UNCHANGED <<ownHubVars, connVars, worldVars>>

SwitchGroup(g) ==
  /\ "disable" \in Faults
  /\ enabled' = IF g \in enabled THEN enabled \ {g} ELSE enabled \cup {g}
  /\ UNCHANGED <<hubVars, connVars, onDevice, admitted>>

-----------------------------------------------------------------------------
HandlerStep(k) ==
  \/ Accept(k) \/ MarkPresent(k) \/ Replace(k) \/ CancelPrevious(k)
  \/ ClosePrevious(k) \/ Welcome(k) \/ ReaderEnds(k) \/ Drained(k)
  \/ ClearIfCurrent(k) \/ UnregisterClosed(k)

ReaderStep(k) == CheckGroup(k) \/ Submit(k)

WriterStep(k) ==
  \/ AcquireDispatchSlot(k) \/ WriterReturns(k) \/ PopAcquired(k)
  \/ PopCancelled(k) \/ SendJob(k) \/ SendRefused(k) \/ GiveSlotBack(k)
  \/ RequeueLookup(k) \/ RequeuePush(k)

DeviceAnswers(k, r) ==
  \E origin \in Writers : ReceiveResult(k, <<origin, r>>)

Init ==
  /\ HubInit
  /\ handlerPc = [k \in Writers |-> "idle"]
  /\ readerPc = [k \in Writers |-> "read"]
  /\ answering = [k \in Writers |-> None]
  /\ writerPc = [k \in Writers |-> "off"]
  /\ acquired = [k \in Writers |-> None]
  /\ binding = [c \in Clients |-> None]
  /\ previous = [k \in Writers |-> None]
  /\ cancelled = {}
  /\ open = {}
  /\ onDevice = {}
  /\ enabled = Groups
  /\ admitted = {}

Next ==
  \/ \E k \in Writers :
       \/ Login(k) \/ HandlerStep(k) \/ ReaderStep(k) \/ WriterStep(k)
       \/ Heartbeat(k) \/ SendFails(k) \/ BreakSocket(k)
       \/ \E r \in Requests : DeviceAnswers(k, r)
  \/ \E r \in Requests :
       AdmitCall(r) \/ CallStep(r) \/ TimePasses(r) \/ RetentionPasses(r)
  \/ \E c \in Clients : DeviceForgets(c) \/ Logout(c)
  \/ \E g \in Groups : SwitchGroup(g)

Spec == Init /\ [][Next]_wsVars

\* Goroutines keep running, a context ends once its deadline has passed, an
\* open connection carries heartbeats and the answers of the device.  A writer
\* that is woken up again and again while its context is done leaves in the
\* end: a select chooses at random among the channels that are ready.  Nothing
\* makes a device log in, a caller call or a deadline pass.
Fairness ==
  /\ \A k \in Writers :
       /\ WF_wsVars(HandlerStep(k))
       /\ WF_wsVars(ReaderStep(k))
       /\ WF_wsVars(WriterStep(k))
       /\ WF_wsVars(WriterReturns(k))
       /\ WF_wsVars(Heartbeat(k))
       /\ \A r \in Requests : WF_wsVars(DeviceAnswers(k, r))
  /\ \A r \in Requests :
       WF_wsVars(CallStep(r)) /\ WF_wsVars(r \in expired /\ TimePasses(r))

FairSpec == Spec /\ Fairness
-----------------------------------------------------------------------------
(* Properties *)

\* The types of the connections' state.
WsTypeOK ==
  /\ handlerPc \in [Writers -> {"idle", "login", "registered", "present",
                                "replaced", "closing", "bound", "serving",
                                "draining", "cleanup", "unregister", "closed"}]
  /\ readerPc \in [Writers -> {"read", "check", "submit"}]
  /\ answering \in [Writers -> Requests \cup {None}]
  /\ writerPc \in [Writers -> {"off", "acquire", "pop", "have", "release",
                               "requeue", "putBack", "done"}]
  /\ acquired \in [Writers -> Sessions \cup {None}]
  /\ binding \in [Clients -> Writers \cup {None}]
  /\ previous \in [Writers -> Writers \cup {None}]
  /\ cancelled \in SUBSET Writers
  /\ open \in SUBSET Writers
  /\ onDevice \in SUBSET (Writers \X Requests)
  /\ enabled \in SUBSET Groups
  /\ admitted \in SUBSET Requests

\* The connection is past replace and its clean-up has not looked at the table.
PastReplace(k) ==
  handlerPc[k] \in {"replaced", "closing", "bound", "serving", "draining",
                    "cleanup"}

\* Of all the connections a device opened, one that is past replace and not
\* cancelled is the one in the table, or its successor is just about to cancel
\* it: connections may overlap while they take each other's place, but none is
\* forgotten.  And the table points at no connection that has left, so one
\* that was replaced does not unregister the device on its way out (replace,
\* clearIfCurrent).
NoStrayConnection ==
  \A k \in Writers :
    /\ PastReplace(k) /\ k \notin cancelled =>
         \/ binding[ClientOf[k]] = k
         \/ \E j \in Writers : handlerPc[j] = "replaced" /\ previous[j] = k
    /\ binding[ClientOf[k]] = k => PastReplace(k)

\* The jobs a device has and has not answered, and the answers that have
\* arrived and are not in the ledger yet.
Running(c) == {job \in onDevice : ClientOf[job[1]] = c}
ArrivedFor(c) ==
  {k \in Writers : ClientOf[k] = c /\ answering[k] # None}
SlotHolders(c) ==
  {k \in Writers : ClientOf[k] = c /\ writerPc[k] \in {"pop", "have", "release"}}

\* Every slot counted against a device is owed to a writer that holds it or
\* to a job the device still has: reconnections, timeouts and late answers
\* leak no slot, so a device is never starved by slots nobody will free
\* (AcquireDispatchSlot, ReleaseDispatchSlot, SubmitResult).
SlotsCovered ==
  \A c \in Clients : Registered(c) =>
    inFlight[sessions[c]] <=
      Cardinality(SlotHolders(c)) + Cardinality(Running(c))
        + Cardinality(ArrivedFor(c))

\* A device runs no more jobs at a time than its login allows.
LoadWithinLimit ==
  \A c \in Clients : Registered(c) =>
    Cardinality(Running(c)) <= maxInFlight[sessions[c]]

\* The job of a call that still waits has not been dropped on the way: it is
\* in the queue of the device's current session, in a writer's hand, on the
\* device, or its answer is on the way back (Push, Pop, the writer and reader
\* loops, SubmitResult).
JobAccounted ==
  \A r \in Requests : callPc[r] = "waiting" /\ r \notin expired =>
    \/ Registered(assigned[r]) /\ r \in Range(pending[sessions[assigned[r]]])
    \/ \E k \in Writers : held[k] = r \/ answering[k] = r \/ <<k, r>> \in onDevice
    \/ resultCh[r] # None

HasLiveConnection(c) ==
  \E k \in Writers : /\ ClientOf[k] = c
                     /\ handlerPc[k] = "serving"
                     /\ k \in open \ cancelled

\* While the assigned device keeps a live connection, a waiting call comes to
\* an end even if its deadline never does: the device's writer finds the job,
\* the device answers, and the answer finds the caller.
Served ==
  \A r \in Requests :
    callPc[r] = "waiting" /\ HasLiveConnection(assigned[r])
      ~> callPc[r] = "done" \/ ~HasLiveConnection(assigned[r])
=============================================================================
