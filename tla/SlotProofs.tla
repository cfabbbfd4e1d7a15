----------------------------- MODULE SlotProofs -----------------------------
(***************************************************************************)
(* What becomes of dispatch slots and of jobs: SlotsCovered,               *)
(* LoadWithinLimit and JobAccounted of ClientWS, for every set of          *)
(* connections and calls and every limit.                                  *)
(*                                                                         *)
(* No slot leaks.  A slot is given back when the ledger takes an answer,   *)
(* so the argument is that it takes every answer that arrives.  FlowInv    *)
(* follows a job from its queue through a writer's hand and the device to  *)
(* the reader: it is at one of these at a time, and while it is at any of  *)
(* them its call is either still waited for or on record as expired, which *)
(* are the two cases in which SubmitResult frees a slot.  SlotInv then     *)
(* counts: no more slots than jobs.                                        *)
(*                                                                         *)
(* No device is overloaded.  LoadInv counts the other way: no more jobs    *)
(* than slots, and no more slots than the limit.                           *)
(*                                                                         *)
(* No job is lost.  AccountedInv follows the job of a waiting call the     *)
(* same way from place to place.                                           *)
(*                                                                         *)
(* Each theorem names the faults it excludes, because after them the code  *)
(* gives no such promise.  Lossless leaves out those that lose or double a *)
(* job: a write that fails half-way can deliver it twice, a device can     *)
(* forget it, an answer is dropped with its slot when its group is         *)
(* disabled or the query for the group fails, and so is one that comes     *)
(* after the retention of its call's record.                               *)
(* Unbroken leaves out those that drop a session with its queue and its    *)
(* count: a dead socket, a failed write, a logout.                         *)
(***************************************************************************)
EXTENDS ClientWSProofs

\* No fault loses a job, doubles it, or drops its answer.
Lossless ==
  Faults \cap {"write", "device", "disable", "retention", "database"} = {}

-----------------------------------------------------------------------------
(* Where a job is, beyond the hub *)

WithServer(r) ==
  \/ \E s \in Sessions : Has(pending[s], r)
  \/ \E w \in Writers : held[w] = r
OnDevice(r) == \E k \in Writers : <<k, r>> \in onDevice
Arriving(r) == \E k \in Writers : answering[k] = r

\* The ledger will take an answer to the call.
Owed(r) ==
  /\ Disclosed(r)
  /\ \/ waiters[r] = assigned[r]
     \/ waiters[r] = None /\ completed[r] = Ended(assigned[r], "expired")

Flow(r) ==
  /\ WithServer(r) \/ OnDevice(r) \/ Arriving(r) => Owed(r)
  /\ WithServer(r) => ~OnDevice(r) /\ ~Arriving(r)
  /\ OnDevice(r) => ~Arriving(r)
  /\ \A j, k \in Writers : <<j, r>> \in onDevice /\ <<k, r>> \in onDevice => j = k
  /\ \A j, k \in Writers : answering[j] = r /\ answering[k] = r => j = k
  /\ \A k \in Writers :
       <<k, r>> \in onDevice \/ answering[k] = r => assigned[r] = ClientOf[k]

FlowInv == \A r \in Requests : Flow(r)

\* A job that moves nowhere new stays in order.
LEMMA LessFlows ==
  ASSUME NEW r, Flow(r),
         WithServer(r)' => WithServer(r),
         \A k \in Writers : /\ <<k, r>> \in onDevice' => <<k, r>> \in onDevice
                            /\ answering'[k] = r => answering[k] = r,
         Owed(r) => Owed(r)' /\ assigned'[r] = assigned[r]
  PROVE  Flow(r)'
<1>1. (OnDevice(r)' => OnDevice(r)) /\ (Arriving(r)' => Arriving(r))
  BY DEF OnDevice, Arriving
<1>2. WithServer(r)' \/ OnDevice(r)' \/ Arriving(r)' =>
        Owed(r)' /\ assigned'[r] = assigned[r]
  BY <1>1 DEF Flow
<1>3. ASSUME NEW k \in Writers, <<k, r>> \in onDevice' \/ answering'[k] = r
      PROVE  assigned'[r] = ClientOf[k]
  <2>1. OnDevice(r)' \/ Arriving(r)'
    BY <1>3 DEF OnDevice, Arriving
  <2> QED BY <1>2, <1>3, <2>1 DEF Flow
<1>4. WithServer(r)' => ~OnDevice(r)' /\ ~Arriving(r)'
  BY <1>1 DEF Flow
<1>5. OnDevice(r)' => ~Arriving(r)'
  BY <1>1 DEF Flow
<1>6. \A j, k \in Writers : <<j, r>> \in onDevice' /\ <<k, r>> \in onDevice' => j = k
  BY DEF Flow
<1>7. \A j, k \in Writers : answering'[j] = r /\ answering'[k] = r => j = k
  BY DEF Flow
<1> QED BY <1>2, <1>3, <1>4, <1>5, <1>6, <1>7 DEF Flow

\* What a writer does with a queue brings no job to the server.
LEMMA QueuesBringNothing ==
  ASSUME HubTypeOK, NEW w \in Writers, NEW s \in Sessions, NEW r \in Requests,
         Pop(w, s) \/ PutBack(w, s)
  PROVE  WithServer(r)' => WithServer(r)
<1>1. None \notin Requests
  BY CallsAssumption
<1>2. CASE PopJob(w, s)
  <2>1. PICK i \in 1..Len(pending[s]) :
          /\ held' = [held EXCEPT ![w] = pending[s][i]]
          /\ pending' = [pending EXCEPT ![s] = SubSeq(@, i + 1, Len(@))]
    BY <1>2, PopTakes
  <2>2. pending[s] \in Seq(Requests) /\ Has(pending[s], pending[s][i])
    BY DEF HubTypeOK, Has
  <2>3. Has(SubSeq(pending[s], i + 1, Len(pending[s])), r) => Has(pending[s], r)
    BY <2>2, RestHolds
  <2>4. \A t \in Sessions : Has(pending'[t], r) => Has(pending[t], r)
    BY <2>1, <2>3 DEF HubTypeOK
  <2>5. \A v \in Writers :
          held'[v] = r => held[v] = r \/ Has(pending[s], r)
    BY <2>1, <2>2 DEF HubTypeOK
  <2> QED BY <2>4, <2>5 DEF WithServer
<1>3. CASE PopParks(w, s)
  <2>1. ~Has(<< >>, r)
    BY EmptySeq DEF Has
  <2>2. /\ UNCHANGED held
        /\ \A t \in Sessions : pending'[t] = IF t = s THEN << >> ELSE pending[t]
    BY <1>3 DEF PopParks, HubTypeOK
  <2> QED BY <2>1, <2>2 DEF WithServer
<1>4. CASE PutBack(w, s)
  <2>1. /\ held[w] \in Requests /\ Push(s, held[w])
        /\ \A v \in Writers : held'[v] = IF v = w THEN None ELSE held[v]
    BY <1>4 DEF PutBack, HubTypeOK
  <2>2. \A t \in Sessions :
          Has(pending'[t], r) => Has(pending[t], r) \/ r = held[w]
    BY <2>1, PushPlaces
  <2> QED BY <1>1, <2>1, <2>2 DEF WithServer
<1> QED BY <1>2, <1>3, <1>4 DEF Pop

\* Registering a client empties a queue at most.
LEMMA RegisterBringsNothing ==
  ASSUME HubTypeOK, NEW c, NEW g, NEW asked, Register(c, g, asked),
         NEW r \in Requests
  PROVE  WithServer(r)' => WithServer(r)
<1>1. ~Has(<< >>, r)
  BY EmptySeq DEF Has
<1>2. UNCHANGED held
  BY DEF Register, RegisterFresh, ownHubVars
<1>3. CASE UNCHANGED ownHubVars
  BY <1>2, <1>3 DEF WithServer, ownHubVars, queueVars
<1>4. CASE \E s \in Sessions : pending' = [pending EXCEPT ![s] = << >>]
  <2>1. \A t \in Sessions : pending'[t] = pending[t] \/ pending'[t] = << >>
    BY <1>4 DEF HubTypeOK
  <2> QED BY <1>1, <1>2, <2>1 DEF WithServer
<1>5. CASE FreeSessions # {}
             /\ RegisterFresh(c, g, asked, CHOOSE s \in FreeSessions : TRUE)
  <2>1. PICK s \in FreeSessions : RegisterFresh(c, g, asked, s)
    BY <1>5
  <2> QED BY <1>4, <2>1 DEF FreeSessions, RegisterFresh
<1> QED BY <1>3, <1>5 DEF Register

-----------------------------------------------------------------------------
(* What is owed stays owed *)

\* Nothing but an answer to the call itself ends what the ledger expects of
\* it: the goroutine of the call may take its result, give up or expire its
\* waiter, and other calls do not matter.
LEMMA OwedStays ==
  ASSUME HubTypeOK, LedgerInv, aged = {}, NEW r \in Requests, Owed(r),
         \/ \E q \in Requests : InvokeStep(q)
         \/ \E c \in Clients, q \in Requests \ {r} : SubmitResult(c, q)
         \/ UNCHANGED <<ledgerVars, callVars>>
  PROVE  Owed(r)' /\ assigned'[r] = assigned[r]
<1>1. /\ DOMAIN callPc = Requests /\ DOMAIN assigned = Requests
      /\ DOMAIN waiters = Requests /\ DOMAIN completed = Requests
      /\ completed = [q \in Requests |-> completed[q]]
  BY DEF HubTypeOK
<1>2. Cleaned(completed) = completed
  BY <1>1 DEF Cleaned
<1>3. callPc[r] \in {"waiting", "expiring", "done"}
  BY DEF Owed, Disclosed
<1>4. ASSUME NEW q \in Requests, InvokeStep(q), q # r
      PROVE  /\ callPc'[r] = callPc[r] /\ assigned'[r] = assigned[r]
             /\ waiters'[r] = waiters[r] /\ completed'[r] = completed[r]
  BY <1>1, <1>2, <1>4
  DEF InvokeStep, PickSession, PickPreferred, PickInGroup, Assign, Return,
      StoreWaiter, PushJob, DropWaiter, TakeResult, GiveUp, ExpireWaiter,
      ledgerVars
<1>5. CASE InvokeStep(r)
  <2>1. TakeResult(r) \/ GiveUp(r) \/ ExpireWaiter(r)
    BY <1>3, <1>5
    DEF InvokeStep, PickSession, StoreWaiter, PushJob, DropWaiter
  <2>2. CASE TakeResult(r) \/ GiveUp(r)
    BY <1>1, <1>3, <2>2 DEF TakeResult, GiveUp, Return, Owed, Disclosed, ledgerVars
  <2>3. CASE ExpireWaiter(r)
    <3>1. callPc'[r] = "done" /\ UNCHANGED assigned
      BY <1>1, <2>3 DEF ExpireWaiter, Return
    <3>2. CASE waiters[r] # None
      <4>1. waiters'[r] = None /\ completed'[r] = Ended(waiters[r], "expired")
        BY <1>1, <1>2, <2>3, <3>2 DEF ExpireWaiter
      <4>2. waiters[r] = assigned[r]
        BY <3>2 DEF Owed
      <4> QED BY <3>1, <4>1, <4>2 DEF Owed, Disclosed
    <3>3. CASE waiters[r] = None
      <4>1. UNCHANGED <<waiters, completed>>
        BY <2>3, <3>3 DEF ExpireWaiter
      <4> QED BY <3>1, <4>1 DEF Owed, Disclosed
    <3> QED BY <3>2, <3>3
  <2> QED BY <2>1, <2>2, <2>3
<1>6. ASSUME NEW c \in Clients, NEW q \in Requests \ {r}, SubmitResult(c, q)
      PROVE  /\ callPc'[r] = callPc[r] /\ assigned'[r] = assigned[r]
             /\ waiters'[r] = waiters[r] /\ completed'[r] = completed[r]
  BY <1>1, <1>2, <1>6 DEF SubmitResult, Delivered, Late, Ignored, callVars
<1>7. ASSUME /\ callPc'[r] = callPc[r] /\ assigned'[r] = assigned[r]
             /\ waiters'[r] = waiters[r] /\ completed'[r] = completed[r]
      PROVE  Owed(r)' /\ assigned'[r] = assigned[r]
  BY <1>7 DEF Owed, Disclosed
<1>8. CASE UNCHANGED <<ledgerVars, callVars>>
  BY <1>7, <1>8 DEF ledgerVars, callVars
<1> QED BY <1>4, <1>5, <1>6, <1>7, <1>8

-----------------------------------------------------------------------------
(* What is at rest *)

\* No record is forgotten while the connections run; a reader holds an answer
\* only while it handles one; a writer starts after the welcome.
RestInv ==
  /\ aged = {}
  /\ \A k \in Writers :
       /\ readerPc[k] = "read" => answering[k] = None
       /\ handlerPc[k] \in {"idle", "login", "registered", "present", "replaced",
                            "closing", "bound"}
            => writerPc[k] = "off"

LEMMA RestInit == Init => RestInv
BY DEF Init, HubInit, OwnHubInit, RestInv

LEMMA RestStep ==
  ASSUME Lossless
  PROVE  WsTypeOK /\ RestInv /\ [Next]_wsVars => RestInv'
<1> SUFFICES ASSUME WsTypeOK, RestInv, [Next]_wsVars PROVE RestInv'
  OBVIOUS
<1>1. /\ DOMAIN handlerPc = Writers /\ DOMAIN readerPc = Writers
      /\ DOMAIN answering = Writers /\ DOMAIN writerPc = Writers
  BY DEF WsTypeOK
<1>2. ASSUME UNCHANGED <<aged, handlerPc, readerPc, answering, writerPc>>
      PROVE  RestInv'
  BY <1>2 DEF RestInv
<1>3. ASSUME NEW k \in Writers, Login(k) \/ Accept(k) \/ MarkPresent(k)
      PROVE  RestInv'
  <2>1. UNCHANGED aged
    BY <1>3, RegisterKeepsCalls
    DEF Login, Accept, MarkPresent, TouchClientPresence, ledgerVars
  <2> QED
    BY <1>1, <1>3, <2>1 DEF Login, Accept, MarkPresent, RestInv
<1>4. ASSUME NEW k \in Writers, Heartbeat(k) PROVE RestInv'
  BY <1>2, <1>4, RegisterKeepsCalls
  DEF Heartbeat, TouchClientPresence, ledgerVars, connVars
<1>5. ASSUME NEW k \in Writers, NEW job, ReceiveResult(k, job) PROVE RestInv'
  <2>1. UNCHANGED aged
    BY <1>5, RegisterKeepsCalls DEF ReceiveResult, TouchClientPresence, ledgerVars
  <2> QED BY <1>1, <1>5, <2>1 DEF ReceiveResult, RestInv
<1>6. ASSUME NEW k \in Writers, CheckGroup(k) PROVE RestInv'
  <2>1. UNCHANGED aged
    BY <1>6, RegisterKeepsCalls
    DEF CheckGroup, TouchClientPresence, ledgerVars, hubVars, ownHubVars
  <2> QED BY <1>1, <1>6, <2>1 DEF CheckGroup, RestInv
<1>7. ASSUME NEW k \in Writers, Submit(k) PROVE RestInv'
  BY <1>1, <1>7 DEF Submit, SubmitResult, RestInv
<1>8. ASSUME NEW k \in Writers,
             Replace(k) \/ CancelPrevious(k) \/ ClosePrevious(k)
               \/ Welcome(k) \/ ReaderEnds(k) \/ Drained(k)
               \/ ClearIfCurrent(k) \/ UnregisterClosed(k) \/ BreakSocket(k)
      PROVE  RestInv'
  BY <1>1, <1>8
  DEF Replace, CancelPrevious, ClosePrevious,
      Welcome, ReaderEnds, Drained, ClearIfCurrent, UnregisterClosed,
      BreakSocket, RestInv, hubVars, ownHubVars, ledgerVars
<1>9. ASSUME NEW k \in Writers, WriterStep(k) \/ SendFails(k)
      PROVE  RestInv'
  <2>1. UNCHANGED <<aged, handlerPc, readerPc, answering>>
    BY <1>9
    DEF WriterStep, AcquireDispatchSlot, WriterReturns, PopAcquired, PopCancelled,
        SendJob, SendRefused, GiveSlotBack, RequeueLookup, RequeuePush, SendFails,
        Pop, LeavePop, LetGo, PutBack, hubVars, ownHubVars, ledgerVars,
        otherConnVars
  <2>2. writerPc[k] # "off" /\ \A j \in Writers \ {k} : writerPc'[j] = writerPc[j]
    BY <1>1, <1>9
    DEF WriterStep, AcquireDispatchSlot, WriterReturns, PopAcquired, PopCancelled,
        SendJob, SendRefused, GiveSlotBack, RequeueLookup, RequeuePush, SendFails,
        WriterGoes
  <2> QED BY <2>1, <2>2 DEF RestInv
<1>10. ASSUME NEW r \in Requests, CallStep(r) PROVE RestInv'
  <2>1. aged' = aged \/ aged' = {}
    BY <1>10
    DEF CallStep, InvokeStep, PickSession, StoreWaiter, PushJob, DropWaiter,
        TakeResult, GiveUp, ExpireWaiter, ledgerVars
  <2> QED BY <1>10, <2>1 DEF CallStep, RestInv, connVars
<1>11. ASSUME NEW r \in Requests, AdmitCall(r) \/ TimePasses(r) PROVE RestInv'
  BY <1>2, <1>11
  DEF AdmitCall, TimePasses, DeadlinePasses, CtxEnds, connVars, hubVars,
      ownHubVars, ledgerVars
<1>12. ASSUME NEW c, DeviceForgets(c) \/ Logout(c) \/ SwitchGroup(c)
       PROVE  RestInv'
  BY <1>2, <1>12
  DEF DeviceForgets, Logout, SwitchGroup, connVars, hubVars, ownHubVars, ledgerVars
<1>13. CASE UNCHANGED wsVars
  BY <1>2, <1>13 DEF wsVars, connVars, hubVars, ownHubVars, ledgerVars
<1>14. ASSUME NEW r, RetentionPasses(r) PROVE FALSE
  BY <1>14 DEF RetentionPasses, Lossless
<1> QED
  BY <1>3, <1>4, <1>5, <1>6, <1>7, <1>8, <1>9, <1>10, <1>11, <1>12, <1>13, <1>14
  DEF Next, HandlerStep, ReaderStep, DeviceAnswers

-----------------------------------------------------------------------------
(* The way of a job *)

LEMMA FlowInit == Init => FlowInv
<1> SUFFICES ASSUME Init, NEW r \in Requests PROVE Flow(r)
  BY DEF FlowInv
<1>1. ~Has(<< >>, r) /\ r # None
  BY EmptySeq, CallsAssumption DEF Has
<1>2. ~WithServer(r)
  BY <1>1 DEF Init, HubInit, OwnHubInit, WithServer
<1>3. \A k \in Writers : <<k, r>> \notin onDevice /\ answering[k] # r
  BY <1>1 DEF Init
<1> QED BY <1>2, <1>3 DEF Flow, OnDevice, Arriving

LEMMA FlowStep ==
  ASSUME Lossless
  PROVE  WsInv /\ PlaceInv /\ RestInv /\ FlowInv /\ [Next]_wsVars => FlowInv'
<1> SUFFICES ASSUME WsInv, PlaceInv, RestInv, FlowInv, [Next]_wsVars
             PROVE  FlowInv'
  OBVIOUS
<1>1. /\ HubTypeOK /\ LedgerInv /\ JobsAtHome /\ WsTypeOK /\ JobsInv
      /\ aged = {} /\ None \notin Requests
  BY CallsAssumption DEF WsInv, HubInv, QueueInv, RestInv
<1>2. /\ DOMAIN answering = Writers /\ DOMAIN held = Writers
      /\ DOMAIN readerPc = Writers
  BY <1>1 DEF WsTypeOK, HubTypeOK
<1>3. ASSUME UNCHANGED <<ledgerVars, callVars>>,
             NEW r \in Requests, Owed(r)
      PROVE  Owed(r)' /\ assigned'[r] = assigned[r]
  BY <1>1, <1>3, OwedStays
\* Jobs only go away.
<1>4. ASSUME UNCHANGED <<ledgerVars, callVars>>, onDevice' \subseteq onDevice,
             \A k \in Writers : answering'[k] \in {answering[k], None},
             \A r \in Requests : WithServer(r)' => WithServer(r)
      PROVE  FlowInv'
  <2> SUFFICES ASSUME NEW r \in Requests PROVE Flow(r)'
    BY DEF FlowInv
  <2>1. Flow(r)
    BY DEF FlowInv
  <2>2. \A k \in Writers : /\ <<k, r>> \in onDevice' => <<k, r>> \in onDevice
                           /\ answering'[k] = r => answering[k] = r
    BY <1>1, <1>4
  <2>3. WithServer(r)' => WithServer(r)
    BY <1>4
  <2> QED BY <1>3, <1>4, <2>1, <2>2, <2>3, LessFlows
<1>5. ASSUME UNCHANGED ownHubVars, onDevice' \subseteq onDevice,
             \A k \in Writers : answering'[k] \in {answering[k], None}
      PROVE  FlowInv'
  BY <1>4, <1>5 DEF ownHubVars, queueVars, WithServer
<1>6. ASSUME NEW c, NEW g, NEW asked, Register(c, g, asked),
             onDevice' \subseteq onDevice, UNCHANGED answering
      PROVE  FlowInv'
  <2>1. \A r \in Requests : WithServer(r)' => WithServer(r)
    BY <1>1, <1>6, RegisterBringsNothing
  <2>2. UNCHANGED <<ledgerVars, callVars>>
    BY <1>6, RegisterKeepsCalls
  <2> QED BY <1>4, <1>6, <2>1, <2>2
<1>7. ASSUME NEW k \in Writers,
             Login(k) \/ Accept(k) \/ MarkPresent(k) \/ Heartbeat(k)
      PROVE  FlowInv'
  BY <1>6, <1>7
  DEF Login, Accept, MarkPresent, Heartbeat, TouchClientPresence, worldVars,
      connVars
<1>8. ASSUME NEW k \in Writers, NEW r \in Requests, DeviceAnswers(k, r)
      PROVE  FlowInv'
  <2>1. PICK origin \in Writers : ReceiveResult(k, <<origin, r>>)
    BY <1>8 DEF DeviceAnswers
  <2>2. /\ Register(ClientOf[k], ClaimGroup[k], ClaimLimit[k])
        /\ <<origin, r>> \in onDevice /\ ClientOf[origin] = ClientOf[k]
        /\ onDevice' = onDevice \ {<<origin, r>>}
        /\ answering' = [answering EXCEPT ![k] = r]
        /\ readerPc[k] = "read"
    BY <2>1 DEF ReceiveResult, TouchClientPresence, Reading
  <2>3. UNCHANGED <<ledgerVars, callVars>>
    BY <2>2, RegisterKeepsCalls
  <2> SUFFICES ASSUME NEW q \in Requests PROVE Flow(q)'
    BY DEF FlowInv
  <2>4. Flow(q) /\ (WithServer(q)' => WithServer(q))
    BY <1>1, <2>2, RegisterBringsNothing DEF FlowInv
  <2>5. Owed(q) => Owed(q)' /\ assigned'[q] = assigned[q]
    BY <1>3, <2>3
  <2>6. CASE q # r
    <3>1. \A j \in Writers : /\ <<j, q>> \in onDevice' => <<j, q>> \in onDevice
                             /\ answering'[j] = q => answering[j] = q
      BY <1>2, <2>2, <2>6
    <3> QED BY <2>4, <2>5, <3>1, LessFlows
  <2>7. CASE q = r
    <3>1. OnDevice(r)
      BY <2>2 DEF OnDevice
    <3>2. /\ Owed(r) /\ ~WithServer(r) /\ ~Arriving(r)
          /\ assigned[r] = ClientOf[k]
      BY <2>2, <2>4, <2>7, <3>1 DEF Flow
    <3>3. \A j \in Writers : <<j, r>> \notin onDevice'
      BY <2>2, <2>4, <2>7 DEF Flow
    <3>4. \A j \in Writers : answering'[j] = r => j = k
      BY <1>2, <2>2, <3>2 DEF Arriving
    <3> QED
      BY <2>4, <2>5, <2>7, <3>2, <3>3, <3>4 DEF Flow, OnDevice
  <2> QED BY <2>6, <2>7
<1>9. ASSUME NEW k \in Writers,
             Replace(k) \/ CancelPrevious(k) \/ ClosePrevious(k)
               \/ Welcome(k) \/ ReaderEnds(k) \/ Drained(k)
               \/ ClearIfCurrent(k) \/ UnregisterClosed(k) \/ BreakSocket(k)
               \/ AcquireDispatchSlot(k) \/ WriterReturns(k) \/ SendRefused(k)
               \/ GiveSlotBack(k)
      PROVE  FlowInv'
  BY <1>5, <1>9
  DEF Replace, CancelPrevious, ClosePrevious,
      Welcome, ReaderEnds, Drained, ClearIfCurrent, UnregisterClosed,
      BreakSocket, AcquireDispatchSlot, WriterReturns, SendRefused, GiveSlotBack,
      hubVars, worldVars, otherConnVars
<1>10. ASSUME NEW k \in Writers, CheckGroup(k) PROVE FlowInv'
  <2>1. CASE TouchClientPresence(k) /\ UNCHANGED answering
    BY <1>6, <1>10, <2>1 DEF CheckGroup, TouchClientPresence, worldVars
  <2>2. CASE UNCHANGED hubVars /\ answering' = [answering EXCEPT ![k] = None]
    <3>1. UNCHANGED <<ownHubVars, onDevice>>
      BY <1>10, <2>2 DEF CheckGroup, hubVars, worldVars
    <3> QED BY <1>2, <1>5, <2>2, <3>1
  <2> QED BY <1>10, <2>1, <2>2 DEF CheckGroup
<1>11. ASSUME NEW k \in Writers, Submit(k) PROVE FlowInv'
  <2> DEFINE r == answering[k]
             c == ClientOf[k]
  <2>1. r \in Requests /\ c \in Clients
    BY <1>1, <1>11, ClientOfAssumption DEF Submit, JobsInv
  <2>2. /\ SubmitResult(c, r) /\ UNCHANGED <<queueVars, held, onDevice>>
        /\ answering' = [answering EXCEPT ![k] = None]
    BY <1>11 DEF Submit, SubmitResult, worldVars
  <2> HIDE DEF c
  <2> SUFFICES ASSUME NEW q \in Requests PROVE Flow(q)'
    BY DEF FlowInv
  <2>3. Flow(q) /\ (WithServer(q)' <=> WithServer(q))
    BY <2>2 DEF FlowInv, WithServer, queueVars
  <2>4. CASE q # r
    <3>1. r \in Requests \ {q}
      BY <2>1, <2>4
    <3> HIDE DEF r
    <3>2. Owed(q) => Owed(q)' /\ assigned'[q] = assigned[q]
      BY <1>1, <2>1, <2>2, <3>1, OwedStays
    <3>3. \A j \in Writers : answering'[j] = q => answering[j] = q
      BY <1>1, <1>2, <2>2
    <3> QED BY <2>2, <2>3, <3>2, <3>3, LessFlows
  <2>5. CASE q = r
    <3>1. Arriving(q)
      BY <2>5 DEF Arriving
    <3>2. ~WithServer(q) /\ ~OnDevice(q)
      BY <2>3, <3>1 DEF Flow
    <3>3. \A j \in Writers : answering'[j] # q
      BY <1>1, <1>2, <2>1, <2>2, <2>3, <2>5 DEF Flow
    <3>4. \A j \in Writers : <<j, q>> \notin onDevice'
      BY <2>2, <3>2 DEF OnDevice
    <3> QED BY <2>3, <3>2, <3>3, <3>4 DEF Flow, OnDevice, Arriving
  <2> QED BY <2>4, <2>5
<1>12. ASSUME NEW k \in Writers,
              PopAcquired(k) \/ PopCancelled(k) \/ RequeueLookup(k) \/ RequeuePush(k)
       PROVE  FlowInv'
  <2>1. UNCHANGED <<ledgerVars, callVars, onDevice, answering>>
    BY <1>12
    DEF PopAcquired, PopCancelled, RequeueLookup, RequeuePush, Pop, LeavePop,
        LetGo, PutBack, hubVars, ownHubVars, worldVars, otherConnVars
  <2>2. ASSUME NEW r \in Requests PROVE WithServer(r)' => WithServer(r)
    <3>1. CASE PopAcquired(k) \/ RequeuePush(k)
      <4>1. acquired[k] \in Sessions
        BY <1>1, <3>1 DEF PopAcquired, RequeuePush, JobsInv
      <4> QED
        BY <1>1, <3>1, <4>1, QueuesBringNothing DEF PopAcquired, RequeuePush
    <3>2. CASE PopCancelled(k)
      BY <3>2 DEF PopCancelled, LeavePop, WithServer
    <3>3. CASE RequeueLookup(k)
      <4>1. CASE LetGo(k)
        BY <1>1, <1>2, <4>1 DEF LetGo, WithServer, queueVars
      <4>2. CASE UNCHANGED hubVars
        BY <4>2 DEF hubVars, ownHubVars, queueVars, WithServer
      <4> QED BY <3>3, <4>1, <4>2 DEF RequeueLookup
    <3> QED BY <1>12, <3>1, <3>2, <3>3
  <2> QED BY <1>4, <2>1, <2>2
<1>13. ASSUME NEW k \in Writers, SendJob(k) PROVE FlowInv'
  <2> DEFINE r == held[k]
  <2>1. r \in Requests /\ Fits(r, ClientOf[k])
    BY <1>1, <1>13 DEF SendJob, JobsInv, JobsAtHome, HubTypeOK
  <2>2. /\ UNCHANGED <<queueVars, ledgerVars, callVars, answering>>
        /\ held' = [held EXCEPT ![k] = None]
        /\ onDevice' = onDevice \cup {<<k, r>>}
    BY <1>13 DEF SendJob, LetGo, otherConnVars
  <2> SUFFICES ASSUME NEW q \in Requests PROVE Flow(q)'
    BY DEF FlowInv
  <2>3. Flow(q) /\ (WithServer(q)' => WithServer(q))
    BY <1>1, <1>2, <2>2 DEF FlowInv, WithServer, queueVars
  <2>4. Owed(q) => Owed(q)' /\ assigned'[q] = assigned[q]
    BY <1>3, <2>2
  <2>5. CASE q # r
    BY <2>2, <2>3, <2>4, <2>5, LessFlows
  <2>6. CASE q = r
    <3>1. WithServer(q) /\ Owed(q) /\ ~OnDevice(q) /\ ~Arriving(q)
      BY <2>3, <2>6 DEF WithServer, Flow
    <3>2. ~WithServer(q)'
      <4>1. Placed(q)
        BY DEF PlaceInv
      <4> QED
        BY <1>1, <1>2, <2>2, <2>6, <4>1 DEF Placed, WithServer, queueVars
    <3>3. \A j \in Writers : <<j, q>> \in onDevice' => j = k
      BY <2>2, <3>1 DEF OnDevice
    <3>4. \A j \in Writers : answering'[j] # q
      BY <2>2, <3>1 DEF Arriving
    <3>5. assigned'[q] = ClientOf[k]
      BY <2>1, <2>4, <2>6, <3>1 DEF Fits
    <3> QED
      BY <2>4, <3>1, <3>2, <3>3, <3>4, <3>5 DEF Flow, Arriving
  <2> QED BY <2>5, <2>6
<1>14. ASSUME NEW k \in Writers, SendFails(k) PROVE FALSE
  BY <1>14 DEF SendFails, Lossless
<1>15. ASSUME NEW p \in Requests, CallStep(p) PROVE FlowInv'
  <2>1. InvokeStep(p) /\ UNCHANGED <<held, answering, onDevice>>
    BY <1>15
    DEF CallStep, InvokeStep, PickSession, StoreWaiter, PushJob, DropWaiter,
        TakeResult, GiveUp, ExpireWaiter, connVars, worldVars
  <2> SUFFICES ASSUME NEW q \in Requests PROVE Flow(q)'
    BY DEF FlowInv
  <2>2. Flow(q)
    BY DEF FlowInv
  <2>3. Owed(q) => Owed(q)' /\ assigned'[q] = assigned[q]
    BY <1>1, <2>1, OwedStays
  <2>4. CASE UNCHANGED queueVars
    <3>1. WithServer(q)' => WithServer(q)
      BY <2>1, <2>4 DEF WithServer, queueVars
    <3> QED BY <2>1, <2>2, <2>3, <3>1, LessFlows
  <2>5. CASE ~UNCHANGED queueVars
    <3>1. PushJob(p) /\ Push(target[p], p) /\ ~PushRefused(target[p], p)
      BY <2>1, <2>5
      DEF InvokeStep, PickSession, StoreWaiter, PushJob, DropWaiter, TakeResult,
          GiveUp, ExpireWaiter, Push
    <3>2. callPc[p] = "stored" /\ target[p] \in Sessions
      BY <3>1 DEF PushJob, WsInv, HubInv, QueueInv, TargetInv
    <3>3. \A t \in Sessions :
            Has(pending'[t], q) => Has(pending[t], q) \/ q = p
      BY <1>1, <3>1, <3>2, PushPlaces
    <3>4. CASE q # p
      <4>1. WithServer(q)' => WithServer(q)
        BY <2>1, <3>3, <3>4 DEF WithServer
      <4> QED BY <2>1, <2>2, <2>3, <4>1, LessFlows
    <3>5. CASE q = p
      <4>1. ~OnDevice(q) /\ ~Arriving(q)
        BY <2>2, <3>2, <3>5 DEF Flow, Owed, Disclosed
      <4>2. waiters[p] = assigned[p]
        BY <1>1, <3>2 DEF LedgerInv, CallSound, Unanswered
      <4>3. callPc'[p] = "waiting" /\ UNCHANGED <<ledgerVars, assigned>>
        BY <1>1, <2>5, <3>1 DEF PushJob, HubTypeOK
      <4>4. Owed(q)'
        BY <3>5, <4>2, <4>3 DEF Owed, Disclosed, ledgerVars
      <4>5. \A j \in Writers : <<j, q>> \notin onDevice' /\ answering'[j] # q
        BY <2>1, <4>1 DEF OnDevice, Arriving
      <4> QED BY <4>4, <4>5 DEF Flow, OnDevice, Arriving
    <3> QED BY <3>4, <3>5
  <2> QED BY <2>4, <2>5
<1>16. ASSUME NEW r \in Requests, AdmitCall(r) PROVE FlowInv'
  BY <1>5, <1>16 DEF AdmitCall, hubVars, connVars
<1>17. ASSUME NEW r \in Requests, TimePasses(r) PROVE FlowInv'
  <2>1. UNCHANGED <<queueVars, held, ledgerVars, callVars, onDevice, answering>>
    BY <1>17 DEF TimePasses, DeadlinePasses, CtxEnds, connVars, worldVars
  <2> QED BY <1>4, <2>1 DEF WithServer, queueVars
<1>18. ASSUME NEW c, DeviceForgets(c) \/ Logout(c) \/ SwitchGroup(c)
       PROVE  FlowInv'
  BY <1>5, <1>18
  DEF DeviceForgets, Logout, SwitchGroup, hubVars, connVars, worldVars
<1>19. CASE UNCHANGED wsVars
  BY <1>5, <1>19 DEF wsVars, hubVars, connVars, worldVars
<1>20. ASSUME NEW r, RetentionPasses(r) PROVE FALSE
  BY <1>20 DEF RetentionPasses, Lossless
<1> QED
  BY <1>7, <1>8, <1>9, <1>10, <1>11, <1>12, <1>13, <1>14, <1>15, <1>16, <1>17,
     <1>18, <1>19, <1>20 DEF Next, HandlerStep, ReaderStep, WriterStep

-----------------------------------------------------------------------------
(* Counting *)

Load(c) ==
  Cardinality(SlotHolders(c)) + Cardinality(Running(c))
    + Cardinality(ArrivedFor(c))

Countable(c) ==
  /\ IsFiniteSet(SlotHolders(c))
  /\ IsFiniteSet(Running(c))
  /\ IsFiniteSet(ArrivedFor(c))

Covered(c) ==
  /\ Countable(c)
  /\ Registered(c) => inFlight[sessions[c]] <= Load(c)

SlotInv == \A c \in Clients : Covered(c)

\* What a step does to the count of a client's current session.
SlotsKept(c) ==
  Registered(c)' =>
    \/ inFlight'[sessions'[c]] = 0
    \/ Registered(c) /\ inFlight'[sessions'[c]] <= inFlight[sessions[c]]
SlotFreed(c) ==
  Registered(c)' =>
    \/ inFlight'[sessions'[c]] = 0
    \/ Registered(c) /\ inFlight'[sessions'[c]] <= inFlight[sessions[c]] - 1
SlotTaken(c) ==
  Registered(c) /\ inFlight'[sessions'[c]] = inFlight[sessions[c]] + 1

LEMMA LoadIsNumber ==
  ASSUME NEW c, Countable(c)
  PROVE  /\ Cardinality(SlotHolders(c)) \in Nat
         /\ Cardinality(Running(c)) \in Nat
         /\ Cardinality(ArrivedFor(c)) \in Nat
         /\ Load(c) \in Nat
<1>1. /\ Cardinality(SlotHolders(c)) \in Nat
      /\ Cardinality(Running(c)) \in Nat
      /\ Cardinality(ArrivedFor(c)) \in Nat
  BY FS_CardinalityType DEF Countable
<1> QED BY <1>1 DEF Load

\* Who gives back a slot may go, who takes one must come.
LEMMA Balance ==
  ASSUME RegTypeOK, RegTypeOK', NEW c \in Clients, Covered(c), Countable(c)',
         Load(c)' \in Nat,
         \/ SlotsKept(c) /\ Load(c)' >= Load(c)
         \/ SlotFreed(c) /\ Load(c)' >= Load(c) - 1
         \/ SlotTaken(c) /\ Load(c)' >= Load(c) + 1
  PROVE  Covered(c)'
<1> SUFFICES ASSUME Registered(c)' PROVE inFlight'[sessions'[c]] <= Load(c)'
  BY DEF Covered
<1>1. sessions'[c] \in Sessions /\ inFlight'[sessions'[c]] \in Nat
  BY DEF RegTypeOK, Registered
<1>2. Registered(c) => inFlight[sessions[c]] \in Nat
                       /\ inFlight[sessions[c]] <= Load(c)
  BY DEF RegTypeOK, Registered, Covered
<1>3. Load(c) \in Nat
  BY LoadIsNumber DEF Covered
<1> QED
  BY <1>1, <1>2, <1>3 DEF SlotsKept, SlotFreed, SlotTaken

\* No two clients share a session.
LEMMA OwnSession ==
  ASSUME RosterInv, NEW c \in Clients, NEW d \in Clients, Registered(c), c # d
  PROVE  sessions[c] # sessions[d]
BY SessionsAssumption DEF RosterInv, OwnerInv, Registered

LEMMA RegisterKeepsSlots ==
  ASSUME RegTypeOK, NEW c \in Clients, NEW g, NEW asked, Register(c, g, asked),
         NEW d \in Clients
  PROVE  SlotsKept(d)
<1>1. CASE RegisterExisting(c, g, asked)
  <2>1. UNCHANGED <<sessions, inFlight>>
    BY <1>1 DEF RegisterExisting
  <2>2. Registered(d) => inFlight[sessions[d]] \in Nat
    BY DEF RegTypeOK, Registered
  <2> QED BY <2>1, <2>2 DEF SlotsKept, Registered
<1>2. CASE /\ FreeSessions # {}
           /\ RegisterFresh(c, g, asked, CHOOSE s \in FreeSessions : TRUE)
  <2>1. PICK s \in FreeSessions : RegisterFresh(c, g, asked, s)
    BY <1>2
  <2>2. /\ s \in Sessions /\ \A e \in Clients : sessions[e] # s
        /\ sessions' = [sessions EXCEPT ![c] = s]
        /\ inFlight' = [inFlight EXCEPT ![s] = 0]
    BY <2>1 DEF FreeSessions, RegisterFresh, RegisterNew, Range, RegTypeOK
  <2>3. CASE d = c
    BY <2>2, <2>3 DEF SlotsKept, RegTypeOK
  <2>4. CASE d # c
    <3>1. sessions'[d] = sessions[d]
      BY <2>2, <2>4 DEF RegTypeOK
    <3>2. Registered(d) => /\ inFlight'[sessions[d]] = inFlight[sessions[d]]
                           /\ inFlight[sessions[d]] \in Nat
      BY <2>2 DEF Registered, RegTypeOK
    <3> QED BY <3>1, <3>2 DEF SlotsKept, Registered
  <2> QED BY <2>3, <2>4
<1> QED BY <1>1, <1>2 DEF Register

LEMMA UnregisterKeepsSlots ==
  ASSUME RegTypeOK, NEW c \in Clients, Unregister(c), NEW d \in Clients
  PROVE  SlotsKept(d)
<1>1. sessions' = [sessions EXCEPT ![c] = None] /\ UNCHANGED inFlight
  BY DEF Unregister, objectVars
<1>2. Registered(d) => inFlight[sessions[d]] \in Nat
  BY DEF RegTypeOK, Registered
<1> QED
  BY <1>1, <1>2 DEF SlotsKept, Registered, RegTypeOK

LEMMA ReleaseFreesSlot ==
  ASSUME RegTypeOK, RosterInv, NEW c \in Clients, ReleaseIfRegistered(c),
         NEW d \in Clients
  PROVE  /\ SlotsKept(d)
         /\ d = c => SlotFreed(d)
<1>1. Registered(d) => inFlight[sessions[d]] \in Nat
  BY DEF RegTypeOK, Registered
<1>2. CASE ~Registered(c)
  <2>1. UNCHANGED <<sessions, inFlight>>
    BY <1>2 DEF ReleaseIfRegistered, regVars, objectVars
  <2> QED BY <1>1, <1>2, <2>1 DEF SlotsKept, SlotFreed, Registered
<1>3. CASE Registered(c)
  <2> DEFINE s == sessions[c]
  <2>1. /\ s \in Sessions /\ UNCHANGED sessions
        /\ inFlight' = [inFlight EXCEPT ![s] = IF @ > 0 THEN @ - 1 ELSE @]
    BY <1>3 DEF ReleaseIfRegistered, ReleaseDispatch, RegTypeOK, Registered
  <2>2. CASE d = c
    <3>1. inFlight'[s] = IF inFlight[s] > 0 THEN inFlight[s] - 1 ELSE inFlight[s]
      BY <2>1 DEF RegTypeOK
    <3> QED
      BY <1>1, <1>3, <2>1, <2>2, <3>1 DEF SlotsKept, SlotFreed
  <2>3. CASE d # c
    <3>1. Registered(d) => inFlight'[sessions[d]] = inFlight[sessions[d]]
      BY <1>3, <2>1, <2>3, OwnSession DEF RegTypeOK, Registered
    <3> QED BY <1>1, <2>1, <2>3, <3>1 DEF SlotsKept, Registered
  <2> QED BY <2>2, <2>3
<1> QED BY <1>2, <1>3

LEMMA TakeTakesSlot ==
  ASSUME RegTypeOK, RosterInv, NEW k \in Writers, TakeSlot(k), NEW d \in Clients
  PROVE  IF d = ClientOf[k] THEN SlotTaken(d) ELSE SlotsKept(d)
<1> DEFINE c == ClientOf[k]
           s == sessions[c]
<1>1. c \in Clients
  BY ClientOfAssumption
<1>2. /\ Registered(c) /\ s \in Sessions /\ UNCHANGED sessions
      /\ inFlight' = [inFlight EXCEPT ![s] = @ + 1]
  BY <1>1 DEF TakeSlot, Registered, RegTypeOK
<1>3. CASE d = c
  BY <1>2, <1>3 DEF SlotTaken, RegTypeOK
<1>4. CASE d # c
  <2>1. Registered(d) => /\ inFlight'[sessions[d]] = inFlight[sessions[d]]
                         /\ inFlight[sessions[d]] \in Nat
    BY <1>1, <1>2, <1>4, OwnSession DEF RegTypeOK, Registered
  <2> QED BY <1>2, <1>4, <2>1 DEF SlotsKept, Registered
<1> QED BY <1>3, <1>4

\* A call moves a cursor of the registry at most.
LEMMA CallKeepsSlots ==
  ASSUME RegTypeOK, NEW r \in Requests, InvokeStep(r), NEW d \in Clients
  PROVE  SlotsKept(d)
<1>1. UNCHANGED <<sessions, inFlight>>
  BY DEF InvokeStep, PickSession, PickPreferred, PickInGroup, PickRoundRobin,
         StoreWaiter, PushJob, DropWaiter, TakeResult, GiveUp, ExpireWaiter,
         regVars, objectVars
<1>2. Registered(d) => inFlight[sessions[d]] \in Nat
  BY DEF RegTypeOK, Registered
<1> QED BY <1>1, <1>2 DEF SlotsKept, Registered

\* Every answer that arrives frees a slot: it is never one to be ignored.
LEMMA AnswerFreesSlot ==
  ASSUME WsInv, RestInv, FlowInv, NEW k \in Writers, Submit(k)
  PROVE  ReleaseIfRegistered(ClientOf[k])
<1> DEFINE r == answering[k]
           c == ClientOf[k]
<1>1. r \in Requests /\ SubmitResult(c, r)
  BY DEF Submit, WsInv, JobsInv
<1>2. Owed(r) /\ assigned[r] = c
  BY <1>1 DEF FlowInv, Flow, Arriving
<1>3. Cleaned(completed)[r] = completed[r]
  BY <1>1 DEF Cleaned, RestInv
<1>4. ~Ignored(c, r)
  BY <1>2, <1>3 DEF Ignored, Owed
<1> QED
  BY <1>1, <1>4 DEF SubmitResult, Delivered, Late

LEMMA SlotInit == Init => SlotInv
<1> SUFFICES ASSUME Init, NEW c \in Clients PROVE Covered(c)
  BY DEF SlotInv
<1>1. SlotHolders(c) = {} /\ Running(c) = {} /\ ArrivedFor(c) = {}
  BY DEF Init, SlotHolders, Running, ArrivedFor
<1>2. ~Registered(c)
  BY DEF Init, HubInit, RegInit, Registered
<1> QED BY <1>1, <1>2, FS_EmptySet DEF Covered, Countable

\* A step that changes neither the holders nor the jobs on the way.
LEMMA SameLoad ==
  ASSUME RegTypeOK, RegTypeOK', SlotInv, \A c \in Clients : SlotsKept(c),
         UNCHANGED <<onDevice, answering>>,
         \A j \in Writers : writerPc'[j] \in {"pop", "have", "release"}
                              <=> writerPc[j] \in {"pop", "have", "release"}
  PROVE  SlotInv'
<1> SUFFICES ASSUME NEW c \in Clients PROVE Covered(c)'
  BY DEF SlotInv
<1>1. /\ SlotHolders(c)' = SlotHolders(c) /\ Running(c)' = Running(c)
      /\ ArrivedFor(c)' = ArrivedFor(c)
  BY DEF SlotHolders, Running, ArrivedFor
<1>2. Covered(c)
  BY DEF SlotInv
<1>3. Load(c)' = Load(c) /\ Load(c) \in Nat
  BY <1>1, <1>2, LoadIsNumber DEF Load, Covered
<1>4. Countable(c)'
  BY <1>1, <1>2 DEF Covered, Countable
<1> QED BY <1>2, <1>3, <1>4, Balance

LEMMA SlotStep ==
  ASSUME Lossless
  PROVE  WsInv /\ WsInv' /\ RestInv /\ FlowInv /\ SlotInv /\ enabled = Groups
           /\ [Next]_wsVars => SlotInv'
<1> SUFFICES ASSUME WsInv, WsInv', RestInv, FlowInv, SlotInv, enabled = Groups,
                    [Next]_wsVars
             PROVE  SlotInv'
  OBVIOUS
<1>1. /\ RegTypeOK /\ RegTypeOK' /\ RosterInv /\ WsTypeOK /\ HubTypeOK
      /\ ClientOf \in [Writers -> Clients] /\ ClaimGroup \in [Writers -> Groups]
      /\ None \notin Requests
  BY ClientOfAssumption, ClaimsAssumption, CallsAssumption DEF WsInv, HubInv
<1>2. DOMAIN answering = Writers /\ DOMAIN writerPc = Writers
  BY <1>1 DEF WsTypeOK
<1>3. ASSUME UNCHANGED <<sessions, inFlight>>
      PROVE  \A c \in Clients : SlotsKept(c)
  <2>1. \A c \in Clients : Registered(c) => inFlight[sessions[c]] \in Nat
    BY <1>1 DEF RegTypeOK, Registered
  <2> QED BY <1>3, <2>1 DEF SlotsKept, Registered
<1>4. ASSUME NEW c \in Clients
      PROVE  /\ Covered(c) /\ Countable(c) /\ Load(c) \in Nat
             /\ Cardinality(SlotHolders(c)) \in Nat
             /\ Cardinality(Running(c)) \in Nat
             /\ Cardinality(ArrivedFor(c)) \in Nat
  BY LoadIsNumber DEF SlotInv, Covered
<1>5. ASSUME NEW k \in Writers,
             Login(k) \/ Accept(k) \/ MarkPresent(k) \/ Heartbeat(k)
      PROVE  SlotInv'
  <2>1. /\ Register(ClientOf[k], ClaimGroup[k], ClaimLimit[k])
        /\ UNCHANGED <<onDevice, answering, writerPc>>
    BY <1>5 DEF Login, Accept, MarkPresent, Heartbeat, TouchClientPresence,
                worldVars, connVars
  <2>2. \A c \in Clients : SlotsKept(c)
    BY <1>1, <2>1, RegisterKeepsSlots
  <2> QED BY <1>1, <2>1, <2>2, SameLoad
<1>6. ASSUME NEW k \in Writers, NEW r \in Requests, DeviceAnswers(k, r)
      PROVE  SlotInv'
  <2>1. PICK origin \in Writers : ReceiveResult(k, <<origin, r>>)
    BY <1>6 DEF DeviceAnswers
  <2> DEFINE job == <<origin, r>>
  <2>2. /\ Register(ClientOf[k], ClaimGroup[k], ClaimLimit[k])
        /\ job \in onDevice /\ ClientOf[job[1]] = ClientOf[k]
        /\ onDevice' = onDevice \ {job}
        /\ answering' = [answering EXCEPT ![k] = r]
        /\ readerPc[k] = "read" /\ UNCHANGED writerPc
    BY <2>1 DEF ReceiveResult, TouchClientPresence, Reading
  <2> HIDE DEF job
  <2>3. answering[k] = None
    BY <2>2 DEF RestInv
  <2> SUFFICES ASSUME NEW c \in Clients PROVE Covered(c)'
    BY DEF SlotInv
  <2>4. SlotsKept(c)
    BY <1>1, <2>2, RegisterKeepsSlots
  <2>5. SlotHolders(c)' = SlotHolders(c)
    BY <2>2 DEF SlotHolders
  <2>6. CASE c # ClientOf[k]
    <3>1. Running(c)' = Running(c)
      BY <2>2, <2>6 DEF Running
    <3>2. ArrivedFor(c)' = ArrivedFor(c)
      BY <1>2, <2>2, <2>6 DEF ArrivedFor
    <3>3. Load(c)' = Load(c) /\ Countable(c)'
      BY <1>4, <2>5, <3>1, <3>2 DEF Load, Countable
    <3> QED BY <1>1, <1>4, <2>4, <3>3, Balance
  <2>7. CASE c = ClientOf[k]
    <3>1. Running(c)' = Running(c) \ {job} /\ job \in Running(c)
      BY <2>2, <2>7 DEF Running
    <3>2. ArrivedFor(c)' = ArrivedFor(c) \cup {k} /\ k \notin ArrivedFor(c)
      BY <1>1, <1>2, <2>2, <2>3, <2>7 DEF ArrivedFor
    <3>3. /\ IsFiniteSet(Running(c)')
          /\ Cardinality(Running(c)') = Cardinality(Running(c)) - 1
      BY <1>4, <3>1, FS_RemoveElement DEF Countable
    <3>4. /\ IsFiniteSet(ArrivedFor(c)')
          /\ Cardinality(ArrivedFor(c)') = Cardinality(ArrivedFor(c)) + 1
      BY <1>4, <3>2, FS_AddElement DEF Countable
    <3>5. Load(c)' = Load(c) /\ Countable(c)'
      BY <1>4, <2>5, <3>3, <3>4 DEF Load, Countable
    <3> QED BY <1>1, <1>4, <2>4, <3>5, Balance
  <2> QED BY <2>6, <2>7
<1>7. ASSUME NEW k \in Writers, CheckGroup(k) PROVE SlotInv'
  <2>1. GroupActive(ClaimGroup[k])
    BY <1>1 DEF GroupActive
  <2>2. /\ Register(ClientOf[k], ClaimGroup[k], ClaimLimit[k])
        /\ UNCHANGED <<onDevice, answering, writerPc>>
    BY <1>7, <2>1 DEF CheckGroup, TouchClientPresence, worldVars, Lossless
  <2>3. \A c \in Clients : SlotsKept(c)
    BY <1>1, <2>2, RegisterKeepsSlots
  <2> QED BY <1>1, <2>2, <2>3, SameLoad
<1>8. ASSUME NEW k \in Writers, Submit(k) PROVE SlotInv'
  <2>1. ReleaseIfRegistered(ClientOf[k])
    BY <1>8, AnswerFreesSlot
  <2>2. /\ answering' = [answering EXCEPT ![k] = None]
        /\ UNCHANGED <<onDevice, writerPc>>
    BY <1>8 DEF Submit, worldVars
  <2> SUFFICES ASSUME NEW c \in Clients PROVE Covered(c)'
    BY DEF SlotInv
  <2>3. SlotHolders(c)' = SlotHolders(c) /\ Running(c)' = Running(c)
    BY <2>2 DEF SlotHolders, Running
  <2>4. SlotsKept(c) /\ (c = ClientOf[k] => SlotFreed(c))
    BY <1>1, <2>1, ReleaseFreesSlot
  <2>5. CASE c # ClientOf[k]
    <3>1. ArrivedFor(c)' = ArrivedFor(c)
      BY <1>2, <2>2, <2>5 DEF ArrivedFor
    <3>2. Load(c)' = Load(c) /\ Countable(c)'
      BY <1>4, <2>3, <3>1 DEF Load, Countable
    <3> QED BY <1>1, <1>4, <2>4, <3>2, Balance
  <2>6. CASE c = ClientOf[k]
    <3>1. ArrivedFor(c)' = ArrivedFor(c) \ {k}
      BY <1>2, <2>2 DEF ArrivedFor
    <3>2. /\ IsFiniteSet(ArrivedFor(c)')
          /\ Cardinality(ArrivedFor(c)') \in Nat
          /\ Cardinality(ArrivedFor(c)') >= Cardinality(ArrivedFor(c)) - 1
      <4>1. IsFiniteSet(ArrivedFor(c))
        BY <1>4 DEF Countable
      <4>2. /\ IsFiniteSet(ArrivedFor(c) \ {k})
            /\ Cardinality(ArrivedFor(c) \ {k}) = IF k \in ArrivedFor(c)
                 THEN Cardinality(ArrivedFor(c)) - 1 ELSE Cardinality(ArrivedFor(c))
        BY <4>1, FS_RemoveElement
      <4>3. Cardinality(ArrivedFor(c) \ {k}) \in Nat
        BY <4>2, FS_CardinalityType
      <4> QED BY <1>4, <3>1, <4>2, <4>3
    <3>3. /\ Load(c)' >= Load(c) - 1 /\ Load(c)' \in Nat
          /\ Countable(c)'
      BY <1>4, <2>3, <3>2 DEF Load, Countable
    <3> QED BY <1>1, <1>4, <2>4, <2>6, <3>3, Balance
  <2> QED BY <2>5, <2>6
<1>9. ASSUME NEW k \in Writers,
             Replace(k) \/ CancelPrevious(k) \/ ClosePrevious(k)
               \/ ReaderEnds(k) \/ Drained(k) \/ ClearIfCurrent(k)
               \/ BreakSocket(k)
      PROVE  SlotInv'
  <2>1. UNCHANGED <<sessions, inFlight, onDevice, answering, writerPc>>
    BY <1>9 DEF Replace, CancelPrevious, ClosePrevious,
                ReaderEnds, Drained, ClearIfCurrent, BreakSocket,
                hubVars, regVars, objectVars, worldVars
  <2> QED BY <1>1, <1>3, <2>1, SameLoad
<1>10. ASSUME NEW k \in Writers, Welcome(k) PROVE SlotInv'
  <2>1. /\ writerPc[k] = "off" /\ UNCHANGED <<sessions, inFlight, onDevice, answering>>
        /\ writerPc' = [writerPc EXCEPT ![k] = "acquire"] \/ UNCHANGED writerPc
    BY <1>10 DEF Welcome, RestInv, hubVars, regVars, objectVars, worldVars
  <2>2. \A j \in Writers : writerPc'[j] \in {"pop", "have", "release"}
                             <=> writerPc[j] \in {"pop", "have", "release"}
    BY <1>2, <2>1
  <2> QED BY <1>1, <1>3, <2>1, <2>2, SameLoad
<1>11. ASSUME NEW k \in Writers, UnregisterClosed(k) PROVE SlotInv'
  <2>1. \A c \in Clients : SlotsKept(c)
    BY <1>1, <1>3, <1>11, UnregisterKeepsSlots
    DEF UnregisterClosed, regVars, objectVars
  <2> QED
    BY <1>1, <1>11, <2>1, SameLoad DEF UnregisterClosed, worldVars
<1>12. ASSUME NEW k \in Writers,
              WriterReturns(k) \/ PopAcquired(k) \/ PopCancelled(k)
                \/ SendRefused(k) \/ RequeueLookup(k) \/ RequeuePush(k)
       PROVE  SlotInv'
  <2>1. UNCHANGED <<sessions, inFlight, onDevice, answering>>
    BY <1>12
    DEF WriterReturns, StopWaiting, PopAcquired, PopCancelled, SendRefused,
        RequeueLookup, RequeuePush, Pop, LeavePop, LetGo, PutBack, hubVars,
        regVars, objectVars, worldVars, otherConnVars
  <2>2. \A j \in Writers : writerPc'[j] \in {"pop", "have", "release"}
                             <=> writerPc[j] \in {"pop", "have", "release"}
    BY <1>2, <1>12
    DEF WriterReturns, PopAcquired, PopCancelled, SendRefused, RequeueLookup,
        RequeuePush, WriterGoes
  <2> QED BY <1>1, <1>3, <2>1, <2>2, SameLoad
<1>13. ASSUME NEW k \in Writers, AcquireDispatchSlot(k) PROVE SlotInv'
  <2>1. UNCHANGED <<onDevice, answering>> /\ writerPc[k] = "acquire"
    BY <1>13 DEF AcquireDispatchSlot, worldVars, otherConnVars
  <2>2. CASE ParkForSlot(k) /\ UNCHANGED writerPc
    BY <1>1, <1>3, <2>1, <2>2, SameLoad DEF ParkForSlot, objectVars
  <2>3. CASE TakeSlot(k) /\ WriterGoes(k, "pop")
    <3> SUFFICES ASSUME NEW c \in Clients PROVE Covered(c)'
      BY DEF SlotInv
    <3>1. Running(c)' = Running(c) /\ ArrivedFor(c)' = ArrivedFor(c)
      BY <2>1 DEF Running, ArrivedFor
    <3>2. IF c = ClientOf[k] THEN SlotTaken(c) ELSE SlotsKept(c)
      BY <1>1, <2>3, TakeTakesSlot
    <3>3. CASE c # ClientOf[k]
      <4>1. SlotHolders(c)' = SlotHolders(c)
        BY <1>2, <2>3, <3>3 DEF SlotHolders, WriterGoes
      <4>2. Load(c)' = Load(c) /\ Countable(c)'
        BY <1>4, <3>1, <4>1 DEF Load, Countable
      <4> QED BY <1>1, <1>4, <3>2, <3>3, <4>2, Balance
    <3>4. CASE c = ClientOf[k]
      <4>1. SlotHolders(c)' = SlotHolders(c) \cup {k} /\ k \notin SlotHolders(c)
        BY <1>2, <2>1, <2>3, <3>4 DEF SlotHolders, WriterGoes
      <4>2. /\ IsFiniteSet(SlotHolders(c)')
            /\ Cardinality(SlotHolders(c)') = Cardinality(SlotHolders(c)) + 1
        BY <1>4, <4>1, FS_AddElement DEF Countable
      <4>3. Load(c)' = Load(c) + 1 /\ Countable(c)'
        BY <1>4, <3>1, <4>2 DEF Load, Countable
      <4> QED BY <1>1, <1>4, <3>2, <3>4, <4>3, Balance
    <3> QED BY <3>3, <3>4
  <2> QED BY <1>13, <2>2, <2>3 DEF AcquireDispatchSlot
<1>14. ASSUME NEW k \in Writers, SendJob(k) PROVE SlotInv'
  <2> DEFINE job == <<k, held[k]>>
  <2>1. /\ onDevice' = onDevice \cup {job} /\ job[1] = k
        /\ writerPc[k] = "have" /\ WriterGoes(k, "acquire")
        /\ UNCHANGED <<sessions, inFlight, answering>>
    BY <1>14 DEF SendJob, LetGo, regVars, objectVars, otherConnVars
  <2>2. held[k] \in Requests
    BY <1>1, <2>1 DEF HubTypeOK, WsInv, JobsInv
  <2>3. job \notin onDevice
    BY <2>2 DEF FlowInv, Flow, WithServer, OnDevice
  <2> HIDE DEF job
  <2> SUFFICES ASSUME NEW c \in Clients PROVE Covered(c)'
    BY DEF SlotInv
  <2>4. SlotsKept(c) /\ ArrivedFor(c)' = ArrivedFor(c)
    BY <1>3, <2>1 DEF ArrivedFor
  <2>5. CASE c # ClientOf[k]
    <3>1. SlotHolders(c)' = SlotHolders(c)
      BY <1>2, <2>1, <2>5 DEF SlotHolders, WriterGoes
    <3>2. Running(c)' = Running(c)
      BY <2>1, <2>5 DEF Running
    <3>3. Load(c)' = Load(c) /\ Countable(c)'
      BY <1>4, <2>4, <3>1, <3>2 DEF Load, Countable
    <3> QED BY <1>1, <1>4, <2>4, <3>3, Balance
  <2>6. CASE c = ClientOf[k]
    <3>1. SlotHolders(c)' = SlotHolders(c) \ {k} /\ k \in SlotHolders(c)
      BY <1>2, <2>1, <2>6 DEF SlotHolders, WriterGoes
    <3>2. Running(c)' = Running(c) \cup {job} /\ job \notin Running(c)
      BY <2>1, <2>3, <2>6 DEF Running
    <3>3. /\ IsFiniteSet(SlotHolders(c)')
          /\ Cardinality(SlotHolders(c)') = Cardinality(SlotHolders(c)) - 1
      BY <1>4, <3>1, FS_RemoveElement DEF Countable
    <3>4. /\ IsFiniteSet(Running(c)')
          /\ Cardinality(Running(c)') = Cardinality(Running(c)) + 1
      BY <1>4, <3>2, FS_AddElement DEF Countable
    <3>5. Load(c)' = Load(c) /\ Countable(c)'
      BY <1>4, <2>4, <3>3, <3>4 DEF Load, Countable
    <3> QED BY <1>1, <1>4, <2>4, <3>5, Balance
  <2> QED BY <2>5, <2>6
<1>15. ASSUME NEW k \in Writers, GiveSlotBack(k) PROVE SlotInv'
  <2>1. /\ ReleaseIfRegistered(ClientOf[k]) /\ UNCHANGED <<onDevice, answering>>
        /\ \E to \in {"done", "requeue"} : WriterGoes(k, to)
    BY <1>15 DEF GiveSlotBack, worldVars, otherConnVars
  <2> SUFFICES ASSUME NEW c \in Clients PROVE Covered(c)'
    BY DEF SlotInv
  <2>2. Running(c)' = Running(c) /\ ArrivedFor(c)' = ArrivedFor(c)
    BY <2>1 DEF Running, ArrivedFor
  <2>3. SlotsKept(c) /\ (c = ClientOf[k] => SlotFreed(c))
    BY <1>1, <2>1, ReleaseFreesSlot
  <2>4. CASE c # ClientOf[k]
    <3>1. SlotHolders(c)' = SlotHolders(c)
      BY <1>2, <2>1, <2>4 DEF SlotHolders, WriterGoes
    <3>2. Load(c)' = Load(c) /\ Countable(c)'
      BY <1>4, <2>2, <3>1 DEF Load, Countable
    <3> QED BY <1>1, <1>4, <2>3, <3>2, Balance
  <2>5. CASE c = ClientOf[k]
    <3>1. SlotHolders(c)' = SlotHolders(c) \ {k}
      BY <1>2, <2>1 DEF SlotHolders, WriterGoes
    <3>2. /\ IsFiniteSet(SlotHolders(c)')
          /\ Cardinality(SlotHolders(c)') \in Nat
          /\ Cardinality(SlotHolders(c)') >= Cardinality(SlotHolders(c)) - 1
      <4>1. IsFiniteSet(SlotHolders(c))
        BY <1>4 DEF Countable
      <4>2. /\ IsFiniteSet(SlotHolders(c) \ {k})
            /\ Cardinality(SlotHolders(c) \ {k}) = IF k \in SlotHolders(c)
                 THEN Cardinality(SlotHolders(c)) - 1 ELSE Cardinality(SlotHolders(c))
        BY <4>1, FS_RemoveElement
      <4>3. Cardinality(SlotHolders(c) \ {k}) \in Nat
        BY <4>2, FS_CardinalityType
      <4> QED BY <1>4, <3>1, <4>2, <4>3
    <3>3. /\ Load(c)' >= Load(c) - 1 /\ Load(c)' \in Nat
          /\ Countable(c)'
      BY <1>4, <2>2, <3>2 DEF Load, Countable
    <3> QED BY <1>1, <1>4, <2>3, <2>5, <3>3, Balance
  <2> QED BY <2>4, <2>5
<1>16. ASSUME NEW k \in Writers, SendFails(k) PROVE FALSE
  BY <1>16 DEF SendFails, Lossless
<1>17. ASSUME NEW c, DeviceForgets(c) \/ SwitchGroup(c) PROVE FALSE
  BY <1>17 DEF DeviceForgets, SwitchGroup, Lossless
<1>18. ASSUME NEW c \in Clients, Logout(c) PROVE SlotInv'
  <2>1. \A d \in Clients : SlotsKept(d)
    BY <1>1, <1>18, UnregisterKeepsSlots DEF Logout
  <2> QED
    BY <1>1, <1>18, <2>1, SameLoad DEF Logout, connVars, worldVars
<1>19. ASSUME NEW r \in Requests, CallStep(r) PROVE SlotInv'
  <2>1. \A d \in Clients : SlotsKept(d)
    BY <1>1, <1>19, CallKeepsSlots DEF CallStep
  <2> QED
    BY <1>1, <1>19, <2>1, SameLoad DEF CallStep, connVars, worldVars
<1>20. ASSUME NEW r \in Requests, AdmitCall(r) \/ TimePasses(r) PROVE SlotInv'
  <2>1. UNCHANGED <<sessions, inFlight, onDevice, answering, writerPc>>
    BY <1>20 DEF AdmitCall, TimePasses, DeadlinePasses, CtxEnds, hubVars, regVars,
                 objectVars, connVars, worldVars
  <2> QED BY <1>1, <1>3, <2>1, SameLoad
<1>21. CASE UNCHANGED wsVars
  <2>1. UNCHANGED <<sessions, inFlight, onDevice, answering, writerPc>>
    BY <1>21 DEF wsVars, hubVars, regVars, objectVars, connVars, worldVars
  <2> QED BY <1>1, <1>3, <2>1, SameLoad
<1>22. ASSUME NEW r, RetentionPasses(r) PROVE FALSE
  BY <1>22 DEF RetentionPasses, Lossless
<1> QED
  BY <1>5, <1>6, <1>7, <1>8, <1>9, <1>10, <1>11, <1>12, <1>13, <1>14, <1>15,
     <1>16, <1>17, <1>18, <1>19, <1>20, <1>21, <1>22
  DEF Next, HandlerStep, ReaderStep, WriterStep

\* Without these faults no group is ever disabled.
LEMMA GroupsStay ==
  ASSUME Lossless
  PROVE  enabled = Groups /\ [Next]_wsVars => enabled' = Groups
<1> SUFFICES ASSUME enabled = Groups, [Next]_wsVars PROVE UNCHANGED enabled
  OBVIOUS
<1>1. ASSUME NEW k \in Writers,
             Login(k) \/ HandlerStep(k) \/ ReaderStep(k) \/ WriterStep(k)
               \/ Heartbeat(k) \/ SendFails(k) \/ BreakSocket(k)
      PROVE  UNCHANGED enabled
  BY <1>1
  DEF Login, HandlerStep, Accept, MarkPresent, Replace, CancelPrevious, ClosePrevious,
      Welcome, ReaderEnds,
      Drained, ClearIfCurrent, UnregisterClosed, ReaderStep, CheckGroup, Submit,
      WriterStep, AcquireDispatchSlot, WriterReturns, PopAcquired, PopCancelled,
      SendJob, SendRefused, GiveSlotBack, RequeueLookup, RequeuePush, Heartbeat,
      SendFails, BreakSocket, worldVars
<1>2. ASSUME NEW k \in Writers, NEW r \in Requests, DeviceAnswers(k, r)
      PROVE  UNCHANGED enabled
  BY <1>2 DEF DeviceAnswers, ReceiveResult
<1>3. ASSUME NEW r \in Requests,
             AdmitCall(r) \/ CallStep(r) \/ TimePasses(r) \/ RetentionPasses(r)
      PROVE  UNCHANGED enabled
  BY <1>3 DEF AdmitCall, CallStep, TimePasses, RetentionPasses, worldVars
<1>4. ASSUME NEW c, DeviceForgets(c) \/ Logout(c) PROVE UNCHANGED enabled
  BY <1>4 DEF DeviceForgets, Logout, worldVars
<1>5. ASSUME NEW g, SwitchGroup(g) PROVE FALSE
  BY <1>5 DEF SwitchGroup, Lossless
<1>6. CASE UNCHANGED wsVars
  BY <1>6 DEF wsVars, worldVars
<1> QED BY <1>1, <1>2, <1>3, <1>4, <1>5, <1>6 DEF Next

\* No slot leaks: whatever connections break or are replaced, whoever logs out
\* and whichever calls time out, every slot counted against a device is owed to
\* a writer that holds it, to a job the device has, or to an answer that has
\* come.  Lossless names the five faults after which the code gives no such
\* promise.
THEOREM SlotsAreCovered ==
  ASSUME Lossless
  PROVE  Spec => []SlotsCovered
<1> DEFINE SysInv == /\ WsInv /\ PlaceInv /\ RestInv /\ FlowInv /\ SlotInv
                     /\ enabled = Groups
<1>1. Init => SysInv
  BY WsInvInit, PlaceInit, RestInit, FlowInit, SlotInit DEF Init
<1>2. SysInv /\ [Next]_wsVars => SysInv'
  <2>1. WsInv /\ [Next]_wsVars => [HubNext]_hubVars /\ WsInv'
    BY ConnStepIsHubStep, WsInvStep DEF WsInv
  <2> SUFFICES ASSUME SysInv, [Next]_wsVars PROVE SysInv'
    OBVIOUS
  <2>2. WsInv' /\ PlaceInv'
    BY <2>1, PlaceStep DEF WsInv
  <2>3. RestInv'
    BY RestStep DEF WsInv
  <2>4. FlowInv'
    BY FlowStep
  <2>5. SlotInv'
    BY <2>2, SlotStep
  <2>6. enabled' = Groups
    BY GroupsStay
  <2> QED BY <2>2, <2>3, <2>4, <2>5, <2>6
<1>3. SysInv => SlotsCovered
  BY DEF SlotInv, Covered, Load, SlotsCovered
<1> HIDE DEF SysInv
<1> QED
  BY <1>1, <1>2, <1>3, PTL DEF Spec

-----------------------------------------------------------------------------
(* The load of a device *)

\* The tokens of a client ask for the same limit.
SameLimit ==
  \A j, k \in Writers : ClientOf[j] = ClientOf[k] => ClaimLimit[j] = ClaimLimit[k]

Count(c) == IF Registered(c) THEN inFlight[sessions[c]] ELSE 0

\* Every slot that is held is counted, and the count stays within the limit.
Counted(c) == Countable(c) /\ Load(c) <= Count(c)
LimitKept(k) ==
  LET s == sessions[ClientOf[k]] IN
  Registered(ClientOf[k]) =>
    /\ Count(ClientOf[k]) <= maxInFlight[s]
    /\ maxInFlight[s] = NormalizeMaxInFlight(ClaimLimit[k])

LoadInv ==
  /\ \A c \in Clients : Counted(c)
  /\ \A k \in Writers : LimitKept(k)

-----------------------------------------------------------------------------
(* What a step does to the count of a client's session *)

\* The count of a client is a number, whoever is registered.
LEMMA CountIsNumber ==
  ASSUME RegTypeOK, NEW c \in Clients
  PROVE  Count(c) \in Nat
BY DEF Count, RegTypeOK, Registered

\* A new session counts nothing, and the old ones go on.
LEMMA RegisterKeepsCount ==
  ASSUME RegTypeOK, NEW c \in Clients, NEW g, NEW asked, Register(c, g, asked),
         NEW d \in Clients
  PROVE  Count(d)' = Count(d)
<1>1. CASE RegisterExisting(c, g, asked)
  BY <1>1 DEF RegisterExisting, Count, Registered
<1>2. CASE /\ FreeSessions # {}
           /\ RegisterFresh(c, g, asked, CHOOSE s \in FreeSessions : TRUE)
  <2>1. PICK s \in FreeSessions : RegisterFresh(c, g, asked, s)
    BY <1>2
  <2>2. /\ s \in Sessions /\ \A e \in Clients : sessions[e] # s
        /\ ~Registered(c)
        /\ sessions' = [sessions EXCEPT ![c] = s]
        /\ inFlight' = [inFlight EXCEPT ![s] = 0]
    BY <2>1 DEF FreeSessions, RegisterFresh, RegisterNew, Range, RegTypeOK
  <2>3. CASE d = c
    BY <2>2, <2>3, SessionsAssumption DEF Count, Registered, RegTypeOK
  <2>4. CASE d # c
    <3>1. sessions'[d] = sessions[d]
      BY <2>2, <2>4 DEF RegTypeOK
    <3>2. Registered(d) => inFlight'[sessions[d]] = inFlight[sessions[d]]
      BY <2>2 DEF Registered, RegTypeOK
    <3> QED BY <3>1, <3>2 DEF Count, Registered
  <2> QED BY <2>3, <2>4
<1> QED BY <1>1, <1>2 DEF Register

\* Giving a slot back takes one off one client's count at most.
LEMMA ReleaseLowersCount ==
  ASSUME RegTypeOK, RosterInv, NEW c \in Clients, ReleaseIfRegistered(c),
         NEW d \in Clients
  PROVE  /\ Count(d)' <= Count(d)
         /\ Count(d)' >= (IF d = c THEN Count(d) - 1 ELSE Count(d))
<1>1. Count(d) \in Nat
  BY CountIsNumber
<1>2. CASE ~Registered(c)
  <2>1. UNCHANGED <<sessions, inFlight>>
    BY <1>2 DEF ReleaseIfRegistered, regVars, objectVars
  <2>2. Count(d)' = Count(d)
    BY <2>1 DEF Count, Registered
  <2> QED BY <1>1, <2>2
<1>3. CASE Registered(c)
  <2> DEFINE s == sessions[c]
  <2>1. /\ s \in Sessions /\ UNCHANGED sessions
        /\ inFlight' = [inFlight EXCEPT ![s] = IF @ > 0 THEN @ - 1 ELSE @]
    BY <1>3 DEF ReleaseIfRegistered, ReleaseDispatch, RegTypeOK, Registered
  <2>2. CASE d = c
    <3>1. inFlight'[s] = IF inFlight[s] > 0 THEN inFlight[s] - 1 ELSE inFlight[s]
      BY <2>1 DEF RegTypeOK
    <3>2. Count(d) = inFlight[s] /\ Count(d)' = inFlight'[s]
      BY <1>3, <2>1, <2>2 DEF Count, Registered
    <3> HIDE DEF s
    <3> QED BY <1>1, <2>2, <3>1, <3>2
  <2>3. CASE d # c
    <3>1. Registered(d) => inFlight'[sessions[d]] = inFlight[sessions[d]]
      BY <1>3, <2>1, <2>3, OwnSession DEF RegTypeOK, Registered
    <3>2. Count(d)' = Count(d)
      BY <2>1, <3>1 DEF Count, Registered
    <3> QED BY <1>1, <2>3, <3>2
  <2> QED BY <2>2, <2>3
<1> QED BY <1>2, <1>3

\* Taking a slot adds one to one client's count.
LEMMA TakeRaisesCount ==
  ASSUME RegTypeOK, RosterInv, NEW k \in Writers, TakeSlot(k), NEW d \in Clients
  PROVE  Count(d)' = IF d = ClientOf[k] THEN Count(d) + 1 ELSE Count(d)
<1> DEFINE c == ClientOf[k]
           s == sessions[c]
<1>1. c \in Clients
  BY ClientOfAssumption
<1>2. /\ Registered(c) /\ s \in Sessions /\ UNCHANGED sessions
      /\ inFlight' = [inFlight EXCEPT ![s] = @ + 1]
  BY <1>1 DEF TakeSlot, Registered, RegTypeOK
<1>3. CASE d = c
  <2>1. inFlight'[s] = inFlight[s] + 1
    BY <1>2 DEF RegTypeOK
  <2> QED BY <1>2, <1>3, <2>1 DEF Count, Registered
<1>4. CASE d # c
  <2>1. Registered(d) => inFlight'[sessions[d]] = inFlight[sessions[d]]
    BY <1>1, <1>2, <1>4, OwnSession DEF RegTypeOK, Registered
  <2> QED BY <1>2, <1>4, <2>1 DEF Count, Registered
<1> QED BY <1>3, <1>4

\* Who brings work must have taken a slot for it.
LEMMA WorkIsCounted ==
  ASSUME RegTypeOK, RegTypeOK', NEW c \in Clients, Counted(c), Countable(c)',
         Load(c)' \in Nat,
         \/ Count(c)' >= Count(c) /\ Load(c)' <= Load(c)
         \/ Count(c)' >= Count(c) - 1 /\ Load(c)' <= Load(c) - 1
         \/ Count(c)' >= Count(c) + 1 /\ Load(c)' <= Load(c) + 1
  PROVE  Counted(c)'
<1>1. Count(c) \in Nat /\ Count(c)' \in Nat
  <2>1. ASSUME RegTypeOK' PROVE Count(c)' \in Nat
    BY <2>1 DEF Count, RegTypeOK, Registered
  <2> QED BY <2>1, CountIsNumber
<1>2. Load(c) \in Nat /\ Load(c) <= Count(c)
  BY LoadIsNumber DEF Counted
<1>3. Load(c)' <= Count(c)'
  BY <1>1, <1>2
<1> QED BY <1>3 DEF Counted

\* A client that is given no work has no more load than before.
LEMMA LessWork ==
  ASSUME NEW c, Countable(c), SlotHolders(c)' \subseteq SlotHolders(c),
         Running(c)' \subseteq Running(c), ArrivedFor(c)' \subseteq ArrivedFor(c)
  PROVE  Countable(c)' /\ Load(c)' \in Nat /\ Load(c)' <= Load(c)
<1> DEFINE A == SlotHolders(c)'
           B == Running(c)'
           C == ArrivedFor(c)'
<1>1. /\ IsFiniteSet(A) /\ Cardinality(A) \in Nat
      /\ Cardinality(A) <= Cardinality(SlotHolders(c))
  BY FS_Subset, FS_CardinalityType DEF Countable
<1>2. /\ IsFiniteSet(B) /\ Cardinality(B) \in Nat
      /\ Cardinality(B) <= Cardinality(Running(c))
  BY FS_Subset, FS_CardinalityType DEF Countable
<1>3. /\ IsFiniteSet(C) /\ Cardinality(C) \in Nat
      /\ Cardinality(C) <= Cardinality(ArrivedFor(c))
  BY FS_Subset, FS_CardinalityType DEF Countable
<1>4. Countable(c)'
  BY <1>1, <1>2, <1>3 DEF Countable
<1>5. Load(c)' = Cardinality(A) + Cardinality(B) + Cardinality(C)
  BY DEF Load
<1>6. Load(c) = Cardinality(SlotHolders(c)) + Cardinality(Running(c))
                  + Cardinality(ArrivedFor(c))
  BY DEF Load
<1>7. /\ Cardinality(SlotHolders(c)) \in Nat
      /\ Cardinality(Running(c)) \in Nat
      /\ Cardinality(ArrivedFor(c)) \in Nat
  BY LoadIsNumber
<1> HIDE DEF A, B, C
<1>8. Load(c)' \in Nat
  BY <1>1, <1>2, <1>3, <1>5
<1>9. Load(c)' <= Load(c)
  BY <1>1, <1>2, <1>3, <1>5, <1>6, <1>7
<1> QED BY <1>4, <1>8, <1>9

\* Registering a client again asks for the limit it has.
LEMMA RegisterKeepsLimits ==
  ASSUME RegTypeOK, RosterInv, SameLimit,
         NEW j \in Writers, TouchClientPresence(j),
         NEW k \in Writers, LimitKept(k)
  PROVE  LimitKept(k)'
<1> DEFINE c == ClientOf[j]
           d == ClientOf[k]
           limit == NormalizeMaxInFlight(ClaimLimit[j])
<1>1. /\ c \in Clients /\ d \in Clients /\ ClaimLimit[j] \in Limits
      /\ limit \in Nat
  <2>1. /\ c \in Clients /\ d \in Clients /\ ClaimLimit[j] \in Limits
    BY ClientOfAssumption, ClaimsAssumption
  <2>2. limit \in 1..LimitCap
    BY <2>1, NormalizeBounds
  <2> QED BY <2>1, <2>2, LimitsAssumption
<1>2. Register(c, ClaimGroup[j], ClaimLimit[j])
  BY DEF TouchClientPresence
<1>3. Count(d)' = Count(d)
  BY <1>1, <1>2, RegisterKeepsCount
<1>4. d = c => limit = NormalizeMaxInFlight(ClaimLimit[k])
  BY DEF SameLimit
<1>5. CASE RegisterExisting(c, ClaimGroup[j], ClaimLimit[j])
  <2>1. /\ Registered(c) /\ UNCHANGED sessions
        /\ maxInFlight' = [maxInFlight EXCEPT ![sessions[c]] = limit]
        /\ sessions[c] \in Sessions
    BY <1>1, <1>5 DEF RegisterExisting, RegTypeOK, Registered
  <2>2. CASE d = c
    <3>1. maxInFlight'[sessions[d]] = limit
      BY <2>1, <2>2 DEF RegTypeOK
    <3> HIDE DEF limit
    <3> QED BY <1>3, <1>4, <2>1, <2>2, <3>1 DEF LimitKept
  <2>3. CASE d # c
    <3>1. Registered(d) => maxInFlight'[sessions[d]] = maxInFlight[sessions[d]]
      BY <1>1, <2>1, <2>3, OwnSession DEF RegTypeOK, Registered
    <3> QED BY <1>3, <2>1, <3>1 DEF LimitKept, Registered
  <2> QED BY <2>2, <2>3
<1>6. CASE /\ FreeSessions # {}
           /\ RegisterFresh(c, ClaimGroup[j], ClaimLimit[j],
                             CHOOSE s \in FreeSessions : TRUE)
  <2>1. PICK s \in FreeSessions : RegisterFresh(c, ClaimGroup[j], ClaimLimit[j], s)
    BY <1>6
  <2>2. /\ s \in Sessions /\ \A e \in Clients : sessions[e] # s
        /\ ~Registered(c)
        /\ sessions' = [sessions EXCEPT ![c] = s]
        /\ maxInFlight' = [maxInFlight EXCEPT ![s] = limit]
    BY <2>1 DEF FreeSessions, RegisterFresh, RegisterNew, Range, RegTypeOK
  <2>3. CASE d = c
    <3>1. maxInFlight'[sessions'[d]] = limit
      BY <1>1, <2>2, <2>3 DEF RegTypeOK
    <3>2. Count(d)' = 0
      BY <1>3, <2>2, <2>3 DEF Count
    <3> HIDE DEF limit
    <3> QED BY <1>1, <1>4, <2>3, <3>1, <3>2 DEF LimitKept
  <2>4. CASE d # c
    <3>1. /\ sessions'[d] = sessions[d]
          /\ Registered(d) => maxInFlight'[sessions[d]] = maxInFlight[sessions[d]]
      BY <1>1, <2>2, <2>4 DEF RegTypeOK, Registered
    <3> QED BY <1>3, <3>1 DEF LimitKept, Registered
  <2> QED BY <2>3, <2>4
<1> QED BY <1>2, <1>5, <1>6 DEF Register

-----------------------------------------------------------------------------
(* Counting *)

LEMMA LoadInit == Init => LoadInv
<1> SUFFICES ASSUME Init PROVE LoadInv
  OBVIOUS
<1>1. ASSUME NEW c \in Clients PROVE Counted(c)
  <2>1. SlotHolders(c) = {} /\ Running(c) = {} /\ ArrivedFor(c) = {}
    BY DEF Init, SlotHolders, Running, ArrivedFor
  <2>2. Count(c) = 0
    BY DEF Init, HubInit, RegInit, Registered, Count
  <2> QED BY <2>1, <2>2, FS_EmptySet DEF Counted, Countable, Load
<1>2. \A k \in Writers : LimitKept(k)
  BY ClientOfAssumption DEF Init, HubInit, RegInit, Registered, LimitKept
<1> QED BY <1>1, <1>2 DEF LoadInv

\* No step brings a device work that is not counted, or a count above its limit.
LEMMA LoadStep ==
  ASSUME Unbroken, SameLimit
  PROVE  WsInv /\ WsInv' /\ CurrentInv /\ LoadInv /\ [Next]_wsVars => LoadInv'
<1> SUFFICES ASSUME WsInv, WsInv', CurrentInv, LoadInv, [Next]_wsVars
             PROVE  LoadInv'
  OBVIOUS
<1>1. /\ RegTypeOK /\ RegTypeOK' /\ RosterInv /\ WsTypeOK /\ HubTypeOK
      /\ ClientOf \in [Writers -> Clients] /\ None \notin Requests
  BY ClientOfAssumption, CallsAssumption DEF WsInv, HubInv
<1>2. DOMAIN answering = Writers /\ DOMAIN writerPc = Writers
  BY <1>1 DEF WsTypeOK
<1>3. ASSUME NEW c \in Clients
      PROVE  /\ Counted(c) /\ Countable(c) /\ Count(c) \in Nat
             /\ Cardinality(SlotHolders(c)) \in Nat
             /\ Cardinality(Running(c)) \in Nat
             /\ Cardinality(ArrivedFor(c)) \in Nat
  BY <1>1, LoadIsNumber, CountIsNumber DEF LoadInv, Counted
\* Registrations and what leaves the sessions alone keep the count.
<1>4. ASSUME UNCHANGED <<sessions, inFlight>>
      PROVE  \A c \in Clients : Count(c)' = Count(c)
  BY <1>4 DEF Count, Registered
<1>5. ASSUME NEW k \in Writers, TouchClientPresence(k)
      PROVE  /\ \A c \in Clients : Count(c)' = Count(c)
             /\ \A j \in Writers : LimitKept(j)'
  <2>1. \A c \in Clients : Count(c)' = Count(c)
    BY <1>1, <1>5, RegisterKeepsCount DEF TouchClientPresence
  <2> QED BY <1>1, <1>5, <2>1, RegisterKeepsLimits DEF LoadInv
<1>6. ASSUME UNCHANGED <<sessions, maxInFlight>>,
             \A c \in Clients : Count(c)' <= Count(c)
      PROVE  \A j \in Writers : LimitKept(j)'
  <2> SUFFICES ASSUME NEW j \in Writers, Registered(ClientOf[j])
               PROVE  LimitKept(j)'
    BY <1>6 DEF LimitKept, Registered
  <2> DEFINE c == ClientOf[j]
  <2>1. /\ Count(c) <= maxInFlight[sessions[c]]
        /\ maxInFlight[sessions[c]] = NormalizeMaxInFlight(ClaimLimit[j])
        /\ Count(c)' <= Count(c) /\ c \in Clients
    BY <1>1, <1>6 DEF LoadInv, LimitKept
  <2>2. Count(c) \in Nat /\ Count(c)' \in Nat /\ maxInFlight[sessions[c]] \in Nat
    <3>1. Count(c) \in Nat
      BY <1>3, <2>1
    <3>2. Count(c)' \in Nat
      BY <1>1, <2>1 DEF Count, Registered, RegTypeOK
    <3>3. maxInFlight[sessions[c]] \in Nat
      BY <1>1, <2>1, LimitsAssumption DEF Registered, RegTypeOK
    <3> QED BY <3>1, <3>2, <3>3
  <2>3. Count(c)' <= maxInFlight[sessions[c]]
    BY <2>1, <2>2
  <2> QED BY <1>6, <2>1, <2>3 DEF LimitKept
\* Where no work comes, no slot need be taken.
<1>7. ASSUME \A c \in Clients : Count(c)' = Count(c),
             onDevice' \subseteq onDevice,
             \A j \in Writers : answering'[j] \in {answering[j], None},
             \A j \in Writers : writerPc'[j] \in {"pop", "have", "release"}
                                  => writerPc[j] \in {"pop", "have", "release"}
      PROVE  \A c \in Clients : Counted(c)'
  <2> SUFFICES ASSUME NEW c \in Clients PROVE Counted(c)'
    OBVIOUS
  <2>1. /\ SlotHolders(c)' \subseteq SlotHolders(c)
        /\ Running(c)' \subseteq Running(c)
        /\ ArrivedFor(c)' \subseteq ArrivedFor(c)
    BY <1>7 DEF SlotHolders, Running, ArrivedFor
  <2>2. Countable(c)' /\ Load(c)' \in Nat /\ Load(c)' <= Load(c)
    BY <1>3, <2>1, LessWork
  <2>3. Count(c)' >= Count(c)
    BY <1>3, <1>7
  <2> QED BY <1>1, <1>3, <2>2, <2>3, WorkIsCounted
<1>8. ASSUME UNCHANGED <<sessions, maxInFlight, inFlight>>,
             onDevice' \subseteq onDevice,
             \A j \in Writers : answering'[j] \in {answering[j], None},
             \A j \in Writers : writerPc'[j] \in {"pop", "have", "release"}
                                  => writerPc[j] \in {"pop", "have", "release"}
      PROVE  LoadInv'
  <2>1. \A c \in Clients : Count(c)' = Count(c)
    BY <1>4, <1>8
  <2>2. \A c \in Clients : Count(c)' <= Count(c)
    BY <1>3, <2>1
  <2> QED BY <1>6, <1>7, <1>8, <2>1, <2>2 DEF LoadInv
<1>9. ASSUME NEW k \in Writers,
             Login(k) \/ Accept(k) \/ MarkPresent(k) \/ Heartbeat(k)
      PROVE  LoadInv'
  <2>1. TouchClientPresence(k) /\ UNCHANGED <<onDevice, answering, writerPc>>
    BY <1>9 DEF Login, Accept, MarkPresent, Heartbeat, TouchClientPresence,
                worldVars, connVars
  <2> QED BY <1>5, <1>7, <2>1 DEF LoadInv
<1>10. ASSUME NEW k \in Writers, CheckGroup(k) PROVE LoadInv'
  <2>1. CASE TouchClientPresence(k) /\ UNCHANGED answering
    <3>1. UNCHANGED <<onDevice, writerPc>>
      BY <1>10 DEF CheckGroup, worldVars
    <3> QED BY <1>5, <1>7, <2>1, <3>1 DEF LoadInv
  <2>2. CASE UNCHANGED hubVars /\ answering' = [answering EXCEPT ![k] = None]
    <3>1. UNCHANGED <<sessions, maxInFlight, inFlight, onDevice, writerPc>>
      BY <1>10, <2>2 DEF CheckGroup, hubVars, regVars, objectVars, worldVars
    <3>2. \A j \in Writers : answering'[j] \in {answering[j], None}
      BY <1>2, <2>2
    <3> QED BY <1>8, <3>1, <3>2
  <2> QED BY <1>10, <2>1, <2>2 DEF CheckGroup
<1>11. ASSUME NEW k \in Writers,
              Replace(k) \/ CancelPrevious(k) \/ ClosePrevious(k)
                \/ ReaderEnds(k) \/ Drained(k) \/ ClearIfCurrent(k)
                \/ Welcome(k)
       PROVE  LoadInv'
  <2>1. /\ UNCHANGED <<sessions, maxInFlight, inFlight, onDevice, answering>>
        /\ writerPc' = [writerPc EXCEPT ![k] = "acquire"] \/ UNCHANGED writerPc
    BY <1>11 DEF Replace, CancelPrevious, ClosePrevious,
                 ReaderEnds, Drained, ClearIfCurrent, Welcome,
                 hubVars, regVars, objectVars, worldVars
  <2>2. \A j \in Writers : writerPc'[j] \in {"pop", "have", "release"}
                             => writerPc[j] \in {"pop", "have", "release"}
    BY <1>2, <2>1
  <2> QED BY <1>8, <2>1, <2>2
<1>12. ASSUME NEW k \in Writers,
              WriterReturns(k) \/ PopAcquired(k) \/ PopCancelled(k)
                \/ SendRefused(k) \/ RequeueLookup(k) \/ RequeuePush(k)
       PROVE  LoadInv'
  <2>1. UNCHANGED <<sessions, maxInFlight, inFlight, onDevice, answering>>
    BY <1>12
    DEF WriterReturns, StopWaiting, PopAcquired, PopCancelled, SendRefused,
        RequeueLookup, RequeuePush, Pop, LeavePop, LetGo, PutBack, hubVars,
        regVars, objectVars, worldVars, otherConnVars
  <2>2. \A j \in Writers : writerPc'[j] \in {"pop", "have", "release"}
                             => writerPc[j] \in {"pop", "have", "release"}
    BY <1>2, <1>12
    DEF WriterReturns, PopAcquired, PopCancelled, SendRefused, RequeueLookup,
        RequeuePush, WriterGoes
  <2> QED BY <1>8, <2>1, <2>2
<1>13. ASSUME NEW r \in Requests,
              AdmitCall(r) \/ CallStep(r) \/ TimePasses(r) \/ RetentionPasses(r)
       PROVE  LoadInv'
  <2>1. UNCHANGED <<sessions, maxInFlight, inFlight, onDevice, answering, writerPc>>
    BY <1>13
    DEF AdmitCall, CallStep, TimePasses, RetentionPasses, Age, DeadlinePasses,
        CtxEnds, InvokeStep, PickSession, PickPreferred, PickInGroup,
        PickRoundRobin, StoreWaiter, PushJob, DropWaiter, TakeResult, GiveUp,
        ExpireWaiter, hubVars, regVars, objectVars, connVars, worldVars
  <2> QED BY <1>8, <2>1
<1>14. ASSUME NEW c, DeviceForgets(c) \/ SwitchGroup(c) \/ UNCHANGED wsVars
       PROVE  LoadInv'
  <2>1. /\ UNCHANGED <<sessions, maxInFlight, inFlight, answering, writerPc>>
        /\ onDevice' \subseteq onDevice
    BY <1>14 DEF DeviceForgets, SwitchGroup, wsVars, hubVars, regVars, objectVars,
                 connVars, worldVars
  <2> QED BY <1>8, <2>1
\* An answer comes: its job is no longer the device's, but still counts.
<1>15. ASSUME NEW k \in Writers, NEW r \in Requests, DeviceAnswers(k, r)
       PROVE  LoadInv'
  <2>1. PICK origin \in Writers : ReceiveResult(k, <<origin, r>>)
    BY <1>15 DEF DeviceAnswers
  <2> DEFINE job == <<origin, r>>
  <2>2. /\ TouchClientPresence(k)
        /\ job \in onDevice /\ ClientOf[job[1]] = ClientOf[k]
        /\ onDevice' = onDevice \ {job}
        /\ answering' = [answering EXCEPT ![k] = r] /\ UNCHANGED writerPc
    BY <2>1 DEF ReceiveResult, Reading
  <2> HIDE DEF job
  <2> SUFFICES ASSUME NEW c \in Clients PROVE Counted(c)'
    BY <1>5, <2>2 DEF LoadInv
  <2>3. Count(c)' = Count(c) /\ SlotHolders(c)' = SlotHolders(c)
    BY <1>5, <2>2 DEF SlotHolders
  <2>4. Running(c)' = IF c = ClientOf[k] THEN Running(c) \ {job} ELSE Running(c)
    BY <2>2 DEF Running
  <2>5. ArrivedFor(c)' =
          IF c = ClientOf[k] THEN ArrivedFor(c) \cup {k} ELSE ArrivedFor(c)
    BY <1>1, <1>2, <2>2 DEF ArrivedFor
  <2>6. Load(c)' <= Load(c) /\ Load(c)' \in Nat /\ Countable(c)'
    <3>1. CASE c # ClientOf[k]
      BY <1>3, <2>3, <2>4, <2>5, <3>1, LoadIsNumber DEF Load, Countable
    <3>2. CASE c = ClientOf[k]
      <4>1. job \in Running(c)
        BY <2>2, <3>2 DEF Running
      <4>2. /\ IsFiniteSet(Running(c) \ {job})
            /\ Cardinality(Running(c) \ {job}) = Cardinality(Running(c)) - 1
        BY <1>3, <4>1, FS_RemoveElement DEF Countable
      <4>3. /\ IsFiniteSet(ArrivedFor(c) \cup {k})
            /\ Cardinality(ArrivedFor(c) \cup {k})
                 \in {Cardinality(ArrivedFor(c)), Cardinality(ArrivedFor(c)) + 1}
        BY <1>3, FS_AddElement DEF Countable
      <4>4. Cardinality(Running(c) \ {job}) \in Nat
        BY <4>2, FS_CardinalityType
      <4> QED
        BY <1>3, <2>3, <2>4, <2>5, <3>2, <4>2, <4>3, <4>4 DEF Load, Countable
    <3> QED BY <3>1, <3>2
  <2> QED BY <1>1, <1>3, <2>3, <2>6, WorkIsCounted
\* An answer is dealt with, and gives back one slot at most.
<1>16. ASSUME NEW k \in Writers, Submit(k) PROVE LoadInv'
  <2>1. /\ answering[k] \in Requests
        /\ SubmitResult(ClientOf[k], answering[k])
        /\ answering' = [answering EXCEPT ![k] = None]
        /\ UNCHANGED <<onDevice, writerPc>>
    BY <1>16 DEF Submit, WsInv, JobsInv, worldVars
  <2>2. ReleaseIfRegistered(ClientOf[k]) \/ UNCHANGED regVars
    BY <2>1 DEF SubmitResult, Delivered, Late, Ignored
  <2>3. UNCHANGED <<sessions, maxInFlight>>
    BY <2>2 DEF ReleaseIfRegistered, ReleaseDispatch, regVars, objectVars
  <2>4. ASSUME NEW c \in Clients
        PROVE  /\ Count(c)' <= Count(c)
               /\ Count(c)' >= (IF c = ClientOf[k] THEN Count(c) - 1 ELSE Count(c))
    <3>1. CASE ReleaseIfRegistered(ClientOf[k])
      BY <1>1, <3>1, ReleaseLowersCount
    <3>2. CASE UNCHANGED regVars
      BY <1>3, <1>4, <3>2 DEF regVars, objectVars
    <3> QED BY <2>2, <3>1, <3>2
  <2> SUFFICES ASSUME NEW c \in Clients PROVE Counted(c)'
    BY <1>6, <2>3, <2>4 DEF LoadInv
  <2>5. SlotHolders(c)' = SlotHolders(c) /\ Running(c)' = Running(c)
    BY <2>1 DEF SlotHolders, Running
  <2>6. CASE c # ClientOf[k]
    <3>1. ArrivedFor(c)' = ArrivedFor(c)
      BY <1>2, <2>1, <2>6 DEF ArrivedFor
    <3>2. Countable(c)' /\ Load(c)' \in Nat /\ Load(c)' <= Load(c)
      BY <1>3, <2>5, <3>1, LessWork
    <3> QED BY <1>1, <1>3, <2>4, <2>6, <3>2, WorkIsCounted
  <2>7. CASE c = ClientOf[k]
    <3>1. ArrivedFor(c)' = ArrivedFor(c) \ {k} /\ k \in ArrivedFor(c)
      BY <1>1, <1>2, <2>1, <2>7 DEF ArrivedFor
    <3>2. /\ IsFiniteSet(ArrivedFor(c)')
          /\ Cardinality(ArrivedFor(c)') = Cardinality(ArrivedFor(c)) - 1
      BY <1>3, <3>1, FS_RemoveElement DEF Countable
    <3>3. Cardinality(ArrivedFor(c)') \in Nat
      BY <3>2, FS_CardinalityType
    <3>4. Countable(c)' /\ Load(c)' \in Nat /\ Load(c)' = Load(c) - 1
      BY <1>3, <2>5, <3>2, <3>3 DEF Load, Countable
    <3>5. Load(c)' <= Load(c) - 1 /\ Count(c)' >= Count(c) - 1
      BY <1>3, <2>4, <2>7, <3>4, LoadIsNumber
    <3> QED BY <1>1, <1>3, <3>4, <3>5, WorkIsCounted
  <2> QED BY <2>6, <2>7
\* A slot is taken for every job that will be sent.
<1>17. ASSUME NEW k \in Writers, AcquireDispatchSlot(k) PROVE LoadInv'
  <2>1. UNCHANGED <<onDevice, answering>> /\ writerPc[k] = "acquire"
    BY <1>17 DEF AcquireDispatchSlot, worldVars, otherConnVars
  <2>2. CASE ParkForSlot(k) /\ UNCHANGED writerPc
    BY <1>8, <2>1, <2>2 DEF ParkForSlot, objectVars
  <2>3. CASE TakeSlot(k) /\ WriterGoes(k, "pop")
    <3>1. \A c \in Clients :
            Count(c)' = IF c = ClientOf[k] THEN Count(c) + 1 ELSE Count(c)
      BY <1>1, <2>3, TakeRaisesCount
    <3>2. ASSUME NEW j \in Writers PROVE LimitKept(j)'
      <4> DEFINE c == ClientOf[j]
      <4>1. UNCHANGED <<sessions, maxInFlight>> /\ c \in Clients /\ LimitKept(j)
        BY <1>1, <2>3 DEF TakeSlot, LoadInv
      <4>2. CASE c # ClientOf[k]
        BY <3>1, <4>1, <4>2 DEF LimitKept, Registered
      <4>3. CASE c = ClientOf[k]
        <5>1. Registered(c) /\ Count(c) < maxInFlight[sessions[c]]
          BY <2>3, <4>3 DEF TakeSlot, HasFreeSlot, Count, Registered
        <5>2. Count(c)' = Count(c) + 1 /\ Count(c) \in Nat
              /\ maxInFlight[sessions[c]] \in Nat
          BY <1>1, <1>3, <3>1, <4>1, <4>3, <5>1, LimitsAssumption
          DEF Registered, RegTypeOK
        <5>3. Count(c)' <= maxInFlight[sessions[c]]
          BY <5>1, <5>2
        <5> QED BY <4>1, <5>1, <5>3 DEF LimitKept
      <4> QED BY <4>2, <4>3
    <3>3. ASSUME NEW c \in Clients PROVE Counted(c)'
      <4>1. Running(c)' = Running(c) /\ ArrivedFor(c)' = ArrivedFor(c)
        BY <2>1 DEF Running, ArrivedFor
      <4>2. CASE c # ClientOf[k]
        <5>1. SlotHolders(c)' = SlotHolders(c)
          BY <1>2, <2>3, <4>2 DEF SlotHolders, WriterGoes
        <5>2. Countable(c)' /\ Load(c)' \in Nat /\ Load(c)' <= Load(c)
          BY <1>3, <4>1, <5>1, LessWork
        <5>3. Count(c)' >= Count(c)
          BY <1>3, <3>1, <4>2
        <5> QED BY <1>1, <1>3, <5>2, <5>3, WorkIsCounted
      <4>3. CASE c = ClientOf[k]
        <5>1. SlotHolders(c)' = SlotHolders(c) \cup {k} /\ k \notin SlotHolders(c)
          BY <1>2, <2>1, <2>3, <4>3 DEF SlotHolders, WriterGoes
        <5>2. /\ IsFiniteSet(SlotHolders(c)')
              /\ Cardinality(SlotHolders(c)') = Cardinality(SlotHolders(c)) + 1
          BY <1>3, <5>1, FS_AddElement DEF Countable
        <5>3. Countable(c)' /\ Load(c)' = Load(c) + 1 /\ Load(c)' \in Nat
          BY <1>3, <4>1, <5>2, LoadIsNumber DEF Load, Countable
        <5>4. Load(c)' <= Load(c) + 1 /\ Count(c)' >= Count(c) + 1
          BY <1>3, <3>1, <4>3, <5>3, LoadIsNumber
        <5> QED BY <1>1, <1>3, <5>3, <5>4, WorkIsCounted
      <4> QED BY <4>2, <4>3
    <3> QED BY <3>2, <3>3 DEF LoadInv
  <2> QED BY <1>17, <2>2, <2>3 DEF AcquireDispatchSlot
\* A job is sent: the slot is the job's now.
<1>18. ASSUME NEW k \in Writers, SendJob(k) PROVE LoadInv'
  <2> DEFINE job == <<k, held[k]>>
  <2>1. /\ onDevice' = onDevice \cup {job} /\ job[1] = k
        /\ writerPc[k] = "have" /\ WriterGoes(k, "acquire")
        /\ UNCHANGED <<sessions, maxInFlight, inFlight, answering>>
    BY <1>18 DEF SendJob, LetGo, regVars, objectVars, otherConnVars
  <2> HIDE DEF job
  <2>2. \A c \in Clients : Count(c)' = Count(c) /\ Count(c)' <= Count(c)
    BY <1>3, <1>4, <2>1
  <2> SUFFICES ASSUME NEW c \in Clients PROVE Counted(c)'
    BY <1>6, <2>1, <2>2 DEF LoadInv
  <2>3. ArrivedFor(c)' = ArrivedFor(c)
    BY <2>1 DEF ArrivedFor
  <2>4. Load(c)' <= Load(c) /\ Load(c)' \in Nat /\ Countable(c)'
    <3>1. CASE c # ClientOf[k]
      <4>1. SlotHolders(c)' = SlotHolders(c) /\ Running(c)' = Running(c)
        BY <1>2, <2>1, <3>1 DEF SlotHolders, Running, WriterGoes
      <4> QED BY <1>3, <2>3, <4>1, LessWork
    <3>2. CASE c = ClientOf[k]
      <4>1. SlotHolders(c)' = SlotHolders(c) \ {k} /\ k \in SlotHolders(c)
        BY <1>2, <2>1, <3>2 DEF SlotHolders, WriterGoes
      <4>2. Running(c)' = Running(c) \cup {job}
        BY <2>1, <3>2 DEF Running
      <4>3. /\ IsFiniteSet(SlotHolders(c)')
            /\ Cardinality(SlotHolders(c)') = Cardinality(SlotHolders(c)) - 1
        BY <1>3, <4>1, FS_RemoveElement DEF Countable
      <4>4. /\ IsFiniteSet(Running(c)')
            /\ Cardinality(Running(c)')
                 \in {Cardinality(Running(c)), Cardinality(Running(c)) + 1}
        <5>1. CASE job \in Running(c)
          <6>1. Running(c)' = Running(c)
            BY <4>2, <5>1
          <6> QED BY <1>3, <6>1 DEF Countable
        <5>2. CASE job \notin Running(c)
          BY <1>3, <4>2, <5>2, FS_AddElement DEF Countable
        <5> QED BY <5>1, <5>2
      <4>5. Cardinality(SlotHolders(c)') \in Nat
        BY <4>3, FS_CardinalityType
      <4> QED BY <1>3, <2>3, <4>3, <4>4, <4>5 DEF Load, Countable
    <3> QED BY <3>1, <3>2
  <2> QED BY <1>1, <1>3, <2>2, <2>4, WorkIsCounted
<1>19. ASSUME NEW k \in Writers, GiveSlotBack(k) PROVE LoadInv'
  <2>1. /\ ReleaseIfRegistered(ClientOf[k])
        /\ UNCHANGED <<onDevice, answering>> /\ writerPc[k] = "release"
        /\ \E to \in {"done", "requeue"} : WriterGoes(k, to)
    BY <1>19 DEF GiveSlotBack, worldVars, otherConnVars
  <2>2. UNCHANGED <<sessions, maxInFlight>>
    BY <2>1 DEF ReleaseIfRegistered, ReleaseDispatch, regVars, objectVars
  <2>3. ASSUME NEW c \in Clients
        PROVE  /\ Count(c)' <= Count(c)
               /\ Count(c)' >= (IF c = ClientOf[k] THEN Count(c) - 1 ELSE Count(c))
    BY <1>1, <2>1, ReleaseLowersCount
  <2> SUFFICES ASSUME NEW c \in Clients PROVE Counted(c)'
    BY <1>6, <2>2, <2>3 DEF LoadInv
  <2>4. Running(c)' = Running(c) /\ ArrivedFor(c)' = ArrivedFor(c)
    BY <2>1 DEF Running, ArrivedFor
  <2>5. CASE c # ClientOf[k]
    <3>1. SlotHolders(c)' = SlotHolders(c)
      BY <1>2, <2>1, <2>5 DEF SlotHolders, WriterGoes
    <3>2. Countable(c)' /\ Load(c)' \in Nat /\ Load(c)' <= Load(c)
      BY <1>3, <2>4, <3>1, LessWork
    <3> QED BY <1>1, <1>3, <2>3, <2>5, <3>2, WorkIsCounted
  <2>6. CASE c = ClientOf[k]
    <3>1. SlotHolders(c)' = SlotHolders(c) \ {k} /\ k \in SlotHolders(c)
      BY <1>2, <2>1, <2>6 DEF SlotHolders, WriterGoes
    <3>2. /\ IsFiniteSet(SlotHolders(c)')
          /\ Cardinality(SlotHolders(c)') = Cardinality(SlotHolders(c)) - 1
      BY <1>3, <3>1, FS_RemoveElement DEF Countable
    <3>3. Cardinality(SlotHolders(c)') \in Nat
      BY <3>2, FS_CardinalityType
    <3>4. Countable(c)' /\ Load(c)' \in Nat /\ Load(c)' = Load(c) - 1
      BY <1>3, <2>4, <3>2, <3>3 DEF Load, Countable
    <3>5. Load(c)' <= Load(c) - 1 /\ Count(c)' >= Count(c) - 1
      BY <1>3, <2>3, <2>6, <3>4, LoadIsNumber
    <3> QED BY <1>1, <1>3, <3>4, <3>5, WorkIsCounted
  <2> QED BY <2>5, <2>6
<1>20. ASSUME NEW k \in Writers, UnregisterClosed(k) PROVE FALSE
  BY <1>20 DEF UnregisterClosed, CurrentInv
<1>21. ASSUME NEW k, SendFails(k) \/ BreakSocket(k) \/ Logout(k) PROVE FALSE
  BY <1>21 DEF SendFails, BreakSocket, Logout, Unbroken
<1> QED
  BY <1>9, <1>10, <1>11, <1>12, <1>13, <1>14, <1>15, <1>16, <1>17, <1>18, <1>19,
     <1>20, <1>21 DEF Next, HandlerStep, ReaderStep, WriterStep

\* No device is given more jobs than its login allows, however its connections
\* replace each other, whatever it forgets and whichever calls time out: the
\* count never falls behind what the device has.  It may only when a session
\* is dropped with jobs still out (a broken connection, a logout), or when a
\* later login asks for less.
THEOREM LoadStaysWithinLimit ==
  ASSUME Unbroken, SameLimit
  PROVE  Spec => []LoadWithinLimit
<1> DEFINE SysInv == WsInv /\ CurrentInv /\ LoadInv
<1>1. Init => SysInv
  BY WsInvInit, CurrentInit, LoadInit
<1>2. SysInv /\ [Next]_wsVars => SysInv'
  BY WsInvStep, CurrentStep, LoadStep DEF WsInv
<1>3. SysInv => LoadWithinLimit
  <2> SUFFICES ASSUME SysInv, NEW c \in Clients, Registered(c)
               PROVE  Cardinality(Running(c)) <= maxInFlight[sessions[c]]
    BY DEF LoadWithinLimit
  <2>1. maxInFlight[sessions[c]] \in Nat /\ Count(c) \in Nat
        /\ Counted(c) /\ Countable(c) /\ WsTypeOK
    BY CountIsNumber, LimitsAssumption
    DEF WsInv, HubInv, RegTypeOK, Registered, LoadInv, Counted
  <2>2. Cardinality(Running(c)) \in Nat /\ Cardinality(Running(c)) <= Count(c)
    BY <2>1, LoadIsNumber DEF Counted, Load
  <2>3. CASE Running(c) = {}
    BY <2>1, <2>3, FS_EmptySet
  <2>4. CASE Running(c) # {}
    <3>1. PICK k \in Writers : ClientOf[k] = c
      BY <2>1, <2>4 DEF Running, WsTypeOK
    <3>2. Count(c) <= maxInFlight[sessions[c]]
      BY <3>1 DEF LoadInv, LimitKept
    <3> QED BY <2>1, <2>2, <3>2
  <2> QED BY <2>3, <2>4
<1> HIDE DEF SysInv
<1> QED BY <1>1, <1>2, <1>3, PTL DEF Spec

-----------------------------------------------------------------------------
(* Every waiting call's job is somewhere *)

Queued(r) ==
  /\ assigned[r] \in Clients /\ Registered(assigned[r])
  /\ Has(pending[sessions[assigned[r]]], r)
Carried(r) ==
  \/ \E k \in Writers : held[k] = r \/ answering[k] = r \/ <<k, r>> \in onDevice
  \/ resultCh[r] # None

AccountedInv ==
  \A r \in Requests : callPc[r] = "waiting" /\ r \notin expired =>
    Queued(r) \/ Carried(r)

\* A call that is assigned keeps its client while it waits, and time does not
\* run backwards.
LEMMA StillWaiting ==
  ASSUME HubTypeOK, WsTypeOK, [Next]_wsVars, NEW r \in Requests,
         callPc'[r] = "waiting", r \notin expired'
  PROVE  /\ r \notin expired /\ assigned'[r] = assigned[r]
         /\ callPc[r] = "waiting" \/ (CallStep(r) /\ PushJob(r))
<1>1. DOMAIN callPc = Requests /\ DOMAIN assigned = Requests
  BY DEF HubTypeOK
<1>2. ASSUME UNCHANGED <<callVars, clockVars>> PROVE
         /\ r \notin expired /\ assigned'[r] = assigned[r] /\ callPc[r] = "waiting"
  BY <1>2 DEF callVars, clockVars
<1>3. ASSUME NEW k \in Writers, Login(k) \/ Accept(k) \/ MarkPresent(k) \/ Heartbeat(k)
               \/ CheckGroup(k) \/ \E q \in Requests : DeviceAnswers(k, q)
      PROVE  UNCHANGED <<callVars, clockVars>>
  <2>1. \/ Register(ClientOf[k], ClaimGroup[k], ClaimLimit[k])
        \/ UNCHANGED hubVars
    BY <1>3
    DEF Login, Accept, MarkPresent, Heartbeat, CheckGroup, DeviceAnswers,
        ReceiveResult, TouchClientPresence
  <2> QED BY <2>1, RegisterKeepsCalls DEF hubVars, ownHubVars
<1>4. ASSUME NEW k \in Writers,
             Replace(k) \/ CancelPrevious(k) \/ ClosePrevious(k)
               \/ Welcome(k) \/ ReaderEnds(k) \/ Drained(k)
               \/ ClearIfCurrent(k) \/ UnregisterClosed(k) \/ Submit(k)
               \/ WriterStep(k) \/ SendFails(k) \/ BreakSocket(k)
      PROVE  UNCHANGED <<callVars, clockVars>>
  BY <1>4
  DEF Replace, CancelPrevious, ClosePrevious,
      Welcome, ReaderEnds, Drained, ClearIfCurrent, UnregisterClosed,
      Submit, SubmitResult, WriterStep, AcquireDispatchSlot, WriterReturns,
      PopAcquired, PopCancelled, SendJob, SendRefused, GiveSlotBack, RequeueLookup,
      RequeuePush, Pop, LeavePop, LetGo, PutBack, SendFails, BreakSocket, hubVars,
      ownHubVars
<1>5. ASSUME NEW p \in Requests, CallStep(p)
      PROVE  /\ UNCHANGED clockVars
             /\ p # r => callPc'[r] = callPc[r] /\ assigned'[r] = assigned[r]
             /\ p = r => PushJob(r) /\ UNCHANGED assigned
  BY <1>1, <1>5
  DEF CallStep, InvokeStep, PickSession, PickPreferred, PickInGroup, Assign, Return,
      StoreWaiter, PushJob, DropWaiter, TakeResult, GiveUp, ExpireWaiter
<1>6. ASSUME NEW p \in Requests, AdmitCall(p) \/ TimePasses(p) \/ RetentionPasses(p)
      PROVE  UNCHANGED callVars /\ expired \subseteq expired'
  BY <1>6
  DEF AdmitCall, TimePasses, RetentionPasses, DeadlinePasses, CtxEnds, Age, hubVars,
      ownHubVars, clockVars
<1>7. ASSUME NEW c, DeviceForgets(c) \/ SwitchGroup(c) \/ Logout(c)
      PROVE  UNCHANGED <<callVars, clockVars>>
  BY <1>7 DEF DeviceForgets, SwitchGroup, Logout, hubVars, ownHubVars
<1>8. UNCHANGED wsVars => UNCHANGED <<callVars, clockVars>>
  BY DEF wsVars, hubVars, ownHubVars
<1>9. ASSUME NEW p \in Requests, CallStep(p)
      PROVE  /\ r \notin expired /\ assigned'[r] = assigned[r]
             /\ callPc[r] = "waiting" \/ (CallStep(r) /\ PushJob(r))
  BY <1>5, <1>9 DEF clockVars
<1>10. ASSUME NEW p \in Requests, AdmitCall(p) \/ TimePasses(p) \/ RetentionPasses(p)
      PROVE  /\ r \notin expired /\ assigned'[r] = assigned[r]
             /\ callPc[r] = "waiting"
  BY <1>6, <1>10 DEF callVars
<1> QED
  BY <1>2, <1>3, <1>4, <1>7, <1>8, <1>9, <1>10
  DEF Next, HandlerStep, ReaderStep

LEMMA AccountedInit == Init => AccountedInv
BY DEF Init, HubInit, OwnHubInit, AccountedInv

\* A queue has room for every call.
Roomy == IsFiniteSet(Requests) /\ Cardinality(Requests) <= PendingSize

\* The writer's put-back is never refused.
NeverRefused ==
  \A k \in Writers : writerPc[k] = "putBack" /\ held[k] # None =>
    ~PushRefused(acquired[k], held[k])

\* A job leaves its place only for the next one on its way.
LEMMA AccountedStep ==
  ASSUME Unbroken, Lossless
  PROVE  WsInv /\ RestInv /\ FlowInv /\ CurrentInv /\ HomeInv /\ NeverRefused
           /\ enabled = Groups /\ AccountedInv /\ [Next]_wsVars => AccountedInv'
<1> SUFFICES ASSUME WsInv, RestInv, FlowInv, CurrentInv, HomeInv, NeverRefused,
                    enabled = Groups, AccountedInv, [Next]_wsVars,
                    NEW r \in Requests, callPc'[r] = "waiting", r \notin expired'
             PROVE  Queued(r)' \/ Carried(r)'
  BY DEF AccountedInv
<1>1. /\ RegTypeOK /\ HubTypeOK /\ WsTypeOK /\ JobsInv /\ LedgerInv /\ JobsAtHome
      /\ \A c \in Clients : Registered(c) => sessions'[c] = sessions[c]
      /\ None \notin Clients /\ None \notin Requests
  BY SessionsStay, SessionsAssumption, CallsAssumption DEF WsInv, HubInv, QueueInv
<1>2. /\ DOMAIN held = Writers /\ DOMAIN answering = Writers
      /\ DOMAIN resultCh = Requests
  BY <1>1 DEF HubTypeOK, WsTypeOK
<1>3. /\ r \in Requests \ expired /\ assigned'[r] = assigned[r]
      /\ callPc[r] = "waiting" \/ (CallStep(r) /\ PushJob(r))
  BY <1>1, StillWaiting
<1>4. callPc[r] = "waiting" => Queued(r) \/ Carried(r)
  BY <1>3 DEF AccountedInv
<1>5. ASSUME Queued(r), \A t \in Sessions : Has(pending[t], r) =>
               Has(pending'[t], r) \/ \E k \in Writers : held'[k] = r
      PROVE  Queued(r)' \/ Carried(r)'
  <2>1. sessions[assigned[r]] \in Sessions
    BY <1>1, <1>5 DEF Queued, RegTypeOK, Registered
  <2> QED BY <1>1, <1>3, <1>5, <2>1 DEF Queued, Carried, Registered
<1>6. ASSUME callPc[r] = "waiting", UNCHANGED queueVars, Carried(r) => Carried(r)'
      PROVE  Queued(r)' \/ Carried(r)'
  BY <1>4, <1>5, <1>6 DEF queueVars
<1>7. ASSUME UNCHANGED <<ownHubVars, onDevice, answering>>
      PROVE  Queued(r)' \/ Carried(r)'
  <2>1. callPc[r] = "waiting"
    BY <1>7 DEF ownHubVars, callVars
  <2> QED
    BY <1>6, <1>7, <2>1 DEF ownHubVars, ledgerVars, Carried
<1>8. ASSUME NEW k \in Writers, NEW g, NEW asked, Register(ClientOf[k], g, asked),
             Carried(r) => Carried(r)'
      PROVE  Queued(r)' \/ Carried(r)'
  <2>1. callPc[r] = "waiting"
    BY <1>8, RegisterKeepsCalls DEF callVars
  <2>2. CASE Carried(r)
    BY <1>8, <2>2
  <2>3. CASE Queued(r)
    <3>1. CASE UNCHANGED ownHubVars
      BY <1>5, <2>3, <3>1 DEF ownHubVars, queueVars
    <3>2. CASE /\ FreeSessions # {}
               /\ RegisterFresh(ClientOf[k], g, asked, CHOOSE s \in FreeSessions : TRUE)
      <4>1. PICK s \in FreeSessions : RegisterFresh(ClientOf[k], g, asked, s)
        BY <3>2
      <4>2. /\ s \in Sessions /\ \A e \in Clients : sessions[e] # s
            /\ pending' = [pending EXCEPT ![s] = << >>]
        BY <1>1, <4>1 DEF FreeSessions, RegisterFresh, Range, RegTypeOK
      <4>3. pending'[sessions[assigned[r]]] = pending[sessions[assigned[r]]]
        BY <1>1, <2>3, <4>2 DEF Queued, HubTypeOK
      <4> QED BY <1>1, <1>3, <2>3, <4>3 DEF Queued, Registered
    <3> QED BY <1>8, <3>1, <3>2 DEF Register
  <2> QED BY <1>4, <2>1, <2>2, <2>3
<1>9. ASSUME NEW k \in Writers, Login(k) \/ Accept(k) \/ MarkPresent(k) \/ Heartbeat(k)
      PROVE  Queued(r)' \/ Carried(r)'
  <2>1. /\ Register(ClientOf[k], ClaimGroup[k], ClaimLimit[k])
        /\ UNCHANGED <<onDevice, answering>>
    BY <1>9
    DEF Login, Accept, MarkPresent, Heartbeat, TouchClientPresence, connVars, worldVars
  <2>2. Carried(r) => Carried(r)'
    BY <2>1, RegisterKeepsCalls DEF Carried, ledgerVars
  <2> QED BY <1>8, <2>1, <2>2
<1>10. ASSUME NEW k \in Writers, NEW q \in Requests, DeviceAnswers(k, q)
       PROVE  Queued(r)' \/ Carried(r)'
  <2>1. PICK origin \in Writers : ReceiveResult(k, <<origin, q>>)
    BY <1>10 DEF DeviceAnswers
  <2>2. /\ Register(ClientOf[k], ClaimGroup[k], ClaimLimit[k])
        /\ onDevice' = onDevice \ {<<origin, q>>}
        /\ answering' = [answering EXCEPT ![k] = q] /\ answering[k] = None
    BY <2>1 DEF ReceiveResult, TouchClientPresence, Reading, RestInv
  <2>3. UNCHANGED <<held, resultCh>>
    BY <2>2, RegisterKeepsCalls DEF ledgerVars
  <2>4. ASSUME Carried(r) PROVE Carried(r)'
    <3>1. CASE resultCh[r] # None \/ \E j \in Writers : held[j] = r
      BY <2>3, <3>1 DEF Carried
    <3>2. CASE \E j \in Writers : answering[j] = r
      BY <1>1, <1>2, <2>2, <3>2 DEF Carried
    <3>3. CASE \E j \in Writers : <<j, r>> \in onDevice
      <4>1. CASE q = r
        BY <1>2, <2>2, <4>1 DEF Carried
      <4>2. CASE q # r
        BY <2>2, <3>3, <4>2 DEF Carried
      <4> QED BY <4>1, <4>2
    <3> QED BY <2>4, <3>1, <3>2, <3>3 DEF Carried
  <2> QED BY <1>8, <2>2, <2>4
<1>11. ASSUME NEW k \in Writers, CheckGroup(k) PROVE Queued(r)' \/ Carried(r)'
  <2>1. GroupActive(ClaimGroup[k])
    BY ClaimsAssumption DEF GroupActive
  <2>2. /\ Register(ClientOf[k], ClaimGroup[k], ClaimLimit[k])
        /\ UNCHANGED <<onDevice, answering>>
    BY <1>11, <2>1 DEF CheckGroup, TouchClientPresence, worldVars, Lossless
  <2>3. Carried(r) => Carried(r)'
    BY <2>2, RegisterKeepsCalls DEF Carried, ledgerVars
  <2> QED BY <1>8, <2>2, <2>3
\* The answer a reader submits lands in the channel of the call.
<1>12. ASSUME NEW k \in Writers, Submit(k) PROVE Queued(r)' \/ Carried(r)'
  <2> DEFINE q == answering[k]
             c == ClientOf[k]
  <2>1. /\ q \in Requests /\ c \in Clients
        /\ SubmitResult(c, q) /\ UNCHANGED <<queueVars, held, onDevice>>
        /\ answering' = [answering EXCEPT ![k] = None]
    BY <1>1, <1>12, ClientOfAssumption
    DEF Submit, SubmitResult, JobsInv, worldVars
  <2>2. callPc[r] = "waiting"
    BY <2>1 DEF SubmitResult, callVars
  <2>3. assigned[q] = c
    BY <2>1 DEF FlowInv, Flow
  <2>4. resultCh[r] # None => resultCh'[r] # None
    BY <1>2, <2>1 DEF SubmitResult, Delivered, Late, Ignored
  <2>5. ASSUME q = r PROVE resultCh'[r] # None
    <3>1. Unanswered(r) \/ Answered(r)
      BY <1>1, <2>2 DEF LedgerInv, CallSound
    <3>2. CASE Answered(r)
      BY <1>1, <2>1, <2>3, <2>4, <2>5, <3>2 DEF Answered
    <3>3. CASE Unanswered(r)
      <4>1. Delivered(c, r)
        BY <1>1, <2>1, <2>3, <2>5, <3>3
        DEF SubmitResult, Delivered, Late, Ignored, Unanswered
      <4> QED BY <1>1, <1>2, <2>1, <3>3, <4>1 DEF Delivered, Unanswered
    <3> QED BY <3>1, <3>2, <3>3
  <2>6. ASSUME Carried(r) PROVE Carried(r)'
    <3>1. CASE q = r
      BY <2>5, <3>1 DEF Carried
    <3>2. CASE q # r
      BY <1>2, <2>1, <2>4, <2>6, <3>2 DEF Carried
    <3> QED BY <3>1, <3>2
  <2> QED BY <1>6, <2>1, <2>2, <2>6
<1>13. ASSUME NEW k \in Writers,
              Replace(k) \/ CancelPrevious(k) \/ ClosePrevious(k)
                \/ Welcome(k) \/ ReaderEnds(k) \/ Drained(k)
                \/ ClearIfCurrent(k) \/ AcquireDispatchSlot(k) \/ WriterReturns(k)
                \/ SendRefused(k) \/ GiveSlotBack(k)
       PROVE  Queued(r)' \/ Carried(r)'
  BY <1>7, <1>13
  DEF Replace, CancelPrevious, ClosePrevious,
      Welcome, ReaderEnds, Drained, ClearIfCurrent, AcquireDispatchSlot,
      WriterReturns, SendRefused, GiveSlotBack, hubVars, worldVars, otherConnVars
<1>14. ASSUME NEW k \in Writers, PopCancelled(k) PROVE Queued(r)' \/ Carried(r)'
  <2>1. UNCHANGED <<pending, held, ledgerVars, callVars, onDevice, answering>>
    BY <1>14 DEF PopCancelled, LeavePop, worldVars, otherConnVars
  <2>2. callPc[r] = "waiting" /\ (Carried(r) => Carried(r)')
    BY <2>1 DEF callVars, ledgerVars, Carried
  <2> QED BY <1>4, <1>5, <2>1, <2>2
<1>15. ASSUME NEW k \in Writers, PopAcquired(k) PROVE Queued(r)' \/ Carried(r)'
  <2>1. /\ Pop(k, acquired[k]) /\ acquired[k] \in Sessions /\ held[k] = None
        /\ UNCHANGED <<ledgerVars, callVars, onDevice, answering>>
    BY <1>1, <1>15 DEF PopAcquired, Pop, JobsInv, worldVars, otherConnVars
  <2>2. \A j \in Writers : j # k => held'[j] = held[j]
    BY <1>2, <2>1 DEF Pop, PopJob, PopParks
  <2>3. callPc[r] = "waiting" /\ (Carried(r) => Carried(r)')
    BY <1>1, <2>1, <2>2 DEF callVars, ledgerVars, Carried
  <2>4. \A t \in Sessions : Has(pending[t], r) => Has(pending'[t], r) \/ held'[k] = r
    BY <1>1, <1>3, <2>1, PopKeepsJobs
  <2> QED BY <1>4, <1>5, <2>3, <2>4
<1>16. ASSUME NEW k \in Writers, SendJob(k) PROVE Queued(r)' \/ Carried(r)'
  <2>1. /\ held' = [held EXCEPT ![k] = None]
        /\ onDevice' = onDevice \cup {<<k, held[k]>>}
        /\ UNCHANGED <<queueVars, ledgerVars, callVars, answering>>
    BY <1>16 DEF SendJob, LetGo, otherConnVars
  <2>2. Carried(r) => Carried(r)'
    BY <1>2, <2>1 DEF Carried, ledgerVars
  <2> QED BY <1>6, <2>1, <2>2 DEF callVars
<1>17. ASSUME NEW k \in Writers, RequeueLookup(k) PROVE Queued(r)' \/ Carried(r)'
  <2>1. CASE UNCHANGED hubVars
    BY <1>7, <1>17, <2>1 DEF RequeueLookup, hubVars, worldVars, otherConnVars
  <2>2. CASE LetGo(k) /\ ~Registered(ClientOf[k])
    <3>1. held[k] \in Requests /\ assigned[held[k]] = ClientOf[k]
      BY <1>1, <2>2 DEF LetGo, HubTypeOK, JobsAtHome, Fits
    <3>2. ClientOf[k] \in Clients
      BY ClientOfAssumption
    <3> QED BY <1>1, <2>2, <3>1, <3>2 DEF HomeInv
  <2> QED BY <1>17, <2>1, <2>2 DEF RequeueLookup
\* A job that is put back lands in the queue its call looks in.
<1>18. ASSUME NEW k \in Writers, RequeuePush(k) PROVE Queued(r)' \/ Carried(r)'
  <2> DEFINE s == acquired[k]
  <2>1. /\ s \in Sessions /\ held[k] \in Requests /\ Push(s, held[k])
        /\ held' = [held EXCEPT ![k] = None] /\ writerPc[k] = "putBack"
        /\ UNCHANGED <<ledgerVars, callVars, onDevice, answering>>
    BY <1>1, <1>18
    DEF RequeuePush, PutBack, JobsInv, HubTypeOK, worldVars, otherConnVars
  <2>2. /\ s = sessions[ClientOf[k]] /\ Registered(ClientOf[k])
        /\ ~PushRefused(s, held[k]) /\ ClientOf[k] \in Clients
    BY <1>1, <2>1, ClientOfAssumption DEF HomeInv, NeverRefused
  <2> HIDE DEF s
  <2>3. /\ callPc[r] = "waiting"
        /\ \A t \in Sessions : Has(pending[t], r) => Has(pending'[t], r)
        /\ r = held[k] => Has(pending'[s], r)
    BY <1>1, <1>3, <2>1, <2>2, PushKeepsJobs DEF callVars
  <2>4. CASE r = held[k]
    <3>1. assigned[r] = ClientOf[k]
      BY <1>1, <2>1, <2>4 DEF JobsAtHome, Fits
    <3> QED BY <1>1, <1>3, <2>2, <2>3, <2>4, <3>1 DEF Queued, Registered
  <2>5. CASE r # held[k]
    <3>1. Carried(r) => Carried(r)'
      BY <1>2, <2>1, <2>5 DEF Carried, ledgerVars
    <3> QED BY <1>4, <1>5, <2>3, <3>1
  <2> QED BY <2>4, <2>5
<1>19. ASSUME NEW p \in Requests, CallStep(p) PROVE Queued(r)' \/ Carried(r)'
  <2>1. /\ InvokeStep(p) /\ UNCHANGED <<held, onDevice, answering>>
    BY <1>19
    DEF CallStep, InvokeStep, PickSession, StoreWaiter, PushJob, DropWaiter,
        TakeResult, GiveUp, ExpireWaiter, connVars, worldVars
  <2>2. callPc[r] = "waiting" => resultCh'[r] = resultCh[r]
    BY <1>2, <1>1, <2>1
    DEF InvokeStep, PickSession, StoreWaiter, PushJob, DropWaiter, TakeResult,
        GiveUp, ExpireWaiter, Return, ledgerVars, HubTypeOK
  <2>3. callPc[r] = "waiting" /\ Carried(r) => Carried(r)'
    BY <2>1, <2>2 DEF Carried
  <2>4. CASE UNCHANGED queueVars /\ callPc[r] = "waiting"
    BY <1>6, <2>3, <2>4
  <2>5. CASE PushJob(p) /\ Push(target[p], p)
    <3>1. callPc[p] = "stored" /\ target[p] \in Sessions
      BY <2>5 DEF PushJob, WsInv, HubInv, QueueInv, TargetInv
    <3>2. /\ \A t \in Sessions : Has(pending[t], r) => Has(pending'[t], r)
          /\ r = p /\ ~PushRefused(target[p], p) => Has(pending'[target[p]], r)
      BY <1>1, <1>3, <2>5, <3>1, PushKeepsJobs
    <3>3. CASE callPc[r] = "waiting"
      BY <1>4, <1>5, <2>3, <3>2, <3>3
    <3>4. CASE callPc[r] # "waiting"
      <4>1. r = p
        BY <1>1, <2>5, <3>4 DEF PushJob, HubTypeOK
      <4>2. ~PushRefused(target[p], p)
        BY <1>1, <2>5, <3>1, <4>1, <3>4 DEF PushJob, HubTypeOK
      <4>3. /\ assigned[r] \in Clients /\ Registered(assigned[r])
            /\ target[r] = sessions[assigned[r]]
        BY <1>1, <3>1, <4>1 DEF HomeInv, HubTypeOK
      <4> QED BY <1>1, <1>3, <3>2, <4>1, <4>2, <4>3 DEF Queued, Registered
    <3> QED BY <3>3, <3>4
  <2>6. UNCHANGED queueVars \/ (PushJob(p) /\ Push(target[p], p))
    BY <2>1
    DEF InvokeStep, PickSession, StoreWaiter, PushJob, DropWaiter, TakeResult,
        GiveUp, ExpireWaiter
  <2>7. UNCHANGED queueVars /\ callPc[r] # "waiting" => Push(target[r], r) /\ PushJob(r)
    BY <1>1, <1>3 DEF PushJob, HubTypeOK
  <2>8. CASE UNCHANGED queueVars /\ callPc[r] # "waiting"
    <3>1. callPc[r] = "stored" /\ target[r] \in Sessions /\ ~PushRefused(target[r], r)
      BY <1>1, <2>7, <2>8 DEF PushJob, HubTypeOK, WsInv, HubInv, QueueInv, TargetInv
    <3>2. Has(pending'[target[r]], r)
      BY <1>1, <1>3, <2>7, <2>8, <3>1, PushKeepsJobs
    <3>3. /\ assigned[r] \in Clients /\ Registered(assigned[r])
          /\ target[r] = sessions[assigned[r]]
      BY <1>1, <3>1 DEF HomeInv, HubTypeOK
    <3> QED BY <1>1, <1>3, <3>2, <3>3 DEF Queued, Registered
  <2> QED BY <2>4, <2>5, <2>6, <2>8
<1>20. ASSUME NEW p \in Requests, AdmitCall(p) PROVE Queued(r)' \/ Carried(r)'
  BY <1>7, <1>20 DEF AdmitCall, hubVars, connVars
<1>21. ASSUME NEW p \in Requests, TimePasses(p) PROVE Queued(r)' \/ Carried(r)'
  <2>1. UNCHANGED <<queueVars, held, ledgerVars, callVars, onDevice, answering>>
    BY <1>21 DEF TimePasses, DeadlinePasses, CtxEnds, connVars, worldVars
  <2> QED BY <1>6, <2>1 DEF callVars, ledgerVars, Carried
<1>22. ASSUME NEW k, RetentionPasses(k) \/ DeviceForgets(k) \/ SwitchGroup(k)
       PROVE  FALSE
  BY <1>22 DEF RetentionPasses, DeviceForgets, SwitchGroup, Lossless
<1>23. ASSUME NEW k \in Writers, UnregisterClosed(k) PROVE FALSE
  BY <1>23 DEF UnregisterClosed, CurrentInv
<1>24. ASSUME NEW k, SendFails(k) \/ BreakSocket(k) \/ Logout(k) PROVE FALSE
  BY <1>24 DEF SendFails, BreakSocket, Logout, Unbroken
<1>25. CASE UNCHANGED wsVars
  BY <1>7, <1>25 DEF wsVars, hubVars, connVars, worldVars
<1> QED
  BY <1>9, <1>10, <1>11, <1>12, <1>13, <1>14, <1>15, <1>16, <1>17, <1>18, <1>19,
     <1>20, <1>21, <1>22, <1>23, <1>24, <1>25
  DEF Next, HandlerStep, ReaderStep, WriterStep

\* Put-backs are not refused if there are none, or if every call fits into
\* one queue.
LEMMA PutBackHasRoom ==
  ASSUME WsInv, PlaceInv, (OneEach /\ CalmInv) \/ Roomy
  PROVE  NeverRefused
<1> SUFFICES ASSUME NEW k \in Writers, writerPc[k] = "putBack", held[k] # None
             PROVE  ~PushRefused(acquired[k], held[k])
  BY DEF NeverRefused
<1>1. Roomy
  BY DEF CalmInv
<1>2. acquired[k] \in Sessions /\ held[k] \in Requests /\ HubTypeOK
  BY DEF WsInv, HubInv, JobsInv, HubTypeOK
<1>3. ~Has(pending[acquired[k]], held[k])
  BY <1>2 DEF PlaceInv, Placed
<1> QED BY <1>1, <1>2, <1>3, RoomForAll DEF Roomy

\* No waiting call's job is dropped on the way, as long as the connections and
\* the devices live, whether or not connections replace each other in the
\* middle of a send: the job of a connection that was replaced is put back, and
\* the only thing that can go wrong is that the queue has been filled since.
\* So either devices keep to one connection, or a queue has room for every
\* call.
THEOREM WaitingJobsAreAccounted ==
  ASSUME Lossless, Unbroken, OneEach \/ Roomy
  PROVE  Spec => []JobAccounted
<1> DEFINE SysInv == /\ WsInv /\ PlaceInv /\ RestInv /\ FlowInv
                     /\ CurrentInv /\ HomeInv /\ AccountedInv
                     /\ enabled = Groups /\ (OneEach => CalmInv)
<1>1. Init => SysInv
  BY WsInvInit, PlaceInit, RestInit, FlowInit, CurrentInit, HomeInit, AccountedInit,
     CalmInit DEF Init
<1>2. SysInv /\ [Next]_wsVars => SysInv'
  <2> SUFFICES ASSUME SysInv, [Next]_wsVars PROVE SysInv'
    OBVIOUS
  <2>1. [HubNext]_hubVars /\ HubInv /\ WsTypeOK
    BY ConnStepIsHubStep DEF WsInv
  <2>2. WsInv' /\ PlaceInv' /\ RestInv' /\ enabled' = Groups
    BY <2>1, WsInvStep, PlaceStep, RestStep, GroupsStay
  <2>3. FlowInv'
    BY FlowStep
  <2>4. CurrentInv' /\ HomeInv'
    BY <2>1, CurrentStep, HomeStep DEF WsInv
  <2>5. OneEach => CalmInv'
    BY <2>1, CalmStep
  <2>6. AccountedInv'
    BY PutBackHasRoom, AccountedStep
  <2> QED BY <2>2, <2>3, <2>4, <2>5, <2>6
<1>3. SysInv => JobAccounted
  <2> SUFFICES ASSUME SysInv, NEW r \in Requests, callPc[r] = "waiting", r \notin expired
               PROVE  \/ /\ Registered(assigned[r])
                         /\ r \in Range(pending[sessions[assigned[r]]])
                      \/ Carried(r)
    BY DEF JobAccounted, Carried
  <2>1. CASE Queued(r)
    <3> DEFINE q == pending[sessions[assigned[r]]]
    <3>1. q \in Seq(Requests)
      BY <2>1 DEF Queued, WsInv, HubInv, RegTypeOK, HubTypeOK, Registered
    <3>2. DOMAIN q = 1..Len(q)
      BY <3>1, LenProperties
    <3>3. r \in Range(q)
      BY <2>1, <3>2 DEF Queued, Has, Range
    <3> QED BY <2>1, <3>3 DEF Queued
  <2> QED BY <2>1 DEF AccountedInv
<1> HIDE DEF SysInv
<1> QED BY <1>1, <1>2, <1>3, PTL DEF Spec
=============================================================================
