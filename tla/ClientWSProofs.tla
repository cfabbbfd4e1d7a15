--------------------------- MODULE ClientWSProofs ---------------------------
(***************************************************************************)
(* Proofs about ClientWS, for every set of connections, calls and faults.  *)
(*                                                                         *)
(* Hub lets any writer pop any queue its client ever owned and any client  *)
(* answer any call it was told of.  The connections do a part of that:     *)
(* every step of theirs is a step of Hub or leaves the hub alone.  What    *)
(* makes this more than reading the guards is in JobsInv: a session        *)
(* pointer that a writer keeps between two steps is still that of a        *)
(* session of its client, and the call named in an answer is one whose job *)
(* went out.                                                               *)
(***************************************************************************)
EXTENDS ClientWS, HubProofs

\* What goroutines carry from one step to the next.
JobsInv ==
  /\ \A k \in Writers :
       /\ readerPc[k] \in {"check", "submit"} =>
            answering[k] \in Requests /\ Disclosed(answering[k])
       /\ writerPc[k] \in {"pop", "putBack"} => acquired[k] \in Sessions
       /\ acquired[k] # None => owner[acquired[k]] = ClientOf[k]
       /\ writerPc[k] = "have" => held[k] # None
  /\ \A job \in onDevice : Disclosed(job[2])

\* A connection that has not been in the table yet.
Early(k) == handlerPc[k] \in {"idle", "login", "registered", "present"}

\* What the table of connections and the goroutines that change it know: its
\* entries are connections of the right device, and the one that a handler is
\* about to cancel and close has lost its place for good.
TableInv ==
  /\ \A c \in Clients : binding[c] # None =>
       ClientOf[binding[c]] = c /\ ~Early(binding[c])
  /\ \A k \in Writers :
       /\ handlerPc[k] \in {"replaced", "closing"} => previous[k] # None
       /\ previous[k] # None =>
            /\ ClientOf[previous[k]] = ClientOf[k]
            /\ binding[ClientOf[k]] # previous[k]
            /\ ~Early(previous[k])

-----------------------------------------------------------------------------
(* Steps of the hub inside those of the connections *)

\* Register is one of the hub's two ways to register, and takes no object a
\* writer still points to.
LEMMA RegisterStep ==
  ASSUME WsTypeOK, NEW c \in Clients, NEW g \in Groups, NEW asked \in Limits,
         Register(c, g, asked)
  PROVE  /\ HubNext
         /\ UNCHANGED <<held, callVars>>
         /\ \A k \in Writers :
              acquired[k] # None => owner'[acquired[k]] = owner[acquired[k]]
<1>1. CASE RegisterExisting(c, g, asked) /\ UNCHANGED ownHubVars
  BY <1>1 DEF RegisterExisting, HubNext, RegistryStep, ownHubVars
<1>2. CASE /\ FreeSessions # {}
           /\ RegisterFresh(c, g, asked, CHOOSE s \in FreeSessions : TRUE)
  <2>1. PICK s \in FreeSessions : RegisterFresh(c, g, asked, s)
    BY <1>2
  <2>2. s \in Sessions /\ s \notin Range(acquired)
    BY DEF FreeSessions
  <2>3. HubNext
    BY <2>1, <2>2 DEF HubNext
  <2>4. owner' = [owner EXCEPT ![s] = c] /\ UNCHANGED <<held, callVars>>
    BY <2>1 DEF RegisterFresh, RegisterNew
  <2>5. \A k \in Writers : acquired[k] # s
    BY <2>2 DEF Range, WsTypeOK
  <2> QED BY <2>3, <2>4, <2>5
<1> QED BY <1>1, <1>2 DEF Register

LEMMA TouchStep ==
  ASSUME WsTypeOK, NEW k \in Writers, TouchClientPresence(k)
  PROVE  /\ HubNext
         /\ UNCHANGED <<held, callVars>>
         /\ \A j \in Writers :
              acquired[j] # None => owner'[acquired[j]] = owner[acquired[j]]
<1>1. ClientOf[k] \in Clients /\ ClaimGroup[k] \in Groups /\ ClaimLimit[k] \in Limits
  BY ClientOfAssumption, ClaimsAssumption
<1> QED BY <1>1, RegisterStep DEF TouchClientPresence

\* Every step of the connections is one of the hub, or none.
LEMMA ConnStepIsHubStep ==
  ASSUME HubInv, WsTypeOK, JobsInv, [Next]_wsVars
  PROVE  [HubNext]_hubVars
<1>1. ASSUME NEW k \in Writers PROVE ClientOf[k] \in Clients
  BY ClientOfAssumption
<1>2. ASSUME NEW k \in Writers,
             Login(k) \/ Accept(k) \/ MarkPresent(k) \/ Heartbeat(k)
      PROVE  HubNext
  BY <1>1, <1>2, RegisterStep, ClaimsAssumption
  DEF Login, Accept, MarkPresent, Heartbeat, TouchClientPresence
<1>3. ASSUME NEW k \in Writers, NEW r \in Requests, DeviceAnswers(k, r)
      PROVE  HubNext
  BY <1>3, TouchStep DEF DeviceAnswers, ReceiveResult
<1>4. ASSUME NEW k \in Writers,
             Replace(k) \/ CancelPrevious(k) \/ ClosePrevious(k)
               \/ Welcome(k) \/ ReaderEnds(k) \/ Drained(k)
               \/ ClearIfCurrent(k) \/ SendRefused(k) \/ SendFails(k)
               \/ BreakSocket(k)
      PROVE  UNCHANGED hubVars
  BY <1>4 DEF Replace, CancelPrevious, ClosePrevious, Welcome, ReaderEnds,
              Drained, ClearIfCurrent, SendRefused,
              SendFails, BreakSocket
<1>5. ASSUME NEW k \in Writers, UnregisterClosed(k) PROVE [HubNext]_hubVars
  BY <1>1, <1>5 DEF UnregisterClosed, HubNext, RegistryStep, hubVars
<1>6. ASSUME NEW k \in Writers, ReaderStep(k) PROVE [HubNext]_hubVars
  <2>1. CASE CheckGroup(k)
    BY <2>1, TouchStep DEF CheckGroup
  <2>2. CASE Submit(k)
    <3>1. answering[k] \in Requests /\ Disclosed(answering[k])
      BY <2>2 DEF Submit, JobsInv
    <3> QED BY <1>1, <2>2, <3>1 DEF Submit, HubNext
  <2> QED BY <1>6, <2>1, <2>2 DEF ReaderStep
<1>7. ASSUME NEW k \in Writers,
             AcquireDispatchSlot(k) \/ WriterReturns(k) \/ GiveSlotBack(k)
      PROVE  [HubNext]_hubVars
  <2>1. UNCHANGED ownHubVars
    BY <1>7 DEF AcquireDispatchSlot, WriterReturns, GiveSlotBack
  <2>2. \/ TakeSlot(k) \/ ParkForSlot(k) \/ StopWaiting(k)
        \/ ReleaseDispatch(ClientOf[k]) \/ UNCHANGED regVars
    BY <1>7 DEF AcquireDispatchSlot, WriterReturns, GiveSlotBack,
                ReleaseIfRegistered
  <2> QED BY <1>1, <2>1, <2>2 DEF HubNext, RegistryStep, hubVars
<1>8. ASSUME NEW k \in Writers, PopAcquired(k) \/ RequeuePush(k)
      PROVE  HubNext
  <2>1. /\ acquired[k] \in Sessions
        /\ Pop(k, acquired[k]) \/ PutBack(k, acquired[k])
    BY <1>8 DEF PopAcquired, RequeuePush, JobsInv
  <2>2. owner[acquired[k]] = ClientOf[k]
    BY <2>1, SessionsAssumption DEF JobsInv
  <2> QED BY <2>1, <2>2 DEF HubNext
<1>9. ASSUME NEW k \in Writers, PopCancelled(k) \/ SendJob(k)
      PROVE  HubNext
  BY <1>9 DEF PopCancelled, SendJob, HubNext
<1>10. ASSUME NEW k \in Writers, RequeueLookup(k) PROVE [HubNext]_hubVars
  BY <1>10 DEF RequeueLookup, HubNext
<1>11. ASSUME NEW r \in Requests, AdmitCall(r) PROVE UNCHANGED hubVars
  BY <1>11 DEF AdmitCall
<1>12. ASSUME NEW r \in Requests,
              CallStep(r) \/ TimePasses(r) \/ RetentionPasses(r)
       PROVE  HubNext
  BY <1>12 DEF CallStep, TimePasses, RetentionPasses, HubNext
<1>13. ASSUME NEW c \in Clients, Logout(c) PROVE HubNext
  BY <1>13 DEF Logout, HubNext, RegistryStep
<1>14. ASSUME NEW c, DeviceForgets(c) \/ SwitchGroup(c) PROVE UNCHANGED hubVars
  BY <1>14 DEF DeviceForgets, SwitchGroup
<1>15. CASE UNCHANGED wsVars
  BY <1>15 DEF wsVars
<1> QED
  BY <1>2, <1>3, <1>4, <1>5, <1>6, <1>7, <1>8, <1>9, <1>10, <1>11, <1>12, <1>13,
     <1>14, <1>15 DEF Next, HandlerStep, WriterStep

\* A call whose job went out stays one.
LEMMA StaysDisclosed ==
  ASSUME HubTypeOK, [HubNext]_hubVars, NEW r \in Requests, Disclosed(r)
  PROVE  Disclosed(r)'
<1>1. DOMAIN callPc = Requests
  BY DEF HubTypeOK
<1>2. ASSUME NEW q \in Requests, InvokeStep(q) PROVE Disclosed(r)'
  <2>1. \/ \E pc \in {"waiting", "expiring", "done"} :
             callPc' = [callPc EXCEPT ![q] = pc]
        \/ /\ \E pc : callPc' = [callPc EXCEPT ![q] = pc]
           /\ callPc[q] \in {"idle", "picked", "stored"}
    BY <1>2
    DEF InvokeStep, PickSession, PickPreferred, PickInGroup, Assign, Return,
        StoreWaiter, PushJob, DropWaiter, TakeResult, GiveUp, ExpireWaiter
  <2> QED BY <1>1, <2>1 DEF Disclosed
<1>3. ASSUME UNCHANGED callVars PROVE Disclosed(r)'
  BY <1>3 DEF callVars, Disclosed
<1>4. ASSUME NEW q, DeadlinePasses(q) \/ CtxEnds(q) \/ Age(q)
      PROVE  UNCHANGED callVars
  BY <1>4 DEF DeadlinePasses, CtxEnds, Age
<1>5. ASSUME NEW c, NEW q, SubmitResult(c, q) PROVE UNCHANGED callVars
  BY <1>5 DEF SubmitResult
<1>6. ASSUME NEW c, NEW g, NEW asked, NEW s, RegisterFresh(c, g, asked, s)
      PROVE  UNCHANGED callVars
  BY <1>6 DEF RegisterFresh
<1>7. ASSUME NEW w, NEW s, Pop(w, s) \/ PutBack(w, s) \/ LeavePop(w) \/ LetGo(w)
      PROVE  UNCHANGED callVars
  BY <1>7 DEF Pop, PutBack, LeavePop, LetGo
<1>8. ASSUME RegistryStep \/ UNCHANGED hubVars PROVE UNCHANGED callVars
  BY <1>8 DEF RegistryStep, hubVars, ownHubVars
<1> QED
  BY <1>2, <1>3, <1>4, <1>5, <1>6, <1>7, <1>8 DEF HubNext

-----------------------------------------------------------------------------
(* Types *)

LEMMA WsTypeInit == Init => WsTypeOK
BY DEF Init, WsTypeOK

LEMMA WsTypeStep ==
  HubInv /\ WsTypeOK /\ JobsInv /\ TableInv /\ [Next]_wsVars => WsTypeOK'
<1> SUFFICES ASSUME HubInv, WsTypeOK, JobsInv, TableInv, [Next]_wsVars
             PROVE  WsTypeOK'
  OBVIOUS
<1>1. ASSUME NEW k \in Writers
      PROVE  ClientOf[k] \in Clients /\ held[k] \in Requests \cup {None}
             /\ sessions[ClientOf[k]] \in Sessions \cup {None}
  BY ClientOfAssumption DEF HubInv, HubTypeOK, RegTypeOK
<1>2. ASSUME NEW k \in Writers,
             Login(k) \/ Accept(k) \/ MarkPresent(k) \/ Heartbeat(k)
      PROVE  WsTypeOK'
  BY <1>2 DEF Login, Accept, MarkPresent, Heartbeat, WsTypeOK, worldVars, connVars
<1>3. ASSUME NEW k \in Writers, NEW r \in Requests, DeviceAnswers(k, r)
      PROVE  WsTypeOK'
  BY <1>3 DEF DeviceAnswers, ReceiveResult, WsTypeOK
<1>4. ASSUME NEW k \in Writers, Replace(k) PROVE WsTypeOK'
  BY <1>1, <1>4 DEF Replace, WsTypeOK, worldVars
<1>5. ASSUME NEW k \in Writers, Welcome(k) \/ ReaderEnds(k) \/ Drained(k)
      PROVE  WsTypeOK'
  BY <1>5 DEF Welcome, ReaderEnds, Drained, WsTypeOK, worldVars
<1>6. ASSUME NEW k \in Writers, ClearIfCurrent(k) \/ UnregisterClosed(k)
      PROVE  WsTypeOK'
  BY <1>1, <1>6 DEF ClearIfCurrent, UnregisterClosed, WsTypeOK, worldVars
<1>7. ASSUME NEW k \in Writers, ReaderStep(k) PROVE WsTypeOK'
  BY <1>7 DEF ReaderStep, CheckGroup, Submit, WsTypeOK, worldVars
<1>8. ASSUME NEW k \in Writers, AcquireDispatchSlot(k) \/ WriterReturns(k)
      PROVE  WsTypeOK'
  BY <1>1, <1>8 DEF AcquireDispatchSlot, WriterReturns, WriterGoes, WsTypeOK,
                    worldVars, otherConnVars
<1>9. ASSUME NEW k \in Writers, PopAcquired(k) \/ PopCancelled(k)
      PROVE  WsTypeOK'
  BY <1>9 DEF PopAcquired, PopCancelled, WriterGoes, WsTypeOK, worldVars,
              otherConnVars
<1>10. ASSUME NEW k \in Writers, SendJob(k) \/ SendFails(k) PROVE WsTypeOK'
  <2>1. held[k] \in Requests
    BY <1>1, <1>10 DEF SendJob, SendFails, JobsInv
  <2> QED
    BY <1>10, <2>1 DEF SendJob, SendFails, WriterGoes, WsTypeOK, otherConnVars
<1>11. ASSUME NEW k \in Writers,
              SendRefused(k) \/ GiveSlotBack(k) \/ RequeuePush(k)
       PROVE  WsTypeOK'
  BY <1>11 DEF SendRefused, GiveSlotBack, RequeuePush, WriterGoes, WsTypeOK,
               worldVars, otherConnVars
<1>12. ASSUME NEW k \in Writers, RequeueLookup(k) PROVE WsTypeOK'
  BY <1>1, <1>12 DEF RequeueLookup, WriterGoes, WsTypeOK, worldVars,
                     otherConnVars
<1>13. ASSUME NEW k \in Writers, BreakSocket(k) PROVE WsTypeOK'
  BY <1>13 DEF BreakSocket, WsTypeOK, worldVars
<1>14. ASSUME NEW r \in Requests,
              AdmitCall(r) \/ CallStep(r) \/ TimePasses(r) \/ RetentionPasses(r)
       PROVE  WsTypeOK'
  BY <1>14 DEF AdmitCall, CallStep, TimePasses, RetentionPasses, WsTypeOK,
               worldVars, connVars
<1>15. ASSUME NEW c \in Clients, DeviceForgets(c) \/ Logout(c) PROVE WsTypeOK'
  BY <1>15 DEF DeviceForgets, Logout, WsTypeOK, worldVars, connVars
<1>16. ASSUME NEW g \in Groups, SwitchGroup(g) PROVE WsTypeOK'
  BY <1>16 DEF SwitchGroup, WsTypeOK, connVars
<1>17. CASE UNCHANGED wsVars
  BY <1>17 DEF wsVars, connVars, worldVars, WsTypeOK
<1>18. ASSUME NEW k \in Writers, CancelPrevious(k) \/ ClosePrevious(k)
       PROVE  WsTypeOK'
  <2>1. previous[k] \in Writers
    BY <1>18 DEF CancelPrevious, ClosePrevious, TableInv, WsTypeOK
  <2> QED
    BY <1>18, <2>1 DEF CancelPrevious, ClosePrevious, WsTypeOK, worldVars
<1> QED
  BY <1>2, <1>3, <1>4, <1>5, <1>6, <1>7, <1>8, <1>9, <1>10, <1>11, <1>12, <1>13,
     <1>14, <1>15, <1>16, <1>17, <1>18 DEF Next, HandlerStep, WriterStep

-----------------------------------------------------------------------------
(* What the goroutines carry *)

LEMMA JobsInit == Init => JobsInv
BY DEF Init, JobsInv

LEMMA JobsStep ==
  HubInv /\ WsTypeOK /\ JobsInv /\ [Next]_wsVars => JobsInv'
<1> SUFFICES ASSUME HubInv, WsTypeOK, JobsInv, [Next]_wsVars PROVE JobsInv'
  OBVIOUS
<1> DEFINE
  Spared == \A j \in Writers :
              acquired[j] # None => owner'[acquired[j]] = owner[acquired[j]]
  Out(r) == callPc'[r] \in {"waiting", "expiring", "done"}
  Carries(j, reads, answers, writes, takes, holds) ==
    /\ reads[j] \in {"check", "submit"} => answers[j] \in Requests /\ Out(answers[j])
    /\ writes[j] \in {"pop", "putBack"} => takes[j] \in Sessions
    /\ takes[j] # None => owner'[takes[j]] = ClientOf[j]
    /\ writes[j] = "have" => holds[j] # None
  Carried(j) == Carries(j, readerPc', answering', writerPc', acquired', held')
<1>1. [HubNext]_hubVars
  BY ConnStepIsHubStep
<1>2. ASSUME NEW r \in Requests, Disclosed(r) PROVE Out(r)
  <2>1. Disclosed(r)'
    BY <1>1, <1>2, StaysDisclosed DEF HubInv
  <2> QED BY <2>1 DEF Disclosed
<1>3. ASSUME NEW job \in onDevice PROVE Out(job[2])
  BY <1>2, <1>3 DEF JobsInv, WsTypeOK
<1>4. ASSUME \A j \in Writers : Carried(j), \A job \in onDevice' : Out(job[2])
      PROVE  JobsInv'
  BY <1>4 DEF JobsInv, Disclosed
<1>5. ASSUME Spared, NEW j \in Writers
      PROVE  Carries(j, readerPc, answering, writerPc, acquired, held)
  BY <1>2, <1>5 DEF JobsInv
<1>6. ASSUME Spared,
             UNCHANGED <<readerPc, answering, writerPc, acquired, held>>,
             onDevice' \subseteq onDevice
      PROVE  JobsInv'
  BY <1>3, <1>4, <1>5, <1>6
<1>7. UNCHANGED owner => Spared
  OBVIOUS
<1>8. /\ DOMAIN readerPc = Writers /\ DOMAIN answering = Writers
      /\ DOMAIN writerPc = Writers /\ DOMAIN acquired = Writers
      /\ DOMAIN held = Writers
      /\ \A w \in Writers : held[w] \in Requests \cup {None}
  BY DEF WsTypeOK, HubInv, HubTypeOK
\* One goroutine k moves and the others carry what they carried.
<1>9. ASSUME Spared, NEW k \in Writers,
             \A j \in Writers \ {k} :
               /\ readerPc'[j] = readerPc[j] /\ answering'[j] = answering[j]
               /\ writerPc'[j] = writerPc[j] /\ acquired'[j] = acquired[j]
               /\ held'[j] = held[j],
             Carried(k), \A job \in onDevice' : Out(job[2])
      PROVE  JobsInv'
  <2>1. ASSUME NEW j \in Writers \ {k} PROVE Carried(j)
    BY <1>5, <1>9, <2>1
  <2> HIDE DEF Carried, Out
  <2> QED BY <1>4, <1>9, <2>1
<1>10. ASSUME NEW k \in Writers,
              Login(k) \/ Accept(k) \/ MarkPresent(k) \/ Heartbeat(k)
       PROVE  JobsInv'
  <2>1. Spared /\ UNCHANGED held
    BY <1>10, RegisterStep, ClaimsAssumption, ClientOfAssumption
    DEF Login, Accept, MarkPresent, Heartbeat, TouchClientPresence
  <2>2. UNCHANGED <<readerPc, answering, writerPc, acquired, onDevice>>
    BY <1>10 DEF Login, Accept, MarkPresent, Heartbeat, worldVars, connVars
  <2> QED BY <1>6, <2>1, <2>2
<1>11. ASSUME NEW k \in Writers, NEW r \in Requests, DeviceAnswers(k, r)
       PROVE  JobsInv'
  <2>1. PICK origin \in Writers : ReceiveResult(k, <<origin, r>>)
    BY <1>11 DEF DeviceAnswers
  <2>2. /\ TouchClientPresence(k) /\ <<origin, r>> \in onDevice
        /\ onDevice' = onDevice \ {<<origin, r>>}
        /\ readerPc' = [readerPc EXCEPT ![k] = "check"]
        /\ answering' = [answering EXCEPT ![k] = r]
        /\ UNCHANGED <<writerPc, acquired>>
    BY <2>1 DEF ReceiveResult
  <2>3. Spared /\ UNCHANGED held
    BY <2>2, TouchStep
  <2>4. Out(r)
    BY <1>3, <2>2
  <2>5. Carries(k, readerPc, answering, writerPc, acquired, held)
    BY <1>5, <2>3
  <2>6. Carried(k)
    BY <1>8, <2>2, <2>3, <2>4, <2>5
  <2>7. \A j \in Writers \ {k} :
          readerPc'[j] = readerPc[j] /\ answering'[j] = answering[j]
    BY <1>8, <2>2
  <2> HIDE DEF Carried, Spared, Out
  <2> QED BY <1>3, <1>9, <2>2, <2>3, <2>6, <2>7
<1>12. ASSUME NEW k \in Writers,
              Replace(k) \/ CancelPrevious(k) \/ ClosePrevious(k)
                \/ ReaderEnds(k) \/ Drained(k) \/ ClearIfCurrent(k)
                \/ BreakSocket(k) \/ UnregisterClosed(k)
       PROVE  JobsInv'
  <2>1. UNCHANGED <<readerPc, answering, writerPc, acquired, onDevice, held>>
    BY <1>12 DEF Replace, CancelPrevious, ClosePrevious,
                 ReaderEnds, Drained, ClearIfCurrent, BreakSocket,
                 UnregisterClosed, worldVars, hubVars, ownHubVars
  <2>2. UNCHANGED owner
    BY <1>12 DEF Replace, CancelPrevious, ClosePrevious,
                 ReaderEnds, Drained, ClearIfCurrent, BreakSocket,
                 UnregisterClosed, Unregister, hubVars, regVars, objectVars
  <2> QED BY <1>6, <1>7, <2>1, <2>2
<1>13. ASSUME NEW k \in Writers, Welcome(k) PROVE JobsInv'
  <2>1. /\ UNCHANGED <<readerPc, answering, acquired, onDevice, held, owner>>
        /\ writerPc' = [writerPc EXCEPT ![k] = "acquire"] \/ UNCHANGED writerPc
    BY <1>13 DEF Welcome, worldVars, hubVars, ownHubVars, regVars, objectVars
  <2>2. Carries(k, readerPc, answering, writerPc, acquired, held)
    BY <1>5, <1>7, <2>1
  <2>3. Carried(k)
    BY <1>8, <2>1, <2>2
  <2>4. \A j \in Writers \ {k} : writerPc'[j] = writerPc[j]
    BY <1>8, <2>1
  <2> HIDE DEF Carried, Spared, Out
  <2> QED BY <1>3, <1>7, <1>9, <2>1, <2>3, <2>4
<1>14. ASSUME NEW k \in Writers, ReaderStep(k) PROVE JobsInv'
  <2>1. CASE CheckGroup(k)
    <3>1. /\ Spared /\ UNCHANGED <<writerPc, acquired, onDevice, held>>
          /\ readerPc[k] = "check"
          /\ \/ /\ readerPc' = [readerPc EXCEPT ![k] = "submit"]
                /\ UNCHANGED answering
             \/ /\ readerPc' = [readerPc EXCEPT ![k] = "read"]
                /\ answering' = [answering EXCEPT ![k] = None]
      <4>1. CASE TouchClientPresence(k)
        BY <2>1, <4>1, TouchStep DEF CheckGroup, worldVars
      <4>2. CASE ~TouchClientPresence(k)
        BY <2>1, <4>2 DEF CheckGroup, worldVars, hubVars, ownHubVars, regVars,
                          objectVars
      <4> QED BY <4>1, <4>2
    <3>2. Carries(k, readerPc, answering, writerPc, acquired, held)
      BY <1>5, <3>1
    <3>3. Carried(k)
      BY <1>8, <3>1, <3>2
    <3>4. \A j \in Writers \ {k} :
            readerPc'[j] = readerPc[j] /\ answering'[j] = answering[j]
      BY <1>8, <3>1
    <3> HIDE DEF Carried, Spared, Out
    <3> QED BY <1>3, <1>9, <3>1, <3>3, <3>4
  <2>2. CASE Submit(k)
    <3>1. /\ UNCHANGED <<writerPc, acquired, onDevice, held, owner>>
          /\ readerPc' = [readerPc EXCEPT ![k] = "read"]
          /\ answering' = [answering EXCEPT ![k] = None]
      BY <2>2 DEF Submit, SubmitResult, Delivered, Late, Ignored,
                  ReleaseIfRegistered, ReleaseDispatch, worldVars, regVars,
                  objectVars
    <3>2. Carries(k, readerPc, answering, writerPc, acquired, held)
      BY <1>5, <1>7, <3>1
    <3>3. Carried(k)
      BY <1>8, <3>1, <3>2
    <3>4. \A j \in Writers \ {k} :
            readerPc'[j] = readerPc[j] /\ answering'[j] = answering[j]
      BY <1>8, <3>1
    <3> HIDE DEF Carried, Spared, Out
    <3> QED BY <1>3, <1>7, <1>9, <3>1, <3>3, <3>4
  <2> QED BY <1>14, <2>1, <2>2 DEF ReaderStep
<1>15. ASSUME NEW k \in Writers, WriterStep(k) \/ SendFails(k) PROVE JobsInv'
  <2>1. UNCHANGED <<readerPc, answering, owner>>
    BY <1>15
    DEF WriterStep, AcquireDispatchSlot, WriterReturns, PopAcquired, PopCancelled,
        SendJob, SendRefused, SendFails, GiveSlotBack, RequeueLookup, RequeuePush,
        TakeSlot, ParkForSlot, StopWaiting, Pop, LeavePop, LetGo, PutBack,
        ReleaseIfRegistered, ReleaseDispatch, otherConnVars, hubVars, regVars,
        objectVars
  <2>2. Spared /\ Carries(k, readerPc, answering, writerPc, acquired, held)
    BY <1>5, <1>7, <2>1
  <2>3. ASSUME NEW j \in Writers \ {k}
        PROVE  /\ writerPc'[j] = writerPc[j] /\ acquired'[j] = acquired[j]
               /\ held'[j] = held[j]
    BY <1>8, <1>15, <2>3
    DEF WriterStep, AcquireDispatchSlot, WriterReturns, PopAcquired, PopCancelled,
        SendJob, SendRefused, SendFails, GiveSlotBack, RequeueLookup, RequeuePush,
        Pop, PopJob, PopParks, LeavePop, LetGo, PutBack, WriterGoes, hubVars,
        ownHubVars
  <2>4. CASE AcquireDispatchSlot(k)
    <3>1. sessions[ClientOf[k]] # None =>
            /\ sessions[ClientOf[k]] \in Sessions
            /\ owner[sessions[ClientOf[k]]] = ClientOf[k]
      BY ClientOfAssumption
      DEF HubInv, RegTypeOK, RosterInv, OwnerInv, Registered
    <3>2. UNCHANGED <<held, onDevice>>
      BY <2>4 DEF AcquireDispatchSlot, ownHubVars, worldVars
    <3>3. \/ /\ sessions[ClientOf[k]] # None
             /\ acquired' = [acquired EXCEPT ![k] = sessions[ClientOf[k]]]
             /\ writerPc' = [writerPc EXCEPT ![k] = "pop"]
          \/ UNCHANGED <<acquired, writerPc>>
      BY <2>4 DEF AcquireDispatchSlot, TakeSlot, WriterGoes
    <3>4. Carried(k)
      BY <1>8, <2>1, <2>2, <3>1, <3>2, <3>3
    <3> HIDE DEF Carried, Spared, Out
    <3> QED BY <1>3, <1>9, <2>1, <2>2, <2>3, <3>2, <3>4
  <2>5. CASE PopAcquired(k)
    <3>1. /\ UNCHANGED <<acquired, onDevice>> /\ writerPc[k] = "pop"
          /\ writerPc' = [writerPc EXCEPT
                            ![k] = IF held'[k] = None THEN "pop" ELSE "have"]
      BY <2>5 DEF PopAcquired, WriterGoes, worldVars
    <3>2. Carried(k)
      BY <1>8, <2>1, <2>2, <3>1
    <3> HIDE DEF Carried, Spared, Out
    <3> QED BY <1>3, <1>9, <2>1, <2>2, <2>3, <3>1, <3>2
  <2>6. CASE RequeueLookup(k)
    <3>1. sessions[ClientOf[k]] # None =>
            /\ sessions[ClientOf[k]] \in Sessions
            /\ owner[sessions[ClientOf[k]]] = ClientOf[k]
      BY ClientOfAssumption
      DEF HubInv, RegTypeOK, RosterInv, OwnerInv, Registered
    <3>2. /\ UNCHANGED onDevice
          /\ \/ /\ sessions[ClientOf[k]] # None
                /\ acquired' = [acquired EXCEPT ![k] = sessions[ClientOf[k]]]
                /\ writerPc' = [writerPc EXCEPT ![k] = "putBack"]
             \/ /\ UNCHANGED acquired
                /\ writerPc' = [writerPc EXCEPT ![k] = "done"]
      BY <2>6 DEF RequeueLookup, Registered, WriterGoes, worldVars
    <3>3. Carried(k)
      BY <1>8, <2>1, <2>2, <3>1, <3>2
    <3> HIDE DEF Carried, Spared, Out
    <3> QED BY <1>3, <1>9, <2>1, <2>2, <2>3, <3>2, <3>3
  <2>7. CASE SendJob(k) \/ SendFails(k)
    <3>1. held[k] \in Requests /\ Disclosed(held[k])
      BY <1>8, <2>7 DEF SendJob, SendFails, HubInv, QueueInv, JobsAtHome, Fits,
                        JobsInv
    <3>2. /\ onDevice' \subseteq onDevice \cup {<<k, held[k]>>}
          /\ acquired' = [acquired EXCEPT ![k] = None] \/ UNCHANGED acquired
          /\ writerPc' = [writerPc EXCEPT ![k] = "acquire"]
               \/ writerPc' = [writerPc EXCEPT ![k] = "release"]
      BY <2>7 DEF SendJob, SendFails, WriterGoes
    <3>3. Out(held[k])
      BY <1>2, <3>1
    <3>4. \A job \in onDevice' : Out(job[2])
      BY <1>3, <3>2, <3>3
    <3>5. Carried(k)
      BY <1>8, <2>1, <2>2, <3>2
    <3> HIDE DEF Carried, Spared, Out
    <3> QED BY <1>9, <2>1, <2>2, <2>3, <3>4, <3>5
  <2>8. CASE WriterReturns(k) \/ PopCancelled(k) \/ SendRefused(k)
               \/ GiveSlotBack(k) \/ RequeuePush(k)
    <3>1. /\ UNCHANGED onDevice
          /\ acquired' = [acquired EXCEPT ![k] = None] \/ UNCHANGED acquired
          /\ \E to \in {"done", "release", "requeue"} :
               writerPc' = [writerPc EXCEPT ![k] = to]
      BY <2>8 DEF WriterReturns, PopCancelled, SendRefused, GiveSlotBack,
                  RequeuePush, WriterGoes, worldVars
    <3>2. Carried(k)
      BY <1>8, <2>1, <2>2, <3>1
    <3> HIDE DEF Carried, Spared, Out
    <3> QED BY <1>3, <1>9, <2>1, <2>2, <2>3, <3>1, <3>2
  <2> QED
    BY <1>15, <2>4, <2>5, <2>6, <2>7, <2>8 DEF WriterStep
<1>16. ASSUME NEW r \in Requests, AdmitCall(r) PROVE JobsInv'
  BY <1>6, <1>7, <1>16 DEF AdmitCall, connVars, hubVars, ownHubVars, regVars,
                           objectVars
<1>17. ASSUME NEW r \in Requests,
              CallStep(r) \/ TimePasses(r) \/ RetentionPasses(r)
       PROVE  JobsInv'
  <2>1. UNCHANGED <<owner, held, connVars, worldVars>>
    BY <1>17
    DEF CallStep, TimePasses, RetentionPasses, Age, InvokeStep, DeadlinePasses,
        CtxEnds, PickSession,
        PickPreferred, PickInGroup, PickRoundRobin, StoreWaiter, PushJob,
        DropWaiter, TakeResult, GiveUp, ExpireWaiter, regVars, objectVars
  <2> QED BY <1>6, <1>7, <2>1 DEF connVars, worldVars
<1>18. ASSUME NEW c \in Clients, DeviceForgets(c) \/ Logout(c) PROVE JobsInv'
  <2>1. /\ UNCHANGED <<owner, held, connVars>> /\ onDevice' \subseteq onDevice
    BY <1>18 DEF DeviceForgets, Logout, Unregister, hubVars, ownHubVars, regVars,
                 objectVars, worldVars
  <2> QED BY <1>6, <1>7, <2>1 DEF connVars
<1>19. ASSUME NEW g \in Groups, SwitchGroup(g) PROVE JobsInv'
  BY <1>6, <1>7, <1>19 DEF SwitchGroup, connVars, hubVars, ownHubVars, regVars,
                           objectVars
<1>20. CASE UNCHANGED wsVars
  BY <1>6, <1>7, <1>20 DEF wsVars, worldVars, connVars, hubVars, ownHubVars,
                           regVars, objectVars
<1> QED
  BY <1>10, <1>11, <1>12, <1>13, <1>14, <1>15, <1>16, <1>17, <1>18, <1>19, <1>20
  DEF Next, HandlerStep

-----------------------------------------------------------------------------
(* The table of connections *)

\* Goroutines other than a connection's handler leave the table alone.
LEMMA OthersKeepTable ==
  ASSUME NEW k \in Writers,
         ReaderStep(k) \/ WriterStep(k) \/ Heartbeat(k) \/ SendFails(k)
           \/ BreakSocket(k) \/ \E r \in Requests : DeviceAnswers(k, r)
  PROVE  UNCHANGED <<handlerPc, binding, previous, cancelled>>
BY DEF ReaderStep, CheckGroup, Submit, WriterStep, AcquireDispatchSlot,
       WriterReturns, PopAcquired, PopCancelled, SendJob, SendRefused, GiveSlotBack,
       RequeueLookup, RequeuePush, Heartbeat, SendFails, BreakSocket,
       DeviceAnswers, ReceiveResult, otherConnVars, connVars

LEMMA TableInit == Init => TableInv
BY DEF Init, TableInv

LEMMA TableStep ==
  WsTypeOK /\ TableInv /\ [Next]_wsVars => TableInv'
<1> SUFFICES ASSUME WsTypeOK, TableInv, [Next]_wsVars PROVE TableInv'
  OBVIOUS
<1>1. /\ DOMAIN handlerPc = Writers /\ DOMAIN binding = Clients
      /\ DOMAIN previous = Writers
      /\ ClientOf \in [Writers -> Clients] /\ None \notin Writers
      /\ \A c \in Clients : binding[c] \in Writers \cup {None}
      /\ \A k \in Writers : previous[k] \in Writers \cup {None}
  BY ClientOfAssumption, ClaimsAssumption DEF WsTypeOK
<1>2. ASSUME UNCHANGED <<handlerPc, binding, previous>> PROVE TableInv'
  BY <1>2 DEF TableInv, Early
\* One handler moves on, in the table or to it, and only gives its place up.
<1>3. ASSUME NEW k \in Writers,
             \A j \in Writers \ {k} : handlerPc'[j] = handlerPc[j],
             Early(k)' => Early(k),
             handlerPc'[k] \in {"replaced", "closing"} => previous'[k] # None,
             \A j \in Writers : previous'[j] = previous[j] \/ previous'[j] = None,
             \A j \in Writers \ {k} : previous'[j] = previous[j],
             \A c \in Clients : binding'[c] = binding[c] \/ binding'[c] = None
      PROVE  TableInv'
  <2>1. ASSUME NEW j \in Writers, ~Early(j) PROVE ~Early(j)'
    BY <1>3, <2>1 DEF Early
  <2>2. ASSUME NEW c \in Clients, binding'[c] # None
        PROVE  ClientOf[binding'[c]] = c /\ ~Early(binding[c])'
    <3>1. binding'[c] = binding[c] /\ binding[c] \in Writers
      BY <1>1, <1>3, <2>2
    <3>2. ~Early(binding[c]) /\ ClientOf[binding[c]] = c
      BY <2>2, <3>1 DEF TableInv
    <3> QED BY <2>1, <3>1, <3>2 DEF Early
  <2>3. ASSUME NEW j \in Writers, previous'[j] # None
        PROVE  /\ ClientOf[previous'[j]] = ClientOf[j]
               /\ binding'[ClientOf[j]] # previous'[j]
               /\ ~Early(previous[j])'
    <3>1. previous'[j] = previous[j] /\ previous[j] \in Writers
      BY <1>1, <1>3, <2>3
    <3>2. /\ ClientOf[previous[j]] = ClientOf[j] /\ ~Early(previous[j])
          /\ binding[ClientOf[j]] # previous[j] /\ ClientOf[j] \in Clients
      BY <1>1, <2>3, <3>1 DEF TableInv
    <3>3. binding'[ClientOf[j]] # previous'[j]
      BY <1>1, <1>3, <3>1, <3>2
    <3> QED BY <2>1, <3>1, <3>2, <3>3 DEF Early
  <2>4. ASSUME NEW j \in Writers, handlerPc'[j] \in {"replaced", "closing"}
        PROVE  previous'[j] # None
    BY <1>3, <2>4 DEF TableInv
  <2> QED BY <2>2, <2>3, <2>4 DEF TableInv
<1>4. ASSUME NEW k \in Writers,
             Login(k) \/ Accept(k) \/ MarkPresent(k) \/ CancelPrevious(k)
               \/ ClosePrevious(k) \/ Welcome(k) \/ ReaderEnds(k) \/ Drained(k)
               \/ ClearIfCurrent(k) \/ UnregisterClosed(k)
      PROVE  TableInv'
  <2>1. /\ \A j \in Writers \ {k} : handlerPc'[j] = handlerPc[j]
        /\ Early(k)' => Early(k)
    BY <1>1, <1>4
    DEF Login, Accept, MarkPresent, CancelPrevious, ClosePrevious, Welcome,
        ReaderEnds, Drained, ClearIfCurrent, UnregisterClosed, Early
  <2>2. /\ UNCHANGED previous \/ previous' = [previous EXCEPT ![k] = None]
        /\ handlerPc'[k] \in {"replaced", "closing"} => previous'[k] # None
        /\ UNCHANGED binding \/ binding' = [binding EXCEPT ![ClientOf[k]] = None]
    BY <1>1, <1>4
    DEF Login, Accept, MarkPresent, CancelPrevious, ClosePrevious, Welcome,
        ReaderEnds, Drained, ClearIfCurrent, UnregisterClosed, TableInv
  <2> QED BY <1>1, <1>3, <2>1, <2>2
\* A connection that enters the table was in nobody's way before.
<1>5. ASSUME NEW k \in Writers, Replace(k) PROVE TableInv'
  <2> DEFINE c == ClientOf[k]
  <2>1. /\ handlerPc[k] = "present"
        /\ handlerPc' = [handlerPc EXCEPT
                           ![k] = IF binding[c] = None THEN "bound" ELSE "replaced"]
        /\ binding' = [binding EXCEPT ![c] = k]
        /\ previous' = [previous EXCEPT ![k] = binding[c]]
    BY <1>5 DEF Replace
  <2>2. /\ Early(k) /\ ~Early(k)' /\ c \in Clients
        /\ \A j \in Writers \ {k} : Early(j)' <=> Early(j)
    BY <1>1, <2>1 DEF Early
  <2>3. ASSUME NEW d \in Clients, binding'[d] # None
        PROVE  ClientOf[binding'[d]] = d /\ ~Early(binding[d])'
    <3>1. CASE d = c
      <4>1. binding'[d] = k
        BY <1>1, <2>1, <3>1
      <4> QED BY <2>2, <3>1, <4>1 DEF Early
    <3>2. CASE d # c
      <4>1. binding'[d] = binding[d] /\ binding[d] \in Writers
        BY <1>1, <2>1, <2>3, <3>2
      <4>2. ClientOf[binding[d]] = d /\ ~Early(binding[d])
        BY <2>3, <4>1 DEF TableInv
      <4> QED BY <2>2, <4>1, <4>2 DEF Early
    <3> QED BY <3>1, <3>2
  <2>4. ASSUME NEW j \in Writers, previous'[j] # None
        PROVE  /\ ClientOf[previous'[j]] = ClientOf[j]
               /\ binding'[ClientOf[j]] # previous'[j]
               /\ ~Early(previous[j])'
    <3> DEFINE p == previous'[j]
    <3>1. CASE j = k
      <4>1. p = binding[c] /\ p \in Writers
        BY <1>1, <2>1, <2>4, <3>1
      <4>2. ClientOf[p] = c /\ ~Early(p)
        BY <2>2, <2>4, <4>1 DEF TableInv
      <4>3. p # k
        BY <2>2, <4>2
      <4> QED BY <1>1, <2>1, <2>2, <3>1, <4>1, <4>2, <4>3 DEF Early
    <3>2. CASE j # k
      <4>1. p = previous[j] /\ p \in Writers
        BY <1>1, <2>1, <2>4, <3>2
      <4>2. ClientOf[p] = ClientOf[j] /\ ~Early(p) /\ binding[ClientOf[j]] # p
        BY <2>4, <4>1 DEF TableInv
      <4>3. p # k
        BY <2>2, <4>2
      <4>4. binding'[ClientOf[j]] # p
        BY <1>1, <2>1, <4>2, <4>3
      <4> QED BY <2>2, <4>1, <4>2, <4>3, <4>4 DEF Early
    <3> QED BY <3>1, <3>2
  <2>5. ASSUME NEW j \in Writers, handlerPc'[j] \in {"replaced", "closing"}
        PROVE  previous'[j] # None
    BY <1>1, <2>1, <2>5 DEF TableInv
  <2> QED BY <2>3, <2>4, <2>5 DEF TableInv, Early
<1>6. ASSUME NEW k \in Writers, ReaderStep(k) \/ WriterStep(k) \/ Heartbeat(k)
               \/ SendFails(k) \/ BreakSocket(k)
               \/ \E r \in Requests : DeviceAnswers(k, r)
      PROVE  UNCHANGED <<handlerPc, binding, previous>>
  BY <1>6, OthersKeepTable
<1>7. ASSUME NEW r, AdmitCall(r) \/ CallStep(r) \/ TimePasses(r)
               \/ RetentionPasses(r)
      PROVE  UNCHANGED <<handlerPc, binding, previous>>
  BY <1>7 DEF AdmitCall, CallStep, TimePasses, RetentionPasses, connVars
<1>8. ASSUME NEW c, DeviceForgets(c) \/ Logout(c) \/ SwitchGroup(c)
      PROVE  UNCHANGED <<handlerPc, binding, previous>>
  BY <1>8 DEF DeviceForgets, Logout, SwitchGroup, connVars
<1>9. UNCHANGED wsVars => UNCHANGED <<handlerPc, binding, previous>>
  BY DEF wsVars, connVars
<1> QED
  BY <1>2, <1>4, <1>5, <1>6, <1>7, <1>8, <1>9 DEF Next, HandlerStep

-----------------------------------------------------------------------------
(* The composed system implements the hub *)

WsInv == HubInv /\ WsTypeOK /\ JobsInv /\ TableInv

LEMMA WsInvInit == Init => WsInv
BY HubInvInit, WsTypeInit, JobsInit, TableInit DEF Init, WsInv

LEMMA WsInvStep == WsInv /\ [Next]_wsVars => WsInv'
<1>1. HubInv /\ WsTypeOK /\ JobsInv /\ [Next]_wsVars => [HubNext]_hubVars
  BY ConnStepIsHubStep
<1> QED
  BY <1>1, HubInvStep, WsTypeStep, JobsStep, TableStep DEF WsInv

\* The types of the connections' state.
THEOREM WsTypeCorrect == Spec => []WsTypeOK
<1>1. WsInv => WsTypeOK
  BY DEF WsInv
<1> QED
  BY <1>1, WsInvInit, WsInvStep, PTL DEF Spec

\* Whatever devices, sockets, operators and callers do, the connections ask of
\* the hub only what Hub's environment may: a writer pops and fills only
\* queues of its own client, through pointers that may be old, and an answer
\* is only submitted for a call whose job went out.
THEOREM ConnectionsImplementHub == Spec => HubSpec
<1>1. Init => HubInit
  BY DEF Init
<1>2. WsInv /\ [Next]_wsVars => [HubNext]_hubVars
  BY ConnStepIsHubStep DEF WsInv
<1> QED
  BY <1>1, <1>2, WsInvInit, WsInvStep, PTL DEF Spec, HubSpec

\* So what is proved of the hub and of its registry holds under reconnections,
\* lost frames, logouts and late answers: nobody is stranded in Invoke, the
\* ledger agrees with the callers, queues stay at home, a job is in one place,
\* no wake-up is lost.
THEOREM SystemKeepsHub ==
  Spec => [](/\ RosterInv /\ CursorInv /\ NoLostWakeup
             /\ NoStrandedCaller /\ LedgerMatchesVerdict
             /\ QueuesAtHome /\ JobInOnePlace /\ NoSleepOnJobs)
BY ConnectionsImplementHub, HubKeepsRegistry, NobodyIsStranded, LedgerAgrees,
   JobsStayHome, JobsInOnePlace, NobodySleepsOnJobs, PTL

-----------------------------------------------------------------------------
(* No connection is forgotten *)

LEMMA StrayInit == Init => NoStrayConnection
BY ClientOfAssumption, ClaimsAssumption DEF Init, NoStrayConnection, PastReplace

LEMMA StrayStep ==
  WsTypeOK /\ NoStrayConnection /\ [Next]_wsVars => NoStrayConnection'
<1> SUFFICES ASSUME WsTypeOK, NoStrayConnection, [Next]_wsVars
             PROVE  NoStrayConnection'
  OBVIOUS
<1>1. /\ DOMAIN handlerPc = Writers /\ DOMAIN binding = Clients
      /\ DOMAIN previous = Writers
      /\ ClientOf \in [Writers -> Clients] /\ None \notin Writers
  BY ClientOfAssumption, ClaimsAssumption DEF WsTypeOK
<1>2. ASSUME UNCHANGED <<handlerPc, binding, previous, cancelled>>
      PROVE  NoStrayConnection'
  BY <1>2 DEF NoStrayConnection, PastReplace
\* A connection that takes nobody's place moves on.
<1>3. ASSUME UNCHANGED <<binding, previous>>, cancelled \subseteq cancelled',
             \A j \in Writers :
               /\ PastReplace(j) <=> PastReplace(j)'
               /\ handlerPc[j] = "replaced" => handlerPc'[j] = "replaced"
      PROVE  NoStrayConnection'
  BY <1>3 DEF NoStrayConnection
<1>4. ASSUME NEW k \in Writers,
             Login(k) \/ Accept(k) \/ MarkPresent(k) \/ Welcome(k)
               \/ ReaderEnds(k) \/ Drained(k) \/ UnregisterClosed(k)
      PROVE  NoStrayConnection'
  <2>1. UNCHANGED <<binding, previous>> /\ cancelled \subseteq cancelled'
    BY <1>4 DEF Login, Accept, MarkPresent, Welcome, ReaderEnds, Drained,
                UnregisterClosed
  <2>2. \A j \in Writers :
          /\ PastReplace(j) <=> PastReplace(j)'
          /\ handlerPc[j] = "replaced" => handlerPc'[j] = "replaced"
    BY <1>1, <1>4 DEF Login, Accept, MarkPresent, Welcome, ReaderEnds, Drained,
                UnregisterClosed, PastReplace
  <2> QED BY <1>3, <2>1, <2>2
\* The one whose place is taken has a successor that knows it.
<1>5. ASSUME NEW k \in Writers, Replace(k) PROVE NoStrayConnection'
  <2> DEFINE c == ClientOf[k]
  <2>1. /\ handlerPc[k] = "present"
        /\ handlerPc' = [handlerPc EXCEPT
                           ![k] = IF binding[c] = None THEN "bound" ELSE "replaced"]
        /\ binding' = [binding EXCEPT ![c] = k]
        /\ previous' = [previous EXCEPT ![k] = binding[c]]
        /\ UNCHANGED cancelled
    BY <1>5 DEF Replace
  <2>2. binding'[c] = k /\ PastReplace(k)' /\ ~PastReplace(k)
    BY <1>1, <2>1 DEF PastReplace
  <2>3. ASSUME NEW j \in Writers, j # k
        PROVE  /\ PastReplace(j)' /\ j \notin cancelled' =>
                    \/ binding'[ClientOf[j]] = j
                    \/ \E i \in Writers : handlerPc'[i] = "replaced" /\ previous'[i] = j
               /\ binding'[ClientOf[j]] = j => PastReplace(j)'
    <3>1. PastReplace(j)' <=> PastReplace(j)
      BY <1>1, <2>1, <2>3 DEF PastReplace
    <3>2. ASSUME NEW i \in Writers, handlerPc[i] = "replaced", previous[i] = j
          PROVE  handlerPc'[i] = "replaced" /\ previous'[i] = j
      BY <1>1, <2>1, <3>2
    <3>3. binding[c] = j => handlerPc'[k] = "replaced" /\ previous'[k] = j
      BY <1>1, <2>1
    <3>4. binding'[ClientOf[j]] = j <=> binding[ClientOf[j]] = j /\ ClientOf[j] # c
      BY <1>1, <2>1, <2>3
    <3> QED BY <2>1, <3>1, <3>2, <3>3, <3>4 DEF NoStrayConnection
  <2> QED BY <2>2, <2>3 DEF NoStrayConnection
<1>6. ASSUME NEW k \in Writers, CancelPrevious(k) PROVE NoStrayConnection'
  <2>1. /\ UNCHANGED <<binding, previous>> /\ handlerPc[k] = "replaced"
        /\ handlerPc' = [handlerPc EXCEPT ![k] = "closing"]
        /\ cancelled' = cancelled \cup {previous[k]}
    BY <1>6 DEF CancelPrevious
  <2>2. ASSUME NEW j \in Writers PROVE PastReplace(j)' <=> PastReplace(j)
    BY <1>1, <2>1 DEF PastReplace
  <2>3. ASSUME NEW j \in Writers, j \notin cancelled',
               NEW i \in Writers, handlerPc[i] = "replaced", previous[i] = j
        PROVE  handlerPc'[i] = "replaced" /\ previous'[i] = j
    BY <1>1, <2>1, <2>3
  <2> QED BY <2>1, <2>2, <2>3 DEF NoStrayConnection
<1>7. ASSUME NEW k \in Writers, ClosePrevious(k) PROVE NoStrayConnection'
  <2>1. /\ UNCHANGED <<binding, cancelled>> /\ handlerPc[k] = "closing"
        /\ handlerPc' = [handlerPc EXCEPT ![k] = "bound"]
        /\ previous' = [previous EXCEPT ![k] = None]
    BY <1>7 DEF ClosePrevious
  <2>2. ASSUME NEW j \in Writers PROVE PastReplace(j)' <=> PastReplace(j)
    BY <1>1, <2>1 DEF PastReplace
  <2>3. ASSUME NEW i \in Writers, handlerPc[i] = "replaced"
        PROVE  handlerPc'[i] = "replaced" /\ previous'[i] = previous[i]
    BY <1>1, <2>1, <2>3
  <2> QED BY <2>1, <2>2, <2>3 DEF NoStrayConnection
<1>8. ASSUME NEW k \in Writers, ClearIfCurrent(k) PROVE NoStrayConnection'
  <2> DEFINE c == ClientOf[k]
  <2>1. /\ handlerPc[k] = "cleanup" /\ cancelled' = cancelled \cup {k}
        /\ UNCHANGED previous
    BY <1>8 DEF ClearIfCurrent
  <2>2. /\ \E to \in {"unregister", "closed"} :
             handlerPc' = [handlerPc EXCEPT ![k] = to]
        /\ \/ binding[c] = k /\ binding' = [binding EXCEPT ![c] = None]
           \/ binding[c] # k /\ UNCHANGED binding
    BY <1>8 DEF ClearIfCurrent
  <2>3. ~PastReplace(k)' /\ binding'[c] # k
    BY <1>1, <2>2 DEF PastReplace
  <2>4. ASSUME NEW j \in Writers, j # k
        PROVE  /\ PastReplace(j)' /\ j \notin cancelled' =>
                    \/ binding'[ClientOf[j]] = j
                    \/ \E i \in Writers : handlerPc'[i] = "replaced" /\ previous'[i] = j
               /\ binding'[ClientOf[j]] = j => PastReplace(j)'
    <3>1. PastReplace(j)' <=> PastReplace(j)
      BY <1>1, <2>2, <2>4 DEF PastReplace
    <3>2. binding'[ClientOf[j]] = j <=> binding[ClientOf[j]] = j
      BY <1>1, <2>2, <2>4
    <3>3. ASSUME NEW i \in Writers, handlerPc[i] = "replaced"
          PROVE  handlerPc'[i] = "replaced"
      BY <1>1, <2>1, <2>2, <3>3
    <3> QED BY <2>1, <3>1, <3>2, <3>3 DEF NoStrayConnection
  <2> QED BY <2>3, <2>4 DEF NoStrayConnection
<1>9. ASSUME NEW k \in Writers, ReaderStep(k) \/ WriterStep(k) \/ Heartbeat(k)
               \/ SendFails(k) \/ BreakSocket(k)
               \/ \E r \in Requests : DeviceAnswers(k, r)
      PROVE  UNCHANGED <<handlerPc, binding, previous, cancelled>>
  BY <1>9, OthersKeepTable
<1>10. ASSUME NEW r, AdmitCall(r) \/ CallStep(r) \/ TimePasses(r)
               \/ RetentionPasses(r)
      PROVE  UNCHANGED <<handlerPc, binding, previous, cancelled>>
  BY <1>10 DEF AdmitCall, CallStep, TimePasses, RetentionPasses, connVars
<1>11. ASSUME NEW c, DeviceForgets(c) \/ Logout(c) \/ SwitchGroup(c)
      PROVE  UNCHANGED <<handlerPc, binding, previous, cancelled>>
  BY <1>11 DEF DeviceForgets, Logout, SwitchGroup, connVars
<1>12. UNCHANGED wsVars => UNCHANGED <<handlerPc, binding, previous, cancelled>>
  BY DEF wsVars, connVars
<1> QED
  BY <1>2, <1>4, <1>5, <1>6, <1>7, <1>8, <1>9, <1>10, <1>11, <1>12
  DEF Next, HandlerStep

\* For any number of connections of a device and any order in which they take
\* each other's place, each one past replace is in the table, cancelled, or
\* about to be by its successor, and none that was replaced unregisters the
\* device on its way out.
THEOREM NoConnectionStrays == Spec => []NoStrayConnection
<1>1. Init => WsInv /\ NoStrayConnection
  BY WsInvInit, StrayInit
<1>2. WsInv /\ NoStrayConnection /\ [Next]_wsVars
        => (WsInv /\ NoStrayConnection)'
  BY WsInvStep, StrayStep DEF WsInv
<1> QED
  BY <1>1, <1>2, PTL DEF Spec

-----------------------------------------------------------------------------
(* While no connection breaks, nobody is unregistered *)

\* No connection breaks and nobody logs out; connections may be replaced.
Unbroken == Faults \cap {"socket", "write", "logout"} = {}

\* The connection the table points at is alive, so nobody unregisters.
CurrentInv ==
  /\ \A k \in Writers :
       /\ handlerPc[k] \in {"idle", "login", "registered", "present"}
            => k \notin cancelled
       /\ handlerPc[k] \in {"registered", "present"} => k \in open
       /\ handlerPc[k] # "unregister"
  /\ \A c \in Clients : binding[c] # None =>
       /\ binding[c] \in open \ cancelled /\ ClientOf[binding[c]] = c
       /\ handlerPc[binding[c]] \in {"replaced", "closing", "bound", "serving"}

LEMMA CurrentInit == Init => CurrentInv
BY DEF Init, CurrentInv

\* A connection leaves only after another has taken its place in the table.
LEMMA CurrentStep ==
  ASSUME Unbroken
  PROVE  WsTypeOK /\ TableInv /\ CurrentInv /\ [Next]_wsVars => CurrentInv'
<1> SUFFICES ASSUME WsTypeOK, TableInv, CurrentInv, [Next]_wsVars
             PROVE  CurrentInv'
  OBVIOUS
<1>1. /\ DOMAIN handlerPc = Writers /\ DOMAIN binding = Clients
      /\ ClientOf \in [Writers -> Clients] /\ None \notin Writers
      /\ \A c \in Clients : binding[c] \in Writers \cup {None}
  BY ClientOfAssumption, ClaimsAssumption DEF WsTypeOK
<1>2. ASSUME UNCHANGED <<handlerPc, binding, cancelled, open>>
      PROVE  CurrentInv'
  BY <1>2 DEF CurrentInv
<1>3. ASSUME NEW k \in Writers,
             Login(k) \/ Accept(k) \/ MarkPresent(k) \/ Welcome(k) \/ Drained(k)
      PROVE  CurrentInv'
  <2>1. /\ UNCHANGED <<binding, cancelled>> /\ open \subseteq open'
        /\ \A j \in Writers \ {k} : handlerPc'[j] = handlerPc[j]
    BY <1>1, <1>3 DEF Login, Accept, MarkPresent, Welcome, Drained
  <2>2. /\ handlerPc'[k] \in {"idle", "login", "registered", "present"}
             => k \notin cancelled
        /\ handlerPc'[k] \in {"registered", "present"} => k \in open'
        /\ handlerPc'[k] # "unregister"
        /\ k \in open \ cancelled
             => \/ handlerPc[k] \notin {"replaced", "closing", "bound", "serving"}
                \/ handlerPc'[k] = "serving"
    <3>1. CASE Login(k) \/ Drained(k)
      BY <1>1, <3>1 DEF Login, Drained, CurrentInv
    <3>2. CASE Accept(k)
      BY <1>1, <3>2 DEF Accept, CurrentInv
    <3>3. CASE MarkPresent(k)
      BY <1>1, <3>3 DEF MarkPresent, CurrentInv
    <3>4. CASE Welcome(k)
      BY <1>1, <3>4 DEF Welcome
    <3> QED BY <1>3, <3>1, <3>2, <3>3, <3>4
  <2>3. ASSUME NEW j \in Writers
        PROVE  /\ handlerPc'[j] \in {"idle", "login", "registered", "present"}
                    => j \notin cancelled'
               /\ handlerPc'[j] \in {"registered", "present"} => j \in open'
               /\ handlerPc'[j] # "unregister"
    BY <2>1, <2>2 DEF CurrentInv
  <2>4. ASSUME NEW d \in Clients, binding'[d] # None
        PROVE  /\ binding'[d] \in open' \ cancelled' /\ ClientOf[binding'[d]] = d
               /\ handlerPc'[binding'[d]]
                    \in {"replaced", "closing", "bound", "serving"}
    <3>1. binding'[d] = binding[d] /\ binding[d] \in Writers
      BY <1>1, <2>1, <2>4
    <3> QED BY <2>1, <2>2, <2>4, <3>1 DEF CurrentInv
  <2> QED BY <2>3, <2>4 DEF CurrentInv
<1>4. ASSUME NEW k \in Writers, Replace(k) PROVE CurrentInv'
  <2> DEFINE c == ClientOf[k]
  <2>1. /\ handlerPc[k] = "present"
        /\ \E to \in {"bound", "replaced"} :
             handlerPc' = [handlerPc EXCEPT ![k] = to]
        /\ binding' = [binding EXCEPT ![c] = k]
        /\ UNCHANGED <<cancelled, open>>
    BY <1>4 DEF Replace
  <2>2. k \in open \ cancelled /\ c \in Clients
    BY <1>1, <2>1 DEF CurrentInv
  <2>3. ASSUME NEW j \in Writers
        PROVE  /\ handlerPc'[j] \in {"idle", "login", "registered", "present"}
                    => j \notin cancelled'
               /\ handlerPc'[j] \in {"registered", "present"} => j \in open'
               /\ handlerPc'[j] # "unregister"
    BY <1>1, <2>1, <2>3 DEF CurrentInv
  <2>4. ASSUME NEW d \in Clients, binding'[d] # None
        PROVE  /\ binding'[d] \in open' \ cancelled' /\ ClientOf[binding'[d]] = d
               /\ handlerPc'[binding'[d]]
                    \in {"replaced", "closing", "bound", "serving"}
    <3>1. CASE d = c
      BY <1>1, <2>1, <2>2, <3>1
    <3>2. CASE d # c
      <4>1. binding'[d] = binding[d] /\ binding[d] \in Writers
        BY <1>1, <2>1, <2>4, <3>2
      <4>2. ClientOf[binding[d]] = d /\ binding[d] # k
        BY <2>4, <3>2, <4>1 DEF CurrentInv
      <4> QED BY <1>1, <2>1, <2>4, <4>1, <4>2 DEF CurrentInv
    <3> QED BY <3>1, <3>2
  <2> QED BY <2>3, <2>4 DEF CurrentInv
\* Only the connection that lost its place is cancelled and closed.
<1>12. ASSUME NEW k \in Writers, CancelPrevious(k) \/ ClosePrevious(k)
       PROVE  CurrentInv'
  <2> DEFINE p == previous[k]
  <2>1. /\ handlerPc[k] \in {"replaced", "closing"}
        /\ \E to \in {"closing", "bound"} : handlerPc' = [handlerPc EXCEPT ![k] = to]
        /\ UNCHANGED binding /\ cancelled' \subseteq cancelled \cup {p}
        /\ open \ {p} \subseteq open'
    BY <1>12 DEF CancelPrevious, ClosePrevious
  <2>2. /\ p \in Writers /\ ~Early(p) /\ ClientOf[p] = ClientOf[k]
        /\ binding[ClientOf[k]] # p
    BY <2>1 DEF TableInv, WsTypeOK
  <2>3. ASSUME NEW j \in Writers
        PROVE  /\ handlerPc'[j] \in {"idle", "login", "registered", "present"}
                    => j \notin cancelled'
               /\ handlerPc'[j] \in {"registered", "present"} => j \in open'
               /\ handlerPc'[j] # "unregister"
    BY <1>1, <2>1, <2>2, <2>3 DEF CurrentInv, Early
  <2>4. ASSUME NEW d \in Clients, binding'[d] # None
        PROVE  /\ binding'[d] \in open' \ cancelled' /\ ClientOf[binding'[d]] = d
               /\ handlerPc'[binding'[d]]
                    \in {"replaced", "closing", "bound", "serving"}
    <3>1. binding'[d] = binding[d] /\ binding[d] \in Writers /\ binding[d] # p
      <4>1. ClientOf[binding[d]] = d
        BY <2>1, <2>4 DEF CurrentInv
      <4> QED BY <1>1, <2>1, <2>2, <2>4, <4>1
    <3> QED BY <1>1, <2>1, <2>4, <3>1 DEF CurrentInv
  <2> QED BY <2>3, <2>4 DEF CurrentInv
\* Only connections that are not current end.
<1>5. ASSUME NEW k \in Writers, ReaderEnds(k) \/ ClearIfCurrent(k)
      PROVE  CurrentInv'
  <2>1. binding[ClientOf[k]] # k /\ handlerPc[k] \notin {"registered", "present"}
    BY <1>1, <1>5 DEF ReaderEnds, ClearIfCurrent, CurrentInv
  <2>2. \A c \in Clients : binding[c] # k
    BY <1>1, <2>1 DEF CurrentInv
  <2>3. /\ UNCHANGED binding /\ cancelled' = cancelled \cup {k}
        /\ open \ {k} \subseteq open'
        /\ \E to \in {"draining", "closed"} : handlerPc' = [handlerPc EXCEPT ![k] = to]
    BY <1>5, <2>1 DEF ReaderEnds, ClearIfCurrent
  <2>4. ASSUME NEW j \in Writers
        PROVE  /\ handlerPc'[j] \in {"idle", "login", "registered", "present"}
                    => j \notin cancelled'
               /\ handlerPc'[j] \in {"registered", "present"} => j \in open'
               /\ handlerPc'[j] # "unregister"
    BY <1>1, <2>3, <2>4 DEF CurrentInv
  <2>5. ASSUME NEW d \in Clients, binding'[d] # None
        PROVE  /\ binding'[d] \in open' \ cancelled' /\ ClientOf[binding'[d]] = d
               /\ handlerPc'[binding'[d]]
                    \in {"replaced", "closing", "bound", "serving"}
    <3>1. binding'[d] = binding[d] /\ binding[d] # k /\ binding[d] \in Writers
      BY <1>1, <2>2, <2>3, <2>5
    <3> QED BY <1>1, <2>3, <2>5, <3>1 DEF CurrentInv
  <2> QED BY <2>4, <2>5 DEF CurrentInv
<1>6. ASSUME NEW k \in Writers, UnregisterClosed(k) PROVE FALSE
  BY <1>6 DEF UnregisterClosed, CurrentInv
<1>7. ASSUME NEW k \in Writers, ReaderStep(k) \/ WriterStep(k) \/ Heartbeat(k)
               \/ \E r \in Requests : DeviceAnswers(k, r)
      PROVE  UNCHANGED <<handlerPc, binding, cancelled, open>>
  BY <1>7, OthersKeepTable
  DEF ReaderStep, CheckGroup, Submit, WriterStep, AcquireDispatchSlot,
      WriterReturns, PopAcquired, PopCancelled, SendJob, SendRefused, GiveSlotBack,
      RequeueLookup, RequeuePush, Heartbeat, DeviceAnswers,
      ReceiveResult, connVars
<1>8. ASSUME NEW k, SendFails(k) \/ BreakSocket(k) \/ Logout(k) PROVE FALSE
  BY <1>8 DEF SendFails, BreakSocket, Logout, Unbroken
<1>9. ASSUME NEW r, AdmitCall(r) \/ CallStep(r) \/ TimePasses(r) \/ RetentionPasses(r)
      PROVE  UNCHANGED <<handlerPc, binding, cancelled, open>>
  BY <1>9 DEF AdmitCall, CallStep, TimePasses, RetentionPasses, connVars
<1>10. ASSUME NEW c, DeviceForgets(c) \/ SwitchGroup(c)
      PROVE  UNCHANGED <<handlerPc, binding, cancelled, open>>
  BY <1>10 DEF DeviceForgets, SwitchGroup, connVars
<1>11. UNCHANGED wsVars => UNCHANGED <<handlerPc, binding, cancelled, open>>
  BY DEF wsVars, connVars
<1> QED
  BY <1>2, <1>3, <1>4, <1>5, <1>6, <1>7, <1>8, <1>9, <1>10, <1>11, <1>12
  DEF Next, HandlerStep

-----------------------------------------------------------------------------
(* A device with one connection *)

\* No two connections are of the same device.
OneEach == \A j, k \in Writers : ClientOf[j] = ClientOf[k] => j = k

\* No connection is ever replaced, so no writer gives a job up.
CalmInv ==
  /\ cancelled = {}
  /\ \A k \in Writers :
       /\ handlerPc[k] \in {"registered", "present", "bound", "serving"}
            => k \in open
       /\ handlerPc[k] \in {"idle", "login", "registered", "present", "bound"}
            => writerPc[k] = "off"
       /\ handlerPc[k] \in {"idle", "login", "registered", "present", "bound",
                            "serving"}
       /\ writerPc[k] \notin {"release", "requeue", "putBack"}

LEMMA CalmInit == Init => CalmInv
BY DEF Init, CalmInv

\* The only connection of a device finds the table empty.
LEMMA CalmStep ==
  ASSUME Unbroken, OneEach
  PROVE  WsTypeOK /\ CurrentInv /\ CalmInv /\ [Next]_wsVars => CalmInv'
<1> SUFFICES ASSUME WsTypeOK, CurrentInv, CalmInv, [Next]_wsVars PROVE CalmInv'
  OBVIOUS
<1>1. DOMAIN handlerPc = Writers /\ DOMAIN writerPc = Writers
      /\ ClientOf \in [Writers -> Clients]
  BY ClientOfAssumption DEF WsTypeOK
<1>2. ASSUME UNCHANGED <<handlerPc, writerPc, cancelled, open>> PROVE CalmInv'
  BY <1>2 DEF CalmInv
<1>3. ASSUME NEW k \in Writers, Login(k) \/ Accept(k) \/ MarkPresent(k)
      PROVE  CalmInv'
  BY <1>1, <1>3 DEF Login, Accept, MarkPresent, CalmInv
<1>4. ASSUME NEW k \in Writers, Replace(k) PROVE CalmInv'
  <2>1. binding[ClientOf[k]] = None
    BY <1>1, <1>4 DEF Replace, CurrentInv, OneEach, WsTypeOK
  <2>2. UNCHANGED <<cancelled, open, writerPc>>
    BY <1>4, <2>1 DEF Replace
  <2> QED BY <1>1, <1>4, <2>1, <2>2 DEF Replace, CalmInv
<1>5. ASSUME NEW k \in Writers, Welcome(k) PROVE CalmInv'
  BY <1>1, <1>5 DEF Welcome, CalmInv
<1>6. ASSUME NEW k \in Writers,
             CancelPrevious(k) \/ ClosePrevious(k) \/ ReaderEnds(k) \/ Drained(k)
               \/ ClearIfCurrent(k) \/ UnregisterClosed(k)
      PROVE  FALSE
  BY <1>6 DEF CancelPrevious, ClosePrevious, ReaderEnds, Drained, ClearIfCurrent,
              UnregisterClosed, CalmInv
<1>7. ASSUME NEW k \in Writers, WriterStep(k) PROVE CalmInv'
  <2>1. /\ UNCHANGED <<handlerPc, cancelled, open>>
        /\ \A j \in Writers \ {k} : writerPc'[j] = writerPc[j]
    BY <1>1, <1>7
    DEF WriterStep, AcquireDispatchSlot, WriterReturns, PopAcquired, PopCancelled,
        SendJob, SendRefused, GiveSlotBack, RequeueLookup, RequeuePush,
        WriterGoes, otherConnVars
  <2>2. writerPc[k] # "off" /\ handlerPc[k] = "serving" /\ k \in open
        /\ k \notin cancelled
    BY <1>7
    DEF WriterStep, AcquireDispatchSlot, WriterReturns, PopAcquired, PopCancelled,
        SendJob, SendRefused, GiveSlotBack, RequeueLookup, RequeuePush, CalmInv
  <2>3. writerPc'[k] \notin {"release", "requeue", "putBack"}
    BY <1>1, <1>7, <2>2
    DEF WriterStep, AcquireDispatchSlot, WriterReturns, PopAcquired, PopCancelled,
        SendJob, SendRefused, GiveSlotBack, RequeueLookup, RequeuePush, WriterGoes,
        CalmInv
  <2> QED BY <2>1, <2>2, <2>3 DEF CalmInv
<1>8. ASSUME NEW k \in Writers, ReaderStep(k) \/ Heartbeat(k)
               \/ \E r \in Requests : DeviceAnswers(k, r)
      PROVE  CalmInv'
  BY <1>2, <1>8
  DEF ReaderStep, CheckGroup, Submit, Heartbeat, DeviceAnswers, ReceiveResult,
      connVars
<1>9. ASSUME NEW k, SendFails(k) \/ BreakSocket(k) \/ Logout(k) PROVE FALSE
  BY <1>9 DEF SendFails, BreakSocket, Logout, Unbroken
<1>10. ASSUME NEW r, AdmitCall(r) \/ CallStep(r) \/ TimePasses(r) \/ RetentionPasses(r)
       PROVE  CalmInv'
  BY <1>2, <1>10 DEF AdmitCall, CallStep, TimePasses, RetentionPasses, connVars
<1>11. ASSUME NEW c, DeviceForgets(c) \/ SwitchGroup(c) PROVE CalmInv'
  BY <1>2, <1>11 DEF DeviceForgets, SwitchGroup, connVars
<1>12. CASE UNCHANGED wsVars
  BY <1>2, <1>12 DEF wsVars, connVars
<1> QED
  BY <1>3, <1>4, <1>5, <1>6, <1>7, <1>8, <1>9, <1>10, <1>11, <1>12
  DEF Next, HandlerStep

-----------------------------------------------------------------------------
(* Pointers to sessions stay good *)

\* The client a call was assigned to stays registered, and the session the
\* call or a writer pushes to is the current one.
HomeInv ==
  /\ \A r \in Requests :
       /\ assigned[r] # None => Registered(assigned[r])
       /\ callPc[r] \in {"picked", "stored"} =>
            assigned[r] # None /\ target[r] = sessions[assigned[r]]
  /\ \A k \in Writers : writerPc[k] = "putBack" =>
       Registered(ClientOf[k]) /\ acquired[k] = sessions[ClientOf[k]]

\* Registering does nothing to calls, answers and hands.
LEMMA RegisterKeepsCalls ==
  ASSUME NEW c, NEW g, NEW asked, Register(c, g, asked)
  PROVE  UNCHANGED <<held, ledgerVars, callVars, clockVars>>
<1>1. CASE UNCHANGED ownHubVars
  BY <1>1 DEF ownHubVars
<1>2. CASE \E s : RegisterFresh(c, g, asked, s)
  BY <1>2 DEF RegisterFresh
<1> QED BY <1>1, <1>2 DEF Register

\* Registering a client that has a session leaves it the session.
LEMMA RegisterKeepsSessions ==
  ASSUME RegTypeOK, NEW c \in Clients, NEW g, NEW asked, Register(c, g, asked),
         NEW d \in Clients, Registered(d)
  PROVE  sessions'[d] = sessions[d]
<1>1. CASE RegisterExisting(c, g, asked)
  BY <1>1 DEF RegisterExisting
<1>2. CASE \E s : RegisterNew(c, g, asked, s)
  BY <1>2 DEF RegisterNew, RegTypeOK
<1> QED BY <1>1, <1>2 DEF Register, RegisterFresh

\* While nobody unregisters, a registered client keeps its session.
LEMMA SessionsStay ==
  ASSUME Unbroken, RegTypeOK, CurrentInv, [Next]_wsVars,
         NEW d \in Clients, Registered(d)
  PROVE  sessions'[d] = sessions[d]
<1>1. ASSUME UNCHANGED sessions PROVE sessions'[d] = sessions[d]
  BY <1>1
<1>2. ASSUME NEW k \in Writers, Login(k) \/ Accept(k) \/ MarkPresent(k) \/ Heartbeat(k)
               \/ CheckGroup(k) \/ \E r \in Requests : DeviceAnswers(k, r)
      PROVE  sessions'[d] = sessions[d]
  <2>1. \/ Register(ClientOf[k], ClaimGroup[k], ClaimLimit[k])
        \/ UNCHANGED sessions
    BY <1>2
    DEF Login, Accept, MarkPresent, Heartbeat, CheckGroup, DeviceAnswers,
        ReceiveResult, TouchClientPresence, hubVars, regVars
  <2> QED BY <2>1, RegisterKeepsSessions, ClientOfAssumption
<1>3. ASSUME NEW k \in Writers,
             Replace(k) \/ CancelPrevious(k) \/ ClosePrevious(k)
               \/ Welcome(k) \/ ReaderEnds(k) \/ Drained(k)
               \/ ClearIfCurrent(k) \/ Submit(k) \/ WriterStep(k)
      PROVE  UNCHANGED sessions
  BY <1>3
  DEF Replace, CancelPrevious, ClosePrevious,
      Welcome, ReaderEnds, Drained, ClearIfCurrent, Submit, SubmitResult,
      Delivered, Late, Ignored, ReleaseIfRegistered, ReleaseDispatch,
      WriterStep, AcquireDispatchSlot, WriterReturns, PopAcquired, PopCancelled,
      SendJob, SendRefused, GiveSlotBack, RequeueLookup, RequeuePush, Pop, LeavePop,
      LetGo, PutBack, TakeSlot, ParkForSlot, StopWaiting, hubVars, regVars
<1>4. ASSUME NEW k, UnregisterClosed(k), k \in Writers PROVE FALSE
  BY <1>4 DEF UnregisterClosed, CurrentInv
<1>5. ASSUME NEW k, SendFails(k) \/ BreakSocket(k) \/ Logout(k) PROVE FALSE
  BY <1>5 DEF SendFails, BreakSocket, Logout, Unbroken
<1>6. ASSUME NEW r \in Requests,
             AdmitCall(r) \/ CallStep(r) \/ TimePasses(r) \/ RetentionPasses(r)
      PROVE  UNCHANGED sessions
  BY <1>6
  DEF AdmitCall, CallStep, TimePasses, RetentionPasses, DeadlinePasses, CtxEnds, Age,
      InvokeStep, PickSession, PickPreferred, PickInGroup, PickRoundRobin,
      StoreWaiter, PushJob, DropWaiter, TakeResult, GiveUp, ExpireWaiter, hubVars,
      regVars
<1>7. ASSUME NEW c, DeviceForgets(c) \/ SwitchGroup(c) PROVE UNCHANGED sessions
  BY <1>7 DEF DeviceForgets, SwitchGroup, hubVars, regVars
<1>8. UNCHANGED wsVars => UNCHANGED sessions
  BY DEF wsVars, hubVars, regVars
<1> QED
  BY <1>1, <1>2, <1>3, <1>4, <1>5, <1>6, <1>7, <1>8
  DEF Next, HandlerStep, ReaderStep

LEMMA HomeInit == Init => HomeInv
BY DEF Init, HubInit, OwnHubInit, HomeInv

\* What was looked up stays right, however many locks are let go since.
LEMMA HomeStep ==
  ASSUME Unbroken
  PROVE  WsInv /\ CurrentInv /\ HomeInv /\ [Next]_wsVars => HomeInv'
<1> SUFFICES ASSUME WsInv, CurrentInv, HomeInv, [Next]_wsVars PROVE HomeInv'
  OBVIOUS
<1>1. /\ RegTypeOK /\ RosterInv /\ HubTypeOK /\ WsTypeOK
      /\ \A c \in Clients : Registered(c) => sessions'[c] = sessions[c]
      /\ None \notin Clients
  BY SessionsStay, SessionsAssumption DEF WsInv, HubInv
<1>2. /\ DOMAIN callPc = Requests /\ DOMAIN target = Requests
      /\ DOMAIN assigned = Requests /\ DOMAIN verdict = Requests
      /\ DOMAIN writerPc = Writers /\ DOMAIN acquired = Writers
  BY <1>1 DEF HubTypeOK, WsTypeOK
\* What holds of a call still does if nothing happens to it.
<1>3. ASSUME NEW r \in Requests, callPc'[r] = callPc[r] \/ callPc'[r] \notin {"picked", "stored"},
             target'[r] = target[r] \/ callPc'[r] \notin {"picked", "stored"},
             assigned'[r] = assigned[r]
      PROVE  /\ assigned'[r] # None => Registered(assigned[r])'
             /\ callPc'[r] \in {"picked", "stored"} =>
                  assigned'[r] # None /\ target'[r] = sessions'[assigned'[r]]
  <2>1. assigned[r] \in Clients \cup {None}
    BY <1>1 DEF HubTypeOK
  <2> QED BY <1>1, <1>3, <2>1 DEF HomeInv, Registered
\* The same of a writer.
<1>4. ASSUME NEW k \in Writers, writerPc'[k] = "putBack" =>
               writerPc[k] = "putBack" /\ acquired'[k] = acquired[k]
      PROVE  writerPc'[k] = "putBack" =>
               Registered(ClientOf[k])' /\ acquired'[k] = sessions'[ClientOf[k]]
  <2>1. ClientOf[k] \in Clients
    BY ClientOfAssumption
  <2> QED BY <1>1, <1>4, <2>1 DEF HomeInv, Registered
<1>5. ASSUME UNCHANGED callVars, UNCHANGED <<writerPc, acquired>> PROVE HomeInv'
  BY <1>3, <1>4, <1>5 DEF callVars, HomeInv
<1>6. ASSUME NEW k \in Writers, Login(k) \/ Accept(k) \/ MarkPresent(k) \/ Heartbeat(k)
               \/ CheckGroup(k) \/ \E r \in Requests : DeviceAnswers(k, r)
      PROVE  HomeInv'
  <2>1. UNCHANGED <<writerPc, acquired>>
    BY <1>6
    DEF Login, Accept, MarkPresent, Heartbeat, CheckGroup, DeviceAnswers,
        ReceiveResult, connVars
  <2>2. \/ Register(ClientOf[k], ClaimGroup[k], ClaimLimit[k])
        \/ UNCHANGED hubVars
    BY <1>6
    DEF Login, Accept, MarkPresent, Heartbeat, CheckGroup, DeviceAnswers,
        ReceiveResult, TouchClientPresence
  <2>3. UNCHANGED callVars
    BY <2>2, RegisterKeepsCalls DEF hubVars, ownHubVars
  <2> QED BY <1>5, <2>1, <2>3
<1>7. ASSUME NEW k \in Writers,
             Replace(k) \/ CancelPrevious(k) \/ ClosePrevious(k)
               \/ Welcome(k) \/ ReaderEnds(k) \/ Drained(k)
               \/ ClearIfCurrent(k) \/ UnregisterClosed(k) \/ Submit(k)
      PROVE  HomeInv'
  <2>1. UNCHANGED callVars /\ UNCHANGED acquired
        /\ \A j \in Writers : writerPc'[j] = "putBack" => writerPc[j] = "putBack"
    BY <1>2, <1>7
    DEF Replace, CancelPrevious, ClosePrevious,
        Welcome, ReaderEnds, Drained, ClearIfCurrent, UnregisterClosed,
        Submit, SubmitResult, hubVars, ownHubVars
  <2> QED BY <1>3, <1>4, <2>1 DEF callVars, HomeInv
<1>8. ASSUME NEW k \in Writers, WriterStep(k) PROVE HomeInv'
  <2>1. /\ UNCHANGED callVars
        /\ \A j \in Writers \ {k} :
             writerPc'[j] = writerPc[j] /\ acquired'[j] = acquired[j]
    BY <1>2, <1>8
    DEF WriterStep, AcquireDispatchSlot, WriterReturns, PopAcquired, PopCancelled,
        SendJob, SendRefused, GiveSlotBack, RequeueLookup, RequeuePush, Pop,
        LeavePop, LetGo, PutBack, WriterGoes, hubVars, ownHubVars
  <2>2. writerPc'[k] = "putBack" => RequeueLookup(k) /\ Registered(ClientOf[k])
    BY <1>2, <1>8
    DEF WriterStep, AcquireDispatchSlot, WriterReturns, PopAcquired, PopCancelled,
        SendJob, SendRefused, GiveSlotBack, RequeueLookup, RequeuePush, WriterGoes
  <2>3. writerPc'[k] = "putBack" =>
          Registered(ClientOf[k])' /\ acquired'[k] = sessions'[ClientOf[k]]
    BY <1>1, <1>2, <2>2, ClientOfAssumption DEF RequeueLookup, Registered
  <2> QED BY <1>3, <1>4, <2>1, <2>3 DEF callVars, HomeInv
<1>9. ASSUME NEW p \in Requests, CallStep(p) PROVE HomeInv'
  <2>1. InvokeStep(p) /\ UNCHANGED <<writerPc, acquired>>
    BY <1>9 DEF CallStep, connVars
  <2>2. \A q \in Requests \ {p} : /\ callPc'[q] = callPc[q] /\ target'[q] = target[q]
                                  /\ assigned'[q] = assigned[q]
    BY <1>2, <2>1
    DEF InvokeStep, PickSession, PickPreferred, PickInGroup, Assign, Return,
        StoreWaiter, PushJob, DropWaiter, TakeResult, GiveUp, ExpireWaiter
  <2>3. CASE PickSession(p) /\ callPc'[p] = "picked"
    <3>1. PICK c \in Clients :
            Registered(c) /\ owner[sessions[c]] = c /\ Assign(p, sessions[c])
      BY <1>1, <1>2, <2>3, PickedSession
    <3>2. assigned'[p] = c /\ target'[p] = sessions[c]
      BY <1>2, <3>1 DEF Assign
    <3>3. /\ assigned'[p] # None /\ Registered(assigned[p])'
          /\ target'[p] = sessions'[assigned'[p]]
      BY <1>1, <3>1, <3>2 DEF Registered
    <3> QED BY <1>3, <1>4, <2>1, <2>2, <3>3 DEF HomeInv
  <2>4. CASE ~(PickSession(p) /\ callPc'[p] = "picked")
    <3>1. /\ assigned'[p] = assigned[p]
          /\ \/ callPc'[p] \notin {"picked", "stored"}
             \/ callPc[p] = "picked" /\ callPc'[p] = "stored" /\ target'[p] = target[p]
      BY <1>2, <2>1, <2>4
      DEF InvokeStep, PickSession, PickPreferred, PickInGroup, Assign, Return,
          StoreWaiter, PushJob, DropWaiter, TakeResult, GiveUp, ExpireWaiter
    <3>2. /\ assigned'[p] # None => Registered(assigned[p])'
          /\ callPc'[p] \in {"picked", "stored"} =>
               assigned'[p] # None /\ target'[p] = sessions'[assigned'[p]]
      <4>1. assigned[p] \in Clients \cup {None}
        BY <1>1 DEF HubTypeOK
      <4> QED BY <1>1, <3>1, <4>1 DEF HomeInv, Registered
    <3> QED BY <1>3, <1>4, <2>1, <2>2, <3>2 DEF HomeInv
  <2> QED BY <2>3, <2>4
<1>10. ASSUME NEW r \in Requests, AdmitCall(r) \/ TimePasses(r) \/ RetentionPasses(r)
       PROVE  HomeInv'
  BY <1>5, <1>10
  DEF AdmitCall, TimePasses, RetentionPasses, DeadlinePasses, CtxEnds, Age, hubVars,
      ownHubVars, connVars
<1>11. ASSUME NEW k, SendFails(k) \/ BreakSocket(k) \/ Logout(k) PROVE FALSE
  BY <1>11 DEF SendFails, BreakSocket, Logout, Unbroken
<1>12. ASSUME NEW c, DeviceForgets(c) \/ SwitchGroup(c) PROVE HomeInv'
  BY <1>5, <1>12 DEF DeviceForgets, SwitchGroup, hubVars, ownHubVars, connVars
<1>13. CASE UNCHANGED wsVars
  BY <1>5, <1>13 DEF wsVars, hubVars, ownHubVars, connVars
<1> QED
  BY <1>6, <1>7, <1>8, <1>9, <1>10, <1>11, <1>12, <1>13
  DEF Next, HandlerStep, ReaderStep
=============================================================================
