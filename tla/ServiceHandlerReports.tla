----------------------- MODULE ServiceHandlerReports -----------------------
(***************************************************************************)
(* Proofs about what the request handler tells its clients: no action is   *)
(* dropped without a report, not even by a crash, and an action that is    *)
(* reported as failed has ended.                                           *)
(***************************************************************************)
EXTENDS ServiceHandlerEffects

-----------------------------------------------------------------------------
(* Slots *)

\* The client has been told how the action ended.
Reported(a) == reports[a] \cap Terminal # {}

\* A slot answers at once, or queues requests of the new action.
LEMMA SlotOutcome ==
  ASSUME TypeOK, NEW a \in ClientAction, ClientRequest(a)
  PROVE  /\ a \notin issued
         /\ \/ \E x \in Terminal : Answer(a, x)
            \/ \E q \in Seq(Request) : /\ enqueueRequest(a, q) /\ Len(q) > 0
                                       /\ \A j \in 1 .. Len(q) : q[j].action = a
<1> USE DEF Action
<1> DEFINE P == /\ a \notin issued
                /\ \/ \E x \in Terminal : Answer(a, x)
                   \/ \E q \in Seq(Request) : /\ enqueueRequest(a, q) /\ Len(q) > 0
                                              /\ \A j \in 1 .. Len(q) : q[j].action = a
<1>1. ASSUME NEW x \in Terminal, a \notin issued, Answer(a, x) PROVE P
  BY <1>1
<1>2. ASSUME NEW r \in Request, r.action = a, a \notin issued, enqueueRequest(a, <<r>>) PROVE P
  <2>1. <<r>> \in Seq(Request) /\ Len(<<r>>) > 0 /\ \A j \in 1 .. Len(<<r>>) : <<r>>[j].action = a
    BY <1>2
  <2> QED
    BY <1>2, <2>1
<1>3. ASSUME NEW r \in Request, NEW u \in Request, r.action = a, u.action = a, a \notin issued,
             enqueueRequest(a, <<r, u>>)
      PROVE  P
  <2>1. /\ <<r, u>> \in Seq(Request) /\ Len(<<r, u>>) > 0
        /\ \A j \in 1 .. Len(<<r, u>>) : <<r, u>>[j].action = a
    BY <1>3
  <2> QED
    BY <1>3, <2>1
<1> HIDE DEF P
<1>4. \A k \in Kind, S1, S2 \in SUBSET Service, X \in SUBSET Account, M \in SUBSET Message :
        NewRequest(a, k, S1, S2, X, M) \in Request /\ NewRequest(a, k, S1, S2, X, M).action = a
  BY DEF NewRequest, Request
<1>5. \A k \in Kind, S1, S2 \in SUBSET Service, X \in SUBSET Account, M \in SUBSET Message :
        a \notin issued /\ enqueueRequest(a, <<NewRequest(a, k, S1, S2, X, M)>>) => P
  BY <1>2, <1>4
<1>6. "Failed" \in Terminal /\ "Successful" \in Terminal
  BY DEF Terminal
<1>7. ASSUME NEW k \in Kind, NEW X \in SUBSET Account, RequestFromSources(a, k, X)
      PROVE  P
  <2>1. sourceServiceSet(X) \in SUBSET Service
    BY ServiceSets
  <2> QED
    BY <1>1, <1>5, <1>6, <1>7, <2>1 DEF RequestFromSources, Fresh
<1>8. ASSUME NEW x \in Account, OnlineFolderOperation(a, x)
      PROVE  P
  <2>1. sourceServiceSet({x}) \in SUBSET Service /\ "storage" \in Kind /\ {x} \in SUBSET Account
    BY ServiceSets DEF Kind
  <2> QED
    BY <1>1, <1>5, <1>6, <1>8, <2>1 DEF OnlineFolderOperation, Fresh
<1>9. ASSUME OnlineCopyToLocal(a)
      PROVE  P
  <2>1. "copyToLocal" \in Kind
    BY DEF Kind
  <2> QED
    BY <1>5, <1>9, <2>1 DEF OnlineCopyToLocal, Fresh
<1>10. ASSUME NEW k \in {"transmit", "transmitOne"}, NEW x \in Account,
              NEW M \in SUBSET Message, NEW scope \in SUBSET Message, a \notin issued,
              enqueueRequest(a, TransmissionRequests(a, k, x, M, scope))
       PROVE  P
  <2> DEFINE owners  == {OwnerOf[m] : m \in M \cap External}
             sources == sourceServiceSet(owners)
             send(S) == NewRequest(a, k, sinkServiceSet(x), S, {x}, scope)
             prepare == NewRequest(a, "prepare", sources, {}, owners, {})
  <2>1. owners \in SUBSET Account
    BY MessageAssumption
  <2>2. sources \in SUBSET Service /\ sinkServiceSet(x) \in SUBSET Service
    BY ServiceSets
  <2>3. k \in Kind /\ "prepare" \in Kind
    BY DEF Kind
  <2> HIDE DEF owners, sources
  <2>4. /\ send({}) \in Request /\ send(sources) \in Request /\ prepare \in Request
        /\ send({}).action = a /\ send(sources).action = a /\ prepare.action = a
    BY <1>4, <2>1, <2>2, <2>3
  <2> HIDE DEF send, prepare
  <2>5. TransmissionRequests(a, k, x, M, scope) \in {<<send({})>>, <<prepare, send(sources)>>}
    BY DEF TransmissionRequests, send, prepare, sources, owners
  <2> QED
    BY <1>2, <1>3, <1>10, <2>4, <2>5
<1>11. ASSUME NEW x \in Account, TransmitMessages(a, x)
       PROVE  P
  <2>1. Owned(x) \in SUBSET Message /\ outbox \cap Owned(x) \in SUBSET Message
    BY DEF Owned
  <2> QED
    BY <1>1, <1>6, <1>10, <1>11, <2>1 DEF TransmitMessages, Fresh
<1>12. ASSUME NEW m \in Message, TransmitMessage(a, m)
       PROVE  P
  <2>1. OwnerOf[m] \in Account /\ {m} \in SUBSET Message
    BY MessageAssumption
  <2> QED
    BY <1>1, <1>6, <1>10, <1>12, <2>1 DEF TransmitMessage, Fresh
<1>13. ASSUME LocalOperation(a)
       PROVE  P
  BY <1>1, <1>6, <1>13 DEF LocalOperation, Fresh
<1>14. "retrieve" \in Kind /\ "export" \in Kind /\ "storage" \in Kind
  BY DEF Kind
<1>15. \A x \in Account : {x} \in SUBSET Account
  OBVIOUS
<1>16. P
  BY <1>7, <1>8, <1>9, <1>11, <1>12, <1>13, <1>14, <1>15
  DEF ClientRequest, AccountRequest, MultiAccountRequest, RetrieveFromAccount, CreateStandardFolders,
      RetrieveMessages, RetrieveMessagePart, RetrieveAll, ExportUpdates, Synchronize,
      OnlineDeleteMessages, OnlineCopyMessages, OnlineMoveMessages, OnlineFlagMessages
<1> QED
  BY <1>16 DEF P

-----------------------------------------------------------------------------
(* Actions with one service *)

\* An action waits for one service at most.
OneService == \A a \in Action : \A s, t \in mActiveActions[a].services : s = t

QueueWellMade == \A i \in 1 .. Len(mRequests) : Made(mRequests[i])

\* Unless requests concern several accounts, an action waits for one service.
LEMMA OneServiceEach ==
  ASSUME Offered \cap MultiAccount = {}
  PROVE  Spec => [](OneService /\ QueueWellMade)
<1>1. Init => OneService /\ QueueWellMade
  BY DEF Init, OneService, QueueWellMade, NoData
<1>2. ASSUME TypeOK, ServiceExclusive, QueueInv, OneService, QueueWellMade, [Next]_vars
      PROVE  OneService' /\ QueueWellMade'
  <2>1. QueueWellMade'
    BY <1>2, QueueMade DEF Replenished, QueueWellMade
  <2>2. CASE ~Dispatch
    <3>1. \A a \in Action : mActiveActions'[a].services \subseteq mActiveActions[a].services
      BY <1>2, <2>2, OrdinaryDetaches DEF Detaching, Detached
    <3> QED
      BY <1>2, <2>1, <3>1 DEF OneService
  <2>3. CASE Dispatch
    <3>1. /\ mActiveActions[Current.action].services \subseteq Needs(Current)
          /\ Made(Current)
      BY <1>2, <2>3 DEF QueueInv, Fits, QueueWellMade, Dispatch, AtRequest, Current
    <3>2. /\ mActiveActions'[Current.action].services \subseteq Current.services
          /\ \A x \in Action : x # Current.action =>
               mActiveActions'[x].services \subseteq mActiveActions[x].services
      BY <1>2, <2>3, <3>1, DispatchExclusive
    <3>3. \A s, t \in Current.services : s = t
      BY <3>1 DEF Made
    <3> QED
      BY <1>2, <2>1, <3>2, <3>3 DEF OneService
  <2> QED
    BY <2>2, <2>3
<1> QED
  BY <1>1, <1>2, TypeCorrect, QueueInvariant, PTL DEF Spec

\* Then an action ends when its service fails,
LEMMA HitEnds ==
  ASSUME NEW active \in [Action -> ActionData], NEW svc, Exclusive(active, svc),
         NEW F \in SUBSET Service, NEW a \in Action, a \in Hit(F, svc),
         \A s, t \in active[a].services : s = t
  PROVE  ActiveAfterFailure(active, svc, F)[a] = NoData
<1>1. PICK s \in F : svc[s] = a
  BY DEF Hit
<1>2. active[a].services = {s}
  BY <1>1 DEF Exclusive
<1> DEFINE lost == {t \in F : svc[t] = a}
<1>3. lost # {} /\ active[a].services \subseteq lost
  BY <1>1, <1>2
<1>4. ActiveAfterFailure(active, svc, F)[a] =
        IF active[a] = NoData \/ lost = {} THEN active[a]
        ELSE IF active[a].services \subseteq lost THEN NoData
        ELSE [active[a] EXCEPT !.services = @ \ lost, !.reported = TRUE, !.stale = FALSE]
  BY DEF ActiveAfterFailure
<1> HIDE DEF lost
<1> QED
  BY <1>3, <1>4

\* and it ends no other way.
LEMMA EndsHit ==
  ASSUME NEW active, NEW svc, NEW F, NEW a \in Action, a # NoAction,
         active[a] # NoData, ActiveAfterFailure(active, svc, F)[a] = NoData
  PROVE  a \in Hit(F, svc)
<1>1. CASE {t \in F : svc[t] = a} = {}
  BY <1>1, FailureSpares
<1>2. CASE {t \in F : svc[t] = a} # {}
  BY <1>2 DEF Hit
<1> QED
  BY <1>1, <1>2

-----------------------------------------------------------------------------
(* The requests file *)

\* Nothing of what has been told is taken back; an action leaves the file, or
\* stays out of it, only when its end is reported.
Recorded ==
  /\ \A a \in Action : reports[a] \subseteq reports'[a]
  /\ \A a \in outstandingRequests \ outstandingRequests' : reports'[a] \cap Terminal # {}
  /\ \A a \in issued' \ issued : a \in outstandingRequests' \/ reports'[a] \cap Terminal # {}

\* The request that FlushSent may add is one of the server's own, and recorded.
LEMMA FlushFile ==
  ASSUME NEW F, NEW gone, NEW serviceAction, NEW q, NEW file, NEW erased,
         FlushSent(F, gone, serviceAction, q, file, erased)
  PROVE  /\ file \subseteq outstandingRequests'
         /\ outstandingRequests' \subseteq file \cup (issued' \ issued)
         /\ issued' \ issued \subseteq outstandingRequests'
         /\ issued' \ issued \subseteq LocalAction
         /\ issued \subseteq issued'
  BY DEF FlushSent

\* Actions that fail are told so when they leave the file.
LEMMA FailureRecorded ==
  ASSUME TypeOK, NEW F, NEW gone, NEW serviceAction, NEW q, NEW erased, NEW A, NEW B, B \subseteq A,
         FlushSent(F, gone, serviceAction, q, outstandingRequests \ B, erased),
         reports' = Told(A, "Failed")
  PROVE  Recorded
<1>1. \A a \in Action : reports'[a] = IF a \in A THEN reports[a] \cup {"Failed"} ELSE reports[a]
  BY DEF Told
<1>2. /\ outstandingRequests \ B \subseteq outstandingRequests'
      /\ issued' \ issued \subseteq outstandingRequests'
  BY FlushFile
<1>3. outstandingRequests \subseteq Action /\ "Failed" \in Terminal
  BY DEF TypeOK, Terminal
<1> QED
  BY <1>1, <1>2, <1>3 DEF Recorded

\* Every step but a crash keeps the file in this way.
LEMMA FileStep ==
  ASSUME TypeOK, ServiceExclusive, OneService, [Next]_vars, ~Crash
  PROVE  Recorded
<1> USE DEF serviceVars, workVars, activeVars, expiryVars, loopVars, flagVars, fileVars, mailVars
<1>1. /\ mActiveActions \in [Action -> ActionData]
      /\ mServiceAction \in [Service -> Action \cup {NoAction}]
      /\ outstandingRequests \subseteq Action /\ issued \subseteq Action
      /\ reports \in [Action -> SUBSET Report]
  BY DEF TypeOK
<1>2. ASSUME reports' = reports, outstandingRequests' = outstandingRequests, issued' = issued
      PROVE  Recorded
  BY <1>2 DEF Recorded
<1>3. CASE UNCHANGED vars
  BY <1>2, <1>3 DEF vars
<1>4. ASSUME NEW a \in ClientAction, ClientRequest(a)
      PROVE  Recorded
  <2>1. a \in Action
    BY DEF Action
  <2>2. ASSUME NEW x \in Terminal, Answer(a, x)
        PROVE  Recorded
    <3>1. /\ \A b \in Action : reports'[b] = IF b = a THEN reports[b] \cup {x} ELSE reports[b]
          /\ issued' = issued \cup {a} /\ outstandingRequests' = outstandingRequests
      BY <2>2 DEF Answer, Told
    <3> QED
      BY <2>1, <3>1 DEF Recorded
  <2>3. ASSUME NEW q, enqueueRequest(a, q)
        PROVE  Recorded
    <3>1. /\ reports' = reports /\ issued' = issued \cup {a}
          /\ outstandingRequests' = outstandingRequests \cup {a}
      BY <2>3 DEF enqueueRequest
    <3> QED
      BY <3>1 DEF Recorded
  <2> QED
    BY <1>4, <2>2, <2>3, SlotOutcome
<1>5. CASE Dispatch
  <2>1. PICK ok \in BOOLEAN, started \in SUBSET Called(Current), failed \in SUBSET Called(Current) :
          DispatchRun(ok, started, failed)
    BY <1>5 DEF Dispatch
  <2> DEFINE a   == Current.action
             svc == [s \in Service |-> IF s \in Current.services THEN a ELSE mServiceAction[s]]
             H   == Hit(failed, svc)
             Q   == RemoveAt(mRequests, cursor)
  <2>2. /\ reports' = [x \in Action |->
             reports[x] \cup (IF x = a THEN {"InProgress"} ELSE {})
                \cup (IF x \in H \/ (x = a /\ ~ok) THEN {"Failed"} ELSE {})
                \cup (IF x = a /\ ok /\ Current.kind = "copyToLocal" THEN {"Successful"} ELSE {})]
        /\ FlushSent(failed, {}, svc, Q, outstandingRequests \ H, {})
    BY <2>1 DEF DispatchRun
  <2> HIDE DEF svc, H, Q
  <2>3. \A x \in Action : reports[x] \subseteq reports'[x] /\ (x \in H => "Failed" \in reports'[x])
    BY <2>2
  <2>4. /\ outstandingRequests \ H \subseteq outstandingRequests'
        /\ issued' \ issued \subseteq outstandingRequests'
    BY <2>2, FlushFile
  <2> QED
    BY <1>1, <2>3, <2>4 DEF Recorded, Terminal
<1>6. CASE DispatchRequest
  BY <1>2, <1>5, <1>6 DEF DispatchRequest, DispatchStart, DispatchSkip, DispatchEnd
<1>7. ASSUME NEW s \in Service, ServiceProgress(s)
      PROVE  Recorded
  BY <1>2, <1>7 DEF ServiceProgress
<1>8. ASSUME NEW s \in Service, ServiceFailed(s)
      PROVE  Recorded
  BY <1>8, FailureRecorded DEF ServiceFailed
<1>9. ASSUME NEW s \in Service, ServiceSucceeded(s)
      PROVE  Recorded
  <2> DEFINE a == mServiceAction[s]
  <2>1. /\ reports' = [x \in Action |-> IF x = a THEN reports[x] \cup ReportsOfSuccess(mActiveActions[x], s)
                                        ELSE reports[x]]
        /\ FlushSent({s}, {}, mServiceAction, mRequests, outstandingRequests \ {a}, {})
    BY <1>9 DEF ServiceSucceeded
  <2>2. /\ outstandingRequests \ {a} \subseteq outstandingRequests'
        /\ issued' \ issued \subseteq outstandingRequests'
    BY <2>1, FlushFile
  <2>3. ASSUME a \in Action
        PROVE  "Successful" \in reports'[a]
    <3>1. s \in mActiveActions[a].services
      BY <2>3 DEF ServiceExclusive
    <3>2. mActiveActions[a].services = {s}
      BY <2>3, <3>1 DEF OneService
    <3>3. "Successful" \in ReportsOfSuccess(mActiveActions[a], s)
      BY <3>2 DEF ReportsOfSuccess
    <3> QED
      BY <2>1, <2>3, <3>3
  <2>4. \A x \in Action : reports[x] \subseteq reports'[x]
    BY <2>1
  <2> QED
    BY <1>1, <2>2, <2>3, <2>4 DEF Recorded, Terminal
<1>10. ASSUME NEW s \in Sink, NEW m \in Message, MessageTransmitted(s, m)
       PROVE  Recorded
  BY <1>2, <1>10 DEF MessageTransmitted
<1>11. ASSUME NEW s \in Source, MailCheck(s)
       PROVE  Recorded
  BY <1>2, <1>11 DEF MailCheck, MailCheckStarted, MailCheckEnded
<1>12. ASSUME NEW D, NEW C, NEW active, NEW svc, NEW failing, NEW erased,
              Deregister(D, C, active, svc, failing, erased)
       PROVE  Recorded
  <2> DEFINE lost == {i \in 1 .. Len(mRequests) : Needs(mRequests[i]) \cap D # {}}
             A    == failing \cup Hit(C, svc) \cup {mRequests[i].action : i \in lost}
             Q    == Kept(mRequests, (1 .. Len(mRequests)) \ lost)
  <2>1. /\ reports' = Told(A, "Failed")
        /\ FlushSent(C, D, svc, Q, outstandingRequests \ Hit(C, svc), erased)
    BY <1>12 DEF Deregister
  <2>2. Hit(C, svc) \subseteq A
    OBVIOUS
  <2> HIDE DEF A, Q, lost
  <2> QED
    BY <2>1, <2>2, FailureRecorded
<1>13. ASSUME NEW x \in Account, AccountChange(x)
       PROVE  Recorded
  BY <1>12, <1>13 DEF AccountChange, AccountsUpdated, AccountsRemoved
<1>14. ASSUME NEW a \in ClientAction, CancelTransfer(a)
       PROVE  Recorded
  <2>1. CASE CancelActive(a)
    <3>1. PICK C : /\ reports' = Told(Hit(C, mServiceAction), "Failed")
                   /\ FlushSent(C, {}, mServiceAction, mRequests,
                                outstandingRequests \ Hit(C, mServiceAction), {})
      BY <2>1 DEF CancelActive
    <3> QED
      BY <3>1, FailureRecorded
  <2>2. CASE CancelPending(a)
    <3>1. /\ \A b \in Action : reports[b] \subseteq reports'[b]
          /\ outstandingRequests' = outstandingRequests /\ issued' = issued
      BY <2>2 DEF CancelPending, Told
    <3> QED
      BY <3>1 DEF Recorded
  <2> QED
    BY <1>14, <2>1, <2>2 DEF CancelTransfer
<1>15. ASSUME NEW i \in 1 .. Len(mActionExpiry), Elapse(i)
       PROVE  Recorded
  BY <1>2, <1>15 DEF Elapse
<1>16. CASE ExpireAction
  BY <1>12, <1>16 DEF ExpireAction
<1>17. CASE ExpiryCheck
  BY <1>2, <1>17 DEF ExpiryCheck
<1>18. CASE ReportFailures
  <2>1. /\ \A b \in Action : reports[b] \subseteq reports'[b]
        /\ outstandingRequests' = outstandingRequests /\ issued' = issued
    BY <1>18 DEF ReportFailures, Told
  <2> QED
    BY <2>1 DEF Recorded
<1> QED
  BY <1>3, <1>4, <1>6, <1>7, <1>8, <1>9, <1>10, <1>11, <1>13, <1>14, <1>15, <1>16, <1>17, <1>18
  DEF Next, ServiceSignal

\* The requests of a queue are requests.
LEMMA RequestOf ==
  ASSUME NEW q \in Seq(Request), NEW k \in 1 .. Len(q)
  PROVE  q[k] \in Request /\ q[k].action \in Action
<1>1. q[k] \in Request
  OBVIOUS
<1> QED
  BY <1>1 DEF Request

\* An action is queued or active only if it was, or is new.
LEMMA NoneComesBack ==
  ASSUME TypeOK, QueueInv, [Next]_vars
  PROVE  Queued' \cup Active' \subseteq Queued \cup Active \cup (issued' \ issued)
<1>1. Active' \subseteq Active \cup Queued
  <2>1. CASE ~Dispatch
    BY <2>1, OrdinaryStep DEF Steady, Active
  <2>2. CASE Dispatch
    <3>1. Current.action \in Queued
      BY <2>2 DEF Dispatch, AtRequest, Current, Queued
    <3> QED
      BY <2>2, <3>1, DispatchStep DEF Active
  <2> QED
    BY <2>1, <2>2
<1>2. \A k \in 1 .. Len(mRequests') :
        mRequests'[k].action \in Queued \cup (issued' \ issued)
  BY QueueEntries DEF QueueInv, Known, Queued
<1>3. Queued' \subseteq Queued \cup (issued' \ issued)
  BY <1>2 DEF Queued
<1> QED
  BY <1>1, <1>3

\* CrashSafe: if no request concerns several accounts, a crash of the daemon at
\* any moment is reported to every client it affects: an action that is queued
\* or active and whose end has not been reported is in the requests file.
THEOREM CrashReported ==
  ASSUME Offered \cap MultiAccount = {}
  PROVE  Spec => []CrashSafe
<1>1. Init => CrashSafe
  BY DEF Init, CrashSafe, Queued, Active
<1>2. ASSUME TypeOK, TypeOK', ServiceExclusive, QueueInv, OneService, CrashSafe, [Next]_vars
      PROVE  CrashSafe'
  <2>1. CASE Crash
    <3>1. Len(mRequests') = 0 /\ \A a \in Action : mActiveActions'[a] = NoData
      BY <2>1 DEF Crash
    <3>2. Queued' = {} /\ Active' = {}
      BY <3>1 DEF Queued, Active
    <3> QED
      BY <3>2 DEF CrashSafe
  <2>2. CASE ~Crash
    <3>1. Recorded
      BY <1>2, <2>2, FileStep
    <3>2. Queued' \cup Active' \subseteq Queued \cup Active \cup (issued' \ issued)
      BY <1>2, NoneComesBack
    <3>3. Queued' \cup Active' \subseteq Action
      <4>1. mRequests' \in Seq(Request)
        BY <1>2 DEF TypeOK
      <4>2. \A k \in 1 .. Len(mRequests') : mRequests'[k].action \in Action
        BY <4>1, RequestOf
      <4> QED
        BY <4>2 DEF Queued, Active
    <3> SUFFICES ASSUME NEW a \in Queued' \cup Active', reports'[a] \cap Terminal = {}
                 PROVE  a \in outstandingRequests'
      BY DEF CrashSafe
    <3>4. CASE a \in issued' \ issued
      BY <3>1, <3>4 DEF Recorded
    <3>5. CASE a \in Queued \cup Active
      <4>1. reports[a] \cap Terminal = {}
        BY <3>1, <3>3 DEF Recorded
      <4> QED
        BY <1>2, <3>1, <3>5, <4>1 DEF CrashSafe, Recorded
    <3> QED
      BY <3>2, <3>4, <3>5
  <2> QED
    BY <2>1, <2>2
<1> QED
  BY <1>1, <1>2, TypeCorrect, QueueInvariant, OneServiceEach, PTL DEF Spec

-----------------------------------------------------------------------------
(* Who is told what *)

\* Identifiers are in use before anything is recorded or told about them, and
\* what the last crash interrupted is over.
Accounted ==
  /\ outstandingRequests \subseteq issued
  /\ failedRequests \subseteq issued
  /\ \A a \in Action : reports[a] # {} => a \in issued
  /\ failedRequests \cap (Queued \cup Active) = {}

\* What a step other than a crash does to the records.
Accounting ==
  /\ outstandingRequests' \subseteq outstandingRequests \cup (issued' \ issued)
  /\ failedRequests' \subseteq failedRequests
  /\ \A a \in failedRequests \ failedRequests' : reports'[a] \cap Terminal # {}
  /\ \A a \in Action : reports'[a] # reports[a] => a \in issued' \/ a \in failedRequests

\* Services that fail hit active actions.
LEMMA HitActive ==
  ASSUME TypeOK, ServiceExclusive, NEW F \in SUBSET Service
  PROVE  Hit(F, mServiceAction) \subseteq Active
<1> SUFFICES ASSUME NEW s \in F, mServiceAction[s] # NoAction
             PROVE  mServiceAction[s] \in Active
  BY DEF Hit
<1>1. s \in Service /\ mServiceAction[s] \in Action
  BY DEF TypeOK
<1>2. s \in mActiveActions[mServiceAction[s]].services
  BY <1>1 DEF ServiceExclusive
<1> QED
  BY <1>1, <1>2 DEF Active, NoData

\* What is told with Told concerns the actions named.
LEMMA ToldOnly ==
  ASSUME TypeOK, NEW A, A \subseteq issued \cup failedRequests, NEW x, reports' = Told(A, x),
         issued \subseteq issued'
  PROVE  \A a \in Action : reports'[a] # reports[a] => a \in issued' \/ a \in failedRequests
<1>1. \A a \in Action : reports'[a] = IF a \in A THEN reports[a] \cup {x} ELSE reports[a]
  BY DEF Told
<1> QED
  BY <1>1

\* An account that changes loses services, and nothing else happens to actions.
LEMMA AccountDeregisters ==
  ASSUME TypeOK, NEW x \in Account, AccountChange(x)
  PROVE  \E D, C \in SUBSET Service, erased \in SUBSET Message :
           C \subseteq D /\ Deregister(D, C, mActiveActions, mServiceAction, {}, erased)
<1>1. ServicesOf({x}) \in SUBSET Service /\ Owned(x) \in SUBSET Message
  BY ServiceSets DEF Owned
<1>2. CASE AccountsRemoved(x)
  <2>1. PICK C \in SUBSET ServicesOf({x}) :
          Deregister(ServicesOf({x}), C, mActiveActions, mServiceAction, {}, Owned(x))
    BY <1>2 DEF AccountsRemoved
  <2> QED
    BY <1>1, <2>1
<1>3. ASSUME NEW N, AccountsUpdated(x, N)
      PROVE  \E D, C \in SUBSET Service, erased \in SUBSET Message :
               C \subseteq D /\ Deregister(D, C, mActiveActions, mServiceAction, {}, erased)
  <2>1. PICK C \in SUBSET (ServicesOf({x}) \ N) :
          Deregister(ServicesOf({x}) \ N, C, mActiveActions, mServiceAction, {}, {})
    BY <1>3 DEF AccountsUpdated
  <2> DEFINE D == ServicesOf({x}) \ N
  <2>2. D \in SUBSET Service /\ C \in SUBSET Service /\ C \subseteq D
    BY <1>1
  <2> HIDE DEF D
  <2> QED
    BY <2>1, <2>2 DEF D
<1> QED
  BY <1>2, <1>3 DEF AccountChange

\* Every step but a crash keeps the accounts straight.
LEMMA AccountingStep ==
  ASSUME TypeOK, ServiceExclusive, QueueInv, [Next]_vars, ~Crash
  PROVE  Accounting
<1> USE DEF serviceVars, workVars, activeVars, expiryVars, loopVars, flagVars, fileVars, mailVars
<1>1. /\ mServiceAction \in [Service -> Action \cup {NoAction}]
      /\ mActiveActions \in [Action -> ActionData]
      /\ mActionExpiry \in Seq(Action)
      /\ Queued \subseteq issued /\ Active \subseteq issued
      /\ serviceMap \subseteq Service
  BY DEF TypeOK, QueueInv, Known
<1>0. \A a \in Action : mActiveActions[a].services \subseteq Service
  BY <1>1 DEF ActionData
<1>2. ASSUME reports' = reports, outstandingRequests' = outstandingRequests, issued' = issued,
             failedRequests' = failedRequests
      PROVE  Accounting
  BY <1>2 DEF Accounting
<1>3. CASE UNCHANGED vars
  BY <1>2, <1>3 DEF vars
<1>4. ASSUME NEW a \in ClientAction, ClientRequest(a)
      PROVE  Accounting
  <2>2. ASSUME NEW x \in Terminal, Answer(a, x)
        PROVE  Accounting
    <3>1. /\ \A b \in Action : reports'[b] = IF b = a THEN reports[b] \cup {x} ELSE reports[b]
          /\ issued' = issued \cup {a} /\ outstandingRequests' = outstandingRequests
          /\ failedRequests' = failedRequests
      BY <2>2 DEF Answer, Told
    <3> QED
      BY <3>1 DEF Accounting
  <2>3. ASSUME NEW q, enqueueRequest(a, q), a \notin issued
        PROVE  Accounting
    <3>1. /\ reports' = reports /\ issued' = issued \cup {a}
          /\ outstandingRequests' = outstandingRequests \cup {a}
          /\ failedRequests' = failedRequests
      BY <2>3 DEF enqueueRequest
    <3> QED
      BY <2>3, <3>1 DEF Accounting
  <2> QED
    BY <1>4, <2>2, <2>3, SlotOutcome
\* Actions that fail because their services do.
<1>5. ASSUME NEW F, NEW gone, NEW serviceAction, NEW q, NEW erased, NEW A, NEW B,
             FlushSent(F, gone, serviceAction, q, outstandingRequests \ B, erased),
             A \subseteq Queued \cup Active, reports' = Told(A, "Failed"),
             failedRequests' = failedRequests
      PROVE  Accounting
  <2>1. /\ outstandingRequests' \subseteq outstandingRequests \cup (issued' \ issued)
        /\ issued \subseteq issued'
    BY <1>5, FlushFile
  <2>2. A \subseteq issued \cup failedRequests
    BY <1>1, <1>5
  <2>3. \A a \in Action : reports'[a] # reports[a] => a \in issued' \/ a \in failedRequests
    BY <1>5, <2>1, <2>2, ToldOnly
  <2> QED
    BY <1>5, <2>1, <2>3 DEF Accounting
<1>6. CASE Dispatch
  <2>1. PICK ok \in BOOLEAN, started \in SUBSET Called(Current), failed \in SUBSET Called(Current) :
          DispatchRun(ok, started, failed)
    BY <1>6 DEF Dispatch
  <2> DEFINE a   == Current.action
             svc == [s \in Service |-> IF s \in Current.services THEN a ELSE mServiceAction[s]]
             H   == Hit(failed, svc)
             Q   == RemoveAt(mRequests, cursor)
  <2>2. /\ reports' = [x \in Action |->
             reports[x] \cup (IF x = a THEN {"InProgress"} ELSE {})
                \cup (IF x \in H \/ (x = a /\ ~ok) THEN {"Failed"} ELSE {})
                \cup (IF x = a /\ ok /\ Current.kind = "copyToLocal" THEN {"Successful"} ELSE {})]
        /\ FlushSent(failed, {}, svc, Q, outstandingRequests \ H, {})
    BY <2>1 DEF DispatchRun
  <2>3. failedRequests' = failedRequests
    BY <1>6 DEF Dispatch
  <2>4. a \in Queued
    BY <1>6 DEF Dispatch, AtRequest, Current, Queued
  <2>5. failed \in SUBSET Service
    BY <1>1, <1>6, CurrentType DEF Dispatch
  <2>6. H \subseteq {a} \cup Hit(failed, mServiceAction)
    BY <2>5 DEF Hit
  <2>7. H \subseteq issued
    BY <1>1, <2>4, <2>5, <2>6, HitActive
  <2> HIDE DEF svc, H, Q, a
  <2>8. \A x \in Action : x \notin issued => reports'[x] = reports[x]
    BY <1>1, <2>2, <2>4, <2>7
  <2>9. /\ outstandingRequests' \subseteq outstandingRequests \cup (issued' \ issued)
        /\ issued \subseteq issued'
    BY <2>2, FlushFile
  <2> QED
    BY <2>3, <2>8, <2>9 DEF Accounting
<1>7. CASE DispatchRequest
  BY <1>2, <1>6, <1>7 DEF DispatchRequest, DispatchStart, DispatchSkip, DispatchEnd
<1>8. ASSUME NEW s \in Service, ServiceProgress(s)
      PROVE  Accounting
  BY <1>2, <1>8 DEF ServiceProgress
<1>9. ASSUME NEW s \in Service, ServiceFailed(s)
      PROVE  Accounting
  <2>1. Hit({s}, mServiceAction) \subseteq Queued \cup Active
    BY HitActive
  <2> QED
    BY <1>5, <1>9, <2>1 DEF ServiceFailed
<1>10. ASSUME NEW s \in Service, ServiceSucceeded(s)
       PROVE  Accounting
  <2> DEFINE a == mServiceAction[s]
  <2>1. /\ reports' = [x \in Action |-> IF x = a THEN reports[x] \cup ReportsOfSuccess(mActiveActions[x], s)
                                        ELSE reports[x]]
        /\ FlushSent({s}, {}, mServiceAction, mRequests, outstandingRequests \ {a}, {})
        /\ failedRequests' = failedRequests
    BY <1>10 DEF ServiceSucceeded
  <2>2. /\ outstandingRequests' \subseteq outstandingRequests \cup (issued' \ issued)
        /\ issued \subseteq issued'
    BY <2>1, FlushFile
  <2>3. a \in Action => a \in issued
    BY <1>1, HitActive, ActionAssumption DEF Hit, Action
  <2>4. \A x \in Action : reports'[x] # reports[x] => x = a
    BY <2>1
  <2> QED
    BY <2>1, <2>2, <2>3, <2>4 DEF Accounting
<1>11. ASSUME NEW s \in Sink, NEW m \in Message, MessageTransmitted(s, m)
       PROVE  Accounting
  BY <1>2, <1>11 DEF MessageTransmitted
<1>12. ASSUME NEW s \in Source, MailCheck(s)
       PROVE  Accounting
  BY <1>2, <1>12 DEF MailCheck, MailCheckStarted, MailCheckEnded
<1>13. ASSUME NEW D, NEW C, NEW active, NEW svc, NEW failing, NEW erased,
              Deregister(D, C, active, svc, failing, erased),
              failing \cup Hit(C, svc) \subseteq Active, failedRequests' = failedRequests
       PROVE  Accounting
  <2> DEFINE lost == {i \in 1 .. Len(mRequests) : Needs(mRequests[i]) \cap D # {}}
             A    == failing \cup Hit(C, svc) \cup {mRequests[i].action : i \in lost}
             Q    == Kept(mRequests, (1 .. Len(mRequests)) \ lost)
  <2>1. /\ reports' = Told(A, "Failed")
        /\ FlushSent(C, D, svc, Q, outstandingRequests \ Hit(C, svc), erased)
    BY <1>13 DEF Deregister
  <2>2. A \subseteq Queued \cup Active
    BY <1>13 DEF Queued
  <2> HIDE DEF A, Q, lost
  <2> QED
    BY <1>5, <1>13, <2>1, <2>2
<1>14. ASSUME NEW x \in Account, AccountChange(x)
       PROVE  Accounting
  <2>1. failedRequests' = failedRequests
    BY <1>14 DEF AccountChange, AccountsUpdated, AccountsRemoved
  <2>3. PICK D \in SUBSET Service, C \in SUBSET Service, erased \in SUBSET Message :
          Deregister(D, C, mActiveActions, mServiceAction, {}, erased)
    BY <1>14, AccountDeregisters
  <2>2. Hit(C, mServiceAction) \subseteq Active
    BY HitActive
  <2> QED
    BY <1>13, <2>1, <2>2, <2>3
<1>15. ASSUME NEW a \in ClientAction, CancelTransfer(a)
       PROVE  Accounting
  <2>1. CASE CancelActive(a)
    <3>1. PICK C \in SUBSET mActiveActions[a].services :
            /\ reports' = Told(Hit(C, mServiceAction), "Failed")
            /\ FlushSent(C, {}, mServiceAction, mRequests,
                         outstandingRequests \ Hit(C, mServiceAction), {})
            /\ failedRequests' = failedRequests
      BY <2>1 DEF CancelActive
    <3>2. a \in Action
      BY DEF Action
    <3>3. Hit(C, mServiceAction) \subseteq Queued \cup Active
      BY <1>0, <3>2, HitActive
    <3> QED
      BY <1>5, <3>1, <3>3
  <2>2. CASE CancelPending(a)
    <3>1. /\ reports' = Told({a}, "Failed") /\ {a} \subseteq issued \cup failedRequests
          /\ outstandingRequests' = outstandingRequests /\ issued' = issued
          /\ failedRequests' = failedRequests
      BY <2>2 DEF CancelPending
    <3>2. \A b \in Action : reports'[b] # reports[b] => b \in issued' \/ b \in failedRequests
      BY <3>1, ToldOnly
    <3> QED
      BY <3>1, <3>2 DEF Accounting
  <2> QED
    BY <1>15, <2>1, <2>2 DEF CancelTransfer
<1>16. ASSUME NEW i \in 1 .. Len(mActionExpiry), Elapse(i)
       PROVE  Accounting
  BY <1>2, <1>16 DEF Elapse
<1>17. CASE ExpireAction
  <2> DEFINE a   == Head(mActionExpiry)
             S   == mActiveActions[a].services
             svc == [s \in Service |-> IF s \in S THEN NoAction ELSE mServiceAction[s]]
             act == [mActiveActions EXCEPT ![a] = NoData]
             D   == ServicesOf(AccountsOf(S))
  <2>1. PICK C \in SUBSET D : Deregister(D, C, act, svc, {a}, {})
    BY <1>17 DEF ExpireAction
  <2>2. failedRequests' = failedRequests
    BY <1>17 DEF ExpireAction
  <2>3. a \in Active
    BY <1>1, <1>17 DEF ExpireAction, HeadIsStale, Active
  <2>4. C \in SUBSET Service
    BY <1>1 DEF ServicesOf
  <2>5. Hit(C, svc) \subseteq Hit(C, mServiceAction)
    BY <2>4 DEF Hit
  <2>6. {a} \cup Hit(C, svc) \subseteq Active
    BY <2>3, <2>4, <2>5, HitActive
  <2> HIDE DEF a, S, svc, act, D
  <2> QED
    BY <1>13, <2>1, <2>2, <2>6
<1>18. CASE ExpiryCheck
  BY <1>2, <1>18 DEF ExpiryCheck
<1>19. CASE ReportFailures
  <2>1. /\ reports' = Told(failedRequests, "Failed") /\ failedRequests' = {}
        /\ outstandingRequests' = outstandingRequests /\ issued' = issued
    BY <1>19 DEF ReportFailures
  <2>2. \A b \in Action : reports'[b] = IF b \in failedRequests THEN reports[b] \cup {"Failed"} ELSE reports[b]
    BY <2>1 DEF Told
  <2>3. failedRequests \subseteq Action
    BY DEF TypeOK
  <2> QED
    BY <2>1, <2>2, <2>3 DEF Accounting, Terminal
<1> QED
  BY <1>3, <1>4, <1>7, <1>8, <1>9, <1>10, <1>11, <1>12, <1>14, <1>15, <1>16, <1>17, <1>18, <1>19
  DEF Next, ServiceSignal

\* So the accounts stay straight.
LEMMA AccountedStep ==
  ASSUME TypeOK, ServiceExclusive, QueueInv, Accounted, [Next]_vars
  PROVE  Accounted'
<1>1. issued \subseteq issued' /\ Queued' \cup Active' \subseteq Queued \cup Active \cup (issued' \ issued)
  BY NoneComesBack, KnownStep
<1>2. CASE Crash
  <2>1. /\ Len(mRequests') = 0 /\ \A a \in Action : mActiveActions'[a] = NoData
        /\ failedRequests' = outstandingRequests /\ outstandingRequests' = {}
        /\ reports' = reports /\ issued' = issued
    BY <1>2 DEF Crash
  <2>2. Queued' = {} /\ Active' = {}
    BY <2>1 DEF Queued, Active
  <2> QED
    BY <2>1, <2>2 DEF Accounted
<1>3. CASE ~Crash
  <2>1. Accounting
    BY <1>3, AccountingStep
  <2> QED
    BY <1>1, <2>1 DEF Accounting, Accounted
<1> QED
  BY <1>2, <1>3

-----------------------------------------------------------------------------
(* Failed actions *)

\* An action has one request, and it is active only once that is dispatched.
OneRequest ==
  /\ \A i, j \in 1 .. Len(mRequests) : mRequests[i].action = mRequests[j].action => i = j
  /\ Queued \cap Active = {}

\* Only a request that prepares a transmission shares its action with another.
LEMMA OnlyPreparedTwice ==
  ASSUME External = {}, NEW q \in Seq(Request), Adjacent(q), \A i \in 1 .. Len(q) : Made(q[i])
  PROVE  \A i, j \in 1 .. Len(q) : q[i].action = q[j].action => i = j
<1> SUFFICES ASSUME NEW i \in 1 .. Len(q), NEW j \in 1 .. Len(q), q[i].action = q[j].action, i < j
             PROVE  FALSE
  OBVIOUS
<1>1. q[i].kind = "prepare"
  BY DEF Adjacent
<1> QED
  BY <1>1 DEF Made

\* The request that is dispatched has left the queue,
LEMMA DispatchedLeaves ==
  ASSUME TypeOK, QueueInv, OneRequest, Dispatch, [Next]_vars
  PROVE  Current.action \notin Queued'
<1>1. Current.action \in Queued /\ cursor \in 1 .. Len(mRequests)
  BY DEF Dispatch, AtRequest, Current, Queued
<1>2. Current.action \in issued
  BY <1>1 DEF QueueInv, Known
<1>3. ASSUME NEW k \in 1 .. Len(mRequests'), mRequests'[k].action = Current.action
      PROVE  FALSE
  <2>1. \/ k < cursor /\ k \in 1 .. Len(mRequests) /\ mRequests'[k] = mRequests[k]
        \/ k >= cursor /\ k + 1 \in 1 .. Len(mRequests) /\ mRequests'[k] = mRequests[k + 1]
    BY <1>2, <1>3, DispatchQueue
  <2>2. CASE k < cursor /\ k \in 1 .. Len(mRequests) /\ mRequests'[k] = mRequests[k]
    <3>1. mRequests[k].action = mRequests[cursor].action
      BY <1>3, <2>2 DEF Current
    <3> QED
      BY <1>1, <2>2, <3>1 DEF OneRequest
  <2>3. CASE k >= cursor /\ k + 1 \in 1 .. Len(mRequests) /\ mRequests'[k] = mRequests[k + 1]
    <3>1. mRequests[k + 1].action = mRequests[cursor].action
      BY <1>3, <2>3 DEF Current
    <3>2. k + 1 = cursor
      BY <1>1, <2>3, <3>1 DEF OneRequest
    <3> QED
      BY <1>1, <2>3, <3>2
  <2> QED
    BY <2>1, <2>2, <2>3
<1> QED
  BY <1>3 DEF Queued

\* and an active action stays out of it.
LEMMA ActiveNotQueued ==
  ASSUME TypeOK, QueueInv, OneRequest, [Next]_vars, NEW a \in Active
  PROVE  a \notin Queued'
<1>1. a \in issued /\ a \notin Queued
  BY DEF QueueInv, Known, OneRequest
<1>2. ASSUME NEW k \in 1 .. Len(mRequests'), mRequests'[k].action = a
      PROVE  FALSE
  <2>1. \E i \in 1 .. Len(mRequests) : mRequests'[k] = mRequests[i]
    BY <1>1, <1>2, QueueEntries DEF QueueInv, Known
  <2> QED
    BY <1>1, <1>2, <2>1 DEF Queued
<1> QED
  BY <1>2 DEF Queued

\* So there is one request for each action as long as nothing needs preparing.
LEMMA OneRequestStep ==
  ASSUME External = {}, TypeOK, TypeOK', QueueInv, QueueWellMade, OneRequest, [Next]_vars
  PROVE  OneRequest'
<1>1. /\ Known' /\ Adjacent(mRequests')
      /\ \A x \in Action : x \notin issued => mActiveActions'[x] = NoData
  BY KnownStep
<1>2. \A k \in 1 .. Len(mRequests') : Made(mRequests'[k])
  BY QueueMade DEF Replenished, QueueWellMade
<1>3. mRequests' \in Seq(Request)
  BY DEF TypeOK
<1>4. \A i, j \in 1 .. Len(mRequests') : mRequests'[i].action = mRequests'[j].action => i = j
  BY <1>1, <1>2, <1>3, OnlyPreparedTwice
<1>5. ASSUME NEW a \in Queued', a \in Active'
      PROVE  FALSE
  <2>1. a \in Queued \cup (issued' \ issued)
    BY <1>5, QueueEntries DEF Queued, QueueInv, Known
  <2>2. a \notin issued' \ issued
    BY <1>1, <1>5 DEF Active
  <2>3. a \notin Active
    BY <2>1, <2>2 DEF OneRequest
  <2>4. CASE ~Dispatch
    BY <1>5, <2>3, <2>4, OrdinaryStep DEF Steady, Active
  <2>5. CASE Dispatch
    <3>1. a = Current.action
      BY <1>5, <2>3, <2>5, DispatchStep DEF Active
    <3> QED
      BY <1>5, <2>5, <3>1, DispatchedLeaves
  <2> QED
    BY <2>4, <2>5
<1> QED
  BY <1>4, <1>5 DEF OneRequest

\* The action a has ended.
Over(a) == mActiveActions'[a] = NoData /\ a \notin Queued'

\* Whatever is newly reported as failed is over.
FailedOver ==
  \A a \in Action : "Failed" \in reports'[a] => "Failed" \in reports[a] \/ Over(a)

\* An action that loses its service is over, and so is one that loses its request.
LEMMA DeregisterOver ==
  ASSUME TypeOK, QueueInv, OneService, OneRequest, [Next]_vars,
         NEW D \in SUBSET Service, NEW C \in SUBSET Service,
         NEW active \in [Action -> ActionData],
         NEW svc \in [Service -> Action \cup {NoAction}],
         NEW failing, NEW erased, Exclusive(active, svc),
         \A a \in Action : active[a] = mActiveActions[a] \/ active[a] = NoData,
         \A a \in failing : a \in Active /\ active[a] = NoData,
         Deregister(D, C, active, svc, failing, erased)
  PROVE  FailedOver
<1> DEFINE lost  == {i \in 1 .. Len(mRequests) : Needs(mRequests[i]) \cap D # {}}
           kept  == (1 .. Len(mRequests)) \ lost
           A     == failing \cup Hit(C, svc) \cup {mRequests[i].action : i \in lost}
           after == ActiveAfterFailure(active, svc, C)
<1>1. /\ reports' = Told(A, "Failed")
      /\ mActiveActions' = [a \in Action |-> IF after[a] = NoData THEN NoData
                                             ELSE [after[a] EXCEPT !.services = @ \ D]]
      /\ FlushSent(C, D, svc, Kept(mRequests, kept), outstandingRequests \ Hit(C, svc), erased)
  BY DEF Deregister
<1>2. \A a \in Action : after[a] = NoData => mActiveActions'[a] = NoData
  BY <1>1
<1> SUFFICES ASSUME NEW a \in Action, "Failed" \in reports'[a], "Failed" \notin reports[a]
             PROVE  Over(a)
  BY DEF FailedOver
<1>3. a \in A
  BY <1>1 DEF Told
<1>4. CASE a \in failing
  <2>1. after[a] = NoData
    BY <1>4 DEF ActiveAfterFailure
  <2> QED
    BY <1>2, <1>4, <2>1, ActiveNotQueued DEF Over
<1>5. CASE a \in Hit(C, svc)
  <2>1. PICK s \in C : svc[s] = a
    BY <1>5 DEF Hit
  <2>2. s \in active[a].services
    BY <2>1 DEF Exclusive
  <2>3. active[a] = mActiveActions[a] /\ a \in Active
    BY <2>2 DEF NoData, Active
  <2>4. \A t, u \in active[a].services : t = u
    BY <2>3 DEF OneService
  <2>5. after[a] = NoData
    BY <1>5, <2>4, HitEnds
  <2> QED
    BY <1>2, <2>3, <2>5, ActiveNotQueued DEF Over
<1>6. CASE a \in {mRequests[i].action : i \in lost}
  <2>1. PICK i \in lost : mRequests[i].action = a
    BY <1>6
  <2>2. a \in Queued /\ a \in issued /\ a \notin Active
    BY <2>1 DEF Queued, OneRequest, QueueInv, Known
  <2>3. active[a] = NoData
    BY <2>2 DEF Active
  <2>4. after[a] = NoData
    BY <2>3 DEF ActiveAfterFailure
  <2>5. /\ mRequests \in Seq(Request) /\ kept \in SUBSET (1 .. Len(mRequests))
        /\ i \notin kept /\ i \in 1 .. Len(mRequests)
    BY DEF TypeOK
  <2> HIDE DEF kept, lost
  <2>6. /\ Kept(mRequests, kept) \in Seq(Request)
        /\ Len(Kept(mRequests, kept)) = Cardinality(kept)
        /\ \A k \in 1 .. Cardinality(kept) : \E j \in kept : Kept(mRequests, kept)[k] = mRequests[j]
    BY <2>5, KeptEntries
  <2>7. \A k \in 1 .. Len(Kept(mRequests, kept)) : Kept(mRequests, kept)[k].action # a
    <3> SUFFICES ASSUME NEW k \in 1 .. Cardinality(kept), Kept(mRequests, kept)[k].action = a
                 PROVE  FALSE
      BY <2>6
    <3>1. PICK j \in kept : Kept(mRequests, kept)[k] = mRequests[j]
      BY <2>6
    <3>2. j \in 1 .. Len(mRequests) /\ mRequests[j].action = a
      BY <2>5, <3>1
    <3>3. i = j
      BY <2>1, <2>5, <3>2 DEF OneRequest
    <3> QED
      BY <2>5, <3>3
  <2>8. Grown(Kept(mRequests, kept))
    BY <1>1, <2>6, FlushGrown
  <2>9. PICK t \in Seq(Request) : /\ mRequests' = Kept(mRequests, kept) \o t
                                  /\ \A j \in 1 .. Len(t) : t[j].action \in issued' \ issued
    BY <2>8 DEF Grown
  <2>10. \A k \in 1 .. Len(mRequests') : mRequests'[k].action # a
    <3> SUFFICES ASSUME NEW k \in 1 .. Len(mRequests')
                 PROVE  mRequests'[k].action # a
      OBVIOUS
    <3> DEFINE Q == Kept(mRequests, kept)
    <3>1. Q \in Seq(Request)
      BY <2>6
    <3> HIDE DEF Q
    <3>2. CASE k \in 1 .. Len(Q)
      <4>1. mRequests'[k] = Q[k]
        BY <2>9, <3>1, <3>2 DEF Q
      <4> QED
        BY <2>7, <3>2, <4>1 DEF Q
    <3>3. CASE k \notin 1 .. Len(Q)
      <4>1. k - Len(Q) \in 1 .. Len(t) /\ mRequests'[k] = t[k - Len(Q)]
        BY <2>9, <3>1, <3>3 DEF Q
      <4> QED
        BY <2>2, <2>9, <4>1
    <3> QED
      BY <3>2, <3>3
  <2> QED
    BY <1>2, <2>4, <2>10 DEF Over, Queued
<1> QED
  BY <1>3, <1>4, <1>5, <1>6

\* The active actions, and the actions of the services, while the servicer of
\* the current request runs.
RunningAction == [services |-> Current.services, kind |-> Current.kind,
                  reported |-> FALSE, stale |-> FALSE]
RunningActive == [mActiveActions EXCEPT ![Current.action] = RunningAction]
RunningService ==
  [s \in Service |-> IF s \in Current.services THEN Current.action ELSE mServiceAction[s]]

\* They agree with each other.
LEMMA RunningExclusive ==
  ASSUME TypeOK, ServiceExclusive, QueueInv, Dispatch
  PROVE  /\ RunningActive \in [Action -> ActionData]
         /\ RunningActive[Current.action] = RunningAction
         /\ \A x \in Action : x # Current.action => RunningActive[x] = mActiveActions[x]
         /\ RunningService \in [Service -> Action \cup {NoAction}]
         /\ Exclusive(RunningActive, RunningService)
         /\ Current.action \in Action /\ Called(Current) \subseteq Service
         /\ RunningAction # NoData
<1> DEFINE r == Current
           a == r.action
           R == r.services
<1>1. /\ a \in Action /\ R \in SUBSET Service /\ r.kind \in Kind
      /\ Called(r) \subseteq Service /\ Needs(r) \subseteq Service
      /\ servicesAvailable(r)
  BY CurrentType DEF Dispatch, TypeOK
<1>2. /\ mActiveActions \in [Action -> ActionData]
      /\ mServiceAction \in [Service -> Action \cup {NoAction}]
  BY DEF TypeOK
<1>3. R \subseteq Needs(r) /\ \A s \in Needs(r) : mServiceAction[s] = NoAction
  BY <1>1 DEF servicesAvailable, serviceAvailable, Needs
<1>4. \A s \in Needs(r), x \in Action : s \notin mActiveActions[x].services
  BY <1>1, <1>3, ActionAssumption DEF ServiceExclusive, Action
<1>5. mActiveActions[a].services \subseteq Needs(r)
  BY DEF QueueInv, Fits, Dispatch, AtRequest, Current
<1>6. mActiveActions[a].services = {}
  BY <1>1, <1>4, <1>5
<1>7. RunningAction \in ActionData /\ RunningAction.services = R /\ RunningAction # NoData
  BY <1>1 DEF ActionData, RunningAction, NoData, Kind
<1> HIDE DEF r
<1>8. /\ RunningActive \in [Action -> ActionData]
      /\ RunningActive[a] = RunningAction
      /\ \A x \in Action : x # a => RunningActive[x] = mActiveActions[x]
  BY <1>1, <1>2, <1>7 DEF RunningActive, r
<1>9. /\ \A s \in Service : RunningService[s] = IF s \in R THEN a ELSE mServiceAction[s]
      /\ RunningService \in [Service -> Action \cup {NoAction}]
  BY <1>1, <1>2 DEF RunningService, r
<1> HIDE DEF a, R
<1>10. Exclusive(RunningActive, RunningService)
  <2> SUFFICES ASSUME NEW s \in Service, NEW x \in Action
               PROVE  RunningService[s] = x <=> s \in RunningActive[x].services
    BY DEF Exclusive
  <2>1. mServiceAction[s] = x <=> s \in mActiveActions[x].services
    BY DEF ServiceExclusive
  <2>2. CASE x = a
    BY <1>6, <1>7, <1>8, <1>9, <2>1, <2>2
  <2>3. CASE x # a
    BY <1>3, <1>4, <1>8, <1>9, <2>1, <2>3
  <2> QED
    BY <2>2, <2>3
<1> QED
  BY <1>1, <1>7, <1>8, <1>9, <1>10 DEF a, r

\* What the servicer leaves behind.
LEMMA DispatchOutcome ==
  ASSUME Dispatch
  PROVE  \E ok \in BOOLEAN, failed \in SUBSET Called(Current) :
           /\ mActiveActions' = IF ok THEN ActiveAfterFailure(RunningActive, RunningService, failed)
                                ELSE [ActiveAfterFailure(RunningActive, RunningService, failed)
                                        EXCEPT ![Current.action] = NoData]
           /\ reports' = [x \in Action |->
                reports[x] \cup (IF x = Current.action THEN {"InProgress"} ELSE {})
                  \cup (IF x \in Hit(failed, RunningService) \/ (x = Current.action /\ ~ok)
                        THEN {"Failed"} ELSE {})
                  \cup (IF x = Current.action /\ ok /\ Current.kind = "copyToLocal"
                        THEN {"Successful"} ELSE {})]
<1>1. PICK ok \in BOOLEAN, started \in SUBSET Called(Current), failed \in SUBSET Called(Current) :
        DispatchRun(ok, started, failed)
  BY DEF Dispatch
<1> QED
  BY <1>1 DEF DispatchRun, RunningActive, RunningService, RunningAction

\* An action that fails while its request is dispatched is over.
LEMMA DispatchOver ==
  ASSUME TypeOK, ServiceExclusive, QueueInv, OneService, QueueWellMade, OneRequest,
         Offered \cap MultiAccount = {}, Dispatch, [Next]_vars
  PROVE  FailedOver
<1> DEFINE a == Current.action
<1>1. PICK ok \in BOOLEAN, failed \in SUBSET Called(Current) :
        /\ mActiveActions' = IF ok THEN ActiveAfterFailure(RunningActive, RunningService, failed)
                             ELSE [ActiveAfterFailure(RunningActive, RunningService, failed)
                                     EXCEPT ![a] = NoData]
        /\ reports' = [x \in Action |->
             reports[x] \cup (IF x = a THEN {"InProgress"} ELSE {})
               \cup (IF x \in Hit(failed, RunningService) \/ (x = a /\ ~ok) THEN {"Failed"} ELSE {})
               \cup (IF x = a /\ ok /\ Current.kind = "copyToLocal" THEN {"Successful"} ELSE {})]
  BY DispatchOutcome
<1>2. /\ RunningActive \in [Action -> ActionData]
      /\ RunningActive[a] = RunningAction
      /\ \A x \in Action : x # a => RunningActive[x] = mActiveActions[x]
      /\ Exclusive(RunningActive, RunningService)
      /\ a \in Action /\ Called(Current) \subseteq Service
  BY RunningExclusive
<1>3. a \notin Queued'
  BY DispatchedLeaves
<1>4. RunningAction.services = Current.services /\ \A s, t \in Current.services : s = t
  BY DEF RunningAction, QueueWellMade, Made, Dispatch, AtRequest, Current
<1> DEFINE after == ActiveAfterFailure(RunningActive, RunningService, failed)
<1>5. after \in [Action -> ActionData]
  BY <1>2, FailureType
<1> HIDE DEF a, after
<1> SUFFICES ASSUME NEW x \in Action, "Failed" \in reports'[x], "Failed" \notin reports[x]
             PROVE  Over(x)
  BY DEF FailedOver
<1>6. x \in Hit(failed, RunningService) \/ (x = a /\ ~ok)
  BY <1>1
<1>7. CASE x = a /\ ~ok
  <2>1. mActiveActions'[x] = NoData
    BY <1>1, <1>2, <1>5, <1>7 DEF after
  <2> QED
    BY <1>3, <1>7, <2>1 DEF Over
<1>8. CASE x \in Hit(failed, RunningService)
  <2>1. \A s, t \in RunningActive[x].services : s = t
    BY <1>2, <1>4 DEF OneService
  <2>2. after[x] = NoData
    BY <1>2, <1>8, <2>1, HitEnds DEF after
  <2>3. mActiveActions'[x] = NoData
    BY <1>1, <1>2, <1>5, <2>2 DEF after
  <2>4. CASE x # a
    <3>1. PICK s \in failed : RunningService[s] = x
      BY <1>8 DEF Hit
    <3>2. s \in mActiveActions[x].services
      BY <1>2, <2>4, <3>1 DEF Exclusive
    <3>3. x \in Active
      BY <3>2 DEF Active, NoData
    <3> QED
      BY <2>3, <3>3, ActiveNotQueued DEF Over
  <2> QED
    BY <1>3, <2>3, <2>4 DEF Over
<1> QED
  BY <1>6, <1>7, <1>8

\* What expireAction leaves before it replaces the services of the accounts.
Expired(a) == [mActiveActions EXCEPT ![a] = NoData]
Released(a) ==
  [s \in Service |-> IF s \in mActiveActions[a].services THEN NoAction ELSE mServiceAction[s]]

\* Here too the actions and the services agree.
LEMMA ExpiredExclusive ==
  ASSUME TypeOK, ServiceExclusive, NEW a \in Action
  PROVE  /\ Expired(a) \in [Action -> ActionData]
         /\ Released(a) \in [Service -> Action \cup {NoAction}]
         /\ Exclusive(Expired(a), Released(a))
         /\ Expired(a)[a] = NoData
         /\ \A x \in Action : x # a => Expired(a)[x] = mActiveActions[x]
<1>1. /\ mActiveActions \in [Action -> ActionData]
      /\ mServiceAction \in [Service -> Action \cup {NoAction}]
  BY DEF TypeOK
<1>2. /\ Expired(a) \in [Action -> ActionData]
      /\ Expired(a)[a] = NoData
      /\ \A x \in Action : x # a => Expired(a)[x] = mActiveActions[x]
  BY <1>1, NoDataType DEF Expired
<1>3. /\ Released(a) \in [Service -> Action \cup {NoAction}]
      /\ \A s \in Service : Released(a)[s] = IF s \in mActiveActions[a].services THEN NoAction
                                             ELSE mServiceAction[s]
  BY <1>1 DEF Released
<1>4. Exclusive(Expired(a), Released(a))
  <2> SUFFICES ASSUME NEW s \in Service, NEW x \in Action
               PROVE  Released(a)[s] = x <=> s \in Expired(a)[x].services
    BY DEF Exclusive
  <2>1. /\ mServiceAction[s] = x <=> s \in mActiveActions[x].services
        /\ mServiceAction[s] = a <=> s \in mActiveActions[a].services
        /\ x # NoAction
    BY ActionAssumption DEF ServiceExclusive, Action
  <2>2. CASE x = a
    BY <1>2, <1>3, <2>1, <2>2 DEF NoData
  <2>3. CASE x # a
    BY <1>2, <1>3, <2>1, <2>3
  <2> QED
    BY <2>2, <2>3
<1> QED
  BY <1>2, <1>3, <1>4

\* expireAction takes the oldest action from its services and deletes the
\* services of its accounts.
LEMMA ExpireDeregisters ==
  ASSUME TypeOK, ExpireAction
  PROVE  \E a \in Active : \E D, C \in SUBSET Service :
           C \subseteq D /\ Deregister(D, C, Expired(a), Released(a), {a}, {})
<1> DEFINE a == Head(mActionExpiry)
           D == ServicesOf(AccountsOf(mActiveActions[a].services))
<1>1. PICK C \in SUBSET D : Deregister(D, C, Expired(a), Released(a), {a}, {})
  BY DEF ExpireAction, Expired, Released
<1>2. a \in Active
  BY DEF ExpireAction, HeadIsStale, Active, TypeOK
<1>3. D \in SUBSET Service
  BY ServiceSets
<1> HIDE DEF a, D
<1>4. C \in SUBSET Service /\ C \subseteq D
  BY <1>3
<1> QED
  BY <1>1, <1>2, <1>3, <1>4

\* In every step what is reported as failed is over.
LEMMA FailedStep ==
  ASSUME TypeOK, ServiceExclusive, QueueInv, OneService, QueueWellMade, OneRequest, Accounted,
         Offered \cap MultiAccount = {}, [Next]_vars
  PROVE  FailedOver
<1> USE DEF serviceVars, workVars, activeVars, expiryVars, loopVars, flagVars, fileVars, mailVars
<1>1. /\ mServiceAction \in [Service -> Action \cup {NoAction}]
      /\ mActiveActions \in [Action -> ActionData]
      /\ reports \in [Action -> SUBSET Report]
      /\ mRequests \in Seq(Request)
      /\ Queued \subseteq issued /\ Active \subseteq issued
  BY DEF TypeOK, QueueInv, Known
<1>0. Exclusive(mActiveActions, mServiceAction)
  BY DEF ServiceExclusive, Exclusive
<1>2. ASSUME reports' = reports
      PROVE  FailedOver
  BY <1>2 DEF FailedOver
<1>3. CASE UNCHANGED vars
  BY <1>2, <1>3 DEF vars
<1>4. ASSUME NEW a \in ClientAction, ClientRequest(a)
      PROVE  FailedOver
  <2>1. a \in Action
    BY DEF Action
  <2>2. ASSUME NEW x \in Terminal, Answer(a, x), a \notin issued
        PROVE  FailedOver
    <3>1. /\ \A b \in Action : reports'[b] = IF b = a THEN reports[b] \cup {x} ELSE reports[b]
          /\ mActiveActions' = mActiveActions /\ mRequests' = mRequests
      BY <2>2 DEF Answer, Told
    <3>2. mActiveActions'[a] = NoData /\ a \notin Queued'
      BY <1>1, <2>1, <2>2, <3>1 DEF Queued, Active
    <3> QED
      BY <3>1, <3>2 DEF FailedOver, Over
  <2>3. ASSUME NEW q, enqueueRequest(a, q)
        PROVE  FailedOver
    BY <1>2, <2>3 DEF enqueueRequest
  <2> QED
    BY <1>4, <2>2, <2>3, SlotOutcome
<1>5. CASE DispatchRequest
  BY <1>2, <1>5, DispatchOver DEF DispatchRequest, DispatchStart, DispatchSkip, DispatchEnd
<1>6. ASSUME NEW s \in Service, ServiceProgress(s)
      PROVE  FailedOver
  BY <1>2, <1>6 DEF ServiceProgress
<1>7. ASSUME NEW s \in Service, ServiceFailed(s)
      PROVE  FailedOver
  <2>1. /\ reports' = Told(Hit({s}, mServiceAction), "Failed")
        /\ mActiveActions' = ActiveAfterFailure(mActiveActions, mServiceAction, {s})
    BY <1>7 DEF ServiceFailed
  <2> SUFFICES ASSUME NEW a \in Action, "Failed" \in reports'[a], "Failed" \notin reports[a]
               PROVE  Over(a)
    BY DEF FailedOver
  <2>2. a \in Hit({s}, mServiceAction)
    BY <2>1 DEF Told
  <2>3. a \in Active
    BY <2>2, HitActive
  <2>4. \A t, u \in mActiveActions[a].services : t = u
    BY DEF OneService
  <2>5. mActiveActions'[a] = NoData
    BY <1>0, <1>1, <2>1, <2>2, <2>4, HitEnds
  <2> QED
    BY <2>3, <2>5, ActiveNotQueued DEF Over
<1>8. ASSUME NEW s \in Service, ServiceSucceeded(s)
      PROVE  FailedOver
  <2>1. \A x \in Action : reports'[x] \subseteq reports[x] \cup {"Successful", "Completed"}
    BY <1>8 DEF ServiceSucceeded, ReportsOfSuccess
  <2> QED
    BY <2>1 DEF FailedOver
<1>9. ASSUME NEW s \in Sink, NEW m \in Message, MessageTransmitted(s, m)
      PROVE  FailedOver
  BY <1>2, <1>9 DEF MessageTransmitted
<1>10. ASSUME NEW s \in Source, MailCheck(s)
       PROVE  FailedOver
  BY <1>2, <1>10 DEF MailCheck, MailCheckStarted, MailCheckEnded
<1>11. ASSUME NEW x \in Account, AccountChange(x)
       PROVE  FailedOver
  <2>1. PICK D \in SUBSET Service, C \in SUBSET Service, erased \in SUBSET Message :
          Deregister(D, C, mActiveActions, mServiceAction, {}, erased)
    BY <1>11, AccountDeregisters
  <2> QED
    BY <1>0, <1>1, <2>1, DeregisterOver
<1>12. ASSUME NEW a \in ClientAction, CancelTransfer(a)
       PROVE  FailedOver
  <2>0. a \in Action
    BY DEF Action
  <2>1. CASE CancelActive(a)
    <3>1. PICK C \in SUBSET mActiveActions[a].services :
            reports' = Told(Hit(C, mServiceAction), "Failed")
      BY <2>1 DEF CancelActive
    <3>2. /\ mActiveActions' = [mActiveActions EXCEPT ![a] = NoData]
          /\ a \in Active
      BY <2>0, <2>1 DEF CancelActive, Active
    <3>3. Hit(C, mServiceAction) \subseteq {a}
      BY <1>1, <2>0 DEF Hit, ServiceExclusive, ActionData
    <3>4. \A x \in Action : reports'[x] = IF x \in Hit(C, mServiceAction)
                                          THEN reports[x] \cup {"Failed"} ELSE reports[x]
      BY <3>1 DEF Told
    <3>5. Over(a)
      BY <1>1, <2>0, <3>2, ActiveNotQueued DEF Over
    <3> QED
      BY <3>3, <3>4, <3>5 DEF FailedOver
  <2>2. CASE CancelPending(a)
    <3>1. /\ reports' = Told({a}, "Failed") /\ mActiveActions' = mActiveActions
          /\ mActiveActions[a] = NoData
      BY <2>2 DEF CancelPending
    <3>2. \A k \in 1 .. Len(mRequests') : mRequests'[k].action # a
      <4>1. CASE a \notin Queued /\ mRequests' = mRequests
        BY <4>1 DEF Queued
      <4>2. ASSUME NEW i \in 1 .. Len(mRequests), mRequests[i].action = a,
                   mRequests' = RemoveAt(mRequests, i)
            PROVE  \A k \in 1 .. Len(mRequests') : mRequests'[k].action # a
        <5>1. /\ Len(mRequests') = Len(mRequests) - 1
              /\ \A k \in 1 .. Len(mRequests) - 1 :
                   mRequests'[k] = IF k < i THEN mRequests[k] ELSE mRequests[k + 1]
          BY <1>1, <4>2, RemoveAtEntries
        <5>2. Len(mRequests) \in Nat
          BY <1>1
        <5>3. \A j \in 1 .. Len(mRequests) : j # i => mRequests[j].action # a
          BY <4>2 DEF OneRequest
        <5> SUFFICES ASSUME NEW k \in 1 .. Len(mRequests) - 1
                     PROVE  mRequests'[k].action # a
          BY <5>1
        <5>4. CASE k < i
          BY <5>1, <5>2, <5>3, <5>4
        <5>5. CASE ~(k < i)
          BY <5>1, <5>2, <5>3, <5>5
        <5> QED
          BY <5>4, <5>5
      <4> QED
        BY <2>2, <4>1, <4>2 DEF CancelPending
    <3>3. Over(a)
      BY <3>1, <3>2 DEF Over, Queued
    <3>4. \A x \in Action : reports'[x] = IF x = a THEN reports[x] \cup {"Failed"} ELSE reports[x]
      BY <3>1 DEF Told
    <3> QED
      BY <3>3, <3>4 DEF FailedOver
  <2> QED
    BY <1>12, <2>1, <2>2 DEF CancelTransfer
<1>13. ASSUME NEW i \in 1 .. Len(mActionExpiry), Elapse(i)
       PROVE  FailedOver
  BY <1>2, <1>13 DEF Elapse
<1>14. CASE ExpireAction
  <2>1. PICK a \in Active, D \in SUBSET Service, C \in SUBSET Service :
          Deregister(D, C, Expired(a), Released(a), {a}, {})
    BY <1>14, ExpireDeregisters
  <2>2. a \in Action
    BY DEF Active
  <2>3. /\ Expired(a) \in [Action -> ActionData]
        /\ Released(a) \in [Service -> Action \cup {NoAction}]
        /\ Exclusive(Expired(a), Released(a))
        /\ Expired(a)[a] = NoData
        /\ \A x \in Action : Expired(a)[x] = mActiveActions[x] \/ Expired(a)[x] = NoData
    BY <2>2, ExpiredExclusive
  <2> QED
    BY <2>1, <2>3, DeregisterOver
<1>15. CASE ExpiryCheck
  BY <1>2, <1>15 DEF ExpiryCheck
<1>16. CASE Crash
  BY <1>2, <1>16 DEF Crash
<1>17. CASE ReportFailures
  <2>1. /\ reports' = Told(failedRequests, "Failed")
        /\ mActiveActions' = mActiveActions /\ mRequests' = mRequests
    BY <1>17 DEF ReportFailures
  <2>2. \A a \in Action : a \in failedRequests => a \notin Queued /\ mActiveActions[a] = NoData
    BY DEF Accounted, Active
  <2>3. \A a \in Action : reports'[a] = IF a \in failedRequests THEN reports[a] \cup {"Failed"} ELSE reports[a]
    BY <2>1 DEF Told
  <2>4. Queued' = Queued
    BY <2>1 DEF Queued
  <2> QED
    BY <2>1, <2>2, <2>3, <2>4 DEF FailedOver, Over
<1> QED
  BY <1>3, <1>4, <1>5, <1>6, <1>7, <1>8, <1>9, <1>10, <1>11, <1>12, <1>13, <1>14, <1>15, <1>16, <1>17
  DEF Next, ServiceSignal

\* The facts about reports that the theorems below share.
LEMMA Accounts ==
  ASSUME Offered \cap MultiAccount = {}, External = {}
  PROVE  Spec => [](Accounted /\ OneRequest)
<1>1. Init => Accounted /\ OneRequest
  BY DEF Init, Accounted, OneRequest, Queued, Active
<1>2. ASSUME TypeOK, TypeOK', ServiceExclusive, QueueInv, QueueWellMade, Accounted, OneRequest,
             [Next]_vars
      PROVE  Accounted' /\ OneRequest'
  BY <1>2, AccountedStep, OneRequestStep
<1> QED
  BY <1>1, <1>2, TypeCorrect, QueueInvariant, OneServiceEach, PTL DEF Spec

\* FailedHasFinished: if no request concerns several accounts and no message has
\* to be prepared by another account before it is sent, an action that has been
\* reported as failed, by a service, by a cancellation, by expireAction, by the
\* loss of its account or by reportFailures, is neither queued nor active, and
\* never becomes so again.
THEOREM FailedIsOver ==
  ASSUME Offered \cap MultiAccount = {}, External = {}
  PROVE  Spec => []FailedHasFinished
<1>1. Init => FailedHasFinished
  BY DEF Init, FailedHasFinished
<1>2. ASSUME TypeOK, ServiceExclusive, QueueInv, OneService, QueueWellMade, Accounted, OneRequest,
             FailedHasFinished, [Next]_vars
      PROVE  FailedHasFinished'
  <2> SUFFICES ASSUME NEW a \in Action, "Failed" \in reports'[a]
               PROVE  a \notin Queued' \cup Active'
    BY DEF FailedHasFinished
  <2>1. CASE "Failed" \in reports[a]
    <3>1. a \in issued /\ a \notin Queued \cup Active
      BY <1>2, <2>1 DEF Accounted, FailedHasFinished
    <3> QED
      BY <1>2, <3>1, NoneComesBack
  <2>2. CASE "Failed" \notin reports[a]
    <3>1. Over(a)
      BY <1>2, <2>2, FailedStep DEF FailedOver
    <3> QED
      BY <3>1 DEF Over, Active
  <2> QED
    BY <2>1, <2>2
<1> QED
  BY <1>1, <1>2, TypeCorrect, QueueInvariant, OneServiceEach, Accounts, PTL DEF Spec

-----------------------------------------------------------------------------
(* No action is forgotten *)

\* An action that waits for no service has been reported on.
Served == \A a \in Active : mActiveActions[a].services = {} => Reported(a)

\* After this step the client knows how a has ended.
Informed(a) == reports'[a] \cap Terminal # {}

\* A service that leaves its action has the action's end reported, and so has
\* the queue when it loses an action that does not become active.
Departures ==
  /\ \A s \in Service : mServiceAction[s] # NoAction /\ mServiceAction'[s] # mServiceAction[s]
                          => Informed(mServiceAction[s])
  /\ \A a \in Queued : a \in Queued' \cup Active' \/ Informed(a)
  /\ \A a \in (issued' \ issued) \cap ClientAction : a \in Queued' \/ Informed(a)
  /\ crashes' = crashes

\* What is in the queue before new requests are appended is in it afterwards.
LEMMA GrownKeeps ==
  ASSUME NEW q \in Seq(Request), Grown(q)
  PROVE  \A i \in 1 .. Len(q) : q[i].action \in Queued'
<1>1. PICK t \in Seq(Request) : mRequests' = q \o t
  BY DEF Grown
<1>2. \A i \in 1 .. Len(q) : i \in 1 .. Len(mRequests') /\ mRequests'[i] = q[i]
  BY <1>1
<1> QED
  BY <1>2 DEF Queued

\* When the services of D are deleted,
LEMMA DeregisterDepartures ==
  ASSUME TypeOK, Mute = {},
         NEW D \in SUBSET Service, NEW C \in SUBSET Service, C \subseteq D,
         NEW active, NEW svc \in [Service -> Action \cup {NoAction}],
         NEW failing, NEW erased,
         \A s \in Service : svc[s] = mServiceAction[s] \/ mServiceAction[s] \in failing,
         Deregister(D, C, active, svc, failing, erased)
  PROVE  /\ \A s \in Service : mServiceAction[s] # NoAction /\ mServiceAction'[s] # mServiceAction[s]
                                 => Informed(mServiceAction[s])
         /\ \A a \in Queued : a \in Queued' \/ Informed(a)
         /\ issued' \ issued \subseteq LocalAction
<1> DEFINE lost  == {i \in 1 .. Len(mRequests) : Needs(mRequests[i]) \cap D # {}}
           kept  == (1 .. Len(mRequests)) \ lost
           A     == failing \cup Hit(C, svc) \cup {mRequests[i].action : i \in lost}
<1>1. /\ reports' = Told(A, "Failed")
      /\ \A s \in Service : mServiceAction'[s] = IF s \in D THEN NoAction ELSE svc[s]
      /\ FlushSent(C, D, svc, Kept(mRequests, kept), outstandingRequests \ Hit(C, svc), erased)
      /\ C = D
  BY DEF Deregister
<1>2. \A a \in Action : a \in A => Informed(a)
  BY <1>1 DEF Told, Informed, Terminal
<1>3. issued' \ issued \subseteq LocalAction
  BY <1>1, FlushFile
<1>4. ASSUME NEW s \in Service, mServiceAction[s] # NoAction, mServiceAction'[s] # mServiceAction[s]
      PROVE  Informed(mServiceAction[s])
  <2>1. mServiceAction[s] \in Action
    BY <1>4 DEF TypeOK
  <2>2. mServiceAction[s] \in A
    BY <1>1, <1>4 DEF Hit
  <2> QED
    BY <1>2, <2>1, <2>2
<1>5. ASSUME NEW a \in Queued
      PROVE  a \in Queued' \/ Informed(a)
  <2>1. PICK i \in 1 .. Len(mRequests) : mRequests[i].action = a
    BY DEF Queued
  <2>2. mRequests \in Seq(Request) /\ a \in Action
    BY <2>1, RequestOf DEF TypeOK
  <2>3. CASE i \in lost
    BY <1>2, <2>1, <2>2, <2>3
  <2>4. CASE i \in kept
    <3>1. kept \in SUBSET (1 .. Len(mRequests))
      OBVIOUS
    <3> DEFINE Q == Kept(mRequests, kept)
    <3> HIDE DEF kept, lost, A
    <3>2. Q \in Seq(Request) /\ \E k \in 1 .. Len(Q) : Q[k] = mRequests[i]
      BY <2>2, <2>4, <3>1, KeptCovers
    <3>3. Grown(Q)
      BY <1>1, <3>2, FlushGrown
    <3> HIDE DEF Q
    <3> QED
      BY <2>1, <3>2, <3>3, GrownKeeps
  <2> QED
    BY <2>3, <2>4
<1> QED
  BY <1>3, <1>4, <1>5

\* when a request is dispatched,
LEMMA DispatchDepartures ==
  ASSUME TypeOK, ServiceExclusive, QueueInv, Dispatch
  PROVE  Departures
<1> DEFINE a == Current.action
<1>1. PICK ok \in BOOLEAN, started \in SUBSET Called(Current), failed \in SUBSET Called(Current) :
        DispatchRun(ok, started, failed)
  BY DEF Dispatch
<1> DEFINE after == ActiveAfterFailure(RunningActive, RunningService, failed)
           Q     == RemoveAt(mRequests, cursor)
<1>2. /\ mActiveActions' = IF ok THEN after ELSE [after EXCEPT ![a] = NoData]
      /\ reports' = [x \in Action |->
           reports[x] \cup (IF x = a THEN {"InProgress"} ELSE {})
             \cup (IF x \in Hit(failed, RunningService) \/ (x = a /\ ~ok) THEN {"Failed"} ELSE {})
             \cup (IF x = a /\ ok /\ Current.kind = "copyToLocal" THEN {"Successful"} ELSE {})]
      /\ FlushSent(failed, {}, RunningService, Q, outstandingRequests \ Hit(failed, RunningService), {})
  BY <1>1 DEF DispatchRun, RunningActive, RunningService, RunningAction
<1>3. \A s \in Service : mServiceAction'[s] = IF s \in failed \/ (~ok /\ s \in Current.services)
                                              THEN NoAction ELSE RunningService[s]
  BY <1>1 DEF DispatchRun, RunningService
<1>4. /\ RunningActive[a] = RunningAction /\ RunningAction # NoData
      /\ a \in Action /\ Called(Current) \subseteq Service
  BY RunningExclusive
<1>5. \A x \in Action : x \in Hit(failed, RunningService) \/ (x = a /\ ~ok) => Informed(x)
  BY <1>2 DEF Informed, Terminal
<1>6. \A s \in Service : /\ s \in Current.services => mServiceAction[s] = NoAction
                         /\ RunningService[s] = IF s \in Current.services THEN a ELSE mServiceAction[s]
  BY DEF RunningService, Dispatch, servicesAvailable, serviceAvailable, Needs
<1> HIDE DEF a, after, Q
<1>7. ASSUME NEW s \in Service, mServiceAction[s] # NoAction, mServiceAction'[s] # mServiceAction[s]
      PROVE  Informed(mServiceAction[s])
  <2>1. mServiceAction[s] \in Action
    BY <1>7 DEF TypeOK
  <2>2. RunningService[s] = mServiceAction[s] /\ s \in failed
    BY <1>3, <1>6, <1>7
  <2> QED
    BY <1>5, <1>7, <2>1, <2>2 DEF Hit
<1>8. ASSUME NEW x \in Queued
      PROVE  x \in Queued' \cup Active' \/ Informed(x)
  <2>1. CASE x = a
    <3> SUFFICES ASSUME ~Informed(a) PROVE a \in Active'
      BY <2>1
    <3>1. ok /\ a \notin Hit(failed, RunningService)
      BY <1>4, <1>5
    <3>2. {s \in failed : RunningService[s] = a} = {}
      BY <1>4, <3>1, ActionAssumption DEF Hit, Action
    <3>3. mActiveActions'[a] = RunningAction
      BY <1>2, <1>4, <3>1, <3>2, FailureSpares DEF after
    <3> QED
      BY <1>4, <3>3 DEF Active
  <2>2. CASE x # a
    <3>1. PICK i \in 1 .. Len(mRequests) : mRequests[i].action = x
      BY DEF Queued
    <3>2. mRequests \in Seq(Request) /\ cursor \in 1 .. Len(mRequests) /\ i # cursor
      BY <2>2, <3>1 DEF TypeOK, Dispatch, AtRequest, Current, a
    <3>3. /\ Q \in Seq(Request) /\ Len(Q) = Len(mRequests) - 1
          /\ \A k \in 1 .. Len(mRequests) - 1 :
               Q[k] = IF k < cursor THEN mRequests[k] ELSE mRequests[k + 1]
      BY <3>2, RemoveAtEntries DEF Q
    <3>4. Grown(Q)
      BY <1>2, <3>3, FlushGrown
    <3>5. \E k \in 1 .. Len(Q) : Q[k] = mRequests[i]
      <4>1. CASE i < cursor
        <5>1. i \in 1 .. Len(Q) /\ Q[i] = mRequests[i]
          BY <3>2, <3>3, <4>1
        <5> QED
          BY <5>1
      <4>2. CASE i > cursor
        <5>1. i - 1 \in 1 .. Len(Q) /\ ~(i - 1 < cursor) /\ (i - 1) + 1 = i
          BY <3>2, <3>3, <4>2
        <5>2. Q[i - 1] = mRequests[i]
          BY <3>3, <5>1
        <5> QED
          BY <5>1, <5>2
      <4> QED
        BY <3>2, <4>1, <4>2
    <3> QED
      BY <3>1, <3>3, <3>4, <3>5, GrownKeeps
  <2> QED
    BY <2>1, <2>2
<1>9. issued' \ issued \subseteq LocalAction /\ crashes' = crashes
  BY <1>2, FlushFile DEF Dispatch
<1> QED
  BY <1>7, <1>8, <1>9, ActionAssumption DEF Departures

\* and in every other step but a crash.
LEMMA DepartureStep ==
  ASSUME TypeOK, ServiceExclusive, QueueInv, OneService, Mute = {}, [Next]_vars, ~Crash
  PROVE  Departures
<1> USE DEF serviceVars, workVars, activeVars, expiryVars, loopVars, flagVars, fileVars, mailVars
<1>1. /\ mServiceAction \in [Service -> Action \cup {NoAction}]
      /\ mActiveActions \in [Action -> ActionData]
      /\ mRequests \in Seq(Request)
  BY DEF TypeOK
<1>0. NoAction \notin Action /\ ClientAction \cap LocalAction = {} /\ ClientAction \subseteq Action
  BY ActionAssumption DEF Action
<1>2. ASSUME mServiceAction' = mServiceAction, mRequests' = mRequests, issued' = issued,
             crashes' = crashes
      PROVE  Departures
  <2>1. Queued' = Queued
    BY <1>2 DEF Queued
  <2> QED
    BY <1>2, <2>1 DEF Departures
<1>3. CASE UNCHANGED vars
  BY <1>2, <1>3 DEF vars
\* A queue that only grows loses nothing.
<1>4. ASSUME Grown(mRequests)
      PROVE  \A a \in Queued : a \in Queued'
  <2>1. \A i \in 1 .. Len(mRequests) : mRequests[i].action \in Queued'
    BY <1>1, <1>4, GrownKeeps
  <2> QED
    BY <2>1 DEF Queued
<1>5. ASSUME NEW a \in ClientAction, ClientRequest(a)
      PROVE  Departures
  <2>1. ASSUME NEW x \in Terminal, Answer(a, x)
        PROVE  Departures
    <3>1. /\ mServiceAction' = mServiceAction /\ mRequests' = mRequests
          /\ issued' = issued \cup {a} /\ crashes' = crashes
          /\ x \in reports'[a]
      BY <1>0, <2>1 DEF Answer, Told
    <3>2. Queued' = Queued /\ Informed(a)
      BY <3>1 DEF Queued, Informed
    <3> QED
      BY <3>1, <3>2 DEF Departures
  <2>2. ASSUME NEW q \in Seq(Request), enqueueRequest(a, q), Len(q) > 0,
               \A j \in 1 .. Len(q) : q[j].action = a
        PROVE  Departures
    <3>1. /\ mServiceAction' = mServiceAction /\ mRequests' = mRequests \o q
          /\ issued' = issued \cup {a} /\ crashes' = crashes
      BY <2>2 DEF enqueueRequest
    <3>2. /\ Len(mRequests) + 1 \in 1 .. Len(mRequests')
          /\ mRequests'[Len(mRequests) + 1] = q[1]
      BY <1>1, <2>2, <3>1
    <3>3. q[1].action = a
      BY <2>2
    <3>4. a \in Queued'
      BY <3>2, <3>3 DEF Queued
    <3>5. \A i \in 1 .. Len(mRequests) : i \in 1 .. Len(mRequests') /\ mRequests'[i] = mRequests[i]
      BY <1>1, <2>2, <3>1
    <3>6. \A x \in Queued : x \in Queued'
      BY <3>5 DEF Queued
    <3> QED
      BY <3>1, <3>4, <3>6 DEF Departures
  <2> QED
    BY <1>5, <2>1, <2>2, SlotOutcome
<1>6. CASE DispatchRequest
  BY <1>2, <1>6, DispatchDepartures DEF DispatchRequest, DispatchStart, DispatchSkip, DispatchEnd
<1>7. ASSUME NEW s \in Service, ServiceProgress(s)
      PROVE  Departures
  BY <1>2, <1>7 DEF ServiceProgress
\* The services of F end, for better or worse, and their actions are reported on.
<1>8. ASSUME NEW F, NEW file, FlushSent(F, {}, mServiceAction, mRequests, file, {}),
             \A s \in Service : mServiceAction'[s] # mServiceAction[s] => s \in F,
             \A s \in F \cap Service : mServiceAction[s] \in Action => Informed(mServiceAction[s]),
             crashes' = crashes
      PROVE  Departures
  <2>1. Grown(mRequests) /\ issued' \ issued \subseteq LocalAction
    BY <1>1, <1>8, FlushGrown, FlushFile
  <2> QED
    BY <1>0, <1>1, <1>4, <1>8, <2>1 DEF Departures
<1>9. ASSUME NEW s \in Service, ServiceFailed(s)
      PROVE  Departures
  <2>1. /\ reports' = Told(Hit({s}, mServiceAction), "Failed")
        /\ mServiceAction' = [mServiceAction EXCEPT ![s] = NoAction]
        /\ FlushSent({s}, {}, mServiceAction, mRequests,
                     outstandingRequests \ Hit({s}, mServiceAction), {})
        /\ crashes' = crashes
    BY <1>9 DEF ServiceFailed
  <2>2. \A t \in Service : mServiceAction'[t] # mServiceAction[t] => t \in {s}
    BY <1>1, <2>1
  <2>3. \A t \in {s} \cap Service : mServiceAction[t] \in Action => Informed(mServiceAction[t])
    BY <1>0, <2>1 DEF Told, Hit, Informed, Terminal
  <2> QED
    BY <1>8, <2>1, <2>2, <2>3
<1>10. ASSUME NEW s \in Service, ServiceSucceeded(s)
       PROVE  Departures
  <2> DEFINE a == mServiceAction[s]
  <2>1. /\ reports' = [x \in Action |-> IF x = a THEN reports[x] \cup ReportsOfSuccess(mActiveActions[x], s)
                                        ELSE reports[x]]
        /\ mServiceAction' = [mServiceAction EXCEPT ![s] = NoAction]
        /\ FlushSent({s}, {}, mServiceAction, mRequests, outstandingRequests \ {a}, {})
        /\ crashes' = crashes
    BY <1>10 DEF ServiceSucceeded
  <2>2. \A t \in Service : mServiceAction'[t] # mServiceAction[t] => t \in {s}
    BY <1>1, <2>1
  <2>3. ASSUME a \in Action
        PROVE  Informed(a)
    <3>1. mActiveActions[a].services = {s}
      BY <2>3 DEF ServiceExclusive, OneService
    <3>2. "Successful" \in ReportsOfSuccess(mActiveActions[a], s)
      BY <3>1 DEF ReportsOfSuccess
    <3> QED
      BY <2>1, <2>3, <3>2 DEF Informed, Terminal
  <2> QED
    BY <1>8, <2>1, <2>2, <2>3
<1>11. ASSUME NEW s \in Sink, NEW m \in Message, MessageTransmitted(s, m)
       PROVE  Departures
  BY <1>2, <1>11 DEF MessageTransmitted
<1>12. ASSUME NEW s \in Source, MailCheck(s)
       PROVE  Departures
  BY <1>2, <1>12 DEF MailCheck, MailCheckStarted, MailCheckEnded
<1>13. ASSUME NEW D \in SUBSET Service, NEW C \in SUBSET Service, C \subseteq D,
              NEW active, NEW svc \in [Service -> Action \cup {NoAction}],
              NEW failing, NEW erased,
              \A s \in Service : svc[s] = mServiceAction[s] \/ mServiceAction[s] \in failing,
              Deregister(D, C, active, svc, failing, erased), crashes' = crashes
       PROVE  Departures
  BY <1>0, <1>13, DeregisterDepartures DEF Departures
<1>14. ASSUME NEW x \in Account, AccountChange(x)
       PROVE  Departures
  <2>1. PICK D \in SUBSET Service, C \in SUBSET Service, erased \in SUBSET Message :
          C \subseteq D /\ Deregister(D, C, mActiveActions, mServiceAction, {}, erased)
    BY <1>14, AccountDeregisters
  <2>2. crashes' = crashes
    BY <1>14 DEF AccountChange, AccountsUpdated, AccountsRemoved
  <2> QED
    BY <1>1, <1>13, <2>1, <2>2
<1>15. ASSUME NEW a \in ClientAction, CancelTransfer(a)
       PROVE  Departures
  <2>1. CASE CancelActive(a)
    <3> DEFINE S == mActiveActions[a].services
    <3>1. PICK C \in SUBSET S :
            /\ S \ Mute \subseteq C
            /\ reports' = Told(Hit(C, mServiceAction), "Failed")
            /\ FlushSent(C, {}, mServiceAction, mRequests,
                         outstandingRequests \ Hit(C, mServiceAction), {})
      BY <2>1 DEF CancelActive
    <3>2. /\ mServiceAction' = [s \in Service |-> IF s \in S THEN NoAction ELSE mServiceAction[s]]
          /\ crashes' = crashes
      BY <2>1 DEF CancelActive
    <3>3. C = S
      BY <3>1
    <3> HIDE DEF S
    <3>4. \A s \in Service : mServiceAction'[s] # mServiceAction[s] => s \in C
      BY <3>2, <3>3
    <3>5. \A s \in C \cap Service : mServiceAction[s] \in Action => Informed(mServiceAction[s])
      BY <1>0, <3>1 DEF Told, Hit, Informed, Terminal
    <3> QED
      BY <1>8, <3>1, <3>2, <3>4, <3>5
  <2>2. CASE CancelPending(a)
    <3>1. /\ reports' = Told({a}, "Failed") /\ mServiceAction' = mServiceAction
          /\ issued' = issued /\ crashes' = crashes
      BY <2>2 DEF CancelPending
    <3>2. Informed(a)
      BY <1>0, <3>1 DEF Told, Informed, Terminal
    <3>3. \A x \in Queued : x \in Queued' \/ x = a
      <4>1. CASE mRequests' = mRequests
        BY <4>1 DEF Queued
      <4>2. ASSUME NEW i \in 1 .. Len(mRequests), mRequests[i].action = a,
                   mRequests' = RemoveAt(mRequests, i), NEW x \in Queued, x # a
            PROVE  x \in Queued'
        <5>1. PICK j \in 1 .. Len(mRequests) : mRequests[j].action = x
          BY DEF Queued
        <5>2. i # j /\ Len(mRequests) \in Nat
          BY <1>1, <4>2, <5>1
        <5>3. /\ Len(mRequests') = Len(mRequests) - 1
              /\ \A k \in 1 .. Len(mRequests) - 1 :
                   mRequests'[k] = IF k < i THEN mRequests[k] ELSE mRequests[k + 1]
          BY <1>1, <4>2, RemoveAtEntries
        <5>4. CASE j < i
          <6>1. j \in 1 .. Len(mRequests') /\ mRequests'[j] = mRequests[j]
            BY <5>2, <5>3, <5>4
          <6> QED
            BY <5>1, <6>1 DEF Queued
        <5>5. CASE j > i
          <6>1. j - 1 \in 1 .. Len(mRequests') /\ ~(j - 1 < i) /\ (j - 1) + 1 = j
            BY <5>2, <5>3, <5>5
          <6>2. mRequests'[j - 1] = mRequests[j]
            BY <5>3, <6>1
          <6> QED
            BY <5>1, <6>1, <6>2 DEF Queued
        <5> QED
          BY <5>2, <5>4, <5>5
      <4> QED
        BY <2>2, <4>1, <4>2 DEF CancelPending
    <3> QED
      BY <3>1, <3>2, <3>3 DEF Departures
  <2> QED
    BY <1>15, <2>1, <2>2 DEF CancelTransfer
<1>16. ASSUME NEW i \in 1 .. Len(mActionExpiry), Elapse(i)
       PROVE  Departures
  BY <1>2, <1>16 DEF Elapse
<1>17. CASE ExpireAction
  <2>1. PICK a \in Active, D \in SUBSET Service, C \in SUBSET Service :
          C \subseteq D /\ Deregister(D, C, Expired(a), Released(a), {a}, {})
    BY <1>17, ExpireDeregisters
  <2>2. a \in Action
    BY DEF Active
  <2>3. Released(a) \in [Service -> Action \cup {NoAction}]
    BY <2>2, ExpiredExclusive
  <2>4. \A s \in Service : Released(a)[s] = mServiceAction[s] \/ mServiceAction[s] \in {a}
    BY <2>2 DEF Released, ServiceExclusive
  <2>5. crashes' = crashes
    BY <1>17 DEF ExpireAction
  <2> QED
    BY <1>13, <2>1, <2>3, <2>4, <2>5
<1>18. CASE ExpiryCheck
  BY <1>2, <1>18 DEF ExpiryCheck
<1>19. CASE ReportFailures
  BY <1>2, <1>19 DEF ReportFailures
<1> QED
  BY <1>3, <1>5, <1>6, <1>7, <1>9, <1>10, <1>11, <1>12, <1>14, <1>15, <1>16, <1>17, <1>18, <1>19
  DEF Next, ServiceSignal

\* So an active action that no service works for any more has been reported on,
LEMMA EndStep ==
  ASSUME TypeOK, ServiceExclusive, ServiceExclusive', OneService, Served, Departures, Recorded,
         TypeOK', NEW a \in Active, mActiveActions'[a].services = {}
  PROVE  Informed(a)
<1>1. a \in Action /\ mActiveActions[a].services \subseteq Service
  BY DEF Active, TypeOK, ActionData
<1>2. CASE mActiveActions[a].services = {}
  BY <1>1, <1>2 DEF Served, Reported, Informed, Recorded
<1>3. CASE mActiveActions[a].services # {}
  <2>1. PICK s \in mActiveActions[a].services : s \in Service
    BY <1>1, <1>3
  <2>2. mServiceAction[s] = a /\ mServiceAction'[s] # a /\ a # NoAction
    BY <1>1, <2>1, ActionAssumption DEF ServiceExclusive, Action
  <2> QED
    BY <2>1, <2>2 DEF Departures
<1> QED
  BY <1>2, <1>3

\* because a request that is dispatched has services, or ends at once.
LEMMA ServedStep ==
  ASSUME "folder" \notin Offered, External = {}, Mute = {},
         TypeOK, TypeOK', ServiceExclusive, ServiceExclusive', QueueInv, OneService, QueueWellMade, Served,
         [Next]_vars
  PROVE  Served'
<1>1. CASE Crash
  <2>1. \A a \in Action : mActiveActions'[a] = NoData
    BY <1>1 DEF Crash
  <2> QED
    BY <2>1 DEF Served, Active
<1>2. CASE ~Crash
  <2>1. Departures /\ Recorded
    BY <1>2, DepartureStep, FileStep
  <2> SUFFICES ASSUME NEW a \in Action, mActiveActions'[a] # NoData, mActiveActions'[a].services = {}
               PROVE  Informed(a)
    BY DEF Served, Active, Reported, Informed
  <2>2. CASE a \in Active
    BY <2>1, <2>2, EndStep
  <2>3. CASE a \notin Active
    <3>1. Dispatch
      BY <2>3, OrdinaryStep DEF Steady, Active
    <3>2. a = Current.action
      BY <2>3, <3>1, DispatchStep DEF Active
    <3>3. PICK ok \in BOOLEAN, failed \in SUBSET Called(Current) :
        /\ mActiveActions' = IF ok THEN ActiveAfterFailure(RunningActive, RunningService, failed)
                             ELSE [ActiveAfterFailure(RunningActive, RunningService, failed)
                                     EXCEPT ![Current.action] = NoData]
        /\ reports' = [x \in Action |->
             reports[x] \cup (IF x = Current.action THEN {"InProgress"} ELSE {})
               \cup (IF x \in Hit(failed, RunningService) \/ (x = Current.action /\ ~ok)
                     THEN {"Failed"} ELSE {})
               \cup (IF x = Current.action /\ ok /\ Current.kind = "copyToLocal"
                     THEN {"Successful"} ELSE {})]
      BY <3>1, DispatchOutcome
    <3>4. RunningActive[a] = RunningAction
      BY <3>1, <3>2, RunningExclusive
    <3> SUFFICES ASSUME ~Informed(a) PROVE FALSE
      OBVIOUS
    <3>5. ok /\ a \notin Hit(failed, RunningService) /\ Current.kind # "copyToLocal"
      BY <3>2, <3>3 DEF Informed, Terminal
    <3>6. {s \in failed : RunningService[s] = a} = {}
      BY <3>5, ActionAssumption DEF Hit, Action
    <3>7. mActiveActions'[a] = RunningAction
      BY <3>3, <3>4, <3>5, <3>6, FailureSpares
    <3>8. Current.services # {}
      BY <3>1, <3>5, CurrentType
      DEF QueueWellMade, Made, Dispatch, AtRequest, Current, Kind
    <3> QED
      BY <3>7, <3>8 DEF RunningAction
  <2> QED
    BY <2>2, <2>3
<1> QED
  BY <1>1, <1>2

\* The failures of one crash are still to be reported.
CrashNoted == failedRequests # {} => crashes > 0

\* NoActionForgotten: a client that has been told neither success nor failure has
\* an action that is queued, active, or about to be reported by reportFailures,
\* if the handler does not crash twice, every request concerns one account that
\* has the service it needs, no message has to be prepared by another account,
\* and every service answers when it is cancelled.
THEOREM NothingForgotten ==
  ASSUME Offered \cap MultiAccount = {}, "folder" \notin Offered, External = {}, Mute = {},
         MaxCrashes =< 1
  PROVE  Spec => []NoActionForgotten
<1>1. Init => NoActionForgotten /\ Served /\ CrashNoted
  BY DEF Init, NoActionForgotten, Served, CrashNoted, Active
<1>2. ASSUME TypeOK, TypeOK', ServiceExclusive, ServiceExclusive', QueueInv, OneService, QueueWellMade,
             CrashSafe, NoActionForgotten, Served, CrashNoted, [Next]_vars
      PROVE  NoActionForgotten' /\ Served' /\ CrashNoted'
  <2>1. Served'
    BY <1>2, ServedStep
  <2>2. CASE Crash
    <3>1. /\ crashes < MaxCrashes /\ crashes' = crashes + 1 /\ crashes \in Nat /\ MaxCrashes \in Nat
          /\ failedRequests' = outstandingRequests
          /\ reports' = reports /\ issued' = issued
      BY <1>2, <2>2, LimitAssumption DEF Crash, TypeOK
    <3>2. failedRequests = {} /\ CrashNoted'
      BY <1>2, <3>1 DEF CrashNoted
    <3>3. NoActionForgotten'
      BY <1>2, <3>1, <3>2 DEF NoActionForgotten, CrashSafe
    <3> QED
      BY <2>1, <3>2, <3>3
  <2>3. CASE ~Crash
    <3>1. Departures /\ Recorded /\ Accounting
      BY <1>2, <2>3, DepartureStep, FileStep, AccountingStep
    <3>2. CrashNoted'
      BY <1>2, <3>1 DEF CrashNoted, Departures, Accounting
    <3> SUFFICES ASSUME NEW a \in issued' \cap ClientAction, reports'[a] \cap Terminal = {}
                 PROVE  a \in Queued' \cup Active' \cup failedRequests'
      BY <2>1, <3>2 DEF NoActionForgotten
    <3>3. a \in Action /\ ~Informed(a)
      BY DEF Action, Informed
    <3>4. CASE a \notin issued
      BY <3>1, <3>3, <3>4 DEF Departures
    <3>5. CASE a \in issued
      <4>1. reports[a] \cap Terminal = {}
        BY <3>1, <3>3 DEF Recorded, Informed
      <4>2. a \in Queued \cup Active \cup failedRequests
        BY <1>2, <3>5, <4>1 DEF NoActionForgotten
      <4>3. CASE a \in Queued
        BY <3>1, <3>3, <4>3 DEF Departures
      <4>4. CASE a \in Active
        <5>1. mActiveActions'[a].services # {}
          BY <1>2, <3>1, <3>3, <4>4, EndStep
        <5> QED
          BY <3>3, <5>1 DEF Active, NoData
      <4>5. CASE a \in failedRequests
        BY <3>1, <3>3, <4>5 DEF Accounting, Informed
      <4> QED
        BY <4>2, <4>3, <4>4, <4>5
    <3> QED
      BY <3>4, <3>5
  <2> QED
    BY <2>2, <2>3
<1> QED
  BY <1>1, <1>2, TypeCorrect, QueueInvariant, OneServiceEach, CrashReported, PTL DEF Spec

=============================================================================
