----------------------- MODULE ServiceHandlerEffects -----------------------
(***************************************************************************)
(* Proofs about what the request handler does to the world outside its     *)
(* queue: the messages it takes out of the Outbox and the accounts it      *)
(* flags as retrieving.                                                    *)
(***************************************************************************)
EXTENDS ServiceHandlerProofs

-----------------------------------------------------------------------------
(* The Outbox *)

\* What the handler remembers as transmitted, a sink has transmitted.
SentDelivered == \A m \in mSentIds : delivered[m] > 0

\* Only what was remembered, or what the caller erases, leaves the Outbox.
LEMMA FlushOutbox ==
  ASSUME NEW F, NEW gone, NEW serviceAction, NEW q, NEW file, NEW erased,
         FlushSent(F, gone, serviceAction, q, file, erased)
  PROVE  /\ mSentIds' \subseteq mSentIds
         /\ \A m \in outbox \ outbox' : m \in mSentIds \/ m \in erased
BY DEF FlushSent

\* A step that neither transmits a message nor erases one.
Unsent(erased) ==
  /\ delivered' = delivered
  /\ mSentIds' \subseteq mSentIds
  /\ \A m \in outbox \ outbox' : m \in mSentIds \/ m \in erased

\* Every step is of that kind, but for messagesTransmitted, which remembers the
\* message, and for the removal of an account, which erases its messages.
LEMMA OutboxStep ==
  ASSUME TypeOK, [Next]_vars
  PROVE  \/ Unsent({})
         \/ \E s \in Sink, m \in Message : MessageTransmitted(s, m)
         \/ \E x \in Account : AccountsRemoved(x) /\ Unsent(Owned(x))
<1> USE DEF serviceVars, workVars, activeVars, expiryVars, loopVars, flagVars, fileVars, mailVars
<1>1. ASSUME UNCHANGED <<outbox, mSentIds, delivered>> PROVE Unsent({})
  BY <1>1 DEF Unsent
<1>2. ASSUME NEW F, NEW g, NEW sa, NEW q, NEW file, NEW e,
             FlushSent(F, g, sa, q, file, e), delivered' = delivered
      PROVE  Unsent(e)
  BY <1>2, FlushOutbox DEF Unsent
<1>3. CASE \E a \in ClientAction : ClientRequest(a)
  <2>1. ASSUME NEW a, NEW x, Answer(a, x)
        PROVE  UNCHANGED <<outbox, mSentIds, delivered>>
    BY <2>1 DEF Answer
  <2>2. ASSUME NEW a, NEW q, enqueueRequest(a, q)
        PROVE  UNCHANGED <<outbox, mSentIds, delivered>>
    BY <2>2 DEF enqueueRequest
  <2> QED
    BY <1>1, <1>3, <2>1, <2>2, ClientAnswers, Zenon
<1>4. CASE Dispatch
  <2>1. \E F, sa, q, file : FlushSent(F, {}, sa, q, file, {})
    BY <1>4 DEF Dispatch, DispatchRun
  <2> QED
    BY <1>2, <1>4, <2>1 DEF Dispatch
<1>5. CASE DispatchStart \/ DispatchSkip \/ DispatchEnd
  BY <1>1, <1>5 DEF DispatchStart, DispatchSkip, DispatchEnd
<1>6. ASSUME NEW s \in Service, ServiceSignal(s) PROVE Unsent({})
  <2>1. CASE ServiceProgress(s)
    BY <1>1, <2>1 DEF ServiceProgress
  <2>2. CASE ServiceFailed(s) \/ ServiceSucceeded(s)
    <3>1. \E F, sa, q, file : FlushSent(F, {}, sa, q, file, {})
      BY <2>2 DEF ServiceFailed, ServiceSucceeded
    <3> QED
      BY <1>2, <2>2, <3>1 DEF ServiceFailed, ServiceSucceeded
  <2> QED
    BY <1>6, <2>1, <2>2 DEF ServiceSignal
<1>7. CASE \E s \in Source : MailCheck(s)
  BY <1>1, <1>7 DEF MailCheck, MailCheckStarted, MailCheckEnded
<1>8. ASSUME NEW x \in Account, AccountChange(x)
      PROVE  Unsent({}) \/ (AccountsRemoved(x) /\ Unsent(Owned(x)))
  <2>1. CASE AccountsRemoved(x)
    <3>1. \E F, g, sa, q, file : FlushSent(F, g, sa, q, file, Owned(x))
      BY <2>1 DEF AccountsRemoved, Deregister
    <3> QED
      BY <1>2, <2>1, <3>1 DEF AccountsRemoved
  <2>2. ASSUME NEW N, AccountsUpdated(x, N) PROVE Unsent({})
    <3>1. \E F, g, sa, q, file : FlushSent(F, g, sa, q, file, {})
      BY <2>2 DEF AccountsUpdated, Deregister
    <3> QED
      BY <1>2, <2>2, <3>1 DEF AccountsUpdated
  <2> QED
    BY <1>8, <2>1, <2>2 DEF AccountChange
<1>9. ASSUME NEW a, CancelTransfer(a) PROVE Unsent({})
  <2>1. CASE CancelActive(a)
    <3>1. \E F, sa, q, file : FlushSent(F, {}, sa, q, file, {})
      BY <2>1 DEF CancelActive
    <3> QED
      BY <1>2, <2>1, <3>1 DEF CancelActive
  <2>2. CASE CancelPending(a)
    BY <1>1, <2>2 DEF CancelPending
  <2> QED
    BY <1>9, <2>1, <2>2 DEF CancelTransfer
<1>10. CASE ExpireAction
  <2>1. \E F, g, sa, q, file : FlushSent(F, g, sa, q, file, {})
    BY <1>10 DEF ExpireAction, Deregister
  <2> QED
    BY <1>2, <1>10, <2>1 DEF ExpireAction
<1>11. CASE \E i \in 1 .. Len(mActionExpiry) : Elapse(i)
  BY <1>1, <1>11 DEF Elapse
<1>12. CASE ExpiryCheck \/ ReportFailures
  BY <1>1, <1>12 DEF ExpiryCheck, ReportFailures
<1>13. CASE Crash
  BY <1>13 DEF Crash, Unsent
<1>14. CASE UNCHANGED vars
  BY <1>1, <1>14 DEF vars
<1> QED
  BY <1>3, <1>4, <1>5, <1>6, <1>7, <1>8, <1>9, <1>10, <1>11, <1>12, <1>13, <1>14
  DEF Next, DispatchRequest

\* For any accounts, sinks and messages: a message leaves the Outbox only after
\* a sink has transmitted it, or with its account.
THEOREM OutboxKept == Spec => OnlySentLeavesOutbox
<1> DEFINE A == \A m \in outbox \ outbox' :
                  delivered[m] > 0 \/ \A s \in serviceMap' : AccountOf[s] # OwnerOf[m]
<1>1. Init => SentDelivered
  BY DEF Init, SentDelivered
<1>2. TypeOK /\ SentDelivered /\ [Next]_vars => SentDelivered' /\ [A]_vars
  <2> SUFFICES ASSUME TypeOK, SentDelivered, [Next]_vars PROVE SentDelivered' /\ A
    OBVIOUS
  <2>1. CASE Unsent({})
    BY <2>1 DEF Unsent, SentDelivered
  <2>2. ASSUME NEW s \in Sink, NEW m \in Message, MessageTransmitted(s, m)
        PROVE  SentDelivered' /\ A
    <3>1. /\ mSentIds' \subseteq mSentIds \cup {m}
          /\ delivered' = [delivered EXCEPT ![m] = IF @ = 0 THEN 1 ELSE 2]
          /\ outbox' = outbox
      BY <2>2 DEF MessageTransmitted
    <3>2. delivered \in [Message -> 0 .. 2] /\ mSentIds \subseteq Message
      BY DEF TypeOK
    <3>3. \A n \in Message : n # m => delivered'[n] = delivered[n]
      BY <3>1, <3>2
    <3>4. delivered'[m] > 0
      BY <3>1, <3>2
    <3> QED
      BY <3>1, <3>2, <3>3, <3>4 DEF SentDelivered
  <2>3. ASSUME NEW x \in Account, AccountsRemoved(x), Unsent(Owned(x))
        PROVE  SentDelivered' /\ A
    <3>1. \A s \in serviceMap' : AccountOf[s] # x
      BY <2>3 DEF AccountsRemoved, ServicesOf
    <3> QED
      BY <2>3, <3>1 DEF Unsent, SentDelivered, Owned
  <2> QED
    BY <2>1, <2>2, <2>3, OutboxStep
<1> QED
  BY <1>1, <1>2, TypeCorrect, PTL DEF Spec, OnlySentLeavesOutbox

-----------------------------------------------------------------------------
(* The requests that wait for sources *)

\* The requests that may concern several accounts.
MultiAccount == {"retrieveMessages", "delete", "move", "flag"}

\* What the slots put in the queue.  A request to retrieve waits for the sources
\* of its accounts, one for each.  So does a request about storage, except those
\* about folders.  A copy to a local folder concerns no account, a transmission
\* waits for a sink, and most requests are about one account.
Made(r) ==
  /\ r.kind \in {"retrieve", "export"} \/ (r.kind = "storage" /\ "folder" \notin Offered)
       => r.services \subseteq Source /\ AccountsOf(r.services) = r.accounts /\ r.services # {}
  /\ r.kind = "copyToLocal" => r.accounts = {}
  /\ r.kind \in {"prepare", "transmit", "transmitOne"} => Offered \cap {"transmit", "transmitOne"} # {}
  /\ r.kind \in {"transmit", "transmitOne", "flagSent"} => r.services # {}
  /\ r.kind = "prepare" => External # {}
  /\ Offered \cap MultiAccount = {} => \A s, t \in r.services : s = t

\* An account has at most one source and one sink.
LEMMA SourceOfAccount ==
  ASSUME TypeOK
  PROVE  /\ \A s, t \in Source : AccountOf[s] = AccountOf[t] => s = t
         /\ \A s, t \in Sink : AccountOf[s] = AccountOf[t] => s = t
         /\ \A X : (\A x, y \in X : x = y) => \A s, t \in sourceServiceSet(X) : s = t
         /\ \A x : \A s, t \in sinkServiceSet(x) : s = t
<1>1. /\ \A s, t \in Source : AccountOf[s] = AccountOf[t] => s = t
      /\ \A s, t \in Sink : AccountOf[s] = AccountOf[t] => s = t
  BY ServiceAssumption DEF Service
<1> QED
  BY <1>1 DEF sourceServiceSet, sinkServiceSet, ServicesOf

\* What a client's slot appends is of that kind.
LEMMA RequestMade ==
  ASSUME TypeOK, NEW a \in ClientAction, ClientRequest(a)
  PROVE  \/ mRequests' = mRequests
         \/ \E q \in Seq(Request) : /\ mRequests' = mRequests \o q
                                    /\ \A j \in 1 .. Len(q) : Made(q[j]) /\ q[j].kind # "flagSent"
<1> USE DEF Action
<1> DEFINE P == \/ mRequests' = mRequests
                \/ \E q \in Seq(Request) : /\ mRequests' = mRequests \o q
                                           /\ \A j \in 1 .. Len(q) : Made(q[j]) /\ q[j].kind # "flagSent"
<1>1. ASSUME NEW x, Answer(a, x) PROVE P
  BY <1>1 DEF Answer
<1>2. ASSUME NEW r \in Request, Made(r), r.kind # "flagSent", enqueueRequest(a, <<r>>) PROVE P
  <2>1. <<r>> \in Seq(Request) /\ \A j \in 1 .. Len(<<r>>) : <<r>>[j] = r
    OBVIOUS
  <2>2. mRequests' = mRequests \o <<r>>
    BY <1>2 DEF enqueueRequest
  <2> QED
    BY <1>2, <2>1, <2>2
<1>3. ASSUME NEW r \in Request, NEW t \in Request, Made(r), Made(t),
             r.kind # "flagSent", t.kind # "flagSent", enqueueRequest(a, <<r, t>>) PROVE P
  <2>1. <<r, t>> \in Seq(Request) /\ \A j \in 1 .. Len(<<r, t>>) : <<r, t>>[j] \in {r, t}
    OBVIOUS
  <2>2. mRequests' = mRequests \o <<r, t>>
    BY <1>3 DEF enqueueRequest
  <2> QED
    BY <1>3, <2>1, <2>2
<1>4. ASSUME NEW k \in Kind, NEW sv \in SUBSET (Service \cup {Null}), NEW pre \in SUBSET (Service \cup {Null}),
             NEW x \in SUBSET Account, NEW m \in SUBSET Message
      PROVE  NewRequest(a, k, sv, pre, x, m) \in Request
  BY DEF NewRequest, Request
<1>5. ASSUME NEW k \in {"retrieve", "export", "storage"}, NEW accounts \in SUBSET Account,
             Offered \cap MultiAccount # {} \/ \A x, y \in accounts : x = y,
             RequestFromSources(a, k, accounts)
      PROVE  P
  <2> DEFINE sources == sourceServiceSet(accounts)
             r == NewRequest(a, k, sources, {}, accounts, {})
  <2>1. CASE sources = {}
    BY <1>1, <1>5, <2>1 DEF RequestFromSources
  <2>2. CASE sources # {}
    <3>1. sources \in SUBSET (Service \cup {Null})
      BY ServiceSets
    <3>2. r \in Request
      BY <1>4, <3>1 DEF Kind
    <3>3. sources \subseteq Source /\ AccountsOf(sources) = accounts
      BY <2>2 DEF sourceServiceSet, ServicesOf, AccountsOf
    <3>4. Offered \cap MultiAccount = {} => \A s, t \in sources : s = t
      BY <1>5, <3>3, SourceOfAccount DEF AccountsOf
    <3>5. Made(r) /\ r.kind # "flagSent"
      BY <2>2, <3>3, <3>4 DEF Made, NewRequest
    <3>6. enqueueRequest(a, <<r>>)
      BY <1>5, <2>2 DEF RequestFromSources
    <3> QED
      BY <1>2, <3>2, <3>5, <3>6
  <2> QED
    BY <2>1, <2>2
<1>6. ASSUME OnlineCopyToLocal(a) PROVE P
  <2>1. NewRequest(a, "copyToLocal", {}, {}, {}, {}) \in Request
    BY <1>4 DEF Kind
  <2>2. /\ Made(NewRequest(a, "copyToLocal", {}, {}, {}, {}))
        /\ NewRequest(a, "copyToLocal", {}, {}, {}, {}).kind # "flagSent"
    BY DEF Made, NewRequest
  <2> QED
    BY <1>2, <1>6, <2>1, <2>2 DEF OnlineCopyToLocal
<1>7. ASSUME NEW x \in Account, "folder" \in Offered, OnlineFolderOperation(a, x) PROVE P
  <2> DEFINE r == NewRequest(a, "storage", sourceServiceSet({x}), {}, {x}, {})
  <2>1. r \in Request
    BY <1>4, ServiceSets DEF Kind
  <2>2. Made(r) /\ r.kind # "flagSent"
    BY <1>7, SourceOfAccount DEF Made, NewRequest
  <2>3. (\E y : Answer(a, y)) \/ enqueueRequest(a, <<r>>)
    BY <1>7 DEF OnlineFolderOperation
  <2> HIDE DEF r
  <2> QED
    BY <1>1, <1>2, <2>1, <2>2, <2>3
<1>8. ASSUME NEW k \in {"transmit", "transmitOne"}, NEW x \in Account, NEW M \in SUBSET Message,
             NEW scope \in SUBSET Message, k \in Offered,
             \A m \in M : OwnerOf[m] = x, sinkServiceSet(x) # {},
             enqueueRequest(a, TransmissionRequests(a, k, x, M, scope))
      PROVE  P
  <2> DEFINE owners == {OwnerOf[m] : m \in M \cap External}
             sources == sourceServiceSet(owners)
             send(S) == NewRequest(a, k, sinkServiceSet(x), S, {x}, scope)
             prepare == NewRequest(a, "prepare", sources, {}, owners, {})
  <2>1. owners \in SUBSET Account /\ sources \in SUBSET (Service \cup {Null})
        /\ sinkServiceSet(x) \in SUBSET (Service \cup {Null})
    BY MessageAssumption, ServiceSets
  <2>2. /\ \A s, t \in sources : s = t
        /\ \A s, t \in sinkServiceSet(x) : s = t
    <3>1. \A y, z \in owners : y = z
      BY <1>8
    <3>2. \A X : (\A y, z \in X : y = z) => \A s, t \in sourceServiceSet(X) : s = t
      BY SourceOfAccount
    <3> HIDE DEF owners
    <3> QED
      BY <3>1, <3>2, SourceOfAccount
  <2>3. \A S \in SUBSET (Service \cup {Null}) :
          send(S) \in Request /\ Made(send(S)) /\ send(S).kind # "flagSent"
    BY <1>4, <1>8, <2>1, <2>2 DEF Kind, Made, NewRequest
  <2>4. M \cap External # {} => prepare \in Request /\ Made(prepare) /\ prepare.kind # "flagSent"
    BY <1>4, <1>8, <2>1, <2>2 DEF Kind, Made, NewRequest
  <2>5. TransmissionRequests(a, k, x, M, scope) =
          IF M \cap External = {} THEN <<send({})>> ELSE <<prepare, send(sources)>>
    BY DEF TransmissionRequests
  <2> HIDE DEF send, prepare, sources
  <2> QED
    BY <1>2, <1>3, <1>8, <2>1, <2>3, <2>4, <2>5
<1>9. ASSUME NEW x \in Account, "transmit" \in Offered, TransmitMessages(a, x) PROVE P
  <2>1. \/ \E y : Answer(a, y)
        \/ /\ sinkServiceSet(x) # {}
           /\ enqueueRequest(a, TransmissionRequests(a, "transmit", x, outbox \cap Owned(x), Owned(x)))
    BY <1>9 DEF TransmitMessages
  <2>2. /\ outbox \cap Owned(x) \in SUBSET Message /\ Owned(x) \in SUBSET Message
        /\ \A m \in outbox \cap Owned(x) : OwnerOf[m] = x
    BY DEF Owned
  <2> HIDE DEF P
  <2> QED
    BY <1>1, <1>8, <1>9, <2>1, <2>2
<1>10. ASSUME NEW m \in Message, "transmitOne" \in Offered, TransmitMessage(a, m) PROVE P
  <2>1. \/ \E y : Answer(a, y)
        \/ /\ sinkServiceSet(OwnerOf[m]) # {}
           /\ enqueueRequest(a, TransmissionRequests(a, "transmitOne", OwnerOf[m], {m}, {m}))
    BY <1>10 DEF TransmitMessage
  <2>2. OwnerOf[m] \in Account /\ {m} \in SUBSET Message /\ \A n \in {m} : OwnerOf[n] = OwnerOf[m]
    BY MessageAssumption
  <2> HIDE DEF P
  <2> QED
    BY <1>1, <1>8, <1>10, <2>1, <2>2
<1>11. ASSUME LocalOperation(a) PROVE P
  BY <1>1, <1>11 DEF LocalOperation
<1>12. \A x \in Account : {x} \in SUBSET Account /\ \A y, z \in {x} : y = z
  OBVIOUS
<1> HIDE DEF P
<1>13. ASSUME NEW x \in Account, AccountRequest(a, x) PROVE P
  BY <1>5, <1>7, <1>9, <1>12, <1>13
  DEF AccountRequest, RetrieveFromAccount, CreateStandardFolders, RetrieveMessagePart, RetrieveAll,
      ExportUpdates, Synchronize, OnlineCopyMessages
<1>14. ASSUME NEW X \in SUBSET Account, MultiAccountRequest(a, X) PROVE P
  BY <1>5, <1>14 DEF MultiAccount, MultiAccountRequest, RetrieveMessages, OnlineDeleteMessages, OnlineMoveMessages,
                     OnlineFlagMessages
<1>15. P
  BY <1>6, <1>10, <1>11, <1>13, <1>14 DEF ClientRequest
<1> QED
  BY <1>15 DEF P

\* The queue after a step: requests it had, and requests of that kind.
Replenished ==
  \A k \in 1 .. Len(mRequests') :
    \/ \E i \in 1 .. Len(mRequests) : mRequests'[k] = mRequests[i]
    \/ /\ Made(mRequests'[k])
       /\ mRequests'[k].kind = "flagSent" => mSentIds # {}

\* Every step leaves such a queue.
LEMMA QueueMade ==
  ASSUME TypeOK, [Next]_vars
  PROVE  Replenished
<1> USE DEF serviceVars, workVars, activeVars, expiryVars, loopVars, flagVars, fileVars, mailVars
<1> DEFINE Part(q) == /\ q \in Seq(Request)
                      /\ \A j \in 1 .. Len(q) : \E i \in 1 .. Len(mRequests) : q[j] = mRequests[i]
<1>0. mRequests \in Seq(Request) /\ Part(mRequests)
  BY DEF TypeOK
<1>1. ASSUME mRequests' = mRequests PROVE Replenished
  BY <1>0, <1>1 DEF Replenished
<1>2. ASSUME NEW q, Part(q), NEW t \in Seq(Request), mRequests' = q \o t,
             \A j \in 1 .. Len(t) : Made(t[j]) /\ (t[j].kind = "flagSent" => mSentIds # {})
      PROVE  Replenished
  <2> SUFFICES ASSUME NEW k \in 1 .. Len(mRequests')
               PROVE  \/ \E i \in 1 .. Len(mRequests) : mRequests'[k] = mRequests[i]
                      \/ /\ Made(mRequests'[k])
                         /\ mRequests'[k].kind = "flagSent" => mSentIds # {}
    BY DEF Replenished
  <2>1. /\ Len(q) \in Nat /\ Len(t) \in Nat /\ Len(mRequests') = Len(q) + Len(t)
        /\ mRequests'[k] = IF k =< Len(q) THEN q[k] ELSE t[k - Len(q)]
    BY <1>2, ConcatProperties, LenProperties
  <2>2. CASE k =< Len(q)
    <3>1. k \in 1 .. Len(q)
      BY <2>1, <2>2
    <3> QED
      BY <1>2, <2>1, <2>2, <3>1
  <2>3. CASE ~(k =< Len(q))
    <3>1. k - Len(q) \in 1 .. Len(t)
      BY <2>1, <2>3
    <3> QED
      BY <1>2, <2>1, <2>3, <3>1
  <2> QED
    BY <2>2, <2>3
<1>3. ASSUME NEW q, Part(q), mRequests' = q PROVE Replenished
  BY <1>3 DEF Replenished
<1>4. ASSUME NEW F, NEW g, NEW sa, NEW q, Part(q), NEW file, NEW e,
             FlushSent(F, g, sa, q, file, e)
      PROVE  Replenished
  <2> DEFINE moved == mSentIds \ External
             Sources(s) == IF AccountOf[s] \in AccountsOf(g \cap Source) THEN {Null}
                           ELSE sourceServiceSet({AccountOf[s]})
             r(l, s) == [action |-> l, kind |-> "flagSent", services |-> Sources(s),
                         preconditions |-> {}, accounts |-> {OwnerOf[m] : m \in moved},
                         messages |-> moved]
  <2>1. \A s : Sources(s) \in SUBSET (Service \cup {Null})
    BY ServiceSets
  <2>2. moved \in SUBSET Message /\ {OwnerOf[m] : m \in moved} \in SUBSET Account
    BY MessageAssumption DEF TypeOK
  <2>3. \A s : \A t, u \in Sources(s) : t = u
    <3> SUFFICES ASSUME NEW s, NEW t \in Sources(s), NEW u \in Sources(s) PROVE t = u
      OBVIOUS
    <3>1. \A y, z \in {AccountOf[s]} : y = z
      OBVIOUS
    <3>2. \A X : (\A y, z \in X : y = z) => \A v, w \in sourceServiceSet(X) : v = w
      BY SourceOfAccount
    <3>3. \A v, w \in sourceServiceSet({AccountOf[s]}) : v = w
      BY <3>1, <3>2
    <3> QED
      BY <3>3
  <2>4. \A s : Sources(s) # {} => \A l \in LocalAction : r(l, s) \in Request /\ Made(r(l, s))
    <3>1. ASSUME NEW S \in SUBSET (Service \cup {Null}), S # {}, \A t, u \in S : t = u, NEW l \in LocalAction,
                 NEW M \in SUBSET Message, NEW X \in SUBSET Account,
                 NEW w, w = [action |-> l, kind |-> "flagSent", services |-> S, preconditions |-> {},
                             accounts |-> X, messages |-> M]
          PROVE  w \in Request /\ Made(w)
      <4>1. w \in Request
        BY <3>1 DEF Request, Kind, Action
      <4>2. w.kind = "flagSent" /\ w.services = S
        BY <3>1
      <4> QED
        BY <3>1, <4>1, <4>2 DEF Made
    <3> HIDE DEF moved, Sources
    <3> QED
      BY <2>1, <2>2, <2>3, <3>1
  <2> HIDE DEF r, Sources, moved
  <2>5. \/ mRequests' = q
        \/ mSentIds # {} /\ \E l \in LocalAction, s \in Service : /\ Sources(s) # {}
                                                               /\ mRequests' = Append(q, r(l, s))
    BY <1>4 DEF FlushSent, r, Sources, moved, Service
  <2>6. ASSUME NEW l \in LocalAction, NEW s \in Service, mSentIds # {}, Sources(s) # {},
               mRequests' = Append(q, r(l, s))
        PROVE  Replenished
    <3>1. Append(q, r(l, s)) = q \o <<r(l, s)>>
      BY <1>4, <2>4, <2>6, AppendIsConcat
    <3>2. <<r(l, s)>> \in Seq(Request) /\ \A j \in 1 .. Len(<<r(l, s)>>) : <<r(l, s)>>[j] = r(l, s)
      BY <2>4, <2>6
    <3> HIDE DEF Part
    <3> QED
      BY <1>2, <1>4, <2>4, <2>6, <3>1, <3>2
  <2> QED
    BY <1>3, <1>4, <2>5, <2>6
<1>5. \A c \in 1 .. Len(mRequests) : Part(RemoveAt(mRequests, c))
  <2> SUFFICES ASSUME NEW c \in 1 .. Len(mRequests) PROVE Part(RemoveAt(mRequests, c))
    OBVIOUS
  <2>1. Len(mRequests) \in Nat
    BY <1>0, LenProperties
  <2>2. /\ RemoveAt(mRequests, c) \in Seq(Request)
        /\ Len(RemoveAt(mRequests, c)) = Len(mRequests) - 1
        /\ \A j \in 1 .. Len(mRequests) - 1 :
             RemoveAt(mRequests, c)[j] = IF j < c THEN mRequests[j] ELSE mRequests[j + 1]
    BY <1>0, RemoveAtEntries
  <2>3. \A j \in 1 .. Len(mRequests) - 1 : j \in 1 .. Len(mRequests) /\ j + 1 \in 1 .. Len(mRequests)
    BY <2>1
  <2> QED
    BY <2>2, <2>3
<1>6. \A keep \in SUBSET (1 .. Len(mRequests)) : Part(Kept(mRequests, keep))
  BY <1>0, KeptCovers
<1> HIDE DEF Part
<1>7. CASE \E a \in ClientAction : ClientRequest(a)
  BY <1>0, <1>1, <1>2, <1>7, RequestMade
<1>8. CASE Dispatch
  <2>1. cursor \in 1 .. Len(mRequests)
    BY <1>8 DEF Dispatch, AtRequest
  <2>2. \E F, g, sa, file, e : FlushSent(F, g, sa, RemoveAt(mRequests, cursor), file, e)
    BY <1>8 DEF Dispatch, DispatchRun
  <2> QED
    BY <1>4, <1>5, <2>1, <2>2
<1>9. CASE DispatchStart \/ DispatchSkip \/ DispatchEnd
  BY <1>1, <1>9 DEF DispatchStart, DispatchSkip, DispatchEnd
<1>10. ASSUME NEW s \in Service, ServiceSignal(s) PROVE Replenished
  <2>1. CASE ServiceProgress(s)
    BY <1>1, <2>1 DEF ServiceProgress
  <2>2. CASE ServiceFailed(s) \/ ServiceSucceeded(s)
    <3>1. \E F, g, sa, file, e : FlushSent(F, g, sa, mRequests, file, e)
      BY <2>2 DEF ServiceFailed, ServiceSucceeded
    <3> QED
      BY <1>0, <1>4, <3>1
  <2> QED
    BY <1>10, <2>1, <2>2 DEF ServiceSignal
<1>11. CASE \E s \in Sink, m \in Message : MessageTransmitted(s, m)
  BY <1>1, <1>11 DEF MessageTransmitted
<1>12. CASE \E s \in Source : MailCheck(s)
  BY <1>1, <1>12 DEF MailCheck, MailCheckStarted, MailCheckEnded
<1>13. ASSUME NEW D, NEW C, NEW active, NEW svc, NEW failing, NEW e,
              Deregister(D, C, active, svc, failing, e)
       PROVE  Replenished
  <2> DEFINE lost == {i \in 1 .. Len(mRequests) : Needs(mRequests[i]) \cap D # {}}
             keep == (1 .. Len(mRequests)) \ lost
  <2>1. \E F, g, sa, file : FlushSent(F, g, sa, Kept(mRequests, keep), file, e)
    BY <1>13 DEF Deregister
  <2>2. keep \in SUBSET (1 .. Len(mRequests))
    OBVIOUS
  <2> HIDE DEF keep
  <2> QED
    BY <1>4, <1>6, <2>1, <2>2
<1>14. CASE (\E x \in Account : AccountChange(x)) \/ ExpireAction
  <2>1. \E D, C, active, svc, failing, e : Deregister(D, C, active, svc, failing, e)
    BY <1>14 DEF AccountChange, AccountsRemoved, AccountsUpdated, ExpireAction
  <2> QED
    BY <1>13, <2>1
<1>15. ASSUME NEW a, CancelTransfer(a) PROVE Replenished
  <2>1. CASE CancelActive(a)
    <3>1. \E F, g, sa, file, e : FlushSent(F, g, sa, mRequests, file, e)
      BY <2>1 DEF CancelActive
    <3> QED
      BY <1>0, <1>4, <3>1
  <2>2. CASE CancelPending(a)
    BY <1>1, <1>3, <1>5, <2>2 DEF CancelPending
  <2> QED
    BY <1>15, <2>1, <2>2 DEF CancelTransfer
<1>16. CASE \E i \in 1 .. Len(mActionExpiry) : Elapse(i)
  BY <1>1, <1>16 DEF Elapse
<1>17. CASE ExpiryCheck \/ ReportFailures
  BY <1>1, <1>17 DEF ExpiryCheck, ReportFailures
<1>18. CASE Crash
  <2>1. Len(mRequests') = 0
    BY <1>18 DEF Crash
  <2> QED
    BY <2>1 DEF Replenished
<1>19. CASE UNCHANGED vars
  BY <1>1, <1>19 DEF vars
<1> QED
  BY <1>7, <1>8, <1>9, <1>10, <1>11, <1>12, <1>14, <1>15, <1>16, <1>17, <1>18, <1>19
  DEF Next, DispatchRequest


-----------------------------------------------------------------------------
(* The accounts flagged as retrieving *)

\* Only sources work on what ends with retrievalCompleted.
SourcesOnly(active) ==
  \A a \in Action : Completion(active[a].kind) = "retrievalCompleted" => active[a].services \subseteq Source

\* Every account that an action of kind "retrieve" still waits for is flagged.
\* The requests in the queue matter because the servicer calls the sources of
\* the request's accounts, while the action waits for the request's services.
Retrieving ==
  /\ \A i \in 1 .. Len(mRequests) : Made(mRequests[i])
  /\ SourcesOnly(mActiveActions)
  /\ \A a \in Action : mActiveActions[a].kind = "retrieve" =>
       \A s \in mActiveActions[a].services : AccountOf[s] \in retrievalAccountIds

\* Which requests end with retrievalCompleted.
LEMMA RetrievalKinds ==
  ASSUME NEW k
  PROVE  Completion(k) = "retrievalCompleted" <=> k \in {"retrieve", "export"}
BY DEF Completion

\* A failure does not change what an action is about.
LEMMA FailureKinds ==
  ASSUME NEW active \in [Action -> ActionData], NEW svc, NEW F, NEW a \in Action
  PROVE  ActiveAfterFailure(active, svc, F)[a].kind \in {active[a].kind, "none"}
<1> DEFINE lost == {s \in F : svc[s] = a}
           d    == active[a]
           e    == ActiveAfterFailure(active, svc, F)[a]
<1>1. e = IF d = NoData \/ lost = {} THEN d
          ELSE IF d.services \subseteq lost THEN NoData
          ELSE [d EXCEPT !.services = @ \ lost, !.reported = TRUE, !.stale = FALSE]
  BY DEF ActiveAfterFailure
<1>2. d \in ActionData /\ NoData.kind = "none"
  BY DEF NoData
<1> HIDE DEF lost, d, e
<1>3. [d EXCEPT !.services = @ \ lost, !.reported = TRUE, !.stale = FALSE].kind = d.kind
  BY <1>2 DEF ActionData
<1>4. e.kind \in {d.kind, "none"}
  BY <1>1, <1>2, <1>3
<1> QED
  BY <1>4 DEF d, e

\* Nor does the removal of services.
LEMMA DeregisterKinds ==
  ASSUME NEW D, NEW C, NEW active \in [Action -> ActionData],
         NEW svc, NEW failing, NEW erased,
         Deregister(D, C, active, svc, failing, erased), NEW a \in Action
  PROVE  mActiveActions'[a].kind \in {active[a].kind, "none"}
<1> DEFINE after == ActiveAfterFailure(active, svc, C)
<1>1. mActiveActions'[a] = IF after[a] = NoData THEN NoData ELSE [after[a] EXCEPT !.services = @ \ D]
  BY DEF Deregister
<1>2. after \in [Action -> ActionData] /\ after[a].kind \in {active[a].kind, "none"}
  BY FailureType, FailureKinds
<1> HIDE DEF after
<1>3. [after[a] EXCEPT !.services = @ \ D].kind = after[a].kind
  BY <1>2 DEF ActionData
<1> QED
  BY <1>1, <1>2, <1>3 DEF NoData

\* The end of a retrieval takes the flag from accounts of its own sources.
LEMMA FlaggedBySources ==
  ASSUME NEW active, NEW svc \in [Service -> Action \cup {NoAction}],
         Exclusive(active, svc), SourcesOnly(active),
         NEW F \in SUBSET Service, NEW x \in Flagged(active, svc, F, "retrievalCompleted")
  PROVE  \E s \in Source : s \in F /\ AccountOf[s] = x
<1>1. PICK s \in F : /\ svc[s] # NoAction
                     /\ Completion(active[svc[s]].kind) = "retrievalCompleted"
                     /\ AccountOf[s] = x
  BY DEF Flagged, AccountsOf
<1>2. svc[s] \in Action /\ s \in active[svc[s]].services
  BY <1>1 DEF Exclusive
<1>3. active[svc[s]].services \subseteq Source
  BY <1>1, <1>2 DEF SourcesOnly
<1> QED
  BY <1>1, <1>2, <1>3

\* A step that starts no retrieval: actions remain what they are, and an account
\* loses its flag only when its source loses its action.
FlagsKept ==
  /\ \A a \in Action : mActiveActions'[a].kind \in {mActiveActions[a].kind, "none"}
  /\ \A x \in retrievalAccountIds \ retrievalAccountIds' :
       \E s \in Source : AccountOf[s] = x /\ mServiceAction'[s] = NoAction

\* Apart from a dispatch and a crash, every step is of that kind.
LEMMA OrdinaryFlags ==
  ASSUME TypeOK, ServiceExclusive, SourcesOnly(mActiveActions), [Next]_vars, ~Dispatch, ~Crash
  PROVE  FlagsKept
<1> USE DEF serviceVars, workVars, activeVars, expiryVars, loopVars, flagVars, fileVars, mailVars
<1>1. Exclusive(mActiveActions, mServiceAction)
  BY DEF ServiceExclusive, Exclusive
<1>2. /\ mActiveActions \in [Action -> ActionData]
      /\ mServiceAction \in [Service -> Action \cup {NoAction}]
  BY DEF TypeOK
<1>3. \A a \in Action : mActiveActions[a].services \in SUBSET Service
  BY <1>2 DEF ActionData
<1>4. ASSUME UNCHANGED <<activeVars, flagVars>> PROVE FlagsKept
  BY <1>4 DEF FlagsKept
<1>5. CASE \E a \in ClientAction : ClientRequest(a)
  <2>1. ASSUME NEW a, NEW x, Answer(a, x)
        PROVE  UNCHANGED <<activeVars, flagVars>>
    BY <2>1 DEF Answer
  <2>2. ASSUME NEW a, NEW q, enqueueRequest(a, q)
        PROVE  UNCHANGED <<activeVars, flagVars>>
    BY <2>2 DEF enqueueRequest
  <2> QED
    BY <1>4, <1>5, <2>1, <2>2, ClientAnswers, Zenon
<1>6. CASE DispatchRequest
  BY <1>4, <1>6 DEF DispatchRequest, DispatchStart, DispatchSkip, DispatchEnd
<1>7. ASSUME NEW a \in Action, NEW b \in BOOLEAN, flagVars' = flagVars,
             mActiveActions' = [mActiveActions EXCEPT ![a].stale = b]
      PROVE  FlagsKept
  <2>1. \A x \in Action : mActiveActions'[x].kind = mActiveActions[x].kind
    BY <1>2, <1>7 DEF ActionData
  <2> QED
    BY <1>7, <2>1 DEF FlagsKept
<1>8. ASSUME NEW s \in Service, ServiceProgress(s)
      PROVE  FlagsKept
  <2>1. mServiceAction[s] \in Action
    BY <1>2, <1>8 DEF ServiceProgress
  <2> QED
    BY <1>7, <1>8, <2>1 DEF ServiceProgress
\* What the end of the operations of F does, however they end.
<1>9. ASSUME NEW F \in SUBSET Service,
             \A s \in F : mServiceAction'[s] = NoAction,
             retrievalAccountIds' = retrievalAccountIds
               \ Flagged(mActiveActions, mServiceAction, F, "retrievalCompleted")
      PROVE  \A x \in retrievalAccountIds \ retrievalAccountIds' :
               \E s \in Source : AccountOf[s] = x /\ mServiceAction'[s] = NoAction
  BY <1>1, <1>2, <1>9, FlaggedBySources
<1>10. ASSUME NEW s \in Service, ServiceFailed(s)
       PROVE  FlagsKept
  <2>1. /\ mActiveActions' = ActiveAfterFailure(mActiveActions, mServiceAction, {s})
        /\ mServiceAction' = [mServiceAction EXCEPT ![s] = NoAction]
        /\ retrievalAccountIds' = retrievalAccountIds
             \ Flagged(mActiveActions, mServiceAction, {s}, "retrievalCompleted")
    BY <1>10 DEF ServiceFailed
  <2>2. \A a \in Action : mActiveActions'[a].kind \in {mActiveActions[a].kind, "none"}
    BY <1>2, <2>1, FailureKinds
  <2>3. {s} \in SUBSET Service /\ \A t \in {s} : mServiceAction'[t] = NoAction
    BY <1>2, <2>1
  <2>4. \A x \in retrievalAccountIds \ retrievalAccountIds' :
          \E t \in Source : AccountOf[t] = x /\ mServiceAction'[t] = NoAction
    BY <1>9, <2>1, <2>3
  <2> QED
    BY <2>2, <2>4 DEF FlagsKept
<1>11. ASSUME NEW s \in Service, ServiceSucceeded(s)
       PROVE  FlagsKept
  <2>1. /\ mActiveActions' = [x \in Action |-> IF x = mServiceAction[s]
                                THEN ActiveAfterSuccess(mActiveActions[x], s) ELSE mActiveActions[x]]
        /\ mServiceAction' = [mServiceAction EXCEPT ![s] = NoAction]
        /\ retrievalAccountIds' = retrievalAccountIds
             \ Flagged(mActiveActions, mServiceAction, {s}, "retrievalCompleted")
    BY <1>11 DEF ServiceSucceeded
  <2>2. ASSUME NEW d \in ActionData
        PROVE  ActiveAfterSuccess(d, s).kind \in {d.kind, "none"}
    <3>1. CASE d.services = {s}
      BY <3>1 DEF ActiveAfterSuccess, NoData
    <3>2. CASE d.services # {s}
      <4>1. ActiveAfterSuccess(d, s) = [d EXCEPT !.services = @ \ {s}]
        BY <3>2 DEF ActiveAfterSuccess
      <4> QED
        BY <4>1 DEF ActionData
    <3> QED
      BY <3>1, <3>2
  <2>3. \A a \in Action : mActiveActions'[a].kind \in {mActiveActions[a].kind, "none"}
    BY <1>2, <2>1, <2>2
  <2>4. \A t \in {s} : mServiceAction'[t] = NoAction
    BY <1>2, <2>1
  <2> QED
    BY <1>9, <2>1, <2>3, <2>4 DEF FlagsKept
<1>12. CASE \E s \in Sink, m \in Message : MessageTransmitted(s, m)
  BY <1>4, <1>12 DEF MessageTransmitted
<1>13. CASE \E s \in Source : MailCheck(s)
  BY <1>4, <1>13 DEF MailCheck, MailCheckStarted, MailCheckEnded
<1>14. ASSUME NEW D \in SUBSET Service, NEW C \in SUBSET D, NEW erased,
              Deregister(D, C, mActiveActions, mServiceAction, {}, erased), ClearFlags(C)
       PROVE  FlagsKept
  <2>1. \A a \in Action : mActiveActions'[a].kind \in {mActiveActions[a].kind, "none"}
    BY <1>2, <1>14, DeregisterKinds
  <2>2. \A s \in C : mServiceAction'[s] = NoAction
    BY <1>14 DEF Deregister
  <2> QED
    BY <1>9, <1>14, <2>1, <2>2 DEF FlagsKept, ClearFlags
<1>15. ASSUME NEW x \in Account, NEW N, AccountsUpdated(x, N)
       PROVE  FlagsKept
  <2> DEFINE D == ServicesOf({x}) \ N
  <2>1. D \in SUBSET Service
    BY DEF ServicesOf, TypeOK
  <2>2. PICK C \in SUBSET D : Deregister(D, C, mActiveActions, mServiceAction, {}, {}) /\ ClearFlags(C)
    BY <1>15 DEF AccountsUpdated
  <2> HIDE DEF D
  <2> QED
    BY <1>14, <2>1, <2>2
<1>16. ASSUME NEW x \in Account, AccountsRemoved(x)
       PROVE  FlagsKept
  <2> DEFINE D == ServicesOf({x})
  <2>1. D \in SUBSET Service
    BY DEF ServicesOf, TypeOK
  <2>2. PICK C \in SUBSET D : Deregister(D, C, mActiveActions, mServiceAction, {}, Owned(x)) /\ ClearFlags(C)
    BY <1>16 DEF AccountsRemoved
  <2> HIDE DEF D
  <2> QED
    BY <1>14, <2>1, <2>2
<1>17. ASSUME NEW a \in ClientAction, CancelActive(a)
       PROVE  FlagsKept
  <2> DEFINE S == mActiveActions[a].services
  <2>1. a \in Action /\ S \in SUBSET Service
    BY <1>3 DEF Action
  <2>2. /\ mActiveActions' = [mActiveActions EXCEPT ![a] = NoData]
        /\ mServiceAction' = [s \in Service |-> IF s \in S THEN NoAction ELSE mServiceAction[s]]
        /\ ClearFlags(S)
    BY <1>17 DEF CancelActive
  <2>3. \A x \in Action : mActiveActions'[x].kind \in {mActiveActions[x].kind, "none"}
    BY <1>2, <2>1, <2>2 DEF NoData
  <2>4. \A s \in S : mServiceAction'[s] = NoAction
    BY <2>1, <2>2
  <2> HIDE DEF S
  <2> QED
    BY <1>9, <2>1, <2>2, <2>3, <2>4 DEF FlagsKept, ClearFlags
<1>18. CASE \E a \in ClientAction : CancelPending(a)
  BY <1>4, <1>18 DEF CancelPending
<1>19. CASE \E i \in 1 .. Len(mActionExpiry) : Elapse(i)
  <2>1. PICK i \in 1 .. Len(mActionExpiry) : Elapse(i)
    BY <1>19
  <2>2. mActionExpiry[i] \in Action
    BY DEF TypeOK
  <2> QED
    BY <1>7, <2>1, <2>2 DEF Elapse
<1>20. CASE ExpireAction
  <2> DEFINE a    == Head(mActionExpiry)
             data == mActiveActions[a]
             S    == data.services
             D    == ServicesOf(AccountsOf(S))
             act  == [mActiveActions EXCEPT ![a] = NoData]
             svc  == [s \in Service |-> IF s \in S THEN NoAction ELSE mServiceAction[s]]
             ids  == IF Completion(data.kind) = "retrievalCompleted" THEN AccountsOf(S) ELSE {}
  <2>1. a \in Action
    BY <1>20 DEF ExpireAction, HeadIsStale, TypeOK
  <2>2. PICK C \in SUBSET D :
          /\ Deregister(D, C, act, svc, {a}, {})
          /\ retrievalAccountIds' = retrievalAccountIds
               \ (Flagged(act, svc, C, "retrievalCompleted") \cup ids)
    BY <1>20 DEF ExpireAction
  <2>3. D \in SUBSET Service /\ S \in SUBSET Service
    BY <1>3, <2>1 DEF ServicesOf, TypeOK
  <2>4. /\ act \in [Action -> ActionData] /\ act[a] = NoData
        /\ \A x \in Action : x # a => act[x] = mActiveActions[x]
    BY <1>2, <2>1, NoDataType
  <2>5. /\ svc \in [Service -> Action \cup {NoAction}]
        /\ \A s \in Service : svc[s] = IF s \in S THEN NoAction ELSE mServiceAction[s]
    BY <1>2
  <2>6. /\ ids = {} \/ (ids = AccountsOf(S) /\ S \subseteq Source)
    BY <2>1 DEF SourcesOnly
  <2>7. \A s \in Service : s \in D \/ s \in S => mServiceAction'[s] = NoAction
    BY <2>2 DEF Deregister
  <2>8. \A s \in Service : mServiceAction[s] = a <=> s \in S
    BY <2>1 DEF ServiceExclusive
  <2> HIDE DEF a, data, S, D, act, svc, ids
  <2>9. Exclusive(act, svc)
    <3> SUFFICES ASSUME NEW s \in Service, NEW x \in Action
                 PROVE  svc[s] = x <=> s \in act[x].services
      BY DEF Exclusive
    <3>1. mServiceAction[s] = x <=> s \in mActiveActions[x].services
      BY DEF ServiceExclusive
    <3>2. NoAction # x
      BY ActionAssumption DEF Action
    <3>3. CASE x = a
      <4>1. act[x].services = {}
        BY <2>4, <3>3 DEF NoData
      <4> QED
        BY <2>5, <2>8, <3>2, <3>3, <4>1
    <3>4. CASE x # a
      BY <2>4, <2>5, <2>8, <3>1, <3>2, <3>4
    <3> QED
      BY <3>3, <3>4
  <2>10. SourcesOnly(act)
    <3>1. Completion(NoData.kind) # "retrievalCompleted"
      BY RetrievalKinds DEF NoData
    <3> QED
      BY <2>4, <3>1 DEF SourcesOnly
  <2>11. \A x \in Action : mActiveActions'[x].kind \in {mActiveActions[x].kind, "none"}
    <3>1. \A x \in Action : mActiveActions'[x].kind \in {act[x].kind, "none"}
      BY <2>2, <2>4, DeregisterKinds
    <3>2. NoData.kind = "none"
      BY DEF NoData
    <3> QED
      BY <2>4, <3>1, <3>2
  <2>12. ASSUME NEW x \in retrievalAccountIds \ retrievalAccountIds'
         PROVE  \E s \in Source : AccountOf[s] = x /\ mServiceAction'[s] = NoAction
    <3>1. CASE x \in ids
      <4>1. PICK s \in S : AccountOf[s] = x
        BY <2>6, <3>1 DEF AccountsOf
      <4> QED
        BY <2>3, <2>6, <2>7, <3>1, <4>1
    <3>2. CASE x \in Flagged(act, svc, C, "retrievalCompleted")
      <4>1. C \in SUBSET Service
        BY <2>2, <2>3
      <4>2. PICK s \in Source : s \in C /\ AccountOf[s] = x
        BY <2>5, <2>9, <2>10, <3>2, <4>1, FlaggedBySources
      <4> QED
        BY <2>2, <2>3, <2>7, <4>2
    <3> QED
      BY <2>2, <2>12, <3>1, <3>2
  <2> QED
    BY <2>11, <2>12 DEF FlagsKept
<1>21. CASE ExpiryCheck \/ ReportFailures
  BY <1>4, <1>21 DEF ExpiryCheck, ReportFailures
<1>22. CASE UNCHANGED vars
  BY <1>4, <1>22 DEF vars
<1> QED
  BY <1>5, <1>6, <1>8, <1>10, <1>11, <1>12, <1>13, <1>15, <1>16, <1>17, <1>18, <1>19, <1>20, <1>21, <1>22
  DEF Next, ServiceSignal, AccountChange, CancelTransfer

\* A dispatch flags the accounts of the retrieval it starts.
LEMMA DispatchFlags ==
  ASSUME TypeOK, ServiceExclusive, Retrieving, Dispatch,
         mActiveActions[Current.action].services \subseteq Needs(Current)
  PROVE  /\ SourcesOnly(mActiveActions')
         /\ \A a \in Action : mActiveActions'[a].kind = "retrieve" =>
              \A s \in mActiveActions'[a].services : AccountOf[s] \in retrievalAccountIds'
<1>1. PICK ok \in BOOLEAN, started \in SUBSET Called(Current), failed \in SUBSET Called(Current) :
        DispatchRun(ok, started, failed)
  BY DEF Dispatch
<1> DEFINE r     == Current
           a     == r.action
           R     == r.services
           data  == [services |-> R, kind |-> r.kind, reported |-> FALSE, stale |-> FALSE]
           svc   == [s \in Service |-> IF s \in R THEN a ELSE mServiceAction[s]]
           act   == [mActiveActions EXCEPT ![a] = data]
           after == ActiveAfterFailure(act, svc, failed)
<1>2. /\ mActiveActions' = IF ok THEN after ELSE [after EXCEPT ![a] = NoData]
      /\ mServiceAction' = [s \in Service |-> IF s \in failed \/ (~ok /\ s \in R)
                                              THEN NoAction ELSE svc[s]]
      /\ retrievalAccountIds' =
          (retrievalAccountIds \ Flagged(act, svc, failed, "retrievalCompleted"))
            \cup (IF r.kind = "retrieve" THEN NowInProgress(ok, started, failed) ELSE {})
      /\ ServicerOutcome(r, ok, started, failed)
  BY <1>1 DEF DispatchRun
<1>3. /\ a \in Action /\ R \in SUBSET Service /\ r.kind \in Kind
      /\ failed \in SUBSET Service /\ Needs(r) \subseteq Service
      /\ servicesAvailable(r)
  BY CurrentType DEF Dispatch, TypeOK
<1>4. /\ mActiveActions \in [Action -> ActionData]
      /\ mServiceAction \in [Service -> Action \cup {NoAction}]
  BY DEF TypeOK
<1>5. R \subseteq Needs(r) /\ \A s \in Needs(r) : mServiceAction[s] = NoAction /\ s \in serviceMap
  BY <1>3 DEF servicesAvailable, serviceAvailable, Needs
<1>6. \A s \in Needs(r), x \in Action : s \notin mActiveActions[x].services
  BY <1>3, <1>5, ActionAssumption DEF ServiceExclusive, Action
<1>7. mActiveActions[a].services = {}
  BY <1>3, <1>6
<1>8. data \in ActionData /\ data.services = R /\ data.kind = r.kind
  BY <1>3 DEF ActionData
<1>9. Made(r)
  BY DEF Dispatch, AtRequest, Retrieving, Current
<1>10. r.kind = "retrieve" =>
         /\ Called(r) = ServicesOf(r.accounts) \cap Source
         /\ ok => started \cup failed = Called(r)
  BY <1>2 DEF Called, ServicerOutcome
<1>11. ServiceExclusive'
  BY DispatchExclusive
<1>12. a # NoAction /\ \A x \in Action : x # NoAction
  BY <1>3, ActionAssumption DEF Action
<1> HIDE DEF data, r
<1>13. /\ act \in [Action -> ActionData]
       /\ act[a] = data
       /\ \A x \in Action : x # a => act[x] = mActiveActions[x]
  BY <1>3, <1>4, <1>8
<1>14. /\ svc \in [Service -> Action \cup {NoAction}]
       /\ \A s \in Service : svc[s] = IF s \in R THEN a ELSE mServiceAction[s]
  BY <1>3, <1>4
<1> HIDE DEF act, svc, a, R
<1>15. Exclusive(act, svc)
  <2> SUFFICES ASSUME NEW s \in Service, NEW x \in Action
               PROVE  svc[s] = x <=> s \in act[x].services
    BY DEF Exclusive
  <2>1. mServiceAction[s] = x <=> s \in mActiveActions[x].services
    BY DEF ServiceExclusive
  <2>2. CASE x = a
    BY <1>7, <1>8, <1>13, <1>14, <2>1, <2>2
  <2>3. CASE x # a
    BY <1>5, <1>6, <1>13, <1>14, <2>1, <2>3
  <2> QED
    BY <2>2, <2>3
<1>16. SourcesOnly(act)
  <2> SUFFICES ASSUME NEW x \in Action, Completion(act[x].kind) = "retrievalCompleted"
               PROVE  act[x].services \subseteq Source
    BY DEF SourcesOnly
  <2>1. CASE x = a
    <3>1. Completion(r.kind) = "retrievalCompleted" /\ act[x].services = R
      BY <1>8, <1>13, <2>1
    <3>2. r.kind \in {"retrieve", "export"}
      BY <3>1, RetrievalKinds
    <3> QED
      BY <1>9, <3>1, <3>2 DEF Made, R
  <2>2. CASE x # a
    BY <1>13, <2>2 DEF Retrieving, SourcesOnly
  <2> QED
    BY <2>1, <2>2
<1>17. \A x \in Action : after[x].kind \in {act[x].kind, "none"} /\ after[x].services \subseteq act[x].services
  BY <1>3, <1>13, <1>15, FailureKinds, FailureDetaches
<1>18. after \in [Action -> ActionData]
  BY <1>13, FailureType
<1> HIDE DEF after
<1>19. ASSUME NEW x \in Action
       PROVE  /\ mActiveActions'[x].kind \in {act[x].kind, "none"}
              /\ mActiveActions'[x].services \subseteq act[x].services
  BY <1>2, <1>3, <1>17, <1>18 DEF NoData
<1>20. SourcesOnly(mActiveActions')
  <2>1. Completion("none") # "retrievalCompleted"
    BY RetrievalKinds
  <2> QED
    BY <1>16, <1>19, <2>1 DEF SourcesOnly
<1>21. ASSUME NEW x \in Action, mActiveActions'[x].kind = "retrieve",
              NEW s \in mActiveActions'[x].services
       PROVE  AccountOf[s] \in retrievalAccountIds'
  <2>1. s \in Service /\ s \in act[x].services /\ act[x].kind = "retrieve"
    <3>1. act[x].services \in SUBSET Service
      BY <1>13 DEF ActionData
    <3> QED
      BY <1>19, <1>21, <3>1
  <2>2. mServiceAction'[s] = x
    BY <1>11, <1>21, <2>1 DEF ServiceExclusive
  <2>3. s \notin failed /\ (s \in R => ok)
    BY <1>2, <1>12, <2>1, <2>2
  <2>4. CASE s \in R
    <3>1. x = a /\ r.kind = "retrieve"
      BY <1>2, <1>8, <1>13, <1>14, <2>1, <2>2, <2>3, <2>4
    <3>2. s \in Source /\ AccountOf[s] \in r.accounts
      BY <1>9, <2>4, <3>1 DEF Made, AccountsOf, R
    <3>3. s \in Called(r)
      BY <1>5, <1>10, <2>4, <3>1, <3>2 DEF ServicesOf
    <3>4. s \in started
      BY <1>10, <2>3, <2>4, <3>1, <3>3
    <3>5. AccountOf[s] \in NowInProgress(ok, started, failed)
      BY <3>4 DEF NowInProgress, AccountsOf
    <3> QED
      BY <1>2, <3>1, <3>5
  <2>5. CASE s \notin R
    <3>1. x # a /\ act[x] = mActiveActions[x]
      BY <1>8, <1>13, <2>1, <2>5
    <3>2. AccountOf[s] \in retrievalAccountIds
      BY <2>1, <3>1 DEF Retrieving
    <3>3. s \in Source
      <4>1. Completion(act[x].kind) = "retrievalCompleted"
        BY <2>1, RetrievalKinds
      <4> QED
        BY <1>16, <2>1, <4>1 DEF SourcesOnly
    <3>4. AccountOf[s] \notin Flagged(act, svc, failed, "retrievalCompleted")
      <4>1. SUFFICES ASSUME AccountOf[s] \in Flagged(act, svc, failed, "retrievalCompleted")
                     PROVE  FALSE
        OBVIOUS
      <4>2. PICK t \in Source : t \in failed /\ AccountOf[t] = AccountOf[s]
        BY <1>3, <1>14, <1>15, <1>16, <4>1, FlaggedBySources
      <4>3. s = t
        BY <3>3, <4>2, ServiceAssumption DEF Service
      <4> QED
        BY <2>3, <4>2, <4>3
    <3> QED
      BY <1>2, <3>2, <3>4
  <2> QED
    BY <2>4, <2>5
<1> QED
  BY <1>20, <1>21

\* Every step keeps the accounts of the retrievals flagged.
LEMMA RetrievingStep ==
  ASSUME TypeOK, ServiceExclusive, ServiceExclusive', QueueInv, Retrieving, [Next]_vars
  PROVE  Retrieving'
<1>1. \A k \in 1 .. Len(mRequests') : Made(mRequests'[k])
  BY QueueMade DEF Replenished, Retrieving
<1>2. CASE Dispatch
  <2>1. mActiveActions[Current.action].services \subseteq Needs(Current)
    BY <1>2 DEF QueueInv, Fits, Dispatch, AtRequest, Current
  <2> QED
    BY <1>1, <1>2, <2>1, DispatchFlags DEF Retrieving
<1>3. CASE Crash
  <2>1. \A a \in Action : mActiveActions'[a] = NoData
    BY <1>3 DEF Crash
  <2>2. Completion("none") # "retrievalCompleted" /\ NoData.kind = "none"
    BY RetrievalKinds DEF NoData
  <2> QED
    BY <1>1, <2>1, <2>2 DEF Retrieving, SourcesOnly
<1>4. CASE ~Dispatch /\ ~Crash
  <2>1. PICK F \in SUBSET Service :
          Detached(F, mActiveActions, mServiceAction, mActiveActions', mServiceAction')
    BY <1>4, OrdinaryDetaches DEF Detaching
  <2>2. FlagsKept
    BY <1>4, OrdinaryFlags DEF Retrieving
  <2>3. \A a \in Action : /\ mActiveActions'[a].kind \in {mActiveActions[a].kind, "none"}
                          /\ mActiveActions'[a].services \subseteq mActiveActions[a].services
    BY <2>1, <2>2 DEF Detached, FlagsKept
  <2>4. SourcesOnly(mActiveActions')
    <3>1. Completion("none") # "retrievalCompleted"
      BY RetrievalKinds
    <3> QED
      BY <2>3, <3>1 DEF SourcesOnly, Retrieving
  <2>5. ASSUME NEW a \in Action, mActiveActions'[a].kind = "retrieve",
               NEW s \in mActiveActions'[a].services
        PROVE  AccountOf[s] \in retrievalAccountIds'
    <3>1. s \in mActiveActions[a].services /\ mActiveActions[a].kind = "retrieve"
      BY <2>3, <2>5
    <3>2. AccountOf[s] \in retrievalAccountIds
      BY <3>1 DEF Retrieving
    <3>3. s \in Source
      <4>1. Completion(mActiveActions[a].kind) = "retrievalCompleted"
        BY <3>1, RetrievalKinds
      <4> QED
        BY <3>1, <4>1 DEF Retrieving, SourcesOnly
    <3>4. s \in Service /\ mServiceAction'[s] = a
      BY <2>5, <3>3 DEF ServiceExclusive, Service
    <3>5. SUFFICES ASSUME AccountOf[s] \notin retrievalAccountIds' PROVE FALSE
      OBVIOUS
    <3>6. PICK t \in Source : AccountOf[t] = AccountOf[s] /\ mServiceAction'[t] = NoAction
      BY <2>2, <3>2, <3>5 DEF FlagsKept
    <3>7. s = t
      BY <3>3, <3>6, ServiceAssumption DEF Service
    <3> QED
      BY <3>4, <3>6, <3>7, ActionAssumption DEF Action
  <2> QED
    BY <1>1, <2>4, <2>5 DEF Retrieving
<1> QED
  BY <1>2, <1>3, <1>4

\* For any accounts and services: whatever ends, fails, expires, is cancelled or
\* removed, the account of a source that works on a retrieval stays flagged.
THEOREM RetrievalStaysFlagged == Spec => []RetrievalFlagged
<1>1. Init => Retrieving
  <2> SUFFICES ASSUME Init PROVE Retrieving
    OBVIOUS
  <2>1. \A a \in Action : mActiveActions[a] = NoData
    BY DEF Init
  <2>2. Completion("none") # "retrievalCompleted" /\ NoData.kind = "none"
    BY RetrievalKinds DEF NoData
  <2>3. Len(mRequests) = 0
    BY DEF Init
  <2> QED
    BY <2>1, <2>2, <2>3 DEF Retrieving, SourcesOnly
<1>2. TypeOK /\ ServiceExclusive /\ ServiceExclusive' /\ QueueInv /\ Retrieving /\ [Next]_vars
        => Retrieving'
  BY RetrievingStep
<1>3. TypeOK /\ ServiceExclusive /\ Retrieving => RetrievalFlagged
  <2> SUFFICES ASSUME TypeOK, ServiceExclusive, Retrieving, NEW s \in busy, mServiceAction[s] # NoAction,
                      mActiveActions[mServiceAction[s]].kind = "retrieve"
               PROVE  AccountOf[s] \in retrievalAccountIds
    BY DEF RetrievalFlagged
  <2>1. s \in Service /\ mServiceAction[s] \in Action
    BY DEF TypeOK
  <2>2. s \in mActiveActions[mServiceAction[s]].services
    BY <2>1 DEF ServiceExclusive
  <2> QED
    BY <2>1, <2>2 DEF Retrieving
<1> QED
  BY <1>1, <1>2, <1>3, TypeCorrect, QueueInvariant, PTL DEF Spec

-----------------------------------------------------------------------------
(* The order of dispatch *)

\* The servicer of the current request calls only services it has waited for.
CallsAwaited ==
  AtRequest /\ servicesAvailable(Current) => Called(Current) \subseteq Current.services

\* A request that dispatchRequest cannot hand over.
Blocked(r) == ~servicesAvailable(r) \/ ProcessLimitReached(r.action)

\* Inside dispatchRequest: what was skipped is still blocked.
SkippedBlocked ==
  \A j \in 1 .. cursor - 1 : j \in 1 .. Len(mRequests) => Blocked(mRequests[j])

\* A failure spares the actions that none of the services work for.
LEMMA FailureSpares ==
  ASSUME NEW active, NEW svc, NEW F, NEW a \in Action, {s \in F : svc[s] = a} = {}
  PROVE  ActiveAfterFailure(active, svc, F)[a] = active[a]
BY DEF ActiveAfterFailure

\* A dispatch frees nothing: neither a service nor a place for another process.
LEMMA DispatchFreesNothing ==
  ASSUME TypeOK, Dispatch, CallsAwaited, NEW r \in Request, Blocked(r)
  PROVE  Blocked(r)'
<1>1. PICK ok \in BOOLEAN, started \in SUBSET Called(Current), failed \in SUBSET Called(Current) :
        DispatchRun(ok, started, failed)
  BY DEF Dispatch
<1> DEFINE a     == Current.action
           R     == Current.services
           data  == [services |-> R, kind |-> Current.kind, reported |-> FALSE, stale |-> FALSE]
           svc   == [s \in Service |-> IF s \in R THEN a ELSE mServiceAction[s]]
           act   == [mActiveActions EXCEPT ![a] = data]
           after == ActiveAfterFailure(act, svc, failed)
<1>2. /\ mActiveActions' = IF ok THEN after ELSE [after EXCEPT ![a] = NoData]
      /\ mServiceAction' = [s \in Service |-> IF s \in failed \/ (~ok /\ s \in R)
                                              THEN NoAction ELSE svc[s]]
  BY <1>1 DEF DispatchRun
<1>3. /\ a \in Action /\ R \in SUBSET Service /\ ~ProcessLimitReached(a)
      /\ \A s \in R : mServiceAction[s] = NoAction
      /\ failed \subseteq R
  BY CurrentType DEF Dispatch, CallsAwaited, servicesAvailable, serviceAvailable, Needs
<1>4. /\ mActiveActions \in [Action -> ActionData]
      /\ mServiceAction \in [Service -> Action \cup {NoAction}]
      /\ serviceMap \subseteq Service
  BY DEF TypeOK
<1>5. serviceMap' = serviceMap /\ mUnavailableServices' = mUnavailableServices
  BY DEF Dispatch, serviceVars
<1>6. act \in [Action -> ActionData]
  <2>1. data \in ActionData
    BY <1>3, CurrentType DEF ActionData, Dispatch
  <2> QED
    BY <1>3, <1>4, <2>1
<1>7. CASE ~servicesAvailable(r)
  <2>1. PICK s \in Needs(r) : ~serviceAvailable(s)
    BY <1>7 DEF servicesAvailable
  <2>2. ASSUME s \in serviceMap, mServiceAction[s] # NoAction
        PROVE  mServiceAction'[s] # NoAction
    BY <1>2, <1>3, <1>4, <2>2
  <2>3. ~serviceAvailable(s)'
    BY <1>5, <2>1, <2>2 DEF serviceAvailable
  <2> QED
    BY <2>1, <2>3 DEF Blocked, servicesAvailable
<1>8. CASE ProcessLimitReached(r.action)
  <2>1. ProcessOf[r.action] # ProcessOf[a]
    BY <1>3, <1>8 DEF ProcessLimitReached
  <2>2. ASSUME NEW x \in Action, x # a
        PROVE  mActiveActions'[x] = mActiveActions[x]
    <3>1. act[x] = mActiveActions[x]
      BY <1>4, <2>2
    <3>2. {s \in failed : svc[s] = x} = {}
      BY <1>3, <2>2
    <3> HIDE DEF act, svc
    <3>3. after[x] = mActiveActions[x] /\ after \in [Action -> ActionData]
      BY <1>6, <3>1, <3>2, FailureType, FailureSpares
    <3> HIDE DEF after, a
    <3> QED
      BY <1>2, <1>3, <2>2, <3>3
  <2>3. {x \in Active : ProcessOf[x] = ProcessOf[r.action]}' = {x \in Active : ProcessOf[x] = ProcessOf[r.action]}
    BY <2>1, <2>2 DEF Active
  <2>4. ProcessLimitReached(r.action)'
    BY <1>8, <2>3 DEF ProcessLimitReached
  <2> QED
    BY <2>4 DEF Blocked
<1> QED
  BY <1>7, <1>8 DEF Blocked

\* So what dispatchRequest has skipped stays blocked until it returns.
LEMMA BlockedStep ==
  ASSUME TypeOK, CallsAwaited, SkippedBlocked, [Next]_vars
  PROVE  SkippedBlocked'
<1>1. mRequests \in Seq(Request) /\ Len(mRequests) \in Nat /\ cursor \in Nat
  BY LenProperties DEF TypeOK
<1>2. ASSUME NEW r, UNCHANGED <<serviceVars, activeVars>>
      PROVE  Blocked(r)' <=> Blocked(r)
  BY <1>2 DEF Blocked, servicesAvailable, serviceAvailable, ProcessLimitReached, Active,
              serviceVars, activeVars
<1>3. CASE UNCHANGED vars
  <2>1. UNCHANGED <<serviceVars, activeVars>> /\ mRequests' = mRequests /\ cursor' = cursor
    BY <1>3 DEF vars, loopVars
  <2> QED
    BY <1>2, <2>1 DEF SkippedBlocked
<1>4. CASE cursor' \in {0, 1}
  <2>1. cursor' - 1 = -1 \/ cursor' - 1 = 0
    BY <1>4
  <2>2. 1 .. cursor' - 1 = {}
    BY <2>1
  <2> QED
    BY <2>2 DEF SkippedBlocked
<1>5. CASE DispatchSkip
  <2>1. /\ cursor' = cursor + 1 /\ mRequests' = mRequests
        /\ Blocked(Current)
        /\ UNCHANGED <<serviceVars, activeVars>>
    BY <1>5 DEF DispatchSkip, Blocked
  <2>2. \A j \in 1 .. cursor' - 1 : j \in 1 .. cursor - 1 \/ j = cursor
    BY <1>1, <2>1
  <2> QED
    BY <1>2, <2>1, <2>2 DEF SkippedBlocked, Current
<1>6. CASE Dispatch
  <2> SUFFICES ASSUME NEW j \in 1 .. cursor - 1, j \in 1 .. Len(mRequests')
               PROVE  Blocked(mRequests[j])'
    BY <1>6 DEF SkippedBlocked, Dispatch, loopVars
  <2>1. j < cursor /\ ~(j >= cursor)
    BY <1>1
  <2>2. j \in 1 .. Len(mRequests) /\ mRequests'[j] = mRequests[j]
    BY <1>6, <2>1, DispatchQueue
  <2>3. mRequests[j] \in Request /\ Blocked(mRequests[j])
    BY <1>1, <2>2, ElementOfSeq DEF SkippedBlocked
  <2> QED
    BY <1>6, <2>2, <2>3, DispatchFreesNothing
<1> QED
  BY <1>3, <1>4, <1>5, <1>6, OrdinaryCursor

\* As long as servicers call only services that their requests have waited for,
\* requests of one process for the same services are dispatched in order.
THEOREM AwaitedInOrder == Spec /\ []CallsAwaited => DispatchInOrder
<1> DEFINE A == cursor # 0 /\ cursor' = cursor =>
                  \A j \in 1 .. cursor - 1 :
                    ProcessOf[mRequests[j].action] = ProcessOf[Current.action]
                      => ~(Needs(mRequests[j]) \subseteq Needs(Current))
<1>1. Init => SkippedBlocked
  BY DEF Init, SkippedBlocked
<1>2. TypeOK /\ CallsAwaited /\ SkippedBlocked /\ [Next]_vars => SkippedBlocked'
  BY BlockedStep
<1>3. TypeOK /\ SkippedBlocked /\ [Next]_vars => [A]_vars
  <2> SUFFICES ASSUME TypeOK, SkippedBlocked, [Next]_vars, ~UNCHANGED vars,
                      cursor # 0, cursor' = cursor, NEW j \in 1 .. cursor - 1,
                      ProcessOf[mRequests[j].action] = ProcessOf[Current.action]
               PROVE  ~(Needs(mRequests[j]) \subseteq Needs(Current))
    OBVIOUS
  <2>1. cursor \in Nat
    BY DEF TypeOK
  <2>2. CASE Dispatch
    <3>1. cursor \in 1 .. Len(mRequests) /\ Len(mRequests) \in Nat
      BY <2>2, LenProperties DEF Dispatch, AtRequest, TypeOK
    <3>2. j \in 1 .. Len(mRequests)
      BY <3>1
    <3>3. servicesAvailable(Current) /\ ~ProcessLimitReached(Current.action)
      BY <2>2 DEF Dispatch
    <3>4. ~ProcessLimitReached(mRequests[j].action)
      BY <3>3 DEF ProcessLimitReached
    <3>5. ~servicesAvailable(mRequests[j])
      BY <3>2, <3>4 DEF SkippedBlocked, Blocked
    <3> QED
      BY <3>3, <3>5 DEF servicesAvailable
  <2>3. CASE DispatchSkip
    <3>1. cursor' = cursor + 1
      BY <2>3 DEF DispatchSkip
    <3> QED
      BY <2>1, <3>1
  <2>4. CASE ~Dispatch /\ ~DispatchSkip
    <3>1. cursor = 0 \/ cursor = 1
      BY <2>4, OrdinaryCursor
    <3> QED
      BY <3>1
  <2> QED
    BY <2>2, <2>3, <2>4
<1> QED
  BY <1>1, <1>2, <1>3, TypeCorrect, PTL DEF Spec, DispatchInOrder

\* No sink works and nothing is transmitted; a request calls the sources of its
\* accounts, and has waited for them.
NothingSent ==
  /\ mSentIds = {}
  /\ \A s \in Sink : sending[s] = {}
  /\ \A i \in 1 .. Len(mRequests) : Made(mRequests[i]) /\ mRequests[i].kind # "flagSent"

\* Only a dispatch gives a sink messages to send.
LEMMA SendingStep ==
  ASSUME TypeOK, [Next]_vars, NEW s \in Sink
  PROVE  sending'[s] \subseteq sending[s] \/ (Dispatch /\ s \in Called(Current))
<1> USE DEF serviceVars, workVars, activeVars, expiryVars, loopVars, flagVars, fileVars, mailVars
<1>0. sending \in [Sink -> SUBSET Message]
  BY DEF TypeOK
<1> DEFINE P == sending'[s] \subseteq sending[s]
<1>1. ASSUME UNCHANGED sending PROVE P
  BY <1>1
<1>2. ASSUME NEW S, sending' = [t \in Sink |-> IF t \in S THEN {} ELSE sending[t]] PROVE P
  BY <1>2
<1> HIDE DEF P
<1>3. CASE \E a \in ClientAction : ClientRequest(a)
  <2>1. ASSUME NEW a, NEW x, Answer(a, x)
        PROVE  UNCHANGED sending
    BY <2>1 DEF Answer
  <2>2. ASSUME NEW a, NEW q, enqueueRequest(a, q)
        PROVE  UNCHANGED sending
    BY <2>2 DEF enqueueRequest
  <2>3. UNCHANGED sending
    BY <1>3, <2>1, <2>2, ClientAnswers, Zenon
  <2> QED
    BY <1>1, <2>3 DEF P
<1>4. CASE Dispatch
  <2>1. PICK ok \in BOOLEAN, started \in SUBSET Called(Current), failed \in SUBSET Called(Current) :
          DispatchRun(ok, started, failed)
    BY <1>4 DEF Dispatch
  <2>2. PICK M : sending' = [t \in Sink |-> IF t \in started THEN M ELSE sending[t]]
    BY <2>1 DEF DispatchRun
  <2> QED
    BY <1>4, <2>1, <2>2
<1>5. CASE \/ DispatchStart \/ DispatchSkip \/ DispatchEnd \/ ExpiryCheck \/ ReportFailures
           \/ (\E t \in Source : MailCheck(t)) \/ (\E i \in 1 .. Len(mActionExpiry) : Elapse(i))
           \/ \E t \in Service : ServiceProgress(t) \/ ServiceSucceeded(t)
  <2>1. UNCHANGED sending
    BY <1>5 DEF DispatchStart, DispatchSkip, DispatchEnd, ExpiryCheck, ReportFailures, MailCheck,
                MailCheckStarted, MailCheckEnded, Elapse, ServiceProgress, ServiceSucceeded
  <2> QED
    BY <1>1, <2>1 DEF P
<1>6. CASE \E t \in Service : ServiceFailed(t)
  <2>1. PICK t \in Service : sending' = [u \in Sink |-> IF u = t THEN {} ELSE sending[u]]
    BY <1>6 DEF ServiceFailed
  <2>2. sending' = [u \in Sink |-> IF u \in {t} THEN {} ELSE sending[u]]
    BY <2>1
  <2> QED
    BY <1>2, <2>2 DEF P
<1>7. CASE \E t \in Sink, m \in Message : MessageTransmitted(t, m)
  BY <1>0, <1>7 DEF MessageTransmitted
<1>8. CASE (\E x \in Account : AccountChange(x)) \/ ExpireAction
  <2>1. PICK D, C, active, svc, failing, e : Deregister(D, C, active, svc, failing, e)
    BY <1>8 DEF AccountChange, AccountsRemoved, AccountsUpdated, ExpireAction
  <2>2. sending' = [t \in Sink |-> IF t \in D THEN {} ELSE sending[t]]
    BY <2>1 DEF Deregister
  <2> QED
    BY <1>2, <2>2 DEF P
<1>9. CASE \E a \in ClientAction : CancelTransfer(a)
  <2>1. \/ UNCHANGED sending
        \/ \E S : sending' = [t \in Sink |-> IF t \in S THEN {} ELSE sending[t]]
    BY <1>9 DEF CancelTransfer, CancelPending, CancelActive
  <2> QED
    BY <1>1, <1>2, <2>1 DEF P
<1>10. CASE Crash
  BY <1>10 DEF Crash
<1>11. CASE UNCHANGED vars
  BY <1>11 DEF vars
<1> QED
  BY <1>3, <1>4, <1>5, <1>6, <1>7, <1>8, <1>9, <1>10, <1>11 DEF Next, DispatchRequest, ServiceSignal

\* Unless clients transmit messages or change folders, a servicer calls only
\* services that its request has waited for.
LEMMA NothingElseCalled ==
  ASSUME Offered \cap {"transmit", "transmitOne", "folder"} = {}
  PROVE  Spec => []CallsAwaited
<1>1. Init => NothingSent
  BY DEF Init, NothingSent
<1>2. ASSUME TypeOK, NothingSent, NEW r \in Request, Made(r), r.kind # "flagSent"
      PROVE  Called(r) \subseteq r.services \cap Source
  <2>1. r.kind \in Kind /\ r.kind \notin {"prepare", "transmit", "transmitOne"}
    BY <1>2 DEF Made, Request
  <2>2. Called(r) = ServicesOf(r.accounts) \cap Source
    BY <2>1 DEF Called
  <2>3. CASE r.kind = "copyToLocal"
    BY <1>2, <2>2, <2>3 DEF Made, ServicesOf
  <2>4. CASE r.kind # "copyToLocal"
    <3>1. r.kind \in {"retrieve", "export", "storage"}
      BY <1>2, <2>1, <2>4 DEF Kind
    <3>2. r.services \subseteq Source /\ AccountsOf(r.services) = r.accounts
      BY <1>2, <3>1 DEF Made
    <3>3. ASSUME NEW s \in Called(r)
          PROVE  s \in r.services
      <4>1. s \in Source /\ AccountOf[s] \in r.accounts
        BY <2>2 DEF ServicesOf
      <4>2. PICK t \in r.services : AccountOf[t] = AccountOf[s]
        BY <3>2, <4>1 DEF AccountsOf
      <4>3. s = t
        BY <3>2, <4>1, <4>2, ServiceAssumption DEF Service
      <4> QED
        BY <4>2, <4>3
    <3> QED
      BY <2>2, <3>3
  <2> QED
    BY <2>3, <2>4
<1>3. ASSUME TypeOK, NothingSent, AtRequest
      PROVE  Called(Current) \subseteq Current.services \cap Source
  <2>1. Made(Current) /\ Current.kind # "flagSent" /\ Current \in Request
    BY <1>3, CurrentType DEF NothingSent, AtRequest, Current
  <2> QED
    BY <1>2, <1>3, <2>1
<1>4. TypeOK /\ NothingSent => CallsAwaited
  BY <1>3 DEF CallsAwaited
<1>5. TypeOK /\ NothingSent /\ [Next]_vars => NothingSent'
  <2> SUFFICES ASSUME TypeOK, NothingSent, [Next]_vars PROVE NothingSent'
    OBVIOUS
  <2>1. \A i \in 1 .. Len(mRequests') : Made(mRequests'[i]) /\ mRequests'[i].kind # "flagSent"
    BY QueueMade DEF Replenished, NothingSent
  <2>2. \A s \in Sink : sending'[s] = {}
    <3> SUFFICES ASSUME NEW s \in Sink PROVE sending'[s] = {}
      OBVIOUS
    <3>1. ~(Dispatch /\ s \in Called(Current))
      BY <1>3, ServiceAssumption DEF Dispatch
    <3> QED
      BY <3>1, SendingStep DEF NothingSent
  <2>3. mSentIds' = {}
    BY OutboxStep DEF Unsent, MessageTransmitted, NothingSent
  <2> QED
    BY <2>1, <2>2, <2>3 DEF NothingSent
<1> QED
  BY <1>1, <1>4, <1>5, TypeCorrect, PTL DEF Spec

\* For any accounts, limits and numbers of requests: unless clients transmit
\* messages or change folders, requests of one process for the same services are
\* dispatched in the order in which they were made, through failures inside
\* dispatchRequest, cancellations, expiry and changes of accounts.
THEOREM DispatchedInOrder ==
  ASSUME Offered \cap {"transmit", "transmitOne", "folder"} = {}
  PROVE  Spec => DispatchInOrder
BY NothingElseCalled, AwaitedInOrder, PTL

=============================================================================
