------------------------ MODULE ServiceHandlerProofs ------------------------
(***************************************************************************)
(* Proofs about ServiceHandler, for any number of accounts, services,      *)
(* actions and messages and any limits.                                    *)
(***************************************************************************)
EXTENDS ServiceHandler, FiniteSetTheorems, SequenceTheorems, TLAPS

-----------------------------------------------------------------------------
(* Kept(q, keep): a list with some of its entries erased *)

\* The positions of a list are a finite set.
LEMMA PositionsFinite ==
  ASSUME NEW S, NEW q \in Seq(S), NEW keep \in SUBSET (1 .. Len(q))
  PROVE  IsFiniteSet(keep) /\ Cardinality(keep) \in Nat
<1>1. Len(q) \in Nat
  BY LenProperties
<1>2. IsFiniteSet(1 .. Len(q))
  BY <1>1, FS_Interval
<1> QED
  BY <1>2, FS_Subset, FS_CardinalityType

\* Every position that is kept has a rank, and no two have the same.
LEMMA RankIsPosition ==
  ASSUME NEW S, NEW q \in Seq(S), NEW keep \in SUBSET (1 .. Len(q))
  PROVE  /\ \A i \in keep : Rank(keep, i) \in 1 .. Cardinality(keep)
         /\ \A i, j \in keep : i < j => Rank(keep, i) < Rank(keep, j)
         /\ \A i, j \in keep : Rank(keep, i) = Rank(keep, j) => i = j
<1> DEFINE upto(i) == {j \in keep : j =< i}
<1>1. IsFiniteSet(keep) /\ Cardinality(keep) \in Nat
  BY PositionsFinite
<1>2. \A i \in keep : i \in Int
  OBVIOUS
<1>3. \A i \in keep : upto(i) \in SUBSET keep /\ i \in upto(i)
  BY <1>2
<1>4. \A i, j \in keep : i < j => upto(i) \in SUBSET upto(j) /\ upto(i) # upto(j)
  <2> SUFFICES ASSUME NEW i \in keep, NEW j \in keep, i < j
               PROVE  upto(i) \in SUBSET upto(j) /\ upto(i) # upto(j)
    OBVIOUS
  <2>1. \A k \in upto(i) : k \in upto(j)
    BY <1>2
  <2>2. j \in upto(j) /\ j \notin upto(i)
    BY <1>2
  <2> QED
    BY <2>1, <2>2
<1>5. \A i \in keep : Rank(keep, i) = Cardinality(upto(i))
  BY DEF Rank
<1> HIDE DEF upto
<1>6. \A i \in keep : IsFiniteSet(upto(i)) /\ Cardinality(upto(i)) \in Nat
  BY <1>1, <1>3, FS_Subset, FS_CardinalityType
<1>7. \A i \in keep : Rank(keep, i) \in 1 .. Cardinality(keep)
  <2> SUFFICES ASSUME NEW i \in keep
               PROVE  Cardinality(upto(i)) \in 1 .. Cardinality(keep)
    BY <1>5
  <2>1. Cardinality(upto(i)) =< Cardinality(keep)
    BY <1>1, <1>3, FS_Subset
  <2>2. Cardinality(upto(i)) # 0
    BY <1>3, <1>6, FS_EmptySet
  <2> QED
    BY <1>1, <1>6, <2>1, <2>2
<1>8. \A i, j \in keep : i < j => Rank(keep, i) < Rank(keep, j)
  <2> SUFFICES ASSUME NEW i \in keep, NEW j \in keep, i < j
               PROVE  Cardinality(upto(i)) < Cardinality(upto(j))
    BY <1>5
  <2>1. Cardinality(upto(i)) =< Cardinality(upto(j))
    BY <1>4, <1>6, FS_Subset
  <2>2. Cardinality(upto(i)) # Cardinality(upto(j))
    BY <1>4, <1>6, FS_Subset
  <2> QED
    BY <1>6, <2>1, <2>2
<1>9. \A i, j \in keep : Rank(keep, i) = Rank(keep, j) => i = j
  <2> SUFFICES ASSUME NEW i \in keep, NEW j \in keep, Rank(keep, i) = Rank(keep, j), i # j
               PROVE  FALSE
    OBVIOUS
  <2>1. i < j \/ j < i
    BY <1>2
  <2>2. Rank(keep, i) \in Int /\ Rank(keep, j) \in Int
    BY <1>1, <1>7
  <2> QED
    BY <1>8, <2>1, <2>2
<1> QED
  BY <1>7, <1>8, <1>9

\* Kept returns a list whose entries are exactly those at the positions kept.
LEMMA KeptEntries ==
  ASSUME NEW S, NEW q \in Seq(S), NEW keep \in SUBSET (1 .. Len(q))
  PROVE  /\ Kept(q, keep) \in Seq(S)
         /\ Len(Kept(q, keep)) = Cardinality(keep)
         /\ \A k \in 1 .. Cardinality(keep) : \E i \in keep : Kept(q, keep)[k] = q[i]
         /\ \A i \in keep : Rank(keep, i) \in 1 .. Cardinality(keep)
                              /\ Kept(q, keep)[Rank(keep, i)] = q[i]
<1> DEFINE Chosen(k) == CHOOSE i \in keep :
             (\E j \in keep : Rank(keep, j) = k) => Rank(keep, i) = k
           n == Cardinality(keep)
<1>1. IsFiniteSet(keep) /\ n \in Nat
  BY PositionsFinite
<1>2. Kept(q, keep) = [k \in 1 .. n |-> q[Chosen(k)]]
  BY DEF Kept
<1>3. ASSUME NEW k \in 1 .. n
      PROVE  /\ Chosen(k) \in keep
             /\ (\E j \in keep : Rank(keep, j) = k) => Rank(keep, Chosen(k)) = k
  <2>1. keep # {}
    BY <1>1, FS_EmptySet
  <2>2. \E i \in keep : (\E j \in keep : Rank(keep, j) = k) => Rank(keep, i) = k
    BY <2>1
  <2> QED
    BY <2>2
<1> HIDE DEF Chosen
<1>4. \A k \in 1 .. n : q[Chosen(k)] \in S
  BY <1>3, ElementOfSeq
<1>5. Kept(q, keep) \in [1 .. n -> S]
  BY <1>2, <1>4
<1>6. Kept(q, keep) \in Seq(S) /\ Len(Kept(q, keep)) = n
  BY <1>1, <1>5
<1>7. ASSUME NEW i \in keep
      PROVE  Rank(keep, i) \in 1 .. n /\ Kept(q, keep)[Rank(keep, i)] = q[i]
  <2>1. Rank(keep, i) \in 1 .. n
    BY RankIsPosition
  <2>2. Chosen(Rank(keep, i)) = i
    BY <1>3, <2>1, RankIsPosition
  <2> QED
    BY <1>2, <2>1, <2>2
<1> QED
  BY <1>2, <1>3, <1>6, <1>7

\* The same without the ranks.
LEMMA KeptCovers ==
  ASSUME NEW S, NEW q \in Seq(S), NEW keep \in SUBSET (1 .. Len(q))
  PROVE  /\ Kept(q, keep) \in Seq(S)
         /\ \A k \in 1 .. Len(Kept(q, keep)) : \E i \in 1 .. Len(q) : Kept(q, keep)[k] = q[i]
         /\ \A i \in keep : \E k \in 1 .. Len(Kept(q, keep)) : Kept(q, keep)[k] = q[i]
<1>1. Kept(q, keep) \in Seq(S) /\ Len(Kept(q, keep)) = Cardinality(keep)
  BY KeptEntries
<1>2. \A k \in 1 .. Cardinality(keep) : \E i \in keep : Kept(q, keep)[k] = q[i]
  BY KeptEntries
<1>3. \A i \in keep : Rank(keep, i) \in 1 .. Cardinality(keep)
                        /\ Kept(q, keep)[Rank(keep, i)] = q[i]
  BY KeptEntries
<1> QED
  BY <1>1, <1>2, <1>3

\* updateAction only reorders the expiry list.
LEMMA TouchEntries ==
  ASSUME NEW S, NEW q \in Seq(S), NEW A
  PROVE  /\ Touch(q, A) \in Seq(S)
         /\ \A i \in 1 .. Len(q) : \E k \in 1 .. Len(Touch(q, A)) : Touch(q, A)[k] = q[i]
         /\ \A k \in 1 .. Len(Touch(q, A)) : \E i \in 1 .. Len(q) : Touch(q, A)[k] = q[i]
<1> DEFINE first == {i \in 1 .. Len(q) : q[i] \in A /\ \A j \in 1 .. i - 1 : q[j] # q[i]}
           rest  == (1 .. Len(q)) \ first
           u     == Kept(q, rest)
           v     == Kept(q, first)
<1>1. Touch(q, A) = u \o v
  BY DEF Touch
<1>2. first \in SUBSET (1 .. Len(q)) /\ rest \in SUBSET (1 .. Len(q))
  OBVIOUS
<1>3. 1 .. Len(q) \subseteq first \cup rest
  OBVIOUS
<1> HIDE DEF first, rest
<1>4. /\ u \in Seq(S) /\ \A k \in 1 .. Len(u) : \E i \in 1 .. Len(q) : u[k] = q[i]
      /\ \A i \in rest : \E k \in 1 .. Len(u) : u[k] = q[i]
  BY <1>2, KeptCovers
<1>5. /\ v \in Seq(S) /\ \A k \in 1 .. Len(v) : \E i \in 1 .. Len(q) : v[k] = q[i]
      /\ \A i \in first : \E k \in 1 .. Len(v) : v[k] = q[i]
  BY <1>2, KeptCovers
<1> HIDE DEF u, v
<1>6. u \o v \in Seq(S) /\ Len(u \o v) = Len(u) + Len(v) /\ Len(u) \in Nat /\ Len(v) \in Nat
  BY <1>4, <1>5
<1>7. ASSUME NEW k \in 1 .. Len(u \o v)
      PROVE  \E i \in 1 .. Len(q) : (u \o v)[k] = q[i]
  <2>1. CASE k =< Len(u)
    BY <1>4, <1>5, <1>6, <2>1
  <2>2. CASE k > Len(u)
    <3>1. k - Len(u) \in 1 .. Len(v) /\ (u \o v)[k] = v[k - Len(u)]
      BY <1>4, <1>5, <1>6, <2>2
    <3> QED
      BY <1>5, <3>1
  <2> QED
    BY <1>6, <2>1, <2>2
<1>8. ASSUME NEW i \in 1 .. Len(q)
      PROVE  \E k \in 1 .. Len(u \o v) : (u \o v)[k] = q[i]
  <2>1. CASE i \in rest
    <3>1. PICK k \in 1 .. Len(u) : u[k] = q[i]
      BY <1>4, <2>1
    <3>2. k \in 1 .. Len(u \o v) /\ (u \o v)[k] = u[k]
      BY <1>4, <1>5, <1>6
    <3> QED
      BY <3>1, <3>2
  <2>2. CASE i \in first
    <3>1. PICK k \in 1 .. Len(v) : v[k] = q[i]
      BY <1>5, <2>2
    <3>2. Len(u) + k \in 1 .. Len(u \o v) /\ (u \o v)[Len(u) + k] = v[k]
      BY <1>4, <1>5, <1>6
    <3> QED
      BY <3>1, <3>2
  <2> QED
    BY <1>3, <2>1, <2>2
<1> QED
  BY <1>1, <1>6, <1>7, <1>8

\* Pruning the expiry list drops no active action.
LEMMA PruneEntries ==
  ASSUME NEW S, NEW q \in Seq(S), NEW active
  PROVE  /\ PruneExpiry(q, active) \in Seq(S)
         /\ \A i \in 1 .. Len(q) : active[q[i]] # NoData =>
              \E k \in 1 .. Len(PruneExpiry(q, active)) : PruneExpiry(q, active)[k] = q[i]
         /\ \A k \in 1 .. Len(PruneExpiry(q, active)) :
              \E i \in 1 .. Len(q) : PruneExpiry(q, active)[k] = q[i]
<1> DEFINE live == {i \in 1 .. Len(q) : active[q[i]] # NoData}
           keep == {i \in 1 .. Len(q) : \E j \in live : j =< i}
<1>1. PruneExpiry(q, active) = Kept(q, keep)
  BY DEF PruneExpiry
<1>2. keep \in SUBSET (1 .. Len(q)) /\ \A i \in 1 .. Len(q) : active[q[i]] # NoData => i \in keep
  OBVIOUS
<1> HIDE DEF keep
<1> QED
  BY <1>1, <1>2, KeptEntries

\* Erasing one entry of a list.
LEMMA RemoveAtEntries ==
  ASSUME NEW S, NEW q \in Seq(S), NEW i \in 1 .. Len(q)
  PROVE  /\ RemoveAt(q, i) \in Seq(S)
         /\ Len(RemoveAt(q, i)) = Len(q) - 1
         /\ \A k \in 1 .. Len(q) - 1 :
              RemoveAt(q, i)[k] = IF k < i THEN q[k] ELSE q[k + 1]
<1>1. Len(q) \in Nat /\ i \in Int /\ 1 =< i /\ i =< Len(q)
  BY LenProperties
<1>2. /\ SubSeq(q, 1, i - 1) \in Seq(S) /\ Len(SubSeq(q, 1, i - 1)) = i - 1
      /\ \A k \in 1 .. i - 1 : SubSeq(q, 1, i - 1)[k] = q[k]
  BY <1>1, SubSeqProperties
<1>3. /\ SubSeq(q, i + 1, Len(q)) \in Seq(S) /\ Len(SubSeq(q, i + 1, Len(q))) = Len(q) - i
      /\ \A k \in 1 .. Len(q) - i : SubSeq(q, i + 1, Len(q))[k] = q[i + k]
  BY <1>1, SubSeqProperties
<1> DEFINE u == SubSeq(q, 1, i - 1)
           v == SubSeq(q, i + 1, Len(q))
<1> HIDE DEF u, v
<1>4. RemoveAt(q, i) = u \o v
  BY DEF RemoveAt, u, v
<1>5. /\ u \in Seq(S) /\ Len(u) = i - 1 /\ \A k \in 1 .. i - 1 : u[k] = q[k]
      /\ v \in Seq(S) /\ Len(v) = Len(q) - i /\ \A k \in 1 .. Len(q) - i : v[k] = q[i + k]
  BY <1>2, <1>3 DEF u, v
<1>6. /\ u \o v \in Seq(S) /\ Len(u \o v) = Len(u) + Len(v)
      /\ \A k \in 1 .. Len(u) + Len(v) :
           (u \o v)[k] = IF k =< Len(u) THEN u[k] ELSE v[k - Len(u)]
  BY <1>5, ConcatProperties
<1>7. /\ u \o v \in Seq(S) /\ Len(u \o v) = Len(q) - 1
      /\ \A k \in 1 .. Len(q) - 1 : (u \o v)[k] = IF k =< i - 1 THEN u[k] ELSE v[k - (i - 1)]
  <2>1. Len(u) + Len(v) = Len(q) - 1
    BY <1>1, <1>5
  <2> QED
    BY <1>5, <1>6, <2>1
<1>8. ASSUME NEW k \in 1 .. Len(q) - 1
      PROVE  (u \o v)[k] = IF k < i THEN q[k] ELSE q[k + 1]
  <2>1. CASE k < i
    BY <1>1, <1>5, <1>7, <2>1
  <2>2. CASE ~(k < i)
    <3>1. k - (i - 1) \in 1 .. Len(q) - i /\ i + (k - (i - 1)) = k + 1
      BY <1>1, <2>2
    <3> QED
      BY <1>1, <1>5, <1>7, <2>2, <3>1
  <2> QED
    BY <2>1, <2>2
<1> QED
  BY <1>4, <1>7, <1>8

-----------------------------------------------------------------------------
(* Type correctness *)

\* The service sets a request is made of are sets of services.
LEMMA ServiceSets ==
  ASSUME TypeOK
  PROVE  /\ \A X : sourceServiceSet(X) \in SUBSET Service
         /\ \A x : sinkServiceSet(x) \in SUBSET Service
         /\ \A X : ServicesOf(X) \in SUBSET Service
BY DEF TypeOK, sourceServiceSet, sinkServiceSet, ServicesOf

\* An entry without data is an entry.
LEMMA NoDataType == NoData \in ActionData
BY DEF NoData, ActionData

\* A failure leaves well-formed action data.
LEMMA FailureType ==
  ASSUME NEW active \in [Action -> ActionData], NEW serviceAction, NEW F
  PROVE  ActiveAfterFailure(active, serviceAction, F) \in [Action -> ActionData]
BY NoDataType DEF ActiveAfterFailure, ActionData

\* The request that moves transmitted messages is well-formed.
LEMMA FlushType ==
  ASSUME TypeOK, NEW F, NEW gone, NEW serviceAction,
         NEW q \in Seq(Request), NEW file \in SUBSET Action, NEW erased,
         FlushSent(F, gone, serviceAction, q, file, erased)
  PROVE  /\ mRequests' \in Seq(Request)
         /\ outstandingRequests' \subseteq Action
         /\ outbox' \subseteq Message
         /\ mSentIds' \subseteq Message
         /\ issued' \subseteq Action
<1> DEFINE moved == mSentIds \ External
           Sources(s) == IF AccountOf[s] \in AccountsOf(gone \cap Source) THEN {Null}
                         ELSE sourceServiceSet({AccountOf[s]})
           r(l, s) == [action |-> l, kind |-> "flagSent", services |-> Sources(s),
                       preconditions |-> {}, accounts |-> {OwnerOf[m] : m \in moved},
                       messages |-> moved]
<1>1. \A s : Sources(s) \in SUBSET (Service \cup {Null})
  BY ServiceSets
<1>2. moved \in SUBSET Message /\ {OwnerOf[m] : m \in moved} \in SUBSET Account
  BY MessageAssumption DEF TypeOK
<1>3. \A s : \A l \in LocalAction : r(l, s) \in Request
  BY <1>1, <1>2 DEF Request, Kind, Action
<1> HIDE DEF r, Sources, moved
<1>4. \A s : \A l \in LocalAction : Append(q, r(l, s)) \in Seq(Request)
  BY <1>3, AppendProperties
<1>5. /\ outbox' \subseteq outbox
      /\ mSentIds' \subseteq mSentIds
      /\ mRequests' = q \/ \E l \in LocalAction, s \in Service : mRequests' = Append(q, r(l, s))
      /\ issued' = issued \/ \E l \in LocalAction : issued' = issued \cup {l}
      /\ outstandingRequests' = file \/ \E l \in LocalAction : outstandingRequests' = file \cup {l}
  BY DEF FlushSent, r, Sources, moved, Service
<1>6. mRequests' \in Seq(Request)
  BY <1>4, <1>5
<1> QED
  BY <1>5, <1>6 DEF TypeOK, Action

\* Sequences of one and of two requests.
LEMMA ShortSeq ==
  ASSUME NEW S
  PROVE  \A x, y \in S : <<x>> \in Seq(S) /\ <<x, y>> \in Seq(S)
OBVIOUS

\* A client's slot keeps the state well-formed.
LEMMA RequestType ==
  ASSUME TypeOK, NEW a \in ClientAction
  PROVE  /\ \A x \in Report : Answer(a, x) => TypeOK'
         /\ \A q \in Seq(Request) : enqueueRequest(a, q) => TypeOK'
         /\ ClientRequest(a) => TypeOK'
<1> USE DEF Action
<1>1. ASSUME NEW x \in Report, Answer(a, x)
      PROVE  TypeOK'
  <2>1. reports' \in [Action -> SUBSET Report]
    BY <1>1 DEF TypeOK, Answer, Told
  <2> QED
    BY <1>1, <2>1 DEF TypeOK, Answer, serviceVars, workVars, activeVars, expiryVars, loopVars,
                      flagVars, fileVars, mailVars
<1>2. ASSUME NEW q \in Seq(Request), enqueueRequest(a, q)
      PROVE  TypeOK'
  <2>1. mRequests' \in Seq(Request)
    BY <1>2, ConcatProperties DEF TypeOK, enqueueRequest
  <2> QED
    BY <1>2, <2>1 DEF TypeOK, enqueueRequest, serviceVars, workVars, activeVars, expiryVars,
                      loopVars, flagVars, fileVars, mailVars
<1>3. \A k \in Kind, S1, S2 \in SUBSET Service, X \in SUBSET Account, M \in SUBSET Message :
        NewRequest(a, k, S1, S2, X, M) \in Request
  BY DEF NewRequest, Request
<1>4. "Failed" \in Report /\ "Successful" \in Report
  BY DEF Report
<1>5. ASSUME NEW k \in Kind, NEW X \in SUBSET Account, RequestFromSources(a, k, X)
      PROVE  TypeOK'
  <2>1. <<NewRequest(a, k, sourceServiceSet(X), {}, X, {})>> \in Seq(Request)
    BY <1>3, ServiceSets
  <2> QED
    BY <1>1, <1>2, <1>4, <1>5, <2>1 DEF RequestFromSources
<1>6. ASSUME NEW x \in Account, OnlineFolderOperation(a, x)
      PROVE  TypeOK'
  <2>1. NewRequest(a, "storage", sourceServiceSet({x}), {}, {x}, {}) \in Request
    BY <1>3, ServiceSets DEF Kind
  <2> QED
    BY <1>1, <1>2, <1>4, <1>6, <2>1, ShortSeq DEF OnlineFolderOperation
<1>7. ASSUME OnlineCopyToLocal(a)
      PROVE  TypeOK'
  <2>1. NewRequest(a, "copyToLocal", {}, {}, {}, {}) \in Request
    BY <1>3 DEF Kind
  <2> QED
    BY <1>2, <1>7, <2>1, ShortSeq DEF OnlineCopyToLocal
<1>8. ASSUME NEW k \in {"transmit", "transmitOne"}, NEW x \in Account,
             NEW M \in SUBSET Message, NEW scope \in SUBSET Message
      PROVE  TransmissionRequests(a, k, x, M, scope) \in Seq(Request)
  <2> DEFINE owners  == {OwnerOf[m] : m \in M \cap External}
             sources == sourceServiceSet(owners)
             send(S) == NewRequest(a, k, sinkServiceSet(x), S, {x}, scope)
             prepare == NewRequest(a, "prepare", sources, {}, owners, {})
  <2>1. owners \in SUBSET Account
    BY MessageAssumption
  <2>2. sources \in SUBSET Service /\ sinkServiceSet(x) \in SUBSET Service
    BY ServiceSets
  <2>3. k \in Kind /\ "prepare" \in Kind
    BY DEF Kind
  <2> HIDE DEF owners, sources
  <2>4. send({}) \in Request /\ send(sources) \in Request /\ prepare \in Request
    BY <1>3, <2>1, <2>2, <2>3
  <2> HIDE DEF send, prepare
  <2>5. TransmissionRequests(a, k, x, M, scope) \in {<<send({})>>, <<prepare, send(sources)>>}
    BY DEF TransmissionRequests, send, prepare, sources, owners
  <2> QED
    BY <2>4, <2>5, ShortSeq
<1>9. ASSUME NEW x \in Account, TransmitMessages(a, x)
      PROVE  TypeOK'
  <2>1. Owned(x) \in SUBSET Message /\ outbox \cap Owned(x) \in SUBSET Message
    BY DEF Owned
  <2> QED
    BY <1>1, <1>2, <1>4, <1>8, <1>9, <2>1 DEF TransmitMessages
<1>10. ASSUME NEW m \in Message, TransmitMessage(a, m)
       PROVE  TypeOK'
  <2>1. OwnerOf[m] \in Account /\ {m} \in SUBSET Message
    BY MessageAssumption
  <2> QED
    BY <1>1, <1>2, <1>4, <1>8, <1>10, <2>1 DEF TransmitMessage
<1>11. ASSUME ClientRequest(a)
       PROVE  TypeOK'
  <2>1. "retrieve" \in Kind /\ "export" \in Kind /\ "storage" \in Kind
    BY DEF Kind
  <2>2. \A x \in Account : {x} \in SUBSET Account
    OBVIOUS
  <2> QED
    BY <1>1, <1>4, <1>5, <1>6, <1>7, <1>9, <1>10, <1>11, <2>1, <2>2
    DEF ClientRequest, AccountRequest, MultiAccountRequest, RetrieveFromAccount, CreateStandardFolders,
        RetrieveMessages, RetrieveMessagePart, RetrieveAll, ExportUpdates, Synchronize,
        OnlineDeleteMessages, OnlineCopyMessages, OnlineMoveMessages, OnlineFlagMessages,
        LocalOperation
<1> QED
  BY <1>1, <1>2, <1>11

\* The accounts of services are accounts.
LEMMA AccountsType ==
  ASSUME NEW S \in SUBSET Service
  PROVE  AccountsOf(S) \in SUBSET Account
BY ServiceAssumption DEF AccountsOf

\* A report about some actions is a report about actions.
LEMMA ToldType ==
  ASSUME TypeOK, NEW A, NEW x \in Report
  PROVE  Told(A, x) \in [Action -> SUBSET Report]
BY DEF Told, TypeOK

\* What dispatchRequest knows of the request it hands over.
LEMMA CurrentType ==
  ASSUME TypeOK, AtRequest
  PROVE  /\ Current \in Request
         /\ Current.action \in Action
         /\ Current.kind \in Kind
         /\ Current.messages \in SUBSET Message
         /\ servicesAvailable(Current) =>
              Current.services \in SUBSET Service /\ Needs(Current) \subseteq serviceMap
         /\ Called(Current) \in SUBSET serviceMap
         /\ RemoveAt(mRequests, cursor) \in Seq(Request)
<1>1. mRequests \in Seq(Request) /\ cursor \in 1 .. Len(mRequests)
  BY DEF TypeOK, AtRequest
<1>2. Current \in Request
  BY <1>1, ElementOfSeq DEF Current
<1>3. /\ Current.action \in Action /\ Current.kind \in Kind /\ Current.messages \in SUBSET Message
  BY <1>2 DEF Request
<1>4. servicesAvailable(Current) =>
        Current.services \in SUBSET Service /\ Needs(Current) \subseteq serviceMap
  BY DEF servicesAvailable, serviceAvailable, Needs, TypeOK
<1>5. Called(Current) \in SUBSET serviceMap
  BY DEF Called, ServicesOf
<1>6. RemoveAt(mRequests, cursor) \in Seq(Request)
  BY <1>1, RemoveAtEntries
<1> QED
  BY <1>2, <1>3, <1>4, <1>5, <1>6

\* dispatchRequest keeps the state well-formed.
LEMMA DispatchType ==
  ASSUME TypeOK, Dispatch
  PROVE  TypeOK'
<1>1. PICK ok \in BOOLEAN, started \in SUBSET Called(Current), failed \in SUBSET Called(Current) :
        DispatchRun(ok, started, failed)
  BY DEF Dispatch
<1> DEFINE r     == Current
           a     == r.action
           svc   == [s \in Service |-> IF s \in r.services THEN a ELSE mServiceAction[s]]
           data  == [services |-> r.services, kind |-> r.kind, reported |-> FALSE, stale |-> FALSE]
           act   == [mActiveActions EXCEPT ![a] = data]
           after == ActiveAfterFailure(act, svc, failed)
           list  == Touch(mActionExpiry, Hit(failed, svc))
<1>2. /\ r \in Request /\ a \in Action /\ r.kind \in Kind /\ r.messages \in SUBSET Message
      /\ r.services \in SUBSET Service
      /\ Called(Current) \in SUBSET serviceMap /\ serviceMap \in SUBSET Service
      /\ RemoveAt(mRequests, cursor) \in Seq(Request)
  BY CurrentType DEF Dispatch, TypeOK
<1> HIDE DEF r
<1>3. svc \in [Service -> Action \cup {NoAction}]
  BY <1>2 DEF TypeOK
<1>4. data \in ActionData
  BY <1>2 DEF ActionData
<1>5. act \in [Action -> ActionData]
  BY <1>2, <1>4 DEF TypeOK
<1>6. after \in [Action -> ActionData]
  BY <1>5, FailureType
<1>7. list \in Seq(Action)
  BY TouchEntries DEF TypeOK
<1>8. AccountsOf(started) \in SUBSET Account /\ AccountsOf(failed) \in SUBSET Account
  BY <1>2, AccountsType
<1>9. NowInProgress(ok, started, failed) \in SUBSET Account
  BY <1>8 DEF NowInProgress
<1> HIDE DEF svc, data, act, after, list
<1>10. /\ mActiveActions' = IF ok THEN after ELSE [after EXCEPT ![a] = NoData]
       /\ mServiceAction' = [s \in Service |-> IF s \in failed \/ (~ok /\ s \in r.services)
                                               THEN NoAction ELSE svc[s]]
       /\ mActionExpiry' = IF ok THEN Append(list, a) ELSE list
       /\ expiryTimer' = (expiryTimer \/ (ok /\ list = <<>>))
       /\ busy' = busy \cup started
       /\ \E toTransmit \in Sendable(r) :
            sending' = [s \in Sink |-> IF s \in started THEN toTransmit ELSE sending[s]]
       /\ dispatchPosted' = (dispatchPosted \/ failed # {})
       /\ FlushSent(failed, {}, svc, RemoveAt(mRequests, cursor),
                    outstandingRequests \ Hit(failed, svc), {})
       /\ retrievalAccountIds' \subseteq retrievalAccountIds \cup NowInProgress(ok, started, failed)
       /\ transmissionAccountIds' \subseteq transmissionAccountIds \cup NowInProgress(ok, started, failed)
  BY <1>1 DEF DispatchRun, r, svc, data, act, after, list
<1>11. reports' \in [Action -> SUBSET Report]
  BY <1>1 DEF DispatchRun, TypeOK, Report
<1>12. mActiveActions' \in [Action -> ActionData]
  BY <1>6, <1>10, NoDataType
<1>13. mServiceAction' \in [Service -> Action \cup {NoAction}]
  BY <1>3, <1>10
<1>14. mActionExpiry' \in Seq(Action)
  BY <1>2, <1>7, <1>10, AppendProperties
<1>15. sending' \in [Sink -> SUBSET Message]
  <2>1. Sendable(r) \subseteq SUBSET Message
    BY DEF Sendable, TypeOK
  <2>2. PICK toTransmit \in Sendable(r) :
          sending' = [s \in Sink |-> IF s \in started THEN toTransmit ELSE sending[s]]
    BY <1>10
  <2> QED
    BY <2>1, <2>2 DEF TypeOK
<1>16. /\ mRequests' \in Seq(Request) /\ outstandingRequests' \subseteq Action
       /\ outbox' \subseteq Message /\ mSentIds' \subseteq Message /\ issued' \subseteq Action
  <2>1. outstandingRequests \ Hit(failed, svc) \in SUBSET Action
    BY DEF TypeOK
  <2> QED
    BY <1>2, <1>10, <2>1, FlushType
<1>17. retrievalAccountIds' \subseteq Account /\ transmissionAccountIds' \subseteq Account
  BY <1>9, <1>10 DEF TypeOK
<1>18. busy' \subseteq serviceMap
  BY <1>2, <1>10 DEF TypeOK
<1>19. expiryTimer' \in BOOLEAN /\ dispatchPosted' \in BOOLEAN
  BY <1>10
<1>20. UNCHANGED <<serviceVars, loopVars, failedRequests, delivered, crashes>>
  BY DEF Dispatch
<1> QED
  BY <1>11, <1>12, <1>13, <1>14, <1>15, <1>16, <1>17, <1>18, <1>19, <1>20
  DEF TypeOK, serviceVars, loopVars

\* Removing the services of an account keeps the state well-formed.
LEMMA DeregisterType ==
  ASSUME TypeOK, NEW D, NEW C, NEW active \in [Action -> ActionData],
         NEW svc \in [Service -> Action \cup {NoAction}], NEW failing, NEW erased,
         Deregister(D, C, active, svc, failing, erased)
  PROVE  /\ mActiveActions' \in [Action -> ActionData]
         /\ mServiceAction' \in [Service -> Action \cup {NoAction}]
         /\ busy' = busy \ D
         /\ sending' \in [Sink -> SUBSET Message]
         /\ mUnavailableServices' = mUnavailableServices \ D
         /\ dispatchPosted' \in BOOLEAN
         /\ reports' \in [Action -> SUBSET Report]
         /\ mRequests' \in Seq(Request) /\ outstandingRequests' \subseteq Action
         /\ outbox' \subseteq Message /\ mSentIds' \subseteq Message /\ issued' \subseteq Action
<1> DEFINE lost == {i \in 1 .. Len(mRequests) : Needs(mRequests[i]) \cap D # {}}
           after == ActiveAfterFailure(active, svc, C)
           q == Kept(mRequests, (1 .. Len(mRequests)) \ lost)
           file == outstandingRequests \ Hit(C, svc)
           told == failing \cup Hit(C, svc) \cup {mRequests[i].action : i \in lost}
<1>1. after \in [Action -> ActionData]
  BY FailureType
<1>2. (1 .. Len(mRequests)) \ lost \in SUBSET (1 .. Len(mRequests))
  OBVIOUS
<1>3. q \in Seq(Request) /\ file \in SUBSET Action
  <2> HIDE DEF lost
  <2> QED
    BY <1>2, KeptCovers DEF TypeOK
<1> HIDE DEF after
<1>4. /\ mActiveActions' = [a \in Action |-> IF after[a] = NoData THEN NoData
                                             ELSE [after[a] EXCEPT !.services = @ \ D]]
      /\ mServiceAction' = [s \in Service |-> IF s \in D THEN NoAction ELSE svc[s]]
      /\ busy' = busy \ D
      /\ sending' = [s \in Sink |-> IF s \in D THEN {} ELSE sending[s]]
      /\ mUnavailableServices' = mUnavailableServices \ D
      /\ dispatchPosted' = (dispatchPosted \/ C # {})
      /\ reports' = Told(told, "Failed")
      /\ FlushSent(C, D, svc, q, file, erased)
  BY DEF Deregister, after
<1> HIDE DEF lost, q, file, told
<1>5. mActiveActions' \in [Action -> ActionData]
  BY <1>1, <1>4, NoDataType DEF ActionData
<1>6. sending' \in [Sink -> SUBSET Message] /\ mServiceAction' \in [Service -> Action \cup {NoAction}]
  BY <1>4 DEF TypeOK
<1>7. reports' \in [Action -> SUBSET Report]
  <2>1. "Failed" \in Report
    BY DEF Report
  <2> QED
    BY <1>4, <2>1, ToldType
<1>8. /\ mRequests' \in Seq(Request) /\ outstandingRequests' \subseteq Action
      /\ outbox' \subseteq Message /\ mSentIds' \subseteq Message /\ issued' \subseteq Action
  BY <1>3, <1>4, FlushType
<1> QED
  BY <1>4, <1>5, <1>6, <1>7, <1>8

\* The signals of the services keep the state well-formed.
LEMMA SignalType ==
  ASSUME TypeOK, NEW s \in Service
  PROVE  /\ ServiceProgress(s) => TypeOK'
         /\ ServiceFailed(s) => TypeOK'
         /\ ServiceSucceeded(s) => TypeOK'
<1> USE DEF serviceVars, workVars, activeVars, expiryVars, loopVars, flagVars, fileVars, mailVars
<1>1. ASSUME ServiceProgress(s)
      PROVE  TypeOK'
  <2> DEFINE a == mServiceAction[s]
  <2>1. a \in Action
    BY <1>1 DEF ServiceProgress, TypeOK
  <2>2. mActionExpiry' \in Seq(Action)
    BY <1>1, TouchEntries DEF ServiceProgress, TypeOK
  <2>3. mActiveActions' \in [Action -> ActionData]
    BY <1>1, <2>1 DEF ServiceProgress, TypeOK, ActionData
  <2> QED
    BY <1>1, <2>2, <2>3 DEF ServiceProgress, TypeOK
<1>2. ASSUME ServiceFailed(s)
      PROVE  TypeOK'
  <2>1. mActiveActions' \in [Action -> ActionData]
    BY <1>2, FailureType DEF ServiceFailed, TypeOK
  <2>2. mActionExpiry' \in Seq(Action)
    BY <1>2, TouchEntries DEF ServiceFailed, TypeOK
  <2>3. reports' \in [Action -> SUBSET Report]
    <3>1. "Failed" \in Report
      BY DEF Report
    <3> QED
      BY <1>2, <3>1, ToldType DEF ServiceFailed
  <2>4. /\ mRequests' \in Seq(Request) /\ outstandingRequests' \subseteq Action
        /\ outbox' \subseteq Message /\ mSentIds' \subseteq Message /\ issued' \subseteq Action
    <3>1. mRequests \in Seq(Request)
          /\ outstandingRequests \ Hit({s}, mServiceAction) \in SUBSET Action
      BY DEF TypeOK
    <3>2. FlushSent({s}, {}, mServiceAction, mRequests,
                    outstandingRequests \ Hit({s}, mServiceAction), {})
      BY <1>2 DEF ServiceFailed
    <3> QED
      BY <3>1, <3>2, FlushType
  <2>5. /\ busy' \subseteq serviceMap /\ sending' \in [Sink -> SUBSET Message]
        /\ mServiceAction' \in [Service -> Action \cup {NoAction}]
        /\ retrievalAccountIds' \subseteq Account /\ transmissionAccountIds' \subseteq Account
    BY <1>2 DEF ServiceFailed, TypeOK
  <2> QED
    BY <1>2, <2>1, <2>2, <2>3, <2>4, <2>5 DEF ServiceFailed, TypeOK
<1>3. ASSUME ServiceSucceeded(s)
      PROVE  TypeOK'
  <2> DEFINE a == mServiceAction[s]
  <2>1. \A d \in ActionData : ActiveAfterSuccess(d, s) \in ActionData
    BY NoDataType DEF ActiveAfterSuccess, ActionData
  <2>2. mActiveActions' \in [Action -> ActionData]
    BY <1>3, <2>1 DEF ServiceSucceeded, TypeOK
  <2>3. \A d : ReportsOfSuccess(d, s) \in SUBSET Report
    BY DEF ReportsOfSuccess, Report
  <2>4. reports' \in [Action -> SUBSET Report]
    BY <1>3, <2>3 DEF ServiceSucceeded, TypeOK
  <2>5. /\ mRequests' \in Seq(Request) /\ outstandingRequests' \subseteq Action
        /\ outbox' \subseteq Message /\ mSentIds' \subseteq Message /\ issued' \subseteq Action
    <3>1. mRequests \in Seq(Request) /\ outstandingRequests \ {a} \in SUBSET Action
      BY DEF TypeOK
    <3>2. FlushSent({s}, {}, mServiceAction, mRequests, outstandingRequests \ {a}, {})
      BY <1>3 DEF ServiceSucceeded
    <3> QED
      BY <3>1, <3>2, FlushType
  <2>6. /\ busy' \subseteq serviceMap /\ mServiceAction' \in [Service -> Action \cup {NoAction}]
        /\ retrievalAccountIds' \subseteq Account /\ transmissionAccountIds' \subseteq Account
    BY <1>3 DEF ServiceSucceeded, TypeOK
  <2> QED
    BY <1>3, <2>2, <2>4, <2>5, <2>6 DEF ServiceSucceeded, TypeOK
<1> QED
  BY <1>1, <1>2, <1>3

\* Changes to the accounts and the expiry of an action keep it well-formed.
LEMMA AccountType ==
  ASSUME TypeOK
  PROVE  /\ \A x \in Account : AccountChange(x) => TypeOK'
         /\ ExpireAction => TypeOK'
<1> USE DEF serviceVars, workVars, activeVars, expiryVars, loopVars, flagVars, fileVars, mailVars
<1>1. ASSUME NEW x \in Account, NEW N \in SUBSET {s \in Service : AccountOf[s] = x},
             AccountsUpdated(x, N)
      PROVE  TypeOK'
  <2> DEFINE D == ServicesOf({x}) \ N
  <2>1. PICK C \in SUBSET D :
          /\ Deregister(D, C, mActiveActions, mServiceAction, {}, {})
          /\ mActionExpiry' = Touch(mActionExpiry, Hit(C, mServiceAction))
          /\ ClearFlags(C)
    BY <1>1 DEF AccountsUpdated
  <2>2. mActionExpiry' \in Seq(Action)
    BY <2>1, TouchEntries DEF TypeOK
  <2>3. retrievalAccountIds' \subseteq Account /\ transmissionAccountIds' \subseteq Account
    BY <2>1 DEF ClearFlags, TypeOK
  <2>4. /\ mActiveActions' \in [Action -> ActionData]
        /\ mServiceAction' \in [Service -> Action \cup {NoAction}]
        /\ busy' = busy \ D
        /\ sending' \in [Sink -> SUBSET Message]
        /\ mUnavailableServices' = mUnavailableServices \ D
        /\ dispatchPosted' \in BOOLEAN
        /\ reports' \in [Action -> SUBSET Report]
        /\ mRequests' \in Seq(Request) /\ outstandingRequests' \subseteq Action
        /\ outbox' \subseteq Message /\ mSentIds' \subseteq Message /\ issued' \subseteq Action
    <3>1. mActiveActions \in [Action -> ActionData]
          /\ mServiceAction \in [Service -> Action \cup {NoAction}]
      BY DEF TypeOK
    <3> HIDE DEF D
    <3> QED
      BY <2>1, <3>1, DeregisterType
  <2>5. /\ serviceMap' = (serviceMap \ D) \cup N
        /\ UNCHANGED <<expiryTimer, loopVars, failedRequests, delivered, crashes>>
    BY <1>1 DEF AccountsUpdated
  <2> QED
    BY <2>2, <2>3, <2>4, <2>5 DEF TypeOK
<1>2. ASSUME NEW x \in Account, AccountsRemoved(x)
      PROVE  TypeOK'
  <2> DEFINE D == ServicesOf({x})
  <2>1. PICK C \in SUBSET D :
          /\ Deregister(D, C, mActiveActions, mServiceAction, {}, Owned(x))
          /\ mActionExpiry' = Touch(mActionExpiry, Hit(C, mServiceAction))
          /\ ClearFlags(C)
    BY <1>2 DEF AccountsRemoved
  <2>2. mActionExpiry' \in Seq(Action)
    BY <2>1, TouchEntries DEF TypeOK
  <2>3. retrievalAccountIds' \subseteq Account /\ transmissionAccountIds' \subseteq Account
    BY <2>1 DEF ClearFlags, TypeOK
  <2>4. /\ mActiveActions' \in [Action -> ActionData]
        /\ mServiceAction' \in [Service -> Action \cup {NoAction}]
        /\ busy' = busy \ D
        /\ sending' \in [Sink -> SUBSET Message]
        /\ mUnavailableServices' = mUnavailableServices \ D
        /\ dispatchPosted' \in BOOLEAN
        /\ reports' \in [Action -> SUBSET Report]
        /\ mRequests' \in Seq(Request) /\ outstandingRequests' \subseteq Action
        /\ outbox' \subseteq Message /\ mSentIds' \subseteq Message /\ issued' \subseteq Action
    <3>1. mActiveActions \in [Action -> ActionData]
          /\ mServiceAction \in [Service -> Action \cup {NoAction}]
      BY DEF TypeOK
    <3> HIDE DEF D
    <3> QED
      BY <2>1, <3>1, DeregisterType
  <2>5. /\ serviceMap' = serviceMap \ D
        /\ UNCHANGED <<expiryTimer, loopVars, failedRequests, delivered, crashes>>
    BY <1>2 DEF AccountsRemoved
  <2> QED
    BY <2>2, <2>3, <2>4, <2>5 DEF TypeOK
<1>3. ASSUME ExpireAction
      PROVE  TypeOK'
  <2> DEFINE a    == Head(mActionExpiry)
             data == mActiveActions[a]
             D    == ServicesOf(AccountsOf(data.services))
             act  == [mActiveActions EXCEPT ![a] = NoData]
             svc  == [s \in Service |-> IF s \in data.services THEN NoAction ELSE mServiceAction[s]]
  <2>1. PICK C \in SUBSET D :
          /\ Deregister(D, C, act, svc, {a}, {})
          /\ mActionExpiry' = Touch(Tail(mActionExpiry), Hit(C, svc))
          /\ retrievalAccountIds' \subseteq retrievalAccountIds
          /\ transmissionAccountIds' \subseteq transmissionAccountIds
    BY <1>3 DEF ExpireAction
  <2>2. act \in [Action -> ActionData] /\ svc \in [Service -> Action \cup {NoAction}]
    BY NoDataType DEF TypeOK
  <2>3. mActionExpiry' \in Seq(Action)
    <3>1. mActionExpiry \in Seq(Action) /\ mActionExpiry # <<>>
      BY <1>3 DEF TypeOK, ExpireAction, HeadIsStale
    <3>2. Tail(mActionExpiry) \in Seq(Action)
      BY <3>1, HeadTailProperties
    <3> QED
      BY <2>1, <3>2, TouchEntries
  <2>4. /\ mActiveActions' \in [Action -> ActionData]
        /\ mServiceAction' \in [Service -> Action \cup {NoAction}]
        /\ busy' = busy \ D
        /\ sending' \in [Sink -> SUBSET Message]
        /\ mUnavailableServices' = mUnavailableServices \ D
        /\ dispatchPosted' \in BOOLEAN
        /\ reports' \in [Action -> SUBSET Report]
        /\ mRequests' \in Seq(Request) /\ outstandingRequests' \subseteq Action
        /\ outbox' \subseteq Message /\ mSentIds' \subseteq Message /\ issued' \subseteq Action
    <3> HIDE DEF D, act, svc, a
    <3> QED
      BY <2>1, <2>2, DeregisterType
  <2>5. /\ expiryTimer' = FALSE /\ cursor' = 1 /\ expiring' = TRUE
        /\ UNCHANGED <<serviceMap, failedRequests, delivered, crashes>>
    BY <1>3 DEF ExpireAction
  <2> QED
    BY <2>1, <2>3, <2>4, <2>5 DEF TypeOK
<1> QED
  BY <1>1, <1>2, <1>3 DEF AccountChange

\* Cancellation keeps the state well-formed.
LEMMA CancelType ==
  ASSUME TypeOK, NEW a \in ClientAction
  PROVE  CancelTransfer(a) => TypeOK'
<1> USE DEF serviceVars, workVars, activeVars, expiryVars, loopVars, flagVars, fileVars, mailVars
<1>1. "Failed" \in Report /\ a \in Action
  BY DEF Report, Action
<1>2. ASSUME CancelActive(a)
      PROVE  TypeOK'
  <2> DEFINE S == mActiveActions[a].services
  <2>1. PICK C \in SUBSET S :
          /\ mActionExpiry' = Touch(mActionExpiry, Hit(C, mServiceAction))
          /\ reports' = Told(Hit(C, mServiceAction), "Failed")
          /\ FlushSent(C, {}, mServiceAction, mRequests,
                       outstandingRequests \ Hit(C, mServiceAction), {})
    BY <1>2 DEF CancelActive
  <2>2. mActionExpiry' \in Seq(Action)
    BY <2>1, TouchEntries DEF TypeOK
  <2>3. reports' \in [Action -> SUBSET Report]
    BY <1>1, <2>1, ToldType
  <2>4. /\ mRequests' \in Seq(Request) /\ outstandingRequests' \subseteq Action
        /\ outbox' \subseteq Message /\ mSentIds' \subseteq Message /\ issued' \subseteq Action
    <3>1. mRequests \in Seq(Request)
          /\ outstandingRequests \ Hit(C, mServiceAction) \in SUBSET Action
      BY DEF TypeOK
    <3> QED
      BY <2>1, <3>1, FlushType
  <2>5. /\ mActiveActions' \in [Action -> ActionData]
        /\ mServiceAction' \in [Service -> Action \cup {NoAction}]
        /\ busy' \subseteq busy
        /\ sending' \in [Sink -> SUBSET Message]
        /\ retrievalAccountIds' \subseteq Account /\ transmissionAccountIds' \subseteq Account
    BY <1>1, <1>2, NoDataType DEF CancelActive, ClearFlags, TypeOK
  <2> QED
    BY <1>2, <2>2, <2>3, <2>4, <2>5 DEF CancelActive, TypeOK
<1>3. ASSUME CancelPending(a)
      PROVE  TypeOK'
  <2>1. mRequests' \in Seq(Request)
    BY <1>3, RemoveAtEntries DEF CancelPending, TypeOK
  <2>2. reports' \in [Action -> SUBSET Report]
    BY <1>1, <1>3, ToldType DEF CancelPending
  <2> QED
    BY <1>3, <2>1, <2>2 DEF CancelPending, TypeOK
<1> QED
  BY <1>2, <1>3 DEF CancelTransfer

\* Every reachable state is well-formed: the handler's maps only ever name
\* services and actions that exist.
THEOREM TypeCorrect == Spec => []TypeOK
<1> USE DEF serviceVars, workVars, activeVars, expiryVars, loopVars, flagVars, fileVars, mailVars
<1>1. Init => TypeOK
  <2> SUFFICES ASSUME Init PROVE TypeOK
    OBVIOUS
  <2>1. mActiveActions \in [Action -> ActionData]
    BY NoDataType DEF Init
  <2>2. mRequests \in Seq(Request) /\ mActionExpiry \in Seq(Action)
    BY EmptySeq DEF Init
  <2>3. crashes \in 0 .. MaxCrashes
    BY LimitAssumption DEF Init
  <2>4. delivered \in [Message -> 0 .. 2] /\ sending \in [Sink -> SUBSET Message]
    BY DEF Init
  <2>5. reports \in [Action -> SUBSET Report] /\ mServiceAction \in [Service -> Action \cup {NoAction}]
    BY DEF Init
  <2> QED
    BY <2>1, <2>2, <2>3, <2>4, <2>5 DEF Init, TypeOK
<1>2. TypeOK /\ [Next]_vars => TypeOK'
  <2> SUFFICES ASSUME TypeOK, [Next]_vars
               PROVE  TypeOK'
    OBVIOUS
  <2>1. CASE \E a \in ClientAction : ClientRequest(a)
    BY <2>1, RequestType
  <2>2. CASE DispatchRequest
    <3>1. CASE DispatchStart \/ DispatchSkip
      <4>1. cursor' \in Nat
        BY <3>1 DEF DispatchStart, DispatchSkip, TypeOK
      <4> QED
        BY <3>1, <4>1 DEF DispatchStart, DispatchSkip, TypeOK
    <3>2. CASE Dispatch
      BY <3>2, DispatchType
    <3>3. CASE DispatchEnd
      <4>1. mActionExpiry' \in Seq(Action)
        BY <3>3, PruneEntries DEF DispatchEnd, TypeOK
      <4> QED
        BY <3>3, <4>1 DEF DispatchEnd, TypeOK
    <3> QED
      BY <2>2, <3>1, <3>2, <3>3 DEF DispatchRequest
  <2>3. CASE \E s \in Service : ServiceSignal(s)
    BY <2>3, SignalType DEF ServiceSignal
  <2>4. CASE \E s \in Sink, m \in Message : MessageTransmitted(s, m)
    BY <2>4 DEF MessageTransmitted, TypeOK
  <2>5. CASE \E s \in Source : MailCheck(s)
    BY <2>5 DEF MailCheck, MailCheckStarted, MailCheckEnded, TypeOK
  <2>6. CASE \E x \in Account : AccountChange(x)
    BY <2>6, AccountType
  <2>7. CASE \E a \in ClientAction : CancelTransfer(a)
    BY <2>7, CancelType
  <2>8. CASE \E i \in 1 .. Len(mActionExpiry) : Elapse(i)
    <3>1. PICK i \in 1 .. Len(mActionExpiry) : Elapse(i)
      BY <2>8
    <3>2. mActionExpiry[i] \in Action
      BY ElementOfSeq DEF TypeOK
    <3>3. mActiveActions' \in [Action -> ActionData]
      <4> DEFINE a == mActionExpiry[i]
                 d == [mActiveActions[a] EXCEPT !.stale = TRUE]
      <4>1. mActiveActions[a] \in ActionData
        BY <3>2 DEF TypeOK
      <4>2. d \in ActionData
        BY <4>1 DEF ActionData
      <4>3. mActiveActions' = [mActiveActions EXCEPT ![a] = d]
        BY <3>1 DEF Elapse
      <4> QED
        BY <3>2, <4>2, <4>3 DEF TypeOK
    <3> QED
      BY <3>1, <3>3 DEF Elapse, TypeOK
  <2>9. CASE ExpireAction
    BY <2>9, AccountType
  <2>10. CASE ExpiryCheck
    <3>1. mActionExpiry' \in Seq(Action)
      BY <2>10, PruneEntries DEF ExpiryCheck, TypeOK
    <3> QED
      BY <2>10, <3>1 DEF ExpiryCheck, TypeOK
  <2>11. CASE Crash
    <3>1. mActiveActions' \in [Action -> ActionData]
      BY <2>11, NoDataType DEF Crash
    <3>2. mRequests' \in Seq(Request) /\ mActionExpiry' \in Seq(Action)
      BY <2>11, EmptySeq DEF Crash
    <3>3. crashes' \in 0 .. MaxCrashes
      BY <2>11, LimitAssumption DEF Crash, TypeOK
    <3> QED
      BY <2>11, <3>1, <3>2, <3>3 DEF Crash, TypeOK
  <2>12. CASE ReportFailures
    <3>1. reports' \in [Action -> SUBSET Report]
      BY <2>12, ToldType DEF ReportFailures, Report
    <3> QED
      BY <2>12, <3>1 DEF ReportFailures, TypeOK
  <2>13. CASE UNCHANGED vars
    BY <2>13 DEF vars, TypeOK
  <2> QED
    BY <2>1, <2>2, <2>3, <2>4, <2>5, <2>6, <2>7, <2>8, <2>9, <2>10, <2>11, <2>12, <2>13
    DEF Next
<1> QED
  BY <1>1, <1>2, PTL DEF Spec

-----------------------------------------------------------------------------
(* Limits and expiry: which actions are active, and that each can expire *)

\* A failure activates no action.
LEMMA FailureShrinks ==
  ASSUME NEW active, NEW serviceAction, NEW F, NEW a \in Action,
         ActiveAfterFailure(active, serviceAction, F)[a] # NoData
  PROVE  active[a] # NoData
BY DEF ActiveAfterFailure

\* Nor does the removal of services.
LEMMA DeregisterShrinks ==
  ASSUME NEW D, NEW C, NEW active, NEW svc, NEW failing, NEW erased,
         Deregister(D, C, active, svc, failing, erased),
         NEW a \in Action, mActiveActions'[a] # NoData
  PROVE  active[a] # NoData
<1>1. mActiveActions'[a] = IF ActiveAfterFailure(active, svc, C)[a] = NoData THEN NoData
                           ELSE [ActiveAfterFailure(active, svc, C)[a] EXCEPT !.services = @ \ D]
  BY DEF Deregister
<1> QED
  BY <1>1, FailureShrinks

\* Every action listed in list1 that is active afterwards is listed in list2,
\* and list2 has entries only if list1 has.
Follows(list1, list2, active) ==
  /\ \A i \in 1 .. Len(list1) : active[list1[i]] # NoData =>
       \E k \in 1 .. Len(list2) : list2[k] = list1[i]
  /\ list2 # <<>> => list1 # <<>>

\* Moving an entry to the end of the expiry list keeps the actions on it.
LEMMA TouchFollows ==
  ASSUME NEW q \in Seq(Action), NEW A, NEW active
  PROVE  Follows(q, Touch(q, A), active)
<1>1. Touch(q, A) \in Seq(Action)
  BY TouchEntries
<1>2. \A i \in 1 .. Len(q) : \E k \in 1 .. Len(Touch(q, A)) : Touch(q, A)[k] = q[i]
  BY TouchEntries
<1>3. ASSUME Touch(q, A) # <<>>
      PROVE  q # <<>>
  <2>1. 1 \in 1 .. Len(Touch(q, A))
    BY <1>1, <1>3, EmptySeq
  <2>2. \E i \in 1 .. Len(q) : Touch(q, A)[1] = q[i]
    BY <2>1, TouchEntries
  <2>3. Len(q) # 0
    BY <2>2
  <2> QED
    BY <2>3, EmptySeq
<1> QED
  BY <1>2, <1>3 DEF Follows

\* Every entry of list1 is in list2.
Covers(list1, list2) ==
  \A i \in 1 .. Len(list1) : \E k \in 1 .. Len(list2) : list2[k] = list1[i]

\* So the list after it has every entry of the list before it.
LEMMA TouchCovers ==
  ASSUME NEW q \in Seq(Action), NEW A
  PROVE  /\ Covers(q, Touch(q, A))
         /\ Touch(q, A) # <<>> => q # <<>>
<1>1. Follows(q, Touch(q, A), 0)
  BY TouchFollows
<1>2. \A i \in 1 .. Len(q) : \E k \in 1 .. Len(Touch(q, A)) : Touch(q, A)[k] = q[i]
  BY TouchEntries
<1> QED
  BY <1>1, <1>2 DEF Covers, Follows

\* Dropping the leading inactive entries loses no active action.
LEMMA PruneFollows ==
  ASSUME NEW q \in Seq(Action), NEW active
  PROVE  Follows(q, PruneExpiry(q, active), active)
<1>1. PruneExpiry(q, active) \in Seq(Action)
  BY PruneEntries
<1>2. \A i \in 1 .. Len(q) : active[q[i]] # NoData =>
        \E k \in 1 .. Len(PruneExpiry(q, active)) : PruneExpiry(q, active)[k] = q[i]
  BY PruneEntries
<1>3. ASSUME PruneExpiry(q, active) # <<>>
      PROVE  q # <<>>
  <2>1. 1 \in 1 .. Len(PruneExpiry(q, active))
    BY <1>1, <1>3, EmptySeq
  <2>2. \E i \in 1 .. Len(q) : PruneExpiry(q, active)[1] = q[i]
    BY <2>1, PruneEntries
  <2>3. Len(q) # 0
    BY <2>2
  <2> QED
    BY <2>3, EmptySeq
<1> QED
  BY <1>2, <1>3 DEF Follows

\* Apart from a dispatch, no step activates an action, none removes an active
\* action from the expiry list, and none leaves that list without a timer.
Steady ==
  /\ \A a \in Action : mActiveActions'[a] # NoData => mActiveActions[a] # NoData
  /\ \A i \in 1 .. Len(mActionExpiry) : mActiveActions'[mActionExpiry[i]] # NoData =>
       \E k \in 1 .. Len(mActionExpiry') : mActionExpiry'[k] = mActionExpiry[i]
  /\ mActionExpiry' # <<>> => \/ expiryTimer' \/ expiring'
                              \/ /\ mActionExpiry # <<>>
                                 /\ expiryTimer' = expiryTimer /\ expiring' = expiring

\* Steps that leave the lists alone, or only touch them, are steady.
LEMMA SteadySteps ==
  ASSUME TypeOK,
         \A a \in Action : mActiveActions'[a] # NoData => mActiveActions[a] # NoData,
         \/ mActionExpiry' = mActionExpiry
         \/ \E A : mActionExpiry' = Touch(mActionExpiry, A),
         expiryTimer' = expiryTimer, expiring' = expiring
  PROVE  Steady
<1>1. mActionExpiry \in Seq(Action)
  BY DEF TypeOK
<1>2. CASE mActionExpiry' = mActionExpiry
  BY <1>2 DEF Steady
<1>3. CASE \E A : mActionExpiry' = Touch(mActionExpiry, A)
  <2>1. PICK A : mActionExpiry' = Touch(mActionExpiry, A)
    BY <1>3
  <2>2. Follows(mActionExpiry, mActionExpiry', mActiveActions')
    BY <1>1, <2>1, TouchFollows
  <2> QED
    BY <2>2 DEF Steady, Follows
<1> QED
  BY <1>2, <1>3

\* A client's request is answered at once or queued.
LEMMA ClientAnswers ==
  ASSUME NEW a, ClientRequest(a)
  PROVE  Fresh(a) /\ ((\E x : Answer(a, x)) \/ (\E q : enqueueRequest(a, q)))
<1> DEFINE P == Fresh(a) /\ ((\E x : Answer(a, x)) \/ (\E q : enqueueRequest(a, q)))
<1> HIDE DEF P
<1>1. ASSUME NEW k, NEW A, RequestFromSources(a, k, A)
      PROVE  P
  BY <1>1, Zenon DEF RequestFromSources, P
<1>2. ASSUME NEW x, AccountRequest(a, x)
      PROVE  P
  <2>1. CASE OnlineFolderOperation(a, x)
    BY <2>1, Zenon DEF OnlineFolderOperation, P
  <2>2. CASE TransmitMessages(a, x)
    BY <2>2, Zenon DEF TransmitMessages, P
  <2>3. CASE \E k, A : RequestFromSources(a, k, A)
    BY <1>1, <2>3, Zenon
  <2> QED
    BY <1>2, <2>1, <2>2, <2>3, Zenon
    DEF AccountRequest, RetrieveFromAccount, CreateStandardFolders, RetrieveMessagePart, RetrieveAll,
        ExportUpdates, Synchronize, OnlineCopyMessages
<1>3. ASSUME NEW X, MultiAccountRequest(a, X)
      PROVE  P
  BY <1>1, <1>3, Zenon
  DEF MultiAccountRequest, RetrieveMessages, OnlineDeleteMessages, OnlineMoveMessages, OnlineFlagMessages
<1>4. ASSUME OnlineCopyToLocal(a) PROVE P
  BY <1>4, Zenon DEF OnlineCopyToLocal, P
<1>5. ASSUME LocalOperation(a) PROVE P
  BY <1>5, Zenon DEF LocalOperation, P
<1>6. ASSUME NEW m, TransmitMessage(a, m) PROVE P
  BY <1>6, Zenon DEF TransmitMessage, P
<1>7. P
  BY <1>2, <1>3, <1>4, <1>5, <1>6, Zenon DEF ClientRequest
<1> QED
  BY <1>7 DEF P

\* Each action but Dispatch in turn.
LEMMA OrdinaryStep ==
  ASSUME TypeOK, [Next]_vars, ~Dispatch
  PROVE  Steady
<1> USE DEF serviceVars, workVars, activeVars, expiryVars, loopVars, flagVars, fileVars, mailVars
<1>1. CASE UNCHANGED <<activeVars, expiryVars, expiring>>
  BY <1>1, SteadySteps
<1>2. CASE \E a \in ClientAction : ClientRequest(a)
  <2>1. ASSUME NEW a, NEW x, Answer(a, x)
        PROVE  UNCHANGED <<activeVars, expiryVars, expiring>>
    BY <2>1 DEF Answer
  <2>2. ASSUME NEW a, NEW q, enqueueRequest(a, q)
        PROVE  UNCHANGED <<activeVars, expiryVars, expiring>>
    BY <2>2 DEF enqueueRequest
  <2> QED
    BY <1>1, <1>2, <2>1, <2>2, ClientAnswers, Zenon
<1>3. CASE DispatchRequest
  <2>1. CASE DispatchStart \/ DispatchSkip
    BY <1>1, <2>1 DEF DispatchStart, DispatchSkip
  <2>2. CASE DispatchEnd
    <3>1. CASE ~expiring
      BY <1>1, <2>2, <3>1 DEF DispatchEnd, TypeOK
    <3>2. CASE expiring
      <4>1. /\ mActionExpiry' = PruneExpiry(mActionExpiry, mActiveActions)
            /\ expiryTimer' = (expiryTimer \/ mActionExpiry' # <<>>)
            /\ mActiveActions' = mActiveActions
        BY <2>2, <3>2 DEF DispatchEnd
      <4>2. mActionExpiry \in Seq(Action)
        BY DEF TypeOK
      <4>3. Follows(mActionExpiry, mActionExpiry', mActiveActions)
        BY <4>1, <4>2, PruneFollows
      <4> QED
        BY <4>1, <4>3 DEF Steady, Follows
    <3> QED
      BY <3>1, <3>2
  <2> QED
    BY <1>3, <2>1, <2>2 DEF DispatchRequest
<1>4. ASSUME NEW s \in Service, ServiceProgress(s)
      PROVE  Steady
  <2> DEFINE a == mServiceAction[s]
  <2>1. /\ mActiveActions' = [mActiveActions EXCEPT ![a].stale = FALSE]
        /\ mActionExpiry' = Touch(mActionExpiry, {a})
        /\ expiryTimer' = expiryTimer /\ expiring' = expiring
    BY <1>4 DEF ServiceProgress
  <2>2. \A x \in Action : mActiveActions'[x] # NoData => mActiveActions[x] # NoData
    <3>1. ASSUME NEW d \in ActionData, d = NoData
          PROVE  [d EXCEPT !.stale = FALSE] = NoData
      <4> DEFINE e == [d EXCEPT !.stale = FALSE]
      <4>1. e \in ActionData /\ NoData \in ActionData
        BY NoDataType DEF ActionData
      <4>2. e.services = NoData.services /\ e.kind = NoData.kind /\ e.reported = NoData.reported
        BY <3>1 DEF ActionData
      <4>3. e.stale = FALSE /\ NoData.stale = FALSE
        BY DEF ActionData, NoData
      <4> HIDE DEF e
      <4>4. e = NoData
        BY <4>1, <4>2, <4>3 DEF ActionData
      <4> QED
        BY <4>4 DEF e
    <3> QED
      BY <2>1, <3>1 DEF TypeOK
  <2> QED
    BY <2>1, <2>2, SteadySteps
<1>5. ASSUME NEW s \in Service, ServiceFailed(s)
      PROVE  Steady
  <2>1. /\ mActiveActions' = ActiveAfterFailure(mActiveActions, mServiceAction, {s})
        /\ mActionExpiry' = Touch(mActionExpiry, Hit({s}, mServiceAction))
        /\ expiryTimer' = expiryTimer /\ expiring' = expiring
    BY <1>5 DEF ServiceFailed
  <2>2. \A x \in Action : mActiveActions'[x] # NoData => mActiveActions[x] # NoData
    BY <2>1, FailureShrinks
  <2> QED
    BY <2>1, <2>2, SteadySteps
<1>6. ASSUME NEW s \in Service, ServiceSucceeded(s)
      PROVE  Steady
  <2>1. /\ mActiveActions' = [x \in Action |-> IF x = mServiceAction[s]
                                THEN ActiveAfterSuccess(mActiveActions[x], s) ELSE mActiveActions[x]]
        /\ UNCHANGED <<expiryVars, expiring>>
    BY <1>6 DEF ServiceSucceeded
  <2>2. ActiveAfterSuccess(NoData, s) = NoData
    BY DEF ActiveAfterSuccess, NoData
  <2>3. \A x \in Action : mActiveActions'[x] # NoData => mActiveActions[x] # NoData
    BY <2>1, <2>2
  <2> QED
    BY <2>1, <2>3, SteadySteps
<1>7. CASE \E s \in Sink, m \in Message : MessageTransmitted(s, m)
  BY <1>1, <1>7 DEF MessageTransmitted
<1>8. CASE \E s \in Source : MailCheck(s)
  BY <1>1, <1>8 DEF MailCheck, MailCheckStarted, MailCheckEnded
<1>9. ASSUME NEW x \in Account, NEW N, AccountsUpdated(x, N)
      PROVE  Steady
  <2>1. PICK D, C : /\ Deregister(D, C, mActiveActions, mServiceAction, {}, {})
                    /\ mActionExpiry' = Touch(mActionExpiry, Hit(C, mServiceAction))
                    /\ expiryTimer' = expiryTimer /\ expiring' = expiring
    BY <1>9 DEF AccountsUpdated
  <2>2. \A a \in Action : mActiveActions'[a] # NoData => mActiveActions[a] # NoData
    BY <2>1, DeregisterShrinks
  <2> QED
    BY <2>1, <2>2, SteadySteps
<1>10. ASSUME NEW x \in Account, AccountsRemoved(x)
       PROVE  Steady
  <2>1. PICK D, C : /\ Deregister(D, C, mActiveActions, mServiceAction, {}, Owned(x))
                    /\ mActionExpiry' = Touch(mActionExpiry, Hit(C, mServiceAction))
                    /\ expiryTimer' = expiryTimer /\ expiring' = expiring
    BY <1>10 DEF AccountsRemoved
  <2>2. \A a \in Action : mActiveActions'[a] # NoData => mActiveActions[a] # NoData
    BY <2>1, DeregisterShrinks
  <2> QED
    BY <2>1, <2>2, SteadySteps
<1>11. ASSUME NEW a \in ClientAction, CancelActive(a)
       PROVE  Steady
  <2>1. PICK C : mActionExpiry' = Touch(mActionExpiry, Hit(C, mServiceAction))
    BY <1>11 DEF CancelActive
  <2>2. /\ mActiveActions' = [mActiveActions EXCEPT ![a] = NoData]
        /\ expiryTimer' = expiryTimer /\ expiring' = expiring
    BY <1>11 DEF CancelActive
  <2>3. \A x \in Action : mActiveActions'[x] # NoData => mActiveActions[x] # NoData
    BY <2>2 DEF TypeOK
  <2> QED
    BY <2>1, <2>2, <2>3, SteadySteps
<1>12. CASE \E a \in ClientAction : CancelPending(a)
  BY <1>1, <1>12 DEF CancelPending
<1>13. CASE \E i \in 1 .. Len(mActionExpiry) : Elapse(i)
  <2>1. PICK i \in 1 .. Len(mActionExpiry) : Elapse(i)
    BY <1>13
  <2>2. \A x \in Action : mActiveActions'[x] # NoData => mActiveActions[x] # NoData
    <3>1. mActiveActions' = [mActiveActions EXCEPT ![mActionExpiry[i]].stale = TRUE]
          /\ mActiveActions[mActionExpiry[i]] # NoData
      BY <2>1 DEF Elapse
    <3> QED
      BY <3>1 DEF TypeOK
  <2> QED
    BY <2>1, <2>2, SteadySteps DEF Elapse
<1>14. CASE ExpireAction
  <2> DEFINE a   == Head(mActionExpiry)
             act == [mActiveActions EXCEPT ![a] = NoData]
  <2>1. mActionExpiry \in Seq(Action) /\ mActionExpiry # <<>>
    BY <1>14 DEF ExpireAction, HeadIsStale, TypeOK
  <2>2. PICK D, C, svc : /\ Deregister(D, C, act, svc, {a}, {})
                         /\ mActionExpiry' = Touch(Tail(mActionExpiry), Hit(C, svc))
    BY <1>14 DEF ExpireAction
  <2>3. expiring' = TRUE
    BY <1>14 DEF ExpireAction
  <2>4. \A x \in Action : mActiveActions'[x] # NoData => act[x] # NoData
    <3> HIDE DEF act, a
    <3> QED
      BY <2>2, DeregisterShrinks
  <2>5. \A x \in Action : mActiveActions'[x] # NoData => mActiveActions[x] # NoData /\ x # a
    BY <2>4 DEF TypeOK
  <2>6. /\ Tail(mActionExpiry) \in Seq(Action) /\ Len(Tail(mActionExpiry)) = Len(mActionExpiry) - 1
        /\ \A i \in 1 .. Len(Tail(mActionExpiry)) : Tail(mActionExpiry)[i] = mActionExpiry[i + 1]
    BY <2>1, HeadTailProperties
  <2>7. Follows(Tail(mActionExpiry), mActionExpiry', mActiveActions')
    BY <2>2, <2>6, TouchFollows
  <2>8. ASSUME NEW i \in 1 .. Len(mActionExpiry), mActiveActions'[mActionExpiry[i]] # NoData
        PROVE  \E k \in 1 .. Len(mActionExpiry') : mActionExpiry'[k] = mActionExpiry[i]
    <3>1. mActionExpiry[i] \in Action /\ mActionExpiry[i] # a
      BY <2>1, <2>5, <2>8
    <3>2. i # 1
      BY <2>1, <3>1
    <3>3. i - 1 \in 1 .. Len(Tail(mActionExpiry)) /\ Tail(mActionExpiry)[i - 1] = mActionExpiry[i]
      BY <2>1, <2>6, <3>2, LenProperties
    <3> QED
      BY <2>7, <2>8, <3>3 DEF Follows
  <2> QED
    BY <2>3, <2>5, <2>8 DEF Steady
<1>15. CASE ExpiryCheck
  <2>1. /\ mActionExpiry' = PruneExpiry(mActionExpiry, mActiveActions)
        /\ expiryTimer' = (mActionExpiry' # <<>>)
        /\ mActiveActions' = mActiveActions
    BY <1>15 DEF ExpiryCheck
  <2>2. mActionExpiry \in Seq(Action)
    BY DEF TypeOK
  <2>3. Follows(mActionExpiry, mActionExpiry', mActiveActions)
    BY <2>1, <2>2, PruneFollows
  <2> QED
    BY <2>1, <2>3 DEF Steady, Follows
<1>16. CASE Crash
  <2>1. mActiveActions' = [a \in Action |-> NoData] /\ mActionExpiry' = <<>>
    BY <1>16 DEF Crash
  <2>2. \A i \in 1 .. Len(mActionExpiry) : mActionExpiry[i] \in Action
    BY DEF TypeOK
  <2> QED
    BY <2>1, <2>2 DEF Steady
<1>17. CASE ReportFailures
  BY <1>1, <1>17 DEF ReportFailures
<1>18. CASE UNCHANGED vars
  BY <1>1, <1>18 DEF vars
<1> QED
  BY <1>2, <1>3, <1>4, <1>5, <1>6, <1>7, <1>8, <1>9, <1>10, <1>11, <1>12, <1>13, <1>14, <1>15,
     <1>16, <1>17, <1>18
  DEF Next, ServiceSignal, AccountChange, CancelTransfer

\* A dispatch activates at most the action of the current request, which it
\* puts on the expiry list, with a timer if the list was empty.
LEMMA DispatchStep ==
  ASSUME TypeOK, Dispatch
  PROVE  /\ \A x \in Action : mActiveActions'[x] # NoData =>
              \/ mActiveActions[x] # NoData
              \/ x = Current.action
         /\ mActiveActions'[Current.action] # NoData =>
              \E k \in 1 .. Len(mActionExpiry') : mActionExpiry'[k] = Current.action
         /\ \A i \in 1 .. Len(mActionExpiry) :
              \E k \in 1 .. Len(mActionExpiry') : mActionExpiry'[k] = mActionExpiry[i]
         /\ mActionExpiry' # <<>> => expiryTimer' \/ mActionExpiry # <<>>
         /\ expiryTimer => expiryTimer'
         /\ expiring' = expiring
<1>1. PICK ok \in BOOLEAN, started \in SUBSET Called(Current), failed \in SUBSET Called(Current) :
        DispatchRun(ok, started, failed)
  BY DEF Dispatch
<1> DEFINE r     == Current
           a     == r.action
           svc   == [s \in Service |-> IF s \in r.services THEN a ELSE mServiceAction[s]]
           act   == [mActiveActions EXCEPT ![a] =
                       [services |-> r.services, kind |-> r.kind, reported |-> FALSE, stale |-> FALSE]]
           after == ActiveAfterFailure(act, svc, failed)
           list  == Touch(mActionExpiry, Hit(failed, svc))
<1>2. /\ mActiveActions' = IF ok THEN after ELSE [after EXCEPT ![a] = NoData]
      /\ mActionExpiry' = IF ok THEN Append(list, a) ELSE list
      /\ expiryTimer' = (expiryTimer \/ (ok /\ list = <<>>))
  BY <1>1 DEF DispatchRun
<1>3. a \in Action
  BY CurrentType DEF Dispatch
<1>4. DOMAIN act = Action /\ \A x \in Action : x # a => act[x] = mActiveActions[x]
  BY DEF TypeOK
<1>5. mActionExpiry \in Seq(Action)
  BY DEF TypeOK
<1>6. list \in Seq(Action) /\ (list # <<>> => mActionExpiry # <<>>)
  BY <1>5, TouchEntries, TouchCovers
<1>7. Covers(mActionExpiry, list)
  BY <1>5, TouchCovers
<1> HIDE DEF act, svc, r
<1>8. \A x \in Action : after[x] # NoData => act[x] # NoData
  BY FailureShrinks
<1>9. DOMAIN after = Action
  BY DEF ActiveAfterFailure
<1> HIDE DEF after, list
<1>10. \A x \in Action : mActiveActions'[x] # NoData => mActiveActions[x] # NoData \/ x = a
  BY <1>2, <1>3, <1>4, <1>8, <1>9
<1>11. CASE ok
  <2>1. /\ Len(mActionExpiry') = Len(list) + 1 /\ Len(list) \in Nat
        /\ \A k \in 1 .. Len(list) : mActionExpiry'[k] = list[k]
        /\ mActionExpiry'[Len(list) + 1] = a
    BY <1>2, <1>3, <1>6, <1>11, AppendProperties
  <2>2. \E k \in 1 .. Len(mActionExpiry') : mActionExpiry'[k] = a
    BY <2>1
  <2>3. \A i \in 1 .. Len(mActionExpiry) :
          \E k \in 1 .. Len(mActionExpiry') : mActionExpiry'[k] = mActionExpiry[i]
    <3> SUFFICES ASSUME NEW i \in 1 .. Len(mActionExpiry)
                 PROVE  \E k \in 1 .. Len(mActionExpiry') : mActionExpiry'[k] = mActionExpiry[i]
      OBVIOUS
    <3>1. PICK k \in 1 .. Len(list) : list[k] = mActionExpiry[i]
      BY <1>7 DEF Covers
    <3>2. k \in 1 .. Len(mActionExpiry') /\ mActionExpiry'[k] = list[k]
      BY <2>1
    <3> QED
      BY <3>1, <3>2
  <2>4. expiryTimer' \/ mActionExpiry # <<>>
    BY <1>2, <1>6, <1>11
  <2> QED
    BY <1>2, <1>10, <2>2, <2>3, <2>4 DEF r, Dispatch, loopVars
<1>12. CASE ~ok
  <2>1. mActiveActions'[a] = NoData /\ mActionExpiry' = list /\ expiryTimer' = expiryTimer
    BY <1>2, <1>3, <1>9, <1>12 DEF TypeOK
  <2>2. mActionExpiry' # <<>> => mActionExpiry # <<>>
    BY <1>6, <2>1
  <2> QED
    BY <1>7, <1>10, <2>1, <2>2 DEF Covers, r, Dispatch, loopVars
<1> QED
  BY <1>11, <1>12

\* One more element makes a finite set larger by at most one.
LEMMA AddOne ==
  ASSUME NEW S, IsFiniteSet(S), NEW x
  PROVE  /\ IsFiniteSet(S \cup {x})
         /\ Cardinality(S \cup {x}) =< Cardinality(S) + 1
         /\ Cardinality(S \cup {x}) \in Nat
<1>1. Cardinality(S) \in Nat
  BY FS_CardinalityType
<1>2. /\ IsFiniteSet(S \cup {x})
      /\ Cardinality(S \cup {x}) = IF x \in S THEN Cardinality(S) ELSE Cardinality(S) + 1
  BY FS_AddElement
<1> QED
  BY <1>1, <1>2

\* The limits survive any step that activates at most one action, below them.
LEMMA LimitsStep ==
  ASSUME TypeOK, ConcurrencyLimited, [Next]_vars
  PROVE  ConcurrencyLimited'
<1> DEFINE of(p) == {x \in Active : ProcessOf[x] = p}
<1>1. IsFiniteSet(Action)
  BY ActionAssumption, FS_Union DEF Action
<1>2. Active \in SUBSET Action /\ Active' \in SUBSET Action
  BY DEF Active
<1>3. IsFiniteSet(Active) /\ Cardinality(Active) \in Nat
  BY <1>1, <1>2, FS_Subset, FS_CardinalityType
<1>4. \A p : of(p) \in SUBSET Active
  OBVIOUS
<1>5. \A p : IsFiniteSet(of(p)) /\ Cardinality(of(p)) \in Nat
  <2> SUFFICES ASSUME NEW p
               PROVE  IsFiniteSet(of(p)) /\ Cardinality(of(p)) \in Nat
    OBVIOUS
  <2> HIDE DEF of
  <2> QED
    BY <1>3, <1>4, FS_Subset, FS_CardinalityType
<1>6. CASE ~Dispatch
  <2>1. Active' \in SUBSET Active
    BY <1>6, OrdinaryStep DEF Active, Steady
  <2>2. Cardinality(Active') =< MaxActive
    <3>1. Cardinality(Active') =< Cardinality(Active) /\ Cardinality(Active') \in Nat
      BY <1>3, <2>1, FS_Subset, FS_CardinalityType
    <3> QED
      BY <1>3, <3>1, LimitAssumption DEF ConcurrencyLimited
  <2>3. ASSUME NEW p \in {ProcessOf[a] : a \in Action}
        PROVE  Cardinality({x \in Active' : ProcessOf[x] = p}) =< MaxActivePerProcess
    <3> DEFINE T == {x \in Active' : ProcessOf[x] = p}
    <3>1. T \in SUBSET of(p)
      BY <2>1
    <3>2. Cardinality(of(p)) =< MaxActivePerProcess
      BY DEF ConcurrencyLimited
    <3> HIDE DEF T, of
    <3>3. Cardinality(T) =< Cardinality(of(p)) /\ Cardinality(T) \in Nat
      BY <1>5, <3>1, FS_Subset, FS_CardinalityType
    <3>4. Cardinality(T) =< MaxActivePerProcess
      BY <1>5, <3>2, <3>3, LimitAssumption
    <3> QED
      BY <3>4 DEF T
  <2> QED
    BY <2>2, <2>3 DEF ConcurrencyLimited
<1>7. CASE Dispatch
  <2> DEFINE a == Current.action
  <2>1. Active' \in SUBSET (Active \cup {a})
    BY <1>7, DispatchStep DEF Active
  <2>2. Cardinality(Active) < MaxActive
    BY <1>3, <1>7, LimitAssumption DEF Dispatch, DeviceLimitReached
  <2>3. Cardinality(of(ProcessOf[a])) < MaxActivePerProcess
    <3>1. ~(Cardinality(of(ProcessOf[a])) + 1 > MaxActivePerProcess)
      BY <1>7 DEF Dispatch, ProcessLimitReached
    <3> HIDE DEF of
    <3> QED
      BY <1>5, <3>1, LimitAssumption
  <2> HIDE DEF a
  <2>4. Cardinality(Active') =< MaxActive
    <3>1. /\ IsFiniteSet(Active \cup {a})
          /\ Cardinality(Active \cup {a}) =< Cardinality(Active) + 1
          /\ Cardinality(Active \cup {a}) \in Nat
      BY <1>3, AddOne
    <3>2. Cardinality(Active') =< Cardinality(Active \cup {a}) /\ Cardinality(Active') \in Nat
      BY <2>1, <3>1, FS_Subset, FS_CardinalityType
    <3> QED
      BY <1>3, <2>2, <3>1, <3>2, LimitAssumption
  <2>5. ASSUME NEW p \in {ProcessOf[x] : x \in Action}
        PROVE  Cardinality({x \in Active' : ProcessOf[x] = p}) =< MaxActivePerProcess
    <3> DEFINE T == {x \in Active' : ProcessOf[x] = p}
    <3>1. Cardinality(of(p)) =< MaxActivePerProcess
      BY DEF ConcurrencyLimited
    <3>2. CASE p = ProcessOf[a]
      <4>1. T \in SUBSET (of(p) \cup {a})
        BY <2>1
      <4> HIDE DEF T, of
      <4>2. /\ IsFiniteSet(of(p) \cup {a})
            /\ Cardinality(of(p) \cup {a}) =< Cardinality(of(p)) + 1
            /\ Cardinality(of(p) \cup {a}) \in Nat
        BY <1>5, AddOne
      <4>3. Cardinality(T) =< Cardinality(of(p) \cup {a}) /\ Cardinality(T) \in Nat
        BY <4>1, <4>2, FS_Subset, FS_CardinalityType
      <4>4. Cardinality(of(p)) < MaxActivePerProcess
        BY <2>3, <3>2
      <4>5. Cardinality(T) =< MaxActivePerProcess
        BY <1>5, <4>2, <4>3, <4>4, LimitAssumption
      <4> QED
        BY <4>5 DEF T
    <3>3. CASE p # ProcessOf[a]
      <4>1. T \in SUBSET of(p)
        BY <2>1, <3>3
      <4> HIDE DEF T, of
      <4>2. Cardinality(T) =< Cardinality(of(p)) /\ Cardinality(T) \in Nat
        BY <1>5, <4>1, FS_Subset, FS_CardinalityType
      <4>3. Cardinality(T) =< MaxActivePerProcess
        BY <1>5, <3>1, <4>2, LimitAssumption
      <4> QED
        BY <4>3 DEF T
    <3> QED
      BY <3>2, <3>3
  <2> QED
    BY <2>4, <2>5 DEF ConcurrencyLimited
<1> QED
  BY <1>6, <1>7

\* dispatchRequest never has more actions running than QMail allows, on the
\* device and for each client process.
THEOREM LimitsRespected == Spec => []ConcurrencyLimited
<1>1. Init => ConcurrencyLimited
  <2> SUFFICES ASSUME Init PROVE ConcurrencyLimited
    OBVIOUS
  <2>1. Active = {} /\ \A p : {a \in Active : ProcessOf[a] = p} = {}
    BY DEF Init, Active
  <2> QED
    BY <2>1, FS_EmptySet, LimitAssumption DEF ConcurrencyLimited
<1>2. TypeOK /\ ConcurrencyLimited /\ [Next]_vars => ConcurrencyLimited'
  BY LimitsStep
<1> QED
  BY <1>1, <1>2, TypeCorrect, PTL DEF Spec

\* An active action is always on the expiry list, and a non-empty list always
\* has a timer: no action can hold its slot for ever.
THEOREM ExpiryCoversActive == Spec => []ExpiryCovered
<1>1. Init => ExpiryCovered
  BY DEF Init, ExpiryCovered, Active
<1>2. TypeOK /\ ExpiryCovered /\ [Next]_vars => ExpiryCovered'
  <2> SUFFICES ASSUME TypeOK, ExpiryCovered, [Next]_vars
               PROVE  ExpiryCovered'
    OBVIOUS
  <2>1. CASE ~Dispatch
    <3>1. Steady
      BY <2>1, OrdinaryStep
    <3>2. ASSUME NEW a \in Active'
          PROVE  \E k \in 1 .. Len(mActionExpiry') : mActionExpiry'[k] = a
      <4>1. a \in Active /\ mActiveActions'[a] # NoData
        BY <3>1, <3>2 DEF Active, Steady
      <4>2. PICK i \in 1 .. Len(mActionExpiry) : mActionExpiry[i] = a
        BY <4>1 DEF ExpiryCovered
      <4> QED
        BY <3>1, <4>1, <4>2 DEF Steady
    <3>3. mActionExpiry' # <<>> => expiryTimer' \/ expiring'
      BY <3>1 DEF Steady, ExpiryCovered
    <3> QED
      BY <3>2, <3>3 DEF ExpiryCovered
  <2>2. CASE Dispatch
    <3>1. ASSUME NEW a \in Active'
          PROVE  \E k \in 1 .. Len(mActionExpiry') : mActionExpiry'[k] = a
      <4>1. a \in Action /\ mActiveActions'[a] # NoData
        BY <3>1 DEF Active
      <4>2. CASE a = Current.action
        BY <2>2, <4>1, <4>2, DispatchStep
      <4>3. CASE a # Current.action
        <5>1. a \in Active
          BY <2>2, <4>1, <4>3, DispatchStep DEF Active
        <5>2. PICK i \in 1 .. Len(mActionExpiry) : mActionExpiry[i] = a
          BY <5>1 DEF ExpiryCovered
        <5> QED
          BY <2>2, <5>2, DispatchStep
      <4> QED
        BY <4>2, <4>3
    <3>2. mActionExpiry' # <<>> => expiryTimer' \/ expiring'
      BY <2>2, DispatchStep DEF ExpiryCovered
    <3> QED
      BY <3>1, <3>2 DEF ExpiryCovered
  <2> QED
    BY <2>1, <2>2
<1> QED
  BY <1>1, <1>2, TypeCorrect, PTL DEF Spec

-----------------------------------------------------------------------------
(* Which service works for which action *)

\* ServiceExclusive, of any pair of maps.
Exclusive(active, svc) ==
  \A s \in Service, a \in Action : svc[s] = a <=> s \in active[a].services

\* active2 and svc2 are active and svc without the services in F.
Detached(F, active, svc, active2, svc2) ==
  /\ \A s \in Service : svc2[s] = IF s \in F THEN NoAction ELSE svc[s]
  /\ \A a \in Action : active2[a].services = active[a].services \ F

\* Detaching services keeps the two maps in step.
LEMMA DetachedExclusive ==
  ASSUME NEW F, NEW active, NEW svc, NEW active2, NEW svc2,
         Exclusive(active, svc), Detached(F, active, svc, active2, svc2)
  PROVE  Exclusive(active2, svc2)
BY ActionAssumption DEF Exclusive, Detached, Action

\* actionCompleted(false) detaches the services that fail.
LEMMA FailureDetaches ==
  ASSUME NEW active \in [Action -> ActionData], NEW svc, Exclusive(active, svc), NEW F \in SUBSET Service
  PROVE  \A a \in Action :
           ActiveAfterFailure(active, svc, F)[a].services = active[a].services \ F
<1> SUFFICES ASSUME NEW a \in Action
             PROVE  ActiveAfterFailure(active, svc, F)[a].services = active[a].services \ F
  OBVIOUS
<1> DEFINE lost == {s \in F : svc[s] = a}
           d    == active[a]
           e    == ActiveAfterFailure(active, svc, F)[a]
<1>1. e = IF d = NoData \/ lost = {} THEN d
          ELSE IF d.services \subseteq lost THEN NoData
          ELSE [d EXCEPT !.services = @ \ lost, !.reported = TRUE, !.stale = FALSE]
  BY DEF ActiveAfterFailure
<1>2. d \in ActionData
  OBVIOUS
<1>3. \A s \in F : s \in lost <=> s \in d.services
  BY DEF Exclusive
<1>4. d.services \ F = d.services \ lost
  BY <1>3
<1>5. NoData.services = {}
  BY DEF NoData
<1> HIDE DEF lost, d, e
<1>6. e.services = d.services \ F
  <2>1. CASE d = NoData \/ lost = {}
    BY <1>1, <1>4, <1>5, <2>1
  <2>2. CASE ~(d = NoData \/ lost = {}) /\ d.services \subseteq lost
    BY <1>1, <1>4, <1>5, <2>2
  <2>3. CASE ~(d = NoData \/ lost = {}) /\ ~(d.services \subseteq lost)
    <3>1. e = [d EXCEPT !.services = @ \ lost, !.reported = TRUE, !.stale = FALSE]
      BY <1>1, <2>3
    <3>2. e.services = d.services \ lost
      BY <1>2, <3>1 DEF ActionData
    <3> QED
      BY <1>4, <3>2
  <2> QED
    BY <2>1, <2>2, <2>3
<1> QED
  BY <1>6 DEF e, d

\* So does the removal of services.
LEMMA DeregisterDetaches ==
  ASSUME NEW D \in SUBSET Service, NEW C \in SUBSET D, NEW active \in [Action -> ActionData],
         NEW svc, NEW failing, NEW erased, Exclusive(active, svc),
         Deregister(D, C, active, svc, failing, erased)
  PROVE  Detached(D, active, svc, mActiveActions', mServiceAction')
<1> DEFINE after == ActiveAfterFailure(active, svc, C)
<1>1. /\ mActiveActions' = [a \in Action |-> IF after[a] = NoData THEN NoData
                                             ELSE [after[a] EXCEPT !.services = @ \ D]]
      /\ mServiceAction' = [s \in Service |-> IF s \in D THEN NoAction ELSE svc[s]]
  BY DEF Deregister
<1>2. after \in [Action -> ActionData]
  BY FailureType
<1>3. \A a \in Action : after[a].services = active[a].services \ C
  BY FailureDetaches
<1> HIDE DEF after
<1>4. ASSUME NEW a \in Action
      PROVE  mActiveActions'[a].services = active[a].services \ D
  <2>1. CASE after[a] = NoData
    <3>1. mActiveActions'[a].services = {} /\ after[a].services = {}
      BY <1>1, <2>1 DEF NoData
    <3> QED
      BY <1>3, <3>1
  <2>2. CASE after[a] # NoData
    <3>1. mActiveActions'[a] = [after[a] EXCEPT !.services = @ \ D] /\ after[a] \in ActionData
      BY <1>1, <1>2, <2>2
    <3>2. mActiveActions'[a].services = after[a].services \ D
      BY <3>1 DEF ActionData
    <3> QED
      BY <1>3, <3>2
  <2> QED
    BY <2>1, <2>2
<1> QED
  BY <1>1, <1>4 DEF Detached

-----------------------------------------------------------------------------
(* The order of the queue *)

\* Every position of the shortened list is the rank of a position kept.
LEMMA RankOnto ==
  ASSUME NEW S, NEW q \in Seq(S), NEW keep \in SUBSET (1 .. Len(q))
  PROVE  \A k \in 1 .. Cardinality(keep) : \E i \in keep : Rank(keep, i) = k
<1> DEFINE n == Cardinality(keep)
           f == [i \in keep |-> Rank(keep, i)]
<1>1. IsFiniteSet(keep) /\ n \in Nat
  BY PositionsFinite
<1>2. IsFiniteSet(1 .. n) /\ Cardinality(1 .. n) = n
  <2>1. n \in Int /\ 1 \in Int
    BY <1>1
  <2>2. IsFiniteSet(1 .. n) /\ Cardinality(1 .. n) = IF 1 > n THEN 0 ELSE n - 1 + 1
    BY <2>1, FS_Interval
  <2> QED
    BY <1>1, <2>2
<1>3. /\ \A i \in keep : Rank(keep, i) \in 1 .. n
      /\ \A i, j \in keep : Rank(keep, i) = Rank(keep, j) => i = j
  BY RankIsPosition
<1>4. f \in Injection(keep, 1 .. n)
  BY <1>3 DEF Injection, IsInjective
<1>5. f \in Surjection(keep, 1 .. n)
  <2> HIDE DEF f, n
  <2> QED
    BY <1>1, <1>2, <1>4, FS_Injection DEF n
<1> QED
  BY <1>5 DEF Surjection

\* The rank grows by one from a position to the next one kept.
LEMMA RankNext ==
  ASSUME NEW S, NEW q \in Seq(S), NEW keep \in SUBSET (1 .. Len(q)),
         NEW i \in keep, i + 1 \in keep
  PROVE  Rank(keep, i + 1) = Rank(keep, i) + 1
<1> DEFINE upto(k) == {j \in keep : j =< k}
<1>1. i \in Int /\ \A j \in keep : j \in Int
  OBVIOUS
<1>2. upto(i + 1) = upto(i) \cup {i + 1} /\ i + 1 \notin upto(i)
  <2>1. \A j \in keep : j =< i + 1 <=> j =< i \/ j = i + 1
    BY <1>1
  <2>2. ~(i + 1 =< i)
    BY <1>1
  <2>3. upto(i + 1) \subseteq upto(i) \cup {i + 1}
    BY <2>1
  <2>4. upto(i) \cup {i + 1} \subseteq upto(i + 1)
    BY <2>1
  <2> QED
    BY <2>2, <2>3, <2>4
<1>3. IsFiniteSet(keep) /\ upto(i) \in SUBSET keep
  BY PositionsFinite
<1>4. IsFiniteSet(upto(i))
  BY <1>3, FS_Subset
<1>5. Cardinality(upto(i + 1)) = Cardinality(upto(i)) + 1
  <2> HIDE DEF upto
  <2> QED
    BY <1>2, <1>4, FS_AddElement
<1> QED
  BY <1>5 DEF Rank

\* The requests of one action are next to each other: one that prepares, and one
\* that transmits and needs everything the first one needs.
Adjacent(q) ==
  \A i, j \in 1 .. Len(q) : i < j /\ q[i].action = q[j].action =>
    j = i + 1 /\ Needs(q[i]) \subseteq Needs(q[j]) /\ q[i].kind = "prepare"

\* Erasing requests keeps the others adjacent.
LEMMA KeptAdjacent ==
  ASSUME NEW q \in Seq(Request), Adjacent(q), NEW keep \in SUBSET (1 .. Len(q))
  PROVE  Adjacent(Kept(q, keep))
<1> DEFINE n == Cardinality(keep)
           u == Kept(q, keep)
<1>1. n \in Nat /\ Len(u) = n
  BY PositionsFinite, KeptEntries
<1>2. \A i \in keep : Rank(keep, i) \in 1 .. n /\ u[Rank(keep, i)] = q[i]
  BY KeptEntries
<1>3. \A k \in 1 .. n : \E i \in keep : Rank(keep, i) = k
  BY RankOnto
<1>4. \A i, j \in keep : i < j => Rank(keep, i) < Rank(keep, j)
  BY RankIsPosition
<1> HIDE DEF u, n
<1> SUFFICES ASSUME NEW k \in 1 .. n, NEW l \in 1 .. n, k < l, u[k].action = u[l].action
             PROVE  l = k + 1 /\ Needs(u[k]) \subseteq Needs(u[l]) /\ u[k].kind = "prepare"
  BY <1>1 DEF Adjacent, u
<1>5. PICK i \in keep : Rank(keep, i) = k
  BY <1>3
<1>6. PICK j \in keep : Rank(keep, j) = l
  BY <1>3
<1>7. u[k] = q[i] /\ u[l] = q[j]
  BY <1>2, <1>5, <1>6
<1>8. i < j
  <2>1. i \in Int /\ j \in Int /\ k \in Int /\ l \in Int
    BY <1>1
  <2>2. CASE i = j
    BY <1>5, <1>6, <2>1, <2>2
  <2>3. CASE j < i
    <3>1. l < k
      BY <1>4, <1>5, <1>6, <2>3
    <3> QED
      BY <2>1, <3>1
  <2> QED
    BY <2>1, <2>2, <2>3
<1>9. j = i + 1 /\ Needs(q[i]) \subseteq Needs(q[j]) /\ q[i].kind = "prepare"
  BY <1>7, <1>8 DEF Adjacent
<1>10. Rank(keep, j) = Rank(keep, i) + 1
  BY <1>9, RankNext
<1> QED
  BY <1>5, <1>6, <1>7, <1>9, <1>10

\* So does erasing one.
LEMMA RemoveAtAdjacent ==
  ASSUME NEW q \in Seq(Request), Adjacent(q), NEW c \in 1 .. Len(q)
  PROVE  Adjacent(RemoveAt(q, c))
<1> DEFINE u == RemoveAt(q, c)
           old(k) == IF k < c THEN k ELSE k + 1
<1>1. Len(q) \in Nat /\ c \in Int /\ 1 =< c /\ c =< Len(q)
  BY LenProperties
<1>2. Len(u) = Len(q) - 1 /\ \A k \in 1 .. Len(q) - 1 : u[k] = q[old(k)]
  BY RemoveAtEntries
<1> HIDE DEF u
<1> SUFFICES ASSUME NEW k \in 1 .. Len(q) - 1, NEW l \in 1 .. Len(q) - 1, k < l,
                    u[k].action = u[l].action
             PROVE  l = k + 1 /\ Needs(u[k]) \subseteq Needs(u[l]) /\ u[k].kind = "prepare"
  BY <1>2 DEF Adjacent, u
<1>3. old(k) \in 1 .. Len(q) /\ old(l) \in 1 .. Len(q) /\ old(k) < old(l)
  BY <1>1
<1>4. u[k] = q[old(k)] /\ u[l] = q[old(l)]
  BY <1>2
<1>5. /\ old(l) = old(k) + 1 /\ Needs(q[old(k)]) \subseteq Needs(q[old(l)])
      /\ q[old(k)].kind = "prepare"
  <2> HIDE DEF old
  <2> QED
    BY <1>3, <1>4 DEF Adjacent
<1>6. l = k + 1
  BY <1>1, <1>5
<1> QED
  BY <1>4, <1>5, <1>6

\* Appending the requests of an action that has none keeps them adjacent.
LEMMA ConcatAdjacent ==
  ASSUME NEW q \in Seq(Request), NEW t \in Seq(Request), Adjacent(q), Adjacent(t),
         \A i \in 1 .. Len(q), j \in 1 .. Len(t) : q[i].action # t[j].action
  PROVE  Adjacent(q \o t)
<1>1. /\ Len(q) \in Nat /\ Len(t) \in Nat /\ Len(q \o t) = Len(q) + Len(t)
      /\ \A i \in 1 .. Len(q) + Len(t) :
           (q \o t)[i] = IF i =< Len(q) THEN q[i] ELSE t[i - Len(q)]
  BY ConcatProperties, LenProperties
<1> DEFINE u == q \o t
<1> HIDE DEF u
<1>2. /\ Len(u) = Len(q) + Len(t)
      /\ \A i \in 1 .. Len(q) + Len(t) : u[i] = IF i =< Len(q) THEN q[i] ELSE t[i - Len(q)]
  BY <1>1 DEF u
<1>3. ASSUME NEW k \in 1 .. Len(u), NEW l \in 1 .. Len(u), k < l, u[k].action = u[l].action
      PROVE  l = k + 1 /\ Needs(u[k]) \subseteq Needs(u[l]) /\ u[k].kind = "prepare"
  <2>1. CASE l =< Len(q)
    <3>1. k \in 1 .. Len(q) /\ l \in 1 .. Len(q) /\ u[k] = q[k] /\ u[l] = q[l]
      BY <1>1, <1>2, <1>3, <2>1
    <3> QED
      BY <1>3, <3>1 DEF Adjacent
  <2>2. CASE k =< Len(q) /\ ~(l =< Len(q))
    <3>1. k \in 1 .. Len(q) /\ l - Len(q) \in 1 .. Len(t) /\ u[k] = q[k] /\ u[l] = t[l - Len(q)]
      BY <1>1, <1>2, <1>3, <2>2
    <3> QED
      BY <1>3, <3>1
  <2>3. CASE ~(k =< Len(q)) /\ ~(l =< Len(q))
    <3>1. /\ k - Len(q) \in 1 .. Len(t) /\ l - Len(q) \in 1 .. Len(t)
          /\ u[k] = t[k - Len(q)] /\ u[l] = t[l - Len(q)]
          /\ k - Len(q) < l - Len(q)
      BY <1>1, <1>2, <1>3, <2>3
    <3>2. /\ l - Len(q) = (k - Len(q)) + 1 /\ Needs(u[k]) \subseteq Needs(u[l])
          /\ u[k].kind = "prepare"
      BY <1>3, <3>1 DEF Adjacent
    <3> QED
      BY <1>1, <1>2, <3>2
  <2> QED
    BY <1>1, <1>2, <1>3, <2>1, <2>2, <2>3
<1>4. Adjacent(u)
  BY <1>3 DEF Adjacent
<1> QED
  BY <1>4 DEF u

-----------------------------------------------------------------------------
(* A service works for one action, and an action is dispatched in order *)

\* A step that only detaches services from actions.
Detaching ==
  \E F \in SUBSET Service :
    Detached(F, mActiveActions, mServiceAction, mActiveActions', mServiceAction')

\* Apart from a dispatch, every step is of that kind.
LEMMA OrdinaryDetaches ==
  ASSUME TypeOK, ServiceExclusive, [Next]_vars, ~Dispatch
  PROVE  Detaching
<1> USE DEF serviceVars, workVars, activeVars, expiryVars, loopVars, flagVars, fileVars, mailVars
<1> DEFINE P(F) == Detached(F, mActiveActions, mServiceAction, mActiveActions', mServiceAction')
<1>1. Exclusive(mActiveActions, mServiceAction)
  BY DEF ServiceExclusive, Exclusive
<1>2. /\ mActiveActions \in [Action -> ActionData]
      /\ mServiceAction \in [Service -> Action \cup {NoAction}]
  BY DEF TypeOK
<1>3. \A a \in Action : mActiveActions[a].services \in SUBSET Service
  BY <1>2 DEF ActionData
<1>0. \A F \in SUBSET Service : P(F) => Detaching
  BY DEF Detaching
<1>4. ASSUME UNCHANGED activeVars PROVE Detaching
  <2>1. P({})
    BY <1>4 DEF Detached
  <2> QED
    BY <1>0, <2>1
<1>5. CASE \E a \in ClientAction : ClientRequest(a)
  <2>1. ASSUME NEW a, NEW x, Answer(a, x)
        PROVE  UNCHANGED activeVars
    BY <2>1 DEF Answer
  <2>2. ASSUME NEW a, NEW q, enqueueRequest(a, q)
        PROVE  UNCHANGED activeVars
    BY <2>2 DEF enqueueRequest
  <2> QED
    BY <1>4, <1>5, <2>1, <2>2, ClientAnswers, Zenon
<1>6. CASE DispatchRequest
  BY <1>4, <1>6 DEF DispatchRequest, DispatchStart, DispatchSkip, DispatchEnd
<1>7. ASSUME NEW a \in Action, NEW b \in BOOLEAN, mServiceAction' = mServiceAction,
             mActiveActions' = [mActiveActions EXCEPT ![a].stale = b]
      PROVE  P({})
  <2>1. \A x \in Action : mActiveActions'[x].services = mActiveActions[x].services
    BY <1>2, <1>7 DEF ActionData
  <2> QED
    BY <1>7, <2>1 DEF Detached
<1>8. ASSUME NEW s \in Service, ServiceProgress(s)
      PROVE  P({})
  <2>1. mServiceAction[s] \in Action
    BY <1>2, <1>8 DEF ServiceProgress
  <2> QED
    BY <1>7, <1>8, <2>1 DEF ServiceProgress
<1>9. ASSUME NEW s \in Service, ServiceFailed(s)
      PROVE  P({s})
  <2>1. /\ mActiveActions' = ActiveAfterFailure(mActiveActions, mServiceAction, {s})
        /\ mServiceAction' = [mServiceAction EXCEPT ![s] = NoAction]
    BY <1>9 DEF ServiceFailed
  <2>2. \A a \in Action : mActiveActions'[a].services = mActiveActions[a].services \ {s}
    BY <1>1, <1>2, <2>1, FailureDetaches
  <2> QED
    BY <1>2, <2>1, <2>2 DEF Detached
<1>10. ASSUME NEW s \in Service, ServiceSucceeded(s)
       PROVE  P({s})
  <2>1. /\ mActiveActions' = [x \in Action |-> IF x = mServiceAction[s]
                                THEN ActiveAfterSuccess(mActiveActions[x], s) ELSE mActiveActions[x]]
        /\ mServiceAction' = [mServiceAction EXCEPT ![s] = NoAction]
    BY <1>10 DEF ServiceSucceeded
  <2>2. ASSUME NEW d \in ActionData
        PROVE  ActiveAfterSuccess(d, s).services = d.services \ {s}
    <3>1. CASE d.services = {s}
      BY <3>1 DEF ActiveAfterSuccess, NoData
    <3>2. CASE d.services # {s}
      <4>1. ActiveAfterSuccess(d, s) = [d EXCEPT !.services = @ \ {s}]
        BY <3>2 DEF ActiveAfterSuccess
      <4> QED
        BY <4>1 DEF ActionData
    <3> QED
      BY <3>1, <3>2
  <2>3. ASSUME NEW a \in Action
        PROVE  mActiveActions'[a].services = mActiveActions[a].services \ {s}
    <3>1. CASE a = mServiceAction[s]
      BY <1>2, <2>1, <2>2, <3>1
    <3>2. CASE a # mServiceAction[s]
      <4>1. s \notin mActiveActions[a].services /\ mActiveActions'[a] = mActiveActions[a]
        BY <2>1, <3>2 DEF ServiceExclusive
      <4> QED
        BY <4>1
    <3> QED
      BY <3>1, <3>2
  <2> QED
    BY <1>2, <2>1, <2>3 DEF Detached
<1>11. CASE \E s \in Sink, m \in Message : MessageTransmitted(s, m)
  BY <1>4, <1>11 DEF MessageTransmitted
<1>12. CASE \E s \in Source : MailCheck(s)
  BY <1>4, <1>12 DEF MailCheck, MailCheckStarted, MailCheckEnded
<1>13. ASSUME NEW x \in Account, NEW N, AccountsUpdated(x, N)
       PROVE  Detaching
  <2> DEFINE D == ServicesOf({x}) \ N
  <2>1. D \in SUBSET Service
    BY DEF ServicesOf, TypeOK
  <2>2. PICK C \in SUBSET D : Deregister(D, C, mActiveActions, mServiceAction, {}, {})
    BY <1>13 DEF AccountsUpdated
  <2>3. P(D)
    <3> HIDE DEF D
    <3> QED
      BY <1>1, <1>2, <2>1, <2>2, DeregisterDetaches
  <2> QED
    BY <1>0, <2>1, <2>3
<1>14. ASSUME NEW x \in Account, AccountsRemoved(x)
       PROVE  Detaching
  <2> DEFINE D == ServicesOf({x})
  <2>1. D \in SUBSET Service
    BY DEF ServicesOf, TypeOK
  <2>2. PICK C \in SUBSET D : Deregister(D, C, mActiveActions, mServiceAction, {}, Owned(x))
    BY <1>14 DEF AccountsRemoved
  <2>3. P(D)
    <3> HIDE DEF D
    <3> QED
      BY <1>1, <1>2, <2>1, <2>2, DeregisterDetaches
  <2> QED
    BY <1>0, <2>1, <2>3
\* Ending an action detaches its services.
<1>15. ASSUME NEW a \in Action, NEW act, NEW svc,
              act = [mActiveActions EXCEPT ![a] = NoData],
              svc = [s \in Service |-> IF s \in mActiveActions[a].services THEN NoAction
                                       ELSE mServiceAction[s]]
       PROVE  Detached(mActiveActions[a].services, mActiveActions, mServiceAction, act, svc)
  <2> DEFINE S == mActiveActions[a].services
  <2>1. ASSUME NEW x \in Action
        PROVE  act[x].services = mActiveActions[x].services \ S
    <3>1. CASE x = a
      <4>1. act[x].services = {}
        BY <1>2, <1>15, <3>1 DEF NoData
      <4> QED
        BY <3>1, <4>1
    <3>2. CASE x # a
      <4>1. \A s \in S : s \in Service /\ mServiceAction[s] = a
        BY <1>3 DEF ServiceExclusive
      <4>2. \A s \in S : s \notin mActiveActions[x].services
        BY <3>2, <4>1 DEF ServiceExclusive
      <4>3. act[x] = mActiveActions[x]
        BY <1>2, <1>15, <3>2
      <4> QED
        BY <4>2, <4>3
    <3> QED
      BY <3>1, <3>2
  <2>2. \A s \in Service : svc[s] = IF s \in S THEN NoAction ELSE mServiceAction[s]
    BY <1>15
  <2> QED
    BY <2>1, <2>2 DEF Detached
<1>16. ASSUME NEW a \in ClientAction, CancelActive(a)
       PROVE  P(mActiveActions[a].services)
  <2>1. /\ mActiveActions' = [mActiveActions EXCEPT ![a] = NoData]
        /\ mServiceAction' = [s \in Service |-> IF s \in mActiveActions[a].services THEN NoAction
                                                ELSE mServiceAction[s]]
    BY <1>16 DEF CancelActive
  <2> QED
    BY <1>15, <2>1 DEF Action
<1>17. CASE \E a \in ClientAction : CancelPending(a)
  BY <1>4, <1>17 DEF CancelPending
<1>18. CASE \E i \in 1 .. Len(mActionExpiry) : Elapse(i)
  <2>1. PICK i \in 1 .. Len(mActionExpiry) : Elapse(i)
    BY <1>18
  <2>2. mActionExpiry[i] \in Action
    BY DEF TypeOK
  <2>3. P({})
    BY <1>7, <2>1, <2>2 DEF Elapse
  <2> QED
    BY <1>0, <2>3
<1>19. CASE ExpireAction
  <2> DEFINE a   == Head(mActionExpiry)
             S   == mActiveActions[a].services
             D   == ServicesOf(AccountsOf(S))
             act == [mActiveActions EXCEPT ![a] = NoData]
             svc == [s \in Service |-> IF s \in S THEN NoAction ELSE mServiceAction[s]]
  <2>1. a \in Action
    BY <1>19 DEF ExpireAction, HeadIsStale, TypeOK
  <2>2. PICK C \in SUBSET D : Deregister(D, C, act, svc, {a}, {})
    BY <1>19 DEF ExpireAction
  <2>3. D \in SUBSET Service
    BY DEF ServicesOf, TypeOK
  <2>4. Detached(S, mActiveActions, mServiceAction, act, svc)
    BY <1>15, <2>1
  <2>5. act \in [Action -> ActionData]
    BY <1>2, <2>1, NoDataType
  <2>6. S \in SUBSET Service
    BY <1>3, <2>1
  <2> HIDE DEF a, S, D, act, svc
  <2>7. Exclusive(act, svc)
    BY <1>1, <2>4, DetachedExclusive
  <2>8. Detached(D, act, svc, mActiveActions', mServiceAction')
    BY <2>2, <2>3, <2>5, <2>7, DeregisterDetaches
  <2>9. P(S \cup D)
    BY <2>4, <2>8 DEF Detached
  <2> QED
    BY <1>0, <2>3, <2>6, <2>9
<1>20. CASE ExpiryCheck
  BY <1>4, <1>20 DEF ExpiryCheck
<1>21. CASE Crash
  <2>1. /\ mActiveActions' = [a \in Action |-> NoData]
        /\ mServiceAction' = [s \in Service |-> NoAction]
    BY <1>21 DEF Crash
  <2>2. \A a \in Action : mActiveActions'[a].services = mActiveActions[a].services \ Service
    BY <1>3, <2>1 DEF NoData
  <2>3. P(Service)
    BY <2>1, <2>2 DEF Detached
  <2> QED
    BY <1>0, <2>3
<1>22. CASE ReportFailures
  BY <1>4, <1>22 DEF ReportFailures
<1>23. CASE UNCHANGED vars
  BY <1>4, <1>23 DEF vars
<1>24. \A a \in ClientAction : mActiveActions[a].services \in SUBSET Service
  BY <1>3 DEF Action
<1>25. CASE \E s \in Service : ServiceSignal(s)
  <2>1. PICK s \in Service : ServiceProgress(s) \/ ServiceFailed(s) \/ ServiceSucceeded(s)
    BY <1>25 DEF ServiceSignal
  <2>2. P({}) \/ P({s})
    <3> HIDE DEF P
    <3> QED
      BY <1>8, <1>9, <1>10, <2>1
  <2> HIDE DEF P
  <2> QED
    BY <1>0, <2>2
<1>26. CASE \E x \in Account : AccountChange(x)
  BY <1>13, <1>14, <1>26 DEF AccountChange
<1>27. CASE \E a \in ClientAction : CancelTransfer(a)
  <2>1. CASE \E a \in ClientAction : CancelActive(a)
    <3> HIDE DEF P
    <3> QED
      BY <1>0, <1>16, <1>24, <2>1
  <2> QED
    BY <1>17, <1>27, <2>1 DEF CancelTransfer
<1> HIDE DEF P
<1> QED
  BY <1>5, <1>6, <1>11, <1>12, <1>18, <1>19, <1>20, <1>21, <1>22, <1>23, <1>25, <1>26, <1>27
  DEF Next

-----------------------------------------------------------------------------
(* How the queue changes *)

\* base is the queue without some of its requests.
Shortened(base) ==
  /\ base \in Seq(Request)
  /\ Adjacent(base)
  /\ \A k \in 1 .. Len(base) : \E i \in 1 .. Len(mRequests) : base[k] = mRequests[i]

\* A step that appends to base the requests of actions not seen before.
Grown(base) ==
  /\ issued \subseteq issued'
  /\ \E t \in Seq(Request) :
       /\ mRequests' = base \o t
       /\ Adjacent(t)
       /\ \A j \in 1 .. Len(t) : t[j].action \in issued' \ issued

\* A step that leaves base as the queue.
LEMMA NothingAppended ==
  ASSUME NEW base \in Seq(Request), mRequests' = base, issued' = issued
  PROVE  Grown(base)
<1> DEFINE t == << >>
<1>1. t \in Seq(Request) /\ Len(t) = 0 /\ base \o t = base
  BY EmptySeq, ConcatEmptySeq
<1> HIDE DEF t
<1>2. Adjacent(t) /\ \A j \in 1 .. Len(t) : t[j].action \in issued' \ issued
  BY <1>1 DEF Adjacent
<1> QED
  BY <1>1, <1>2 DEF Grown

\* A step that appends one request of a new action.
LEMMA OneAppended ==
  ASSUME NEW base \in Seq(Request), NEW r \in Request, r.action \notin issued,
         mRequests' = base \o <<r>>, issued' = issued \cup {r.action}
  PROVE  Grown(base)
<1> DEFINE t == <<r>>
<1>1. t \in Seq(Request) /\ Len(t) = 1 /\ t[1] = r
  BY ShortSeq
<1>2. mRequests' = base \o t
  OBVIOUS
<1> HIDE DEF t
<1>3. \A j \in 1 .. Len(t) : j = 1
  BY <1>1
<1>4. Adjacent(t)
  BY <1>3 DEF Adjacent
<1>5. \A j \in 1 .. Len(t) : t[j].action \in issued' \ issued
  BY <1>1, <1>3
<1> QED
  BY <1>1, <1>2, <1>4, <1>5 DEF Grown

\* The request that moves transmitted messages belongs to a new action.
LEMMA FlushGrown ==
  ASSUME TypeOK, NEW F, NEW gone, NEW serviceAction,
         NEW q \in Seq(Request), NEW file, NEW erased,
         FlushSent(F, gone, serviceAction, q, file, erased)
  PROVE  Grown(q)
<1> DEFINE moved == mSentIds \ External
           Sources(s) == IF AccountOf[s] \in AccountsOf(gone \cap Source) THEN {Null}
                         ELSE sourceServiceSet({AccountOf[s]})
           r(l, s) == [action |-> l, kind |-> "flagSent", services |-> Sources(s),
                       preconditions |-> {}, accounts |-> {OwnerOf[m] : m \in moved},
                       messages |-> moved]
<1>1. \A s : Sources(s) \in SUBSET (Service \cup {Null})
  BY ServiceSets
<1>2. moved \in SUBSET Message /\ {OwnerOf[m] : m \in moved} \in SUBSET Account
  BY MessageAssumption DEF TypeOK
<1>3. \A s : \A l \in LocalAction : r(l, s) \in Request /\ r(l, s).action = l
  BY <1>1, <1>2 DEF Request, Kind, Action
<1> HIDE DEF r, Sources, moved
<1>4. \/ mRequests' = q /\ issued' = issued
      \/ \E l \in LocalAction \ issued, s \in Service :
           mRequests' = Append(q, r(l, s)) /\ issued' = issued \cup {l}
  BY DEF FlushSent, r, Sources, moved, Service
<1>5. CASE mRequests' = q /\ issued' = issued
  BY <1>5, NothingAppended
<1>6. ASSUME NEW l \in LocalAction \ issued, NEW s \in Service,
             mRequests' = Append(q, r(l, s)), issued' = issued \cup {l}
      PROVE  Grown(q)
  <2>1. Append(q, r(l, s)) = q \o <<r(l, s)>>
    BY <1>3, AppendIsConcat
  <2> QED
    BY <1>3, <1>6, <2>1, OneAppended
<1> QED
  BY <1>4, <1>5, <1>6

\* A client's slot appends the requests of the new action, if it is not refused.
LEMMA RequestGrown ==
  ASSUME TypeOK, NEW a \in ClientAction, ClientRequest(a)
  PROVE  Grown(mRequests)
<1> USE DEF Action
<1>0. mRequests \in Seq(Request)
  BY DEF TypeOK
<1>1. ASSUME NEW x, a \notin issued, Answer(a, x)
      PROVE  Grown(mRequests)
  <2> DEFINE t == << >>
  <2>1. t \in Seq(Request) /\ Len(t) = 0 /\ mRequests \o t = mRequests
    BY <1>0, EmptySeq, ConcatEmptySeq
  <2> HIDE DEF t
  <2>2. Adjacent(t) /\ \A j \in 1 .. Len(t) : t[j].action \in issued' \ issued
    BY <2>1 DEF Adjacent
  <2>3. mRequests' = mRequests /\ issued \subseteq issued'
    BY <1>1 DEF Answer
  <2> QED
    BY <2>1, <2>2, <2>3 DEF Grown
<1>2. ASSUME NEW r \in Request, r.action = a, a \notin issued, enqueueRequest(a, <<r>>)
      PROVE  Grown(mRequests)
  BY <1>0, <1>2, OneAppended DEF enqueueRequest
<1>3. ASSUME NEW r \in Request, NEW u \in Request, r.action = a, u.action = a, a \notin issued,
             Needs(r) \subseteq Needs(u), r.kind = "prepare", enqueueRequest(a, <<r, u>>)
      PROVE  Grown(mRequests)
  <2> DEFINE t == <<r, u>>
  <2>1. t \in Seq(Request) /\ Len(t) = 2 /\ t[1] = r /\ t[2] = u
    BY ShortSeq
  <2>2. mRequests' = mRequests \o t /\ issued' = issued \cup {a}
    BY <1>3 DEF enqueueRequest
  <2> HIDE DEF t
  <2>3. \A j \in 1 .. Len(t) : j = 1 \/ j = 2
    BY <2>1
  <2>4. \A j \in 1 .. Len(t) : t[j].action = a
    BY <1>3, <2>1, <2>3
  <2>5. Adjacent(t)
    <3> SUFFICES ASSUME NEW i \in 1 .. Len(t), NEW j \in 1 .. Len(t), i < j
                 PROVE  j = i + 1 /\ Needs(t[i]) \subseteq Needs(t[j]) /\ t[i].kind = "prepare"
      BY DEF Adjacent
    <3>1. i = 1 /\ j = 2
      BY <2>3
    <3> QED
      BY <1>3, <2>1, <3>1
  <2> QED
    BY <1>3, <2>1, <2>2, <2>4, <2>5 DEF Grown
<1>4. \A k \in Kind, S1, S2 \in SUBSET Service, X \in SUBSET Account, M \in SUBSET Message :
        NewRequest(a, k, S1, S2, X, M) \in Request
  BY DEF NewRequest, Request
<1>5. \A k, S1, S2, X, M : /\ NewRequest(a, k, S1, S2, X, M).action = a
                           /\ NewRequest(a, k, S1, S2, X, M).kind = k
                           /\ Needs(NewRequest(a, k, S1, S2, X, M)) = S1 \cup S2
  BY DEF NewRequest, Needs
<1>6. \A k \in Kind, S1, S2 \in SUBSET Service, X \in SUBSET Account, M \in SUBSET Message :
        a \notin issued /\ enqueueRequest(a, <<NewRequest(a, k, S1, S2, X, M)>>) => Grown(mRequests)
  BY <1>2, <1>4, <1>5
<1>7. ASSUME NEW k \in Kind, NEW X \in SUBSET Account, RequestFromSources(a, k, X)
      PROVE  Grown(mRequests)
  <2>1. sourceServiceSet(X) \in SUBSET Service
    BY ServiceSets
  <2> QED
    BY <1>1, <1>6, <1>7, <2>1 DEF RequestFromSources, Fresh
<1>8. ASSUME NEW x \in Account, OnlineFolderOperation(a, x)
      PROVE  Grown(mRequests)
  <2>1. sourceServiceSet({x}) \in SUBSET Service /\ "storage" \in Kind /\ {x} \in SUBSET Account
    BY ServiceSets DEF Kind
  <2> QED
    BY <1>1, <1>6, <1>8, <2>1 DEF OnlineFolderOperation, Fresh
<1>9. ASSUME OnlineCopyToLocal(a)
      PROVE  Grown(mRequests)
  <2>1. "copyToLocal" \in Kind
    BY DEF Kind
  <2> QED
    BY <1>6, <1>9, <2>1 DEF OnlineCopyToLocal, Fresh
<1>10. ASSUME NEW k \in {"transmit", "transmitOne"}, NEW x \in Account,
              NEW M \in SUBSET Message, NEW scope \in SUBSET Message, a \notin issued,
              enqueueRequest(a, TransmissionRequests(a, k, x, M, scope))
       PROVE  Grown(mRequests)
  <2> DEFINE owners  == {OwnerOf[m] : m \in M \cap External}
             sources == sourceServiceSet(owners)
             send(S) == NewRequest(a, k, sinkServiceSet(x), S, {x}, scope)
             prepare == NewRequest(a, "prepare", sources, {}, owners, {})
  <2>1. owners \in SUBSET Account
    BY MessageAssumption
  <2>2. sources \in SUBSET Service /\ sinkServiceSet(x) \in SUBSET Service
    BY ServiceSets
  <2>3. k \in Kind /\ "prepare" \in Kind
    BY DEF Kind
  <2> HIDE DEF owners, sources
  <2>4. send({}) \in Request /\ send(sources) \in Request /\ prepare \in Request
    BY <1>4, <2>1, <2>2, <2>3
  <2>5. /\ send({}).action = a /\ send(sources).action = a /\ prepare.action = a
        /\ Needs(prepare) \subseteq Needs(send(sources)) /\ prepare.kind = "prepare"
    BY <1>5
  <2> HIDE DEF send, prepare
  <2>6. TransmissionRequests(a, k, x, M, scope) \in {<<send({})>>, <<prepare, send(sources)>>}
    BY DEF TransmissionRequests, send, prepare, sources, owners
  <2> QED
    BY <1>2, <1>3, <1>10, <2>4, <2>5, <2>6
<1>11. ASSUME NEW x \in Account, TransmitMessages(a, x)
       PROVE  Grown(mRequests)
  <2>1. Owned(x) \in SUBSET Message /\ outbox \cap Owned(x) \in SUBSET Message
    BY DEF Owned
  <2> QED
    BY <1>1, <1>10, <1>11, <2>1 DEF TransmitMessages, Fresh
<1>12. ASSUME NEW m \in Message, TransmitMessage(a, m)
       PROVE  Grown(mRequests)
  <2>1. OwnerOf[m] \in Account /\ {m} \in SUBSET Message
    BY MessageAssumption
  <2> QED
    BY <1>1, <1>10, <1>12, <2>1 DEF TransmitMessage, Fresh
<1>13. ASSUME LocalOperation(a)
       PROVE  Grown(mRequests)
  BY <1>1, <1>13 DEF LocalOperation, Fresh
<1>14. "retrieve" \in Kind /\ "export" \in Kind /\ "storage" \in Kind
  BY DEF Kind
<1>15. \A x \in Account : {x} \in SUBSET Account
  OBVIOUS
<1> QED
  BY <1>7, <1>8, <1>9, <1>11, <1>12, <1>13, <1>14, <1>15
  DEF ClientRequest, AccountRequest, MultiAccountRequest, RetrieveFromAccount, CreateStandardFolders,
      RetrieveMessages, RetrieveMessagePart, RetrieveAll, ExportUpdates, Synchronize,
      OnlineDeleteMessages, OnlineCopyMessages, OnlineMoveMessages, OnlineFlagMessages

\* The queue with the entries in keep, or without the one at c, is shorter.
LEMMA Shortenings ==
  ASSUME TypeOK, Adjacent(mRequests)
  PROVE  /\ Shortened(mRequests)
         /\ Shortened(<< >>)
         /\ \A keep \in SUBSET (1 .. Len(mRequests)) : Shortened(Kept(mRequests, keep))
         /\ \A c \in 1 .. Len(mRequests) : Shortened(RemoveAt(mRequests, c))
<1>1. mRequests \in Seq(Request)
  BY DEF TypeOK
<1>2. Shortened(mRequests)
  BY <1>1 DEF Shortened
<1>3. Shortened(<< >>)
  <2>1. << >> \in Seq(Request) /\ Len(<< >>) = 0
    BY EmptySeq
  <2> QED
    BY <2>1 DEF Shortened, Adjacent
<1>4. ASSUME NEW keep \in SUBSET (1 .. Len(mRequests))
      PROVE  Shortened(Kept(mRequests, keep))
  <2>1. /\ Kept(mRequests, keep) \in Seq(Request)
        /\ Len(Kept(mRequests, keep)) = Cardinality(keep)
        /\ \A k \in 1 .. Cardinality(keep) : \E i \in keep : Kept(mRequests, keep)[k] = mRequests[i]
    BY <1>1, KeptEntries
  <2>2. Adjacent(Kept(mRequests, keep))
    BY <1>1, KeptAdjacent
  <2> QED
    BY <2>1, <2>2 DEF Shortened
<1>5. ASSUME NEW c \in 1 .. Len(mRequests)
      PROVE  Shortened(RemoveAt(mRequests, c))
  <2> DEFINE u == RemoveAt(mRequests, c)
  <2>1. /\ u \in Seq(Request)
        /\ Len(u) = Len(mRequests) - 1
        /\ \A k \in 1 .. Len(mRequests) - 1 :
             u[k] = IF k < c THEN mRequests[k] ELSE mRequests[k + 1]
    BY <1>1, RemoveAtEntries
  <2>2. Adjacent(u)
    BY <1>1, RemoveAtAdjacent
  <2>3. Len(mRequests) \in Nat
    BY <1>1, LenProperties
  <2> HIDE DEF u
  <2>4. ASSUME NEW k \in 1 .. Len(u)
        PROVE  \E i \in 1 .. Len(mRequests) : u[k] = mRequests[i]
    <3>1. k \in 1 .. Len(mRequests) /\ k + 1 \in 1 .. Len(mRequests) /\ k \in 1 .. Len(mRequests) - 1
      BY <2>1, <2>3
    <3> QED
      BY <2>1, <3>1
  <2>5. Shortened(u)
    BY <2>1, <2>2, <2>4 DEF Shortened
  <2> QED
    BY <2>5 DEF u
<1> QED
  BY <1>2, <1>3, <1>4, <1>5

\* A dispatch takes the current request out of the queue.
LEMMA DispatchGrown ==
  ASSUME TypeOK, Dispatch
  PROVE  Grown(RemoveAt(mRequests, cursor))
<1>1. PICK ok \in BOOLEAN, started \in SUBSET Called(Current), failed \in SUBSET Called(Current) :
        DispatchRun(ok, started, failed)
  BY DEF Dispatch
<1>2. RemoveAt(mRequests, cursor) \in Seq(Request)
  BY CurrentType DEF Dispatch
<1>3. \E F, g, sa, file, e : FlushSent(F, g, sa, RemoveAt(mRequests, cursor), file, e)
  BY <1>1 DEF DispatchRun
<1> QED
  BY <1>2, <1>3, FlushGrown

\* Every step removes requests from the queue, appends those of a new action, or
\* both.
QueueChanges == \E base : Shortened(base) /\ Grown(base)

\* Each action of the handler in turn.
LEMMA QueueStep ==
  ASSUME TypeOK, Adjacent(mRequests), [Next]_vars
  PROVE  QueueChanges
<1> USE DEF serviceVars, workVars, activeVars, expiryVars, loopVars, flagVars, fileVars, mailVars
<1>0. mRequests \in Seq(Request) /\ Shortened(mRequests)
  BY Shortenings DEF TypeOK
<1>1. ASSUME mRequests' = mRequests, issued' = issued
      PROVE  QueueChanges
  BY <1>0, <1>1, NothingAppended DEF QueueChanges
<1>2. ASSUME NEW F, NEW g, NEW sa, NEW q, Shortened(q), NEW file, NEW e,
             FlushSent(F, g, sa, q, file, e)
      PROVE  QueueChanges
  <2>1. q \in Seq(Request)
    BY <1>2 DEF Shortened
  <2>2. Grown(q)
    BY <1>2, <2>1, FlushGrown
  <2> QED
    BY <1>2, <2>2 DEF QueueChanges
<1>3. CASE \E a \in ClientAction : ClientRequest(a)
  BY <1>0, <1>3, RequestGrown DEF QueueChanges
<1>4. CASE Dispatch
  <2>1. Shortened(RemoveAt(mRequests, cursor))
    BY <1>4, Shortenings DEF Dispatch, AtRequest
  <2> QED
    BY <1>4, <2>1, DispatchGrown DEF QueueChanges
<1>5. CASE DispatchStart \/ DispatchSkip \/ DispatchEnd
  BY <1>1, <1>5 DEF DispatchStart, DispatchSkip, DispatchEnd
<1>6. ASSUME NEW s \in Service, ServiceSignal(s)
      PROVE  QueueChanges
  <2>1. CASE ServiceProgress(s)
    BY <1>1, <2>1 DEF ServiceProgress
  <2>2. CASE ServiceFailed(s)
    <3>1. \E F, g, sa, file, e : FlushSent(F, g, sa, mRequests, file, e)
      BY <2>2 DEF ServiceFailed
    <3> QED
      BY <1>0, <1>2, <3>1
  <2>3. CASE ServiceSucceeded(s)
    <3>1. \E F, g, sa, file, e : FlushSent(F, g, sa, mRequests, file, e)
      BY <2>3 DEF ServiceSucceeded
    <3> QED
      BY <1>0, <1>2, <3>1
  <2> QED
    BY <1>6, <2>1, <2>2, <2>3 DEF ServiceSignal
<1>7. CASE \E s \in Sink, m \in Message : MessageTransmitted(s, m)
  BY <1>1, <1>7 DEF MessageTransmitted
<1>8. CASE \E s \in Source : MailCheck(s)
  BY <1>1, <1>8 DEF MailCheck, MailCheckStarted, MailCheckEnded
<1>9. ASSUME NEW D, NEW C, NEW active, NEW svc, NEW failing, NEW e,
             Deregister(D, C, active, svc, failing, e)
      PROVE  QueueChanges
  <2> DEFINE lost == {i \in 1 .. Len(mRequests) : Needs(mRequests[i]) \cap D # {}}
             q    == Kept(mRequests, (1 .. Len(mRequests)) \ lost)
  <2>1. \E F, g, sa, file : FlushSent(F, g, sa, q, file, e)
    BY <1>9 DEF Deregister
  <2>2. (1 .. Len(mRequests)) \ lost \in SUBSET (1 .. Len(mRequests))
    OBVIOUS
  <2>3. Shortened(q)
    BY <2>2, Shortenings
  <2> HIDE DEF q
  <2> QED
    BY <1>2, <2>1, <2>3
<1>10. CASE \E x \in Account : AccountChange(x)
  <2>1. \E D, C, active, svc, failing, e : Deregister(D, C, active, svc, failing, e)
    BY <1>10 DEF AccountChange, AccountsRemoved, AccountsUpdated
  <2> QED
    BY <1>9, <2>1
<1>11. CASE \E a \in ClientAction : CancelTransfer(a)
  <2>1. PICK a \in ClientAction : CancelTransfer(a)
    BY <1>11
  <2>2. CASE CancelActive(a)
    <3>1. \E F, g, sa, file, e : FlushSent(F, g, sa, mRequests, file, e)
      BY <2>2 DEF CancelActive
    <3> QED
      BY <1>0, <1>2, <3>1
  <2>3. CASE CancelPending(a)
    <3>1. /\ issued' = issued
          /\ \/ mRequests' = mRequests
             \/ \E i \in 1 .. Len(mRequests) : mRequests' = RemoveAt(mRequests, i)
      BY <2>3 DEF CancelPending
    <3>2. ASSUME NEW i \in 1 .. Len(mRequests), mRequests' = RemoveAt(mRequests, i)
          PROVE  QueueChanges
      <4>1. Shortened(RemoveAt(mRequests, i))
        BY Shortenings
      <4>2. RemoveAt(mRequests, i) \in Seq(Request)
        BY <4>1 DEF Shortened
      <4>3. Grown(RemoveAt(mRequests, i))
        BY <3>1, <3>2, <4>2, NothingAppended
      <4> QED
        BY <4>1, <4>3 DEF QueueChanges
    <3> QED
      BY <1>1, <3>1, <3>2
  <2> QED
    BY <2>1, <2>2, <2>3 DEF CancelTransfer
<1>12. CASE \E i \in 1 .. Len(mActionExpiry) : Elapse(i)
  BY <1>1, <1>12 DEF Elapse
<1>13. CASE ExpireAction
  <2>1. \E D, C, active, svc, failing, e : Deregister(D, C, active, svc, failing, e)
    BY <1>13 DEF ExpireAction
  <2> QED
    BY <1>9, <2>1
<1>14. CASE ExpiryCheck
  BY <1>1, <1>14 DEF ExpiryCheck
<1>15. CASE Crash
  <2>1. mRequests' = << >> /\ issued' = issued
    BY <1>15 DEF Crash
  <2>2. Shortened(<< >>) /\ << >> \in Seq(Request)
    BY Shortenings DEF Shortened
  <2>3. Grown(<< >>)
    BY <2>1, <2>2, NothingAppended
  <2> QED
    BY <2>2, <2>3 DEF QueueChanges
<1>16. CASE ReportFailures
  BY <1>1, <1>16 DEF ReportFailures
<1>17. CASE UNCHANGED vars
  BY <1>1, <1>17 DEF vars
<1> QED
  BY <1>3, <1>4, <1>5, <1>6, <1>7, <1>8, <1>10, <1>11, <1>12, <1>13, <1>14, <1>15, <1>16, <1>17
  DEF Next, DispatchRequest

\* Apart from a dispatch and from the end of a turn of its loop, a step leaves
\* the cursor at the start or at rest.
LEMMA OrdinaryCursor ==
  ASSUME TypeOK, [Next]_vars, ~Dispatch, ~DispatchSkip
  PROVE  cursor' \in {0, 1} \/ UNCHANGED vars
<1> USE DEF loopVars, Idle
<1>1. CASE \E a \in ClientAction : ClientRequest(a)
  <2>1. ASSUME NEW a, NEW x, Answer(a, x)
        PROVE  cursor' = cursor
    BY <2>1 DEF Answer
  <2>2. ASSUME NEW a, NEW q, enqueueRequest(a, q)
        PROVE  cursor' = cursor
    BY <2>2 DEF enqueueRequest
  <2> QED
    BY <1>1, <2>1, <2>2, ClientAnswers, Zenon DEF Fresh
<1>2. CASE DispatchRequest
  BY <1>2 DEF DispatchRequest, DispatchStart, DispatchEnd
<1>3. CASE \E s \in Service : ServiceSignal(s)
  BY <1>3 DEF ServiceSignal, ServiceProgress, ServiceFailed, ServiceSucceeded
<1>4. CASE \E s \in Sink, m \in Message : MessageTransmitted(s, m)
  BY <1>4 DEF MessageTransmitted
<1>5. CASE \E s \in Source : MailCheck(s)
  BY <1>5 DEF MailCheck, MailCheckStarted, MailCheckEnded
<1>6. CASE \E x \in Account : AccountChange(x)
  BY <1>6 DEF AccountChange, AccountsUpdated, AccountsRemoved
<1>7. CASE \E a \in ClientAction : CancelTransfer(a)
  BY <1>7 DEF CancelTransfer, CancelActive, CancelPending
<1>8. CASE \E i \in 1 .. Len(mActionExpiry) : Elapse(i)
  BY <1>8 DEF Elapse
<1>9. CASE ExpireAction
  BY <1>9 DEF ExpireAction
<1>10. CASE ExpiryCheck \/ ReportFailures
  BY <1>10 DEF ExpiryCheck, ReportFailures
<1>11. CASE Crash
  BY <1>11 DEF Crash
<1> QED
  BY <1>1, <1>2, <1>3, <1>4, <1>5, <1>6, <1>7, <1>8, <1>9, <1>10, <1>11 DEF Next

-----------------------------------------------------------------------------
(* The inductive invariant behind ServiceExclusive *)

\* Actions in the queue or active have been issued: a new one is neither.
Known == Queued \subseteq issued /\ Active \subseteq issued

\* An action that is active while it has a request in the queue only holds
\* services that this request waits for.
Fits ==
  \A i \in 1 .. Len(mRequests) :
    mActiveActions[mRequests[i].action].services \subseteq Needs(mRequests[i])

\* Inside dispatchRequest: if the request before the current one belongs to the
\* same action, it was skipped, and nothing has changed since.
Skipped ==
  cursor - 1 \in 1 .. Len(mRequests) /\ AtRequest
    /\ mRequests[cursor - 1].action = Current.action
    => \/ ~servicesAvailable(mRequests[cursor - 1])
       \/ ProcessLimitReached(Current.action)

QueueInv == Adjacent(mRequests) /\ Known /\ Fits /\ Skipped

\* The entries of the queue after a step: old ones, and those of a new action.
LEMMA QueueEntries ==
  ASSUME TypeOK, Adjacent(mRequests), Queued \subseteq issued, [Next]_vars
  PROVE  /\ issued \subseteq issued'
         /\ Adjacent(mRequests')
         /\ \A k \in 1 .. Len(mRequests') :
              \/ \E i \in 1 .. Len(mRequests) : mRequests'[k] = mRequests[i]
              \/ mRequests'[k].action \in issued' \ issued
<1>1. PICK base : Shortened(base) /\ Grown(base)
  BY QueueStep DEF QueueChanges
<1>2. PICK t \in Seq(Request) :
        /\ mRequests' = base \o t
        /\ Adjacent(t)
        /\ \A j \in 1 .. Len(t) : t[j].action \in issued' \ issued
  BY <1>1 DEF Grown
<1>3. /\ base \in Seq(Request) /\ Adjacent(base)
      /\ \A k \in 1 .. Len(base) : \E i \in 1 .. Len(mRequests) : base[k] = mRequests[i]
  BY <1>1 DEF Shortened
<1>4. \A i \in 1 .. Len(mRequests) : mRequests[i].action \in issued
  BY DEF Queued
<1>5. \A k \in 1 .. Len(base), j \in 1 .. Len(t) : base[k].action # t[j].action
  BY <1>2, <1>3, <1>4
<1>6. Adjacent(mRequests')
  BY <1>2, <1>3, <1>5, ConcatAdjacent
<1>7. /\ Len(base) \in Nat /\ Len(t) \in Nat /\ Len(mRequests') = Len(base) + Len(t)
      /\ \A k \in 1 .. Len(base) + Len(t) :
           mRequests'[k] = IF k =< Len(base) THEN base[k] ELSE t[k - Len(base)]
  BY <1>2, <1>3, ConcatProperties, LenProperties
<1>8. ASSUME NEW k \in 1 .. Len(mRequests')
      PROVE  \/ \E i \in 1 .. Len(mRequests) : mRequests'[k] = mRequests[i]
             \/ mRequests'[k].action \in issued' \ issued
  <2>1. CASE k =< Len(base)
    <3>1. k \in 1 .. Len(base) /\ mRequests'[k] = base[k]
      BY <1>7, <2>1
    <3> QED
      BY <1>3, <3>1
  <2>2. CASE ~(k =< Len(base))
    <3>1. k - Len(base) \in 1 .. Len(t) /\ mRequests'[k] = t[k - Len(base)]
      BY <1>7, <2>2
    <3> QED
      BY <1>2, <3>1
  <2> QED
    BY <2>1, <2>2
<1>9. issued \subseteq issued'
  BY <1>1 DEF Grown
<1> QED
  BY <1>6, <1>8, <1>9

\* After a dispatch, more precisely: the entries behind the current one have
\* moved up.
LEMMA DispatchQueue ==
  ASSUME TypeOK, Dispatch
  PROVE  \A k \in 1 .. Len(mRequests') :
           \/ k >= cursor /\ mRequests'[k].action \in issued' \ issued
           \/ k < cursor /\ k \in 1 .. Len(mRequests) /\ mRequests'[k] = mRequests[k]
           \/ k >= cursor /\ k + 1 \in 1 .. Len(mRequests) /\ mRequests'[k] = mRequests[k + 1]
<1> DEFINE base == RemoveAt(mRequests, cursor)
<1>1. mRequests \in Seq(Request) /\ cursor \in 1 .. Len(mRequests)
  BY DEF Dispatch, AtRequest, TypeOK
<1>2. /\ base \in Seq(Request)
      /\ Len(base) = Len(mRequests) - 1
      /\ \A k \in 1 .. Len(mRequests) - 1 :
           base[k] = IF k < cursor THEN mRequests[k] ELSE mRequests[k + 1]
  BY <1>1, RemoveAtEntries
<1>3. Grown(base)
  BY DispatchGrown
<1> HIDE DEF base
<1>4. PICK t \in Seq(Request) :
        /\ mRequests' = base \o t
        /\ \A j \in 1 .. Len(t) : t[j].action \in issued' \ issued
  BY <1>3 DEF Grown
<1>5. /\ Len(base) \in Nat /\ Len(t) \in Nat /\ Len(mRequests') = Len(base) + Len(t)
      /\ \A k \in 1 .. Len(base) + Len(t) :
           mRequests'[k] = IF k =< Len(base) THEN base[k] ELSE t[k - Len(base)]
  BY <1>2, <1>4, ConcatProperties, LenProperties
<1>6. Len(mRequests) \in Nat
  BY <1>1, LenProperties
<1> SUFFICES ASSUME NEW k \in 1 .. Len(mRequests')
             PROVE  \/ k >= cursor /\ mRequests'[k].action \in issued' \ issued
                    \/ k < cursor /\ k \in 1 .. Len(mRequests) /\ mRequests'[k] = mRequests[k]
                    \/ k >= cursor /\ k + 1 \in 1 .. Len(mRequests) /\ mRequests'[k] = mRequests[k + 1]
  OBVIOUS
<1>7. CASE k =< Len(base)
  <2>1. mRequests'[k] = base[k] /\ k \in 1 .. Len(mRequests) - 1
    BY <1>2, <1>5, <1>6, <1>7
  <2>2. k \in 1 .. Len(mRequests) /\ k + 1 \in 1 .. Len(mRequests) /\ (k < cursor \/ k >= cursor)
    BY <1>1, <1>6, <2>1
  <2>3. base[k] = IF k < cursor THEN mRequests[k] ELSE mRequests[k + 1]
    BY <1>2, <2>1
  <2>4. k >= cursor => ~(k < cursor)
    BY <1>1, <1>6, <2>1
  <2> QED
    BY <2>1, <2>2, <2>3, <2>4
<1>8. CASE ~(k =< Len(base))
  <2>1. k - Len(base) \in 1 .. Len(t) /\ mRequests'[k] = t[k - Len(base)]
    BY <1>5, <1>8
  <2>2. k >= cursor
    BY <1>1, <1>2, <1>6, <1>8
  <2> QED
    BY <1>4, <2>1, <2>2
<1> QED
  BY <1>7, <1>8

\* A dispatch gives the action exactly the services of the current request, and
\* takes away those that fail at once.
LEMMA DispatchExclusive ==
  ASSUME TypeOK, ServiceExclusive, Dispatch,
         mActiveActions[Current.action].services \subseteq Needs(Current)
  PROVE  /\ ServiceExclusive'
         /\ mActiveActions'[Current.action].services \subseteq Current.services
         /\ \A x \in Action : x # Current.action =>
              mActiveActions'[x].services \subseteq mActiveActions[x].services
<1>1. PICK ok \in BOOLEAN, started \in SUBSET Called(Current), failed \in SUBSET Called(Current) :
        DispatchRun(ok, started, failed)
  BY DEF Dispatch
<1> DEFINE r     == Current
           a     == r.action
           R     == r.services
           data  == [services |-> R, kind |-> r.kind, reported |-> FALSE, stale |-> FALSE]
           svc   == [s \in Service |-> IF s \in R THEN a ELSE mServiceAction[s]]
           act   == [mActiveActions EXCEPT ![a] = data]
           after == ActiveAfterFailure(act, svc, failed)
           svc1  == [s \in Service |-> IF s \in failed THEN NoAction ELSE svc[s]]
<1>2. /\ mActiveActions' = IF ok THEN after ELSE [after EXCEPT ![a] = NoData]
      /\ mServiceAction' = [s \in Service |-> IF s \in failed \/ (~ok /\ s \in R)
                                              THEN NoAction ELSE svc[s]]
  BY <1>1 DEF DispatchRun
<1>3. /\ a \in Action /\ R \in SUBSET Service /\ r.kind \in Kind
      /\ failed \in SUBSET Service /\ Needs(r) \subseteq Service
      /\ servicesAvailable(r)
  BY CurrentType DEF Dispatch, TypeOK
<1>4. /\ mActiveActions \in [Action -> ActionData]
      /\ mServiceAction \in [Service -> Action \cup {NoAction}]
  BY DEF TypeOK
<1>5. R \subseteq Needs(r) /\ \A s \in Needs(r) : mServiceAction[s] = NoAction
  BY <1>3 DEF servicesAvailable, serviceAvailable, Needs
<1>6. \A s \in Needs(r), x \in Action : s \notin mActiveActions[x].services
  BY <1>3, <1>5, ActionAssumption DEF ServiceExclusive, Action
<1>7. mActiveActions[a].services = {}
  BY <1>3, <1>6
<1>8. data \in ActionData /\ data.services = R
  BY <1>3 DEF ActionData
<1> HIDE DEF data, r
<1>9. /\ act \in [Action -> ActionData]
      /\ act[a] = data
      /\ \A x \in Action : x # a => act[x] = mActiveActions[x]
  BY <1>3, <1>4, <1>8
<1>10. \A s \in Service : svc[s] = IF s \in R THEN a ELSE mServiceAction[s]
  OBVIOUS
<1> HIDE DEF a, R, act, svc
<1>11. Exclusive(act, svc)
  <2> SUFFICES ASSUME NEW s \in Service, NEW x \in Action
               PROVE  svc[s] = x <=> s \in act[x].services
    BY DEF Exclusive
  <2>1. mServiceAction[s] = x <=> s \in mActiveActions[x].services
    BY DEF ServiceExclusive
  <2>2. CASE x = a
    BY <1>7, <1>8, <1>9, <1>10, <2>1, <2>2
  <2>3. CASE x # a
    BY <1>5, <1>6, <1>9, <1>10, <2>1, <2>3
  <2> QED
    BY <2>2, <2>3
<1>12. /\ after \in [Action -> ActionData]
       /\ \A x \in Action : after[x].services = act[x].services \ failed
  BY <1>3, <1>9, <1>11, FailureType, FailureDetaches
<1>13. \A s \in Service : svc1[s] = IF s \in failed THEN NoAction ELSE svc[s]
  OBVIOUS
<1> HIDE DEF after, svc1
<1>14. Detached(failed, act, svc, after, svc1)
  BY <1>12, <1>13 DEF Detached
<1>15. Exclusive(after, svc1)
  BY <1>11, <1>14, DetachedExclusive
<1>16. CASE ok
  <2>1. mActiveActions' = after /\ mServiceAction' = svc1
    BY <1>2, <1>16 DEF svc1
  <2>2. ServiceExclusive'
    BY <1>15, <2>1 DEF Exclusive, ServiceExclusive
  <2>3. \A x \in Action : mActiveActions'[x].services \subseteq act[x].services
    BY <1>12, <2>1
  <2> QED
    BY <1>3, <1>8, <1>9, <2>2, <2>3 DEF a, R, r
<1>17. CASE ~ok
  <2>1. /\ mActiveActions' = [after EXCEPT ![a] = NoData]
        /\ \A s \in Service : mServiceAction'[s] = IF s \in R THEN NoAction ELSE svc1[s]
    BY <1>2, <1>13, <1>17
  <2>2. mActiveActions'[a].services = {}
    BY <1>3, <1>12, <2>1 DEF NoData
  <2>3. \A x \in Action : x # a => mActiveActions'[x] = after[x]
    BY <1>12, <2>1
  <2>4. after[a].services \subseteq R
    BY <1>3, <1>8, <1>9, <1>12
  <2>5. ASSUME NEW x \in Action, x # a
        PROVE  after[x].services \cap R = {}
    <3>1. after[x].services \subseteq mActiveActions[x].services
      BY <1>9, <1>12, <2>5
    <3> QED
      BY <1>5, <1>6, <3>1
  <2>6. ASSUME NEW x \in Action
        PROVE  mActiveActions'[x].services = after[x].services \ R
    <3>1. CASE x = a
      BY <2>2, <2>4, <3>1
    <3>2. CASE x # a
      BY <2>3, <2>5, <3>2
    <3> QED
      BY <3>1, <3>2
  <2>7. Detached(R, after, svc1, mActiveActions', mServiceAction')
    BY <2>1, <2>6 DEF Detached
  <2>8. Exclusive(mActiveActions', mServiceAction')
    BY <1>15, <2>7, DetachedExclusive
  <2>9. ServiceExclusive'
    BY <2>8 DEF Exclusive, ServiceExclusive
  <2>10. \A x \in Action : mActiveActions'[x].services \subseteq act[x].services
    BY <1>12, <2>6
  <2> QED
    BY <1>3, <1>8, <1>9, <2>9, <2>10 DEF a, R, r
<1> QED
  BY <1>16, <1>17

\* The queue and the active actions stay known.
LEMMA KnownStep ==
  ASSUME TypeOK, QueueInv, [Next]_vars
  PROVE  /\ Known'
         /\ Adjacent(mRequests')
         /\ issued \subseteq issued'
         /\ \A x \in Action : x \notin issued => mActiveActions'[x] = NoData
<1>1. /\ issued \subseteq issued'
      /\ Adjacent(mRequests')
      /\ \A k \in 1 .. Len(mRequests') :
           \/ \E i \in 1 .. Len(mRequests) : mRequests'[k] = mRequests[i]
           \/ mRequests'[k].action \in issued' \ issued
  BY QueueEntries DEF QueueInv, Known
<1>2. \A i \in 1 .. Len(mRequests) : mRequests[i].action \in issued
  BY DEF QueueInv, Known, Queued
<1>3. \A k \in 1 .. Len(mRequests') : mRequests'[k].action \in issued'
  BY <1>1, <1>2
<1>4. Queued' \subseteq issued'
  BY <1>3 DEF Queued
<1>5. \A x \in Action : x \notin issued => mActiveActions[x] = NoData
  BY DEF QueueInv, Known, Active
<1>6. \A x \in Action : x \notin issued => mActiveActions'[x] = NoData
  <2>1. CASE ~Dispatch
    <3>1. Steady
      BY <2>1, OrdinaryStep
    <3> QED
      BY <1>5, <3>1 DEF Steady
  <2>2. CASE Dispatch
    <3>1. Current.action \in issued
      BY <1>2, <2>2 DEF Dispatch, AtRequest, Current
    <3> QED
      BY <1>5, <2>2, <3>1, DispatchStep
  <2> QED
    BY <2>1, <2>2
<1>7. Active' \subseteq issued'
  BY <1>1, <1>6 DEF Active
<1> QED
  BY <1>1, <1>4, <1>6, <1>7 DEF Known

\* While a request is dispatched, the queue holds no earlier one of its action.
LEMMA NoneBefore ==
  ASSUME TypeOK, QueueInv, Dispatch, NEW i \in 1 .. Len(mRequests), i < cursor
  PROVE  mRequests[i].action # Current.action
<1> SUFFICES ASSUME mRequests[i].action = Current.action
             PROVE  FALSE
  OBVIOUS
<1>1. /\ mRequests \in Seq(Request) /\ cursor \in 1 .. Len(mRequests)
      /\ servicesAvailable(Current) /\ ~ProcessLimitReached(Current.action)
  BY DEF Dispatch, AtRequest, TypeOK
<1>2. cursor = i + 1 /\ Needs(mRequests[i]) \subseteq Needs(Current)
  BY <1>1 DEF QueueInv, Adjacent, Current
<1>3. cursor - 1 = i
  BY <1>1, <1>2, LenProperties
<1>4. servicesAvailable(mRequests[i])
  BY <1>1, <1>2 DEF servicesAvailable
<1> QED
  BY <1>1, <1>3, <1>4 DEF QueueInv, Skipped, AtRequest

\* Neither part of ServiceExclusive's argument is lost in a step: active actions
\* keep to what their queued requests wait for, and the two maps agree.
LEMMA FitsStep ==
  ASSUME TypeOK, TypeOK', ServiceExclusive, QueueInv, [Next]_vars
  PROVE  Fits' /\ ServiceExclusive'
<1>1. mRequests \in Seq(Request)
  BY DEF TypeOK
<1>2. ASSUME NEW i \in 1 .. Len(mRequests)
      PROVE  mRequests[i].action \in Action
  <2>1. mRequests[i] \in Request
    BY <1>1, ElementOfSeq
  <2> QED
    BY <2>1 DEF Request
<1>3. \A x \in Action : x \notin issued => mActiveActions'[x].services = {}
  BY KnownStep DEF NoData
<1>4. \A k \in 1 .. Len(mRequests') : mRequests'[k].action \in issued' \ issued =>
        mActiveActions'[mRequests'[k].action].services \subseteq Needs(mRequests'[k])
  BY <1>3 DEF TypeOK
<1>5. \A i \in 1 .. Len(mRequests) :
        mActiveActions[mRequests[i].action].services \subseteq Needs(mRequests[i])
  BY DEF QueueInv, Fits
<1>6. CASE ~Dispatch
  <2>1. PICK F \in SUBSET Service :
          Detached(F, mActiveActions, mServiceAction, mActiveActions', mServiceAction')
    BY <1>6, OrdinaryDetaches DEF Detaching
  <2>2. \A x \in Action : mActiveActions'[x].services \subseteq mActiveActions[x].services
    BY <2>1 DEF Detached
  <2>3. Exclusive(mActiveActions, mServiceAction)
    BY DEF Exclusive, ServiceExclusive
  <2>4. Exclusive(mActiveActions', mServiceAction')
    BY <2>1, <2>3, DetachedExclusive
  <2>5. ServiceExclusive'
    BY <2>4 DEF Exclusive, ServiceExclusive
  <2>6. \A k \in 1 .. Len(mRequests') :
          \/ \E i \in 1 .. Len(mRequests) : mRequests'[k] = mRequests[i]
          \/ mRequests'[k].action \in issued' \ issued
    BY QueueEntries DEF QueueInv, Known
  <2>7. ASSUME NEW k \in 1 .. Len(mRequests')
        PROVE  mActiveActions'[mRequests'[k].action].services \subseteq Needs(mRequests'[k])
    <3>1. CASE \E i \in 1 .. Len(mRequests) : mRequests'[k] = mRequests[i]
      <4>1. PICK i \in 1 .. Len(mRequests) : mRequests'[k] = mRequests[i]
        BY <3>1
      <4> QED
        BY <1>2, <1>5, <2>2, <4>1
    <3> QED
      BY <1>4, <2>6, <3>1
  <2> QED
    BY <2>5, <2>7 DEF Fits
<1>7. CASE Dispatch
  <2>1. cursor \in 1 .. Len(mRequests) /\ Len(mRequests) \in Nat
    BY <1>1, <1>7, LenProperties DEF Dispatch, AtRequest
  <2>2. mActiveActions[Current.action].services \subseteq Needs(Current)
    BY <1>5, <2>1 DEF Current
  <2>3. /\ ServiceExclusive'
        /\ mActiveActions'[Current.action].services \subseteq Needs(Current)
        /\ \A x \in Action : x # Current.action =>
             mActiveActions'[x].services \subseteq mActiveActions[x].services
    BY <1>7, <2>2, DispatchExclusive DEF Needs
  <2>4. ASSUME NEW i \in 1 .. Len(mRequests), i # cursor
        PROVE  mActiveActions'[mRequests[i].action].services \subseteq Needs(mRequests[i])
    <3>1. CASE mRequests[i].action # Current.action
      BY <1>2, <1>5, <2>3, <3>1
    <3>2. CASE mRequests[i].action = Current.action
      <4>1. ~(i < cursor)
        BY <1>7, <3>2, NoneBefore
      <4>2. cursor < i
        BY <2>1, <2>4, <4>1
      <4>3. Needs(Current) \subseteq Needs(mRequests[i])
        BY <2>1, <3>2, <4>2 DEF QueueInv, Adjacent, Current
      <4> QED
        BY <2>3, <3>2, <4>3
    <3> QED
      BY <3>1, <3>2
  <2>5. ASSUME NEW k \in 1 .. Len(mRequests')
        PROVE  mActiveActions'[mRequests'[k].action].services \subseteq Needs(mRequests'[k])
    <3>1. CASE mRequests'[k].action \in issued' \ issued
      BY <1>4, <3>1
    <3>2. CASE \E i \in 1 .. Len(mRequests) : i # cursor /\ mRequests'[k] = mRequests[i]
      BY <2>4, <3>2
    <3>3. \/ mRequests'[k].action \in issued' \ issued
          \/ \E i \in 1 .. Len(mRequests) : i # cursor /\ mRequests'[k] = mRequests[i]
      <4>1. k < cursor => k # cursor
        BY <2>1
      <4>2. k >= cursor => k + 1 # cursor
        BY <2>1
      <4> QED
        BY <1>7, <4>1, <4>2, DispatchQueue
    <3> QED
      BY <3>1, <3>2, <3>3
  <2> QED
    BY <2>3, <2>5 DEF Fits
<1> QED
  BY <1>6, <1>7

\* dispatchRequest restarts, moves on past a request it has just found blocked,
\* or removes the current request and meets one of another action.
LEMMA SkippedStep ==
  ASSUME TypeOK, TypeOK', QueueInv, [Next]_vars
  PROVE  Skipped'
<1>1. mRequests \in Seq(Request) /\ Len(mRequests) \in Nat /\ cursor \in Nat
  BY LenProperties DEF TypeOK
<1>2. CASE UNCHANGED vars
  <2>1. Skipped
    BY DEF QueueInv
  <2> QED
    BY <1>2, <2>1 DEF Skipped, vars, serviceVars, activeVars, loopVars, AtRequest, Current,
                      servicesAvailable, serviceAvailable, ProcessLimitReached, Active
<1>3. CASE cursor' \in {0, 1}
  <2>1. cursor' - 1 = -1 \/ cursor' - 1 = 0
    BY <1>3
  <2>2. ~(cursor' - 1 \in 1 .. Len(mRequests'))
    BY <2>1
  <2> QED
    BY <2>2 DEF Skipped
<1>4. CASE DispatchSkip
  <2>1. /\ cursor' = cursor + 1
        /\ ~servicesAvailable(Current) \/ ProcessLimitReached(Current.action)
        /\ mRequests' = mRequests
        /\ UNCHANGED <<serviceMap, mUnavailableServices, mServiceAction, mActiveActions>>
    BY <1>4 DEF DispatchSkip, serviceVars, activeVars
  <2>2. cursor' - 1 = cursor /\ mRequests'[cursor' - 1] = Current
    BY <1>1, <2>1 DEF Current
  <2>3. servicesAvailable(Current)' <=> \A s \in Needs(mRequests'[cursor']) : serviceAvailable(s)'
    BY DEF servicesAvailable, Current
  <2>4. \A s : serviceAvailable(s)' <=> serviceAvailable(s)
    BY <2>1 DEF serviceAvailable
  <2>5. servicesAvailable(mRequests[cursor - 1])' <=> servicesAvailable(Current)
    BY <2>2, <2>4 DEF servicesAvailable
  <2>6. \A x : ProcessLimitReached(x)' <=> ProcessLimitReached(x)
    BY <2>1 DEF ProcessLimitReached, Active
  <2>7. ASSUME mRequests'[cursor' - 1].action = Current'.action
        PROVE  ~servicesAvailable(mRequests[cursor - 1])' \/ ProcessLimitReached(Current.action)'
    BY <2>1, <2>2, <2>5, <2>6, <2>7
  <2> QED
    BY <2>7 DEF Skipped
<1>5. CASE Dispatch
  <2> SUFFICES ASSUME cursor' - 1 \in 1 .. Len(mRequests'), cursor' \in 1 .. Len(mRequests'),
                      mRequests'[cursor' - 1].action = mRequests'[cursor'].action
               PROVE  FALSE
    BY DEF Skipped, AtRequest, Current
  <2>1. cursor' = cursor
    BY <1>5 DEF Dispatch, loopVars
  <2>2. \A i \in 1 .. Len(mRequests) : mRequests[i].action \in issued
    BY DEF QueueInv, Known, Queued
  <2>3. cursor - 1 < cursor /\ ~(cursor < cursor) /\ ~(cursor - 1 >= cursor) /\ cursor + 1 # (cursor - 1) + 1
        /\ cursor - 1 < cursor + 1
    BY <1>1
  <2>4. \/ mRequests'[cursor].action \in issued' \ issued
        \/ cursor + 1 \in 1 .. Len(mRequests) /\ mRequests'[cursor] = mRequests[cursor + 1]
    BY <1>5, <2>1, <2>3, DispatchQueue
  <2>5. cursor - 1 \in 1 .. Len(mRequests) /\ mRequests'[cursor - 1] = mRequests[cursor - 1]
    BY <1>5, <2>1, <2>3, DispatchQueue
  <2>6. mRequests[cursor - 1].action \in issued
    BY <2>2, <2>5
  <2>7. cursor + 1 \in 1 .. Len(mRequests) /\ mRequests[cursor - 1].action = mRequests[cursor + 1].action
    BY <2>1, <2>4, <2>5, <2>6
  <2> QED
    BY <2>3, <2>5, <2>7 DEF QueueInv, Adjacent
<1> QED
  BY <1>2, <1>3, <1>4, <1>5, OrdinaryCursor

\* All parts of the inductive invariant together.
LEMMA QueueInvariant == Spec => [](ServiceExclusive /\ QueueInv)
<1>1. Init => ServiceExclusive /\ QueueInv
  <2> SUFFICES ASSUME Init PROVE ServiceExclusive /\ QueueInv
    OBVIOUS
  <2>1. /\ mRequests = << >> /\ Len(mRequests) = 0 /\ issued = {}
        /\ mActiveActions = [a \in Action |-> NoData]
        /\ mServiceAction = [s \in Service |-> NoAction]
    BY DEF Init
  <2>2. ServiceExclusive
    BY <2>1, ActionAssumption DEF ServiceExclusive, NoData, Action
  <2>3. Queued = {} /\ Active = {}
    BY <2>1 DEF Queued, Active
  <2>4. Adjacent(mRequests) /\ Fits /\ Skipped
    BY <2>1 DEF Adjacent, Fits, Skipped, AtRequest
  <2> QED
    BY <2>2, <2>3, <2>4 DEF QueueInv, Known
<1>2. TypeOK /\ TypeOK' /\ ServiceExclusive /\ QueueInv /\ [Next]_vars
        => ServiceExclusive' /\ QueueInv'
  BY KnownStep, FitsStep, SkippedStep DEF QueueInv
<1> QED
  BY <1>1, <1>2, TypeCorrect, PTL DEF Spec

\* No service ever works for two actions, or for one that has ended: the two
\* maps of the handler agree in every state.
THEOREM ServicesExclusive == Spec => []ServiceExclusive
BY QueueInvariant, PTL

\* An action's transmission is never dispatched while its preparation is still
\* in the queue.
THEOREM PreparationGoesFirst == Spec => PreparationFirst
<1> DEFINE A == cursor # 0 /\ cursor' = cursor =>
                  \A j \in 1 .. cursor - 1 : mRequests[j].action # Current.action
<1>1. TypeOK /\ QueueInv /\ [Next]_vars => [A]_vars
  <2> SUFFICES ASSUME TypeOK, QueueInv, [Next]_vars, ~UNCHANGED vars,
                      cursor # 0, cursor' = cursor, NEW j \in 1 .. cursor - 1
               PROVE  mRequests[j].action # Current.action
    OBVIOUS
  <2>1. cursor \in Nat
    BY DEF TypeOK
  <2>2. CASE Dispatch
    <3>1. cursor \in 1 .. Len(mRequests) /\ Len(mRequests) \in Nat
      BY <2>2, LenProperties DEF Dispatch, AtRequest, TypeOK
    <3>2. j \in 1 .. Len(mRequests) /\ j < cursor
      BY <3>1
    <3> QED
      BY <2>2, <3>2, NoneBefore
  <2>3. CASE DispatchSkip
    <3>1. cursor' = cursor + 1
      BY <2>3 DEF DispatchSkip
    <3> QED
      BY <2>1, <3>1
  <2>4. CASE ~Dispatch /\ ~DispatchSkip
    <3>1. cursor = 0 \/ cursor = 1
      BY <2>4, OrdinaryCursor
    <3> QED
      BY <3>1
  <2> QED
    BY <2>2, <2>3, <2>4
<1> QED
  BY <1>1, TypeCorrect, QueueInvariant, PTL DEF Spec, PreparationFirst

=============================================================================
