--------------------------- MODULE ServiceHandler ---------------------------
(***************************************************************************)
(* The request queue of the messageserver daemon, class ServiceHandler of  *)
(* src/tools/messageserver/servicehandler.cpp.  Client processes submit    *)
(* actions; the handler queues one or two requests per action, dispatches  *)
(* them to the protocol services of the accounts concerned, and reports    *)
(* what becomes of them.  Everything runs in one event loop: a step of     *)
(* this module is one slot or one timer, except that dispatchRequest, the  *)
(* loop over the queue, takes one step per request (cursor # 0 while it    *)
(* runs, and nothing else happens until it returns).                       *)
(***************************************************************************)
EXTENDS Integers, Sequences, FiniteSets, SequencesExt

CONSTANTS
  Account,        \* mail accounts
  Source, Sink,   \* services with a message source, services with a sink
  AccountOf,      \* the account of each service
  ClientAction,   \* action identifiers issued by client processes
  LocalAction,    \* action identifiers the server issues to itself
  ProcessOf,      \* the process in the upper half of an action identifier
  Message,        \* messages that start in the Outbox
  OwnerOf,        \* the account of each message
  External,       \* messages a source must prepare before transmission
  MaxActive,            \* QMail::maximumConcurrentServiceActions()
  MaxActivePerProcess,  \* QMail::maximumConcurrentServiceActionsPerProcess()
  Offered,        \* the stimuli of this instance, see ClientRequest and Next
  MaxCrashes,     \* bound: crashes of the daemon
  Mute,           \* services whose cancelOperation() may emit no signal
  Null,           \* a QPointer whose service has been deleted
  NoAction        \* serviceAction() of a service without an action

Service == Source \cup Sink
Action  == ClientAction \cup LocalAction

\* What a request asks of its services.
Kind == {"retrieve", "export", "storage", "copyToLocal",
         "prepare", "transmit", "transmitOne", "flagSent"}

\* The completion signal of each kind of request.
Completion(k) ==
  CASE k \in {"retrieve", "export"}      -> "retrievalCompleted"
    [] k \in {"transmit", "transmitOne"} -> "transmissionCompleted"
    [] k = "prepare"                     -> "none"
    [] OTHER                             -> "storageActionCompleted"

Request == [action        : Action,
            kind          : Kind,
            services      : SUBSET (Service \cup {Null}),
            preconditions : SUBSET (Service \cup {Null}),
            accounts      : SUBSET Account,
            messages      : SUBSET Message]

ActionData == [services : SUBSET Service, kind : Kind \cup {"none"},
               reported : BOOLEAN, stale : BOOLEAN]

\* The entry of an action that is not in mActiveActions.
NoData == [services |-> {}, kind |-> "none", reported |-> FALSE, stale |-> FALSE]

\* What the handler tells the clients about an action.
Report == {"InProgress", "Successful", "Failed", "Completed"}
Terminal == {"Successful", "Failed"}

ASSUME ServiceAssumption ==
  /\ Source \cap Sink = {}
  /\ AccountOf \in [Service -> Account]
  /\ \A s, t \in Service :
       AccountOf[s] = AccountOf[t] => s = t \/ (s \in Source <=> t \in Sink)
  /\ Mute \subseteq Service
  /\ Null \notin Service

ASSUME ActionAssumption ==
  /\ ClientAction \cap LocalAction = {}
  /\ IsFiniteSet(ClientAction) /\ IsFiniteSet(LocalAction)
  /\ NoAction \notin ClientAction \cup LocalAction
  /\ \A a \in ClientAction, l \in LocalAction : ProcessOf[a] # ProcessOf[l]

ASSUME MessageAssumption ==
  /\ OwnerOf \in [Message -> Account]
  /\ External \subseteq Message

ASSUME LimitAssumption ==
  MaxActive \in Nat /\ MaxActivePerProcess \in Nat /\ MaxCrashes \in Nat

VARIABLES
  serviceMap,            \* the services that exist
  mUnavailableServices,  \* those running a mail check of their own
  busy,                  \* those working on an operation the handler started
  sending,               \* per sink, the messages it has still to transmit
  mRequests,             \* requests not yet dispatched, oldest first
  mActiveActions,        \* per action, its ActionData or NoData
  mServiceAction,        \* per service, the action it is associated with
  mActionExpiry,         \* active actions, the least recently updated first
  expiryTimer,           \* a singleShot to expireAction is pending
  dispatchPosted,        \* a singleShot(0) to dispatchRequest is pending
  cursor,                \* position in mRequests of the running dispatchRequest
  expiring,              \* that dispatchRequest was called by expireAction
  retrievalAccountIds, transmissionAccountIds,  \* accounts flagged as in progress
  outstandingRequests,   \* the actions listed in the requests file
  failedRequests,        \* read from that file at the last start
  issued,                \* action identifiers used so far
  reports,               \* per action, everything reported about it so far
  outbox,                \* messages with status Outbox in the mail store
  mSentIds,              \* messages transmitted and not yet marked as Sent
  delivered,             \* per message, how often a sink transmitted it (0..2)
  crashes                \* how often the daemon has crashed

serviceVars == <<serviceMap, mUnavailableServices>>
workVars    == <<busy, sending>>
activeVars  == <<mActiveActions, mServiceAction>>
expiryVars  == <<mActionExpiry, expiryTimer>>
loopVars    == <<cursor, expiring>>
flagVars    == <<retrievalAccountIds, transmissionAccountIds>>
fileVars    == <<outstandingRequests, failedRequests>>
mailVars    == <<outbox, mSentIds>>
vars == <<serviceVars, workVars, mRequests, activeVars, expiryVars, dispatchPosted,
          loopVars, flagVars, fileVars, issued, reports, mailVars, delivered, crashes>>

-----------------------------------------------------------------------------
(* Helpers *)

Active == {a \in Action : mActiveActions[a] # NoData}

Queued == {mRequests[i].action : i \in 1 .. Len(mRequests)}

AccountsOf(S) == {AccountOf[s] : s \in S}

ServicesOf(accounts) == {s \in serviceMap : AccountOf[s] \in accounts}

\* sourceServiceSet(ids): the sources of these accounts, or nothing at all if
\* one of the accounts has no source.
sourceServiceSet(accounts) ==
  IF accounts \subseteq AccountsOf(serviceMap \cap Source)
  THEN ServicesOf(accounts) \cap Source
  ELSE {}

sinkServiceSet(account) == ServicesOf({account}) \cap Sink

serviceAvailable(s) ==
  /\ s \in serviceMap
  /\ mServiceAction[s] = NoAction
  /\ s \notin mUnavailableServices

Needs(r) == r.services \cup r.preconditions

\* Two mistakes the runs detect: one free service is enough; the preconditions
\* are not looked at.
AnyServiceAvailable(r) == Needs(r) # {} => \E s \in Needs(r) : serviceAvailable(s)
PreconditionsIgnored(r) == \A s \in r.services : serviceAvailable(s)

servicesAvailable(r) == \A s \in Needs(r) : serviceAvailable(s)

\* The entries of the list q at the positions in keep, in the order of q.
Rank(keep, i) == Cardinality({j \in keep : j =< i})
Kept(q, keep) ==
  [k \in 1 .. Cardinality(keep) |->
     q[CHOOSE i \in keep : (\E j \in keep : Rank(keep, j) = k) => Rank(keep, i) = k]]

\* updateAction: the first entry of each action in A moves to the end.
Touch(q, A) ==
  LET first == {i \in 1 .. Len(q) : q[i] \in A /\ \A j \in 1 .. i - 1 : q[j] # q[i]}
  IN Kept(q, (1 .. Len(q)) \ first) \o Kept(q, first)

\* Adds x to what has been reported about each of the actions in A.
Told(A, x) == [a \in Action |-> IF a \in A THEN reports[a] \cup {x} ELSE reports[a]]

\* A mistake the runs detect: the loop also drops the active entry it stops at.
PruneOneTooMany(q, active) ==
  LET live == {i \in 1 .. Len(q) : active[q[i]] # NoData}
  IN Kept(q, {i \in 1 .. Len(q) : \E j \in live : j < i})

\* The loop that ends expireAction: entries of finished actions are dropped
\* until an active one is found.
PruneExpiry(q, active) ==
  LET live == {i \in 1 .. Len(q) : active[q[i]] # NoData}
  IN Kept(q, {i \in 1 .. Len(q) : \E j \in live : j =< i})

-----------------------------------------------------------------------------
(* What a completion does.  Every path on which services report the end of *)
(* their operation (a signal from the event loop, or one emitted inside    *)
(* cancelOperation or inside the call that starts an operation) runs       *)
(* actionCompleted; F is the set of services that fail together.           *)

\* The actions that lose a service of F.
Hit(F, serviceAction) == {serviceAction[s] : s \in F} \ {NoAction}

\* A mistake the runs detect: a service that fails stays in its action's set.
FailureKeepsServices(active, serviceAction, F) ==
  [a \in Action |->
     IF active[a] = NoData \/ a \notin Hit(F, serviceAction) THEN active[a]
     ELSE [active[a] EXCEPT !.reported = TRUE, !.stale = FALSE]]

\* actionCompleted(false): the services leave their actions; an action without
\* services is finished, another is marked as reported (and, by the
\* statusChanged that comes first, no longer stale).
ActiveAfterFailure(active, serviceAction, F) ==
  [a \in Action |->
     LET lost == {s \in F : serviceAction[s] = a}
     IN IF active[a] = NoData \/ lost = {} THEN active[a]
        ELSE IF active[a].services \subseteq lost THEN NoData
        ELSE [active[a] EXCEPT !.services = @ \ lost, !.reported = TRUE, !.stale = FALSE]]

\* A mistake the runs detect: the end of one retrieval or transmission clears
\* the flags of all that are in progress.
FlaggedEverywhere(active, serviceAction, S, c) ==
  AccountsOf({s \in Service : /\ serviceAction[s] # NoAction
                              /\ Completion(active[serviceAction[s]].kind) = c})

\* The accounts of the services S that work for actions with completion c.
Flagged(active, serviceAction, S, c) ==
  AccountsOf({s \in S : /\ serviceAction[s] # NoAction
                        /\ Completion(active[serviceAction[s]].kind) = c})

\* The first part of actionCompleted: when a sink of F ends a transmission,
\* what has been transmitted is marked as Sent, provided that the account of
\* that sink has a source, and a request of the server's own moves it to the
\* Sent folder.  gone are sources deleted earlier in the same step: the maps
\* still name them, through pointers that are now null.  q and file are the
\* queue and the requests file without that request, erased the messages that
\* the caller removes from the store.
FlushSent(F, gone, serviceAction, q, file, erased) ==
  LET ending == {s \in F \cap Sink : serviceAction[s] # NoAction}
      Sources(s) == IF AccountOf[s] \in AccountsOf(gone \cap Source) THEN {Null}
                    ELSE sourceServiceSet({AccountOf[s]})
      moved == mSentIds \ External
  IN \/ /\ ending = {} \/ mSentIds = {}
        /\ mRequests' = q /\ outstandingRequests' = file
        /\ outbox' = outbox \ erased
        /\ UNCHANGED <<mSentIds, issued>>
     \/ /\ mSentIds # {}
        /\ mSentIds' = {}
        /\ \E s \in ending :
             IF Sources(s) = {}
             THEN /\ mRequests' = q /\ outstandingRequests' = file
                  /\ outbox' = outbox \ erased /\ UNCHANGED issued
             ELSE /\ outbox' = outbox \ (mSentIds \cup erased)
                  /\ \/ /\ moved = {}
                        /\ mRequests' = q /\ outstandingRequests' = file
                        /\ UNCHANGED issued
                     \/ /\ moved # {}
                        /\ \E l \in LocalAction \ issued :
                             /\ issued' = issued \cup {l}
                             /\ outstandingRequests' = file \cup {l}
                             /\ mRequests' = Append(q,
                                  [action |-> l, kind |-> "flagSent",
                                   services |-> Sources(s), preconditions |-> {},
                                   accounts |-> {OwnerOf[m] : m \in moved},
                                   messages |-> moved])

-----------------------------------------------------------------------------
(* Requests from clients *)

Idle == cursor = 0

Fresh(a) == Idle /\ a \in ClientAction \ issued

NewRequest(a, k, services, preconditions, accounts, messages) ==
  [action |-> a, kind |-> k, services |-> services, preconditions |-> preconditions,
   accounts |-> accounts, messages |-> messages]

\* A mistake the runs detect: the action is not written to the requests file.
EnqueueUnrecorded(a, q) ==
  /\ mRequests' = mRequests \o q
  /\ dispatchPosted' = TRUE
  /\ issued' = issued \cup {a}
  /\ UNCHANGED <<serviceVars, workVars, activeVars, expiryVars, loopVars, flagVars,
                 fileVars, reports, mailVars, delivered, crashes>>

\* enqueueRequest, for the requests of one action.
enqueueRequest(a, q) ==
  /\ mRequests' = mRequests \o q
  /\ outstandingRequests' = outstandingRequests \cup {a}
  /\ dispatchPosted' = TRUE
  /\ issued' = issued \cup {a}
  /\ UNCHANGED <<serviceVars, workVars, activeVars, expiryVars, loopVars, flagVars,
                 failedRequests, reports, mailVars, delivered, crashes>>

\* A mistake the runs detect: the slot returns early without a report.
AnswerSilently(a, r) ==
  /\ issued' = issued \cup {a}
  /\ UNCHANGED <<serviceVars, workVars, mRequests, activeVars, expiryVars, dispatchPosted,
                 loopVars, flagVars, fileVars, reports, mailVars, delivered, crashes>>

\* An action that ends in the slot that receives it, reported as r.
Answer(a, r) ==
  /\ reports' = Told({a}, r)
  /\ issued' = issued \cup {a}
  /\ UNCHANGED <<serviceVars, workVars, mRequests, activeVars, expiryVars, dispatchPosted,
                 loopVars, flagVars, fileVars, mailVars, delivered, crashes>>

\* The common shape: refused if an account has no source, else queued.
RequestFromSources(a, k, accounts) ==
  /\ Fresh(a)
  /\ LET sources == sourceServiceSet(accounts)
     IN IF sources = {} THEN Answer(a, "Failed")
        ELSE enqueueRequest(a, <<NewRequest(a, k, sources, {}, accounts, {})>>)

\* retrieveFolderList, retrieveMessageList(s), retrieveNewMessages
RetrieveFromAccount(a, account) == RequestFromSources(a, "retrieve", {account})

\* A retrieval that flags no account, like exportUpdates below.
CreateStandardFolders(a, account) == RequestFromSources(a, "export", {account})

\* The messages may belong to several accounts.
RetrieveMessages(a, accounts) == RequestFromSources(a, "retrieve", accounts)

\* retrieveMessagePart, retrieveMessageRange, retrieveMessagePartRange
RetrieveMessagePart(a, account) == RequestFromSources(a, "retrieve", {account})

RetrieveAll(a, account) == RequestFromSources(a, "retrieve", {account})

ExportUpdates(a, account) == RequestFromSources(a, "export", {account})

\* Flagged as a retrieval, although what it calls is exportUpdates.
Synchronize(a, account) == RequestFromSources(a, "retrieve", {account})

\* With a removal record: the sources delete the messages.  (Without one it is
\* discardMessages, a LocalOperation.)
OnlineDeleteMessages(a, accounts) == RequestFromSources(a, "storage", accounts)

\* To a folder of an account, or to one without.
OnlineCopyMessages(a, account) == RequestFromSources(a, "storage", {account})

OnlineCopyToLocal(a) ==
  /\ Fresh(a)
  /\ enqueueRequest(a, <<NewRequest(a, "copyToLocal", {}, {}, {}, {})>>)

OnlineMoveMessages(a, accounts) == RequestFromSources(a, "storage", accounts)

\* onlineFlagMessagesAndMoveToStandardFolder
OnlineFlagMessages(a, accounts) == RequestFromSources(a, "storage", accounts)

\* onlineCreateFolder, onlineRenameFolder, onlineDeleteFolder, onlineMoveFolder:
\* refused for an invalid folder, and else queued even when the account has no
\* source.
OnlineFolderOperation(a, account) ==
  /\ Fresh(a)
  /\ \/ Answer(a, "Failed")
     \/ enqueueRequest(a, <<NewRequest(a, "storage", sourceServiceSet({account}), {},
                                       {account}, {})>>)

\* addMessages, updateMessages, discardMessages, deleteMessages and the other
\* operations on the local store: done, or refused by the store, at once.
LocalOperation(a) ==
  /\ Fresh(a)
  /\ Answer(a, "Successful") \/ Answer(a, "Failed")

\* The one or two requests that transmit the messages M of an account: those
\* that a source has to prepare get a request of their own first.
TransmissionRequests(a, k, account, M, scope) ==
  LET sinks   == sinkServiceSet(account)
      owners  == {OwnerOf[m] : m \in M \cap External}
      sources == sourceServiceSet(owners)
      send(S) == NewRequest(a, k, sinks, S, {account}, scope)
  IN IF M \cap External = {} THEN <<send({})>>
     ELSE <<NewRequest(a, "prepare", sources, {}, owners, {}), send(sources)>>

Owned(account) == {m \in Message : OwnerOf[m] = account}

TransmitMessages(a, account) ==
  /\ Fresh(a)
  /\ IF sinkServiceSet(account) = {} THEN Answer(a, "Failed")
     ELSE enqueueRequest(a, TransmissionRequests(a, "transmit", account,
                                                 outbox \cap Owned(account), Owned(account)))

TransmitMessage(a, m) ==
  /\ Fresh(a)
  /\ IF sinkServiceSet(OwnerOf[m]) = {} THEN Answer(a, "Failed")
     ELSE enqueueRequest(a, TransmissionRequests(a, "transmitOne", OwnerOf[m], {m}, {m}))

-----------------------------------------------------------------------------
(* dispatchRequest *)

DispatchStart ==
  /\ Idle /\ dispatchPosted
  /\ dispatchPosted' = FALSE
  /\ cursor' = 1
  /\ UNCHANGED <<serviceVars, workVars, mRequests, activeVars, expiryVars, expiring,
                 flagVars, fileVars, issued, reports, mailVars, delivered, crashes>>

Current == mRequests[cursor]

AtRequest == cursor \in 1 .. Len(mRequests)

\* Two mistakes the runs detect: each limit is off by one.
DeviceLimitExceeded == Cardinality(Active) > MaxActive
ProcessLimitExceeded(a) ==
  Cardinality({x \in Active : ProcessOf[x] = ProcessOf[a]}) > MaxActivePerProcess

DeviceLimitReached == Cardinality(Active) >= MaxActive

ProcessLimitReached(a) ==
  Cardinality({x \in Active : ProcessOf[x] = ProcessOf[a]}) + 1 > MaxActivePerProcess

DispatchSkip ==
  /\ AtRequest
  /\ \/ ~servicesAvailable(Current)
     \/ ~DeviceLimitReached /\ ProcessLimitReached(Current.action)
  /\ cursor' = cursor + 1
  /\ UNCHANGED <<serviceVars, workVars, mRequests, activeVars, expiryVars, dispatchPosted,
                 expiring, flagVars, fileVars, issued, reports, mailVars, delivered, crashes>>

\* The end of the loop, or the return at the device limit; expireAction, if it
\* was the caller, then prunes the expiry list and starts the next timer.
DispatchEnd ==
  /\ cursor # 0
  /\ \/ cursor > Len(mRequests)
     \/ AtRequest /\ servicesAvailable(Current) /\ DeviceLimitReached
  /\ cursor' = 0
  /\ expiring' = FALSE
  /\ IF expiring
     THEN /\ mActionExpiry' = PruneExpiry(mActionExpiry, mActiveActions)
          /\ expiryTimer' = (expiryTimer \/ mActionExpiry' # <<>>)
     ELSE UNCHANGED expiryVars
  /\ UNCHANGED <<serviceVars, workVars, mRequests, activeVars, dispatchPosted, flagVars,
                 fileVars, issued, reports, mailVars, delivered, crashes>>

\* The services the servicer of request r calls: those of the accounts in its
\* data, which need not be the services the request waited for.
Called(r) ==
  CASE r.kind \in {"transmit", "transmitOne"} -> ServicesOf(r.accounts) \cap Sink
    [] OTHER -> ServicesOf(r.accounts) \cap Source

\* The outcomes of the servicer of r: it returned ok, after the calls to the
\* services in started left an operation running and the calls to those in
\* failed reported an error before they returned.  It stops at the first call
\* that returns false or account that has no service.
ServicerOutcome(r, ok, started, failed) ==
  /\ started \cap failed = {}
  /\ CASE r.kind = "copyToLocal" -> started = {} /\ failed = {}
       [] r.kind = "transmit" ->
            ok = (Called(r) # {}) /\ started \cup failed = Called(r)
       [] r.kind = "transmitOne" ->
            IF outbox \cap r.messages = {} THEN ~ok /\ started = {} /\ failed = {}
            ELSE ok = (Called(r) # {}) /\ started \cup failed = Called(r)
       [] OTHER ->
            LET complete == AccountsOf(Called(r)) = r.accounts
            IN IF ok THEN complete /\ started \cup failed = Called(r)
               ELSE ~(complete /\ started = Called(r))

\* The accounts the servicer flags as in progress: those whose call returned
\* true, even when the service had already reported its failure.
NowInProgress(ok, started, failed) ==
  AccountsOf(started) \cup (IF ok THEN AccountsOf(failed) ELSE {})

\* What the sink may send: messages of r that are in the Outbox.  The servicer
\* of transmitMessages leaves out those that have failed too often
\* (markFailedMessage counts), and a sink drops those it cannot address and goes
\* on; which ones, this model leaves open.
Sendable(r) == SUBSET (outbox \cap r.messages)

DispatchRun(ok, started, failed) ==
  LET r     == Current
      a     == r.action
      svc   == [s \in Service |-> IF s \in r.services THEN a ELSE mServiceAction[s]]
      act   == [mActiveActions EXCEPT ![a] =
                  [services |-> r.services, kind |-> r.kind, reported |-> FALSE, stale |-> FALSE]]
      after == ActiveAfterFailure(act, svc, failed)
      list  == Touch(mActionExpiry, Hit(failed, svc))
  IN /\ ServicerOutcome(r, ok, started, failed)
     /\ mActiveActions' = IF ok THEN after ELSE [after EXCEPT ![a] = NoData]
     /\ mServiceAction' = [s \in Service |-> IF s \in failed \/ (~ok /\ s \in r.services)
                                             THEN NoAction ELSE svc[s]]
     /\ mActionExpiry' = IF ok THEN Append(list, a) ELSE list
     /\ expiryTimer' = (expiryTimer \/ (ok /\ list = <<>>))
     /\ busy' = busy \cup started
     /\ \E toTransmit \in Sendable(r) :
          sending' = [s \in Sink |-> IF s \in started THEN toTransmit ELSE sending[s]]
     /\ retrievalAccountIds' =
          (retrievalAccountIds \ Flagged(act, svc, failed, "retrievalCompleted"))
            \cup (IF r.kind = "retrieve" THEN NowInProgress(ok, started, failed) ELSE {})
     /\ transmissionAccountIds' =
          (transmissionAccountIds \ Flagged(act, svc, failed, "transmissionCompleted"))
            \cup (IF r.kind \in {"prepare", "transmit", "transmitOne"}
                  THEN NowInProgress(ok, started, failed) ELSE {})
     /\ reports' = [x \in Action |->
          reports[x] \cup (IF x = a THEN {"InProgress"} ELSE {})
                     \cup (IF x \in Hit(failed, svc) \/ (x = a /\ ~ok) THEN {"Failed"} ELSE {})
                     \cup (IF x = a /\ ok /\ r.kind = "copyToLocal" THEN {"Successful"} ELSE {})]
     /\ FlushSent(failed, {}, svc, RemoveAt(mRequests, cursor),
                  outstandingRequests \ Hit(failed, svc), {})
     /\ dispatchPosted' = (dispatchPosted \/ failed # {})

\* A request is handed to its services.
Dispatch ==
  /\ AtRequest
  /\ servicesAvailable(Current)
  /\ ~DeviceLimitReached
  /\ ~ProcessLimitReached(Current.action)
  /\ \E ok \in BOOLEAN, started \in SUBSET Called(Current), failed \in SUBSET Called(Current) :
       DispatchRun(ok, started, failed)
  /\ UNCHANGED <<serviceVars, loopVars, failedRequests, delivered, crashes>>

-----------------------------------------------------------------------------
(* Signals from the services.  Qt delivers them directly: the slots below   *)
(* run inside the emit.                                                     *)

\* connectivityChanged, activityChanged, progressChanged, and statusChanged
\* without an error: the action gets another ExpirySeconds.
ServiceProgress(s) ==
  /\ Idle /\ s \in busy /\ mServiceAction[s] # NoAction
  /\ LET a == mServiceAction[s]
     IN /\ mActionExpiry' = Touch(mActionExpiry, {a})
        /\ mActiveActions' = [mActiveActions EXCEPT ![a].stale = FALSE]
  /\ UNCHANGED <<serviceVars, workVars, mRequests, mServiceAction, expiryTimer, dispatchPosted,
                 loopVars, flagVars, fileVars, issued, reports, mailVars, delivered, crashes>>

\* statusChanged with an error, then actionCompleted(false)
ServiceFailed(s) ==
  /\ Idle /\ s \in busy
  /\ busy' = busy \ {s}
  /\ sending' = [t \in Sink |-> IF t = s THEN {} ELSE sending[t]]
  /\ mActiveActions' = ActiveAfterFailure(mActiveActions, mServiceAction, {s})
  /\ mServiceAction' = [mServiceAction EXCEPT ![s] = NoAction]
  /\ mActionExpiry' = Touch(mActionExpiry, Hit({s}, mServiceAction))
  /\ retrievalAccountIds' = retrievalAccountIds
       \ Flagged(mActiveActions, mServiceAction, {s}, "retrievalCompleted")
  /\ transmissionAccountIds' = transmissionAccountIds
       \ Flagged(mActiveActions, mServiceAction, {s}, "transmissionCompleted")
  /\ reports' = Told(Hit({s}, mServiceAction), "Failed")
  /\ FlushSent({s}, {}, mServiceAction, mRequests,
               outstandingRequests \ Hit({s}, mServiceAction), {})
  /\ dispatchPosted' = TRUE
  /\ UNCHANGED <<serviceVars, expiryTimer, loopVars, failedRequests, delivered, crashes>>

\* A mistake the runs detect: a service that succeeds stays in its action's set.
SuccessKeepsService(data, s) == IF data.services = {s} THEN NoData ELSE data

\* The entry of an action after s, one of its services, has succeeded.
ActiveAfterSuccess(data, s) ==
  IF data.services = {s} THEN NoData ELSE [data EXCEPT !.services = @ \ {s}]

\* What is reported when s, a service of an action with this entry, succeeds.
ReportsOfSuccess(data, s) ==
  IF data.services # {s} THEN {}
  ELSE {"Successful"} \cup (IF Completion(data.kind) # "none" /\ ~data.reported
                            THEN {"Completed"} ELSE {})

\* actionCompleted(true)
ServiceSucceeded(s) ==
  /\ Idle /\ s \in busy /\ (s \in Sink => sending[s] = {})
  /\ busy' = busy \ {s}
  /\ LET a == mServiceAction[s]
     IN /\ mActiveActions' = [x \in Action |-> IF x = a THEN ActiveAfterSuccess(mActiveActions[x], s)
                                               ELSE mActiveActions[x]]
        /\ reports' = [x \in Action |-> IF x = a THEN reports[x] \cup ReportsOfSuccess(mActiveActions[x], s)
                                        ELSE reports[x]]
        /\ FlushSent({s}, {}, mServiceAction, mRequests, outstandingRequests \ {a}, {})
  /\ mServiceAction' = [mServiceAction EXCEPT ![s] = NoAction]
  /\ retrievalAccountIds' = retrievalAccountIds
       \ Flagged(mActiveActions, mServiceAction, {s}, "retrievalCompleted")
  /\ transmissionAccountIds' = transmissionAccountIds
       \ Flagged(mActiveActions, mServiceAction, {s}, "transmissionCompleted")
  /\ dispatchPosted' = TRUE
  /\ UNCHANGED <<serviceVars, sending, expiryVars, loopVars, failedRequests, delivered, crashes>>

\* A mistake the runs detect: the whole batch is remembered as transmitted.
BatchTransmitted(s, m) ==
  /\ Idle /\ s \in busy /\ m \in sending[s]
  /\ sending' = [sending EXCEPT ![s] = @ \ {m}]
  /\ mSentIds' = IF mServiceAction[s] = NoAction THEN mSentIds ELSE mSentIds \cup sending[s]
  /\ delivered' = [delivered EXCEPT ![m] = IF @ = 0 THEN 1 ELSE 2]
  /\ UNCHANGED <<serviceVars, busy, mRequests, activeVars, expiryVars, dispatchPosted, loopVars,
                 flagVars, fileVars, issued, reports, outbox, crashes>>

\* messagesTransmitted: remembered only if the sink has an action.
MessageTransmitted(s, m) ==
  /\ Idle /\ s \in busy /\ m \in sending[s]
  /\ sending' = [sending EXCEPT ![s] = @ \ {m}]
  /\ mSentIds' = IF mServiceAction[s] = NoAction THEN mSentIds ELSE mSentIds \cup {m}
  /\ delivered' = [delivered EXCEPT ![m] = IF @ = 0 THEN 1 ELSE 2]
  /\ UNCHANGED <<serviceVars, busy, mRequests, activeVars, expiryVars, dispatchPosted, loopVars,
                 flagVars, fileVars, issued, reports, outbox, crashes>>

\* A mistake the runs detect: the timer of a deleted service still fires.
DeletedServiceChecks(s) ==
  /\ Idle /\ s \in Source \ (busy \cup mUnavailableServices)
  /\ mServiceAction[s] = NoAction
  /\ mUnavailableServices' = mUnavailableServices \cup {s}
  /\ UNCHANGED <<serviceMap, workVars, mRequests, activeVars, expiryVars, dispatchPosted, loopVars,
                 flagVars, fileVars, issued, reports, mailVars, delivered, crashes>>

\* availabilityChanged(false): an idle source starts a mail check of its own.
MailCheckStarted(s) ==
  /\ Idle /\ s \in (serviceMap \cap Source) \ (busy \cup mUnavailableServices)
  /\ mServiceAction[s] = NoAction
  /\ mUnavailableServices' = mUnavailableServices \cup {s}
  /\ UNCHANGED <<serviceMap, workVars, mRequests, activeVars, expiryVars, dispatchPosted, loopVars,
                 flagVars, fileVars, issued, reports, mailVars, delivered, crashes>>

\* availabilityChanged(true), then actionCompleted of a service without action
MailCheckEnded(s) ==
  /\ Idle /\ s \in mUnavailableServices
  /\ mUnavailableServices' = mUnavailableServices \ {s}
  /\ dispatchPosted' = TRUE
  /\ UNCHANGED <<serviceMap, workVars, mRequests, activeVars, expiryVars, loopVars,
                 flagVars, fileVars, issued, reports, mailVars, delivered, crashes>>

-----------------------------------------------------------------------------
(* Accounts that change, and the services that go with them *)

\* cancelOperation on each service of D, then removeServiceFromActions and
\* delete.  C are those that answer the cancellation with an error, as all but
\* those in Mute do; active and svc are mActiveActions and mServiceAction as
\* the caller leaves them, failing the actions the caller has already failed.
Deregister(D, C, active, svc, failing, erased) ==
  LET lost  == {i \in 1 .. Len(mRequests) :
                  Needs(mRequests[i]) \cap D # {}}
      after == ActiveAfterFailure(active, svc, C)
  IN /\ D \ Mute \subseteq C
     /\ mActiveActions' = [a \in Action |-> IF after[a] = NoData THEN NoData
                                            ELSE [after[a] EXCEPT !.services = @ \ D]]
     /\ mServiceAction' = [s \in Service |-> IF s \in D THEN NoAction ELSE svc[s]]
     /\ busy' = busy \ D
     /\ sending' = [s \in Sink |-> IF s \in D THEN {} ELSE sending[s]]
     /\ mUnavailableServices' = mUnavailableServices \ D
     /\ dispatchPosted' = (dispatchPosted \/ C # {})
     /\ reports' = Told(failing \cup Hit(C, svc) \cup {mRequests[i].action : i \in lost}, "Failed")
     /\ FlushSent(C, D, svc, Kept(mRequests, (1 .. Len(mRequests)) \ lost),
                  outstandingRequests \ Hit(C, svc), erased)

\* The flags of the accounts that C clears, for callers that clear no others.
ClearFlags(C) ==
  /\ retrievalAccountIds' = retrievalAccountIds
       \ Flagged(mActiveActions, mServiceAction, C, "retrievalCompleted")
  /\ transmissionAccountIds' = transmissionAccountIds
       \ Flagged(mActiveActions, mServiceAction, C, "transmissionCompleted")

\* accountsUpdated by another process: the account now uses the services in N
\* (none when it has been disabled).
AccountsUpdated(account, N) ==
  LET D == ServicesOf({account}) \ N
  IN /\ Idle
     /\ N # ServicesOf({account})
     /\ \E C \in SUBSET D :
          /\ Deregister(D, C, mActiveActions, mServiceAction, {}, {})
          /\ mActionExpiry' = Touch(mActionExpiry, Hit(C, mServiceAction))
          /\ ClearFlags(C)
     /\ serviceMap' = (serviceMap \ D) \cup N
     /\ UNCHANGED <<expiryTimer, loopVars, failedRequests, delivered, crashes>>

\* accountsRemoved: the messages of the account go too.
AccountsRemoved(account) ==
  LET D == ServicesOf({account})
  IN /\ Idle /\ D # {}
     /\ \E C \in SUBSET D :
          /\ Deregister(D, C, mActiveActions, mServiceAction, {}, Owned(account))
          /\ mActionExpiry' = Touch(mActionExpiry, Hit(C, mServiceAction))
          /\ ClearFlags(C)
     /\ serviceMap' = serviceMap \ D
     /\ UNCHANGED <<expiryTimer, loopVars, failedRequests, delivered, crashes>>

-----------------------------------------------------------------------------
(* Expiry, cancellation, crash *)

\* ExpirySeconds pass without news of an action.  Entries are in the order of
\* their last update, so those before it are stale too.
Elapse(i) ==
  /\ Idle /\ i \in 1 .. Len(mActionExpiry)
  /\ mActiveActions[mActionExpiry[i]] # NoData
  /\ ~mActiveActions[mActionExpiry[i]].stale
  /\ \A j \in 1 .. i - 1 : mActiveActions[mActionExpiry[j]] # NoData
                             => mActiveActions[mActionExpiry[j]].stale
  /\ mActiveActions' = [mActiveActions EXCEPT ![mActionExpiry[i]].stale = TRUE]
  /\ UNCHANGED <<serviceVars, workVars, mRequests, mServiceAction, expiryVars, dispatchPosted,
                 loopVars, flagVars, fileVars, issued, reports, mailVars, delivered, crashes>>

HeadIsStale ==
  /\ mActionExpiry # <<>>
  /\ mActiveActions[Head(mActionExpiry)] # NoData
  /\ mActiveActions[Head(mActionExpiry)].stale

\* The timer fires and the oldest action has expired: it fails, the services
\* of its accounts are replaced by new ones, and dispatchRequest is called.
ExpireAction ==
  LET a    == Head(mActionExpiry)
      data == mActiveActions[a]
      ids  == AccountsOf(data.services)
      D    == ServicesOf(ids)
      act  == [mActiveActions EXCEPT ![a] = NoData]
      svc  == [s \in Service |-> IF s \in data.services THEN NoAction ELSE mServiceAction[s]]
      cleared(c, C) == Flagged(act, svc, C, c)
                         \cup (IF Completion(data.kind) = c THEN ids ELSE {})
  IN /\ Idle /\ expiryTimer /\ HeadIsStale
     /\ \E C \in SUBSET D :
          /\ Deregister(D, C, act, svc, {a}, {})
          /\ mActionExpiry' = Touch(Tail(mActionExpiry), Hit(C, svc))
          /\ retrievalAccountIds' = retrievalAccountIds \ cleared("retrievalCompleted", C)
          /\ transmissionAccountIds' = transmissionAccountIds \ cleared("transmissionCompleted", C)
     /\ expiryTimer' = FALSE
     /\ cursor' = 1
     /\ expiring' = TRUE
     /\ UNCHANGED <<serviceMap, failedRequests, delivered, crashes>>

\* The timer fires and there is nothing to expire (yet).
ExpiryCheck ==
  /\ Idle /\ expiryTimer /\ ~HeadIsStale
  /\ mActionExpiry' = PruneExpiry(mActionExpiry, mActiveActions)
  /\ expiryTimer' = (mActionExpiry' # <<>>)
  /\ UNCHANGED <<serviceVars, workVars, mRequests, activeVars, dispatchPosted, loopVars,
                 flagVars, fileVars, issued, reports, mailVars, delivered, crashes>>

\* cancelTransfer of an active action.  C are its services that answer the
\* cancellation with an error.
CancelActive(a) ==
  LET data == mActiveActions[a]
      S    == data.services
  IN /\ Idle /\ a \in ClientAction /\ data # NoData
     /\ \E C \in SUBSET S :
          /\ S \ Mute \subseteq C
          /\ mActionExpiry' = Touch(mActionExpiry, Hit(C, mServiceAction))
          /\ reports' = Told(Hit(C, mServiceAction), "Failed")
          /\ FlushSent(C, {}, mServiceAction, mRequests,
                       outstandingRequests \ Hit(C, mServiceAction), {})
     /\ mActiveActions' = [mActiveActions EXCEPT ![a] = NoData]
     /\ mServiceAction' = [s \in Service |-> IF s \in S THEN NoAction ELSE mServiceAction[s]]
     /\ busy' = busy \ S
     /\ sending' = [s \in Sink |-> IF s \in S THEN {} ELSE sending[s]]
     /\ ClearFlags(S)
     /\ dispatchPosted' = TRUE
     /\ UNCHANGED <<serviceVars, expiryTimer, loopVars, failedRequests, delivered, crashes>>

\* cancelTransfer of an action that is not active: its first request, if it
\* has one, is dropped.
CancelPending(a) ==
  /\ Idle /\ a \in ClientAction \cap issued /\ mActiveActions[a] = NoData
  /\ \/ a \notin Queued /\ UNCHANGED mRequests
     \/ \E i \in 1 .. Len(mRequests) :
          /\ mRequests[i].action = a
          /\ \A j \in 1 .. i - 1 : mRequests[j].action # a
          /\ mRequests' = RemoveAt(mRequests, i)
  /\ reports' = Told({a}, "Failed")
  /\ UNCHANGED <<serviceVars, workVars, activeVars, expiryVars, dispatchPosted, loopVars,
                 flagVars, fileVars, issued, mailVars, delivered, crashes>>

\* The daemon stops without warning and starts again.  What is left is the mail
\* store and the requests file; the constructor reads and truncates the file.
Crash ==
  /\ crashes < MaxCrashes
  /\ crashes' = crashes + 1
  /\ failedRequests' = outstandingRequests
  /\ outstandingRequests' = {}
  /\ mUnavailableServices' = {}
  /\ busy' = {}
  /\ sending' = [s \in Sink |-> {}]
  /\ mRequests' = <<>>
  /\ mActiveActions' = [a \in Action |-> NoData]
  /\ mServiceAction' = [s \in Service |-> NoAction]
  /\ mActionExpiry' = <<>>
  /\ expiryTimer' = FALSE
  /\ dispatchPosted' = FALSE
  /\ cursor' = 0
  /\ expiring' = FALSE
  /\ retrievalAccountIds' = {}
  /\ transmissionAccountIds' = {}
  /\ mSentIds' = {}
  /\ UNCHANGED <<serviceMap, issued, reports, outbox, delivered>>

\* reportFailures, two seconds after the start
ReportFailures ==
  /\ Idle /\ failedRequests # {}
  /\ reports' = Told(failedRequests, "Failed")
  /\ failedRequests' = {}
  /\ UNCHANGED <<serviceVars, workVars, mRequests, activeVars, expiryVars, dispatchPosted, loopVars,
                 flagVars, outstandingRequests, issued, mailVars, delivered, crashes>>

-----------------------------------------------------------------------------

Init ==
  /\ serviceMap = Service
  /\ mUnavailableServices = {}
  /\ busy = {}
  /\ sending = [s \in Sink |-> {}]
  /\ mRequests = <<>>
  /\ mActiveActions = [a \in Action |-> NoData]
  /\ mServiceAction = [s \in Service |-> NoAction]
  /\ mActionExpiry = <<>>
  /\ expiryTimer = FALSE
  /\ dispatchPosted = FALSE
  /\ cursor = 0
  /\ expiring = FALSE
  /\ retrievalAccountIds = {}
  /\ transmissionAccountIds = {}
  /\ outstandingRequests = {}
  /\ failedRequests = {}
  /\ issued = {}
  /\ reports = [a \in Action |-> {}]
  /\ outbox = Message
  /\ mSentIds = {}
  /\ delivered = [m \in Message |-> 0]
  /\ crashes = 0

\* The slots for requests about one account, and about several.
AccountRequest(a, x) ==
  \/ "retrieve" \in Offered /\ RetrieveFromAccount(a, x)
  \/ "standardFolders" \in Offered /\ CreateStandardFolders(a, x)
  \/ "retrievePart" \in Offered /\ RetrieveMessagePart(a, x)
  \/ "retrieveAll" \in Offered /\ RetrieveAll(a, x)
  \/ "export" \in Offered /\ ExportUpdates(a, x)
  \/ "synchronize" \in Offered /\ Synchronize(a, x)
  \/ "copy" \in Offered /\ OnlineCopyMessages(a, x)
  \/ "folder" \in Offered /\ OnlineFolderOperation(a, x)
  \/ "transmit" \in Offered /\ TransmitMessages(a, x)

MultiAccountRequest(a, X) ==
  \/ "retrieveMessages" \in Offered /\ RetrieveMessages(a, X)
  \/ "delete" \in Offered /\ OnlineDeleteMessages(a, X)
  \/ "move" \in Offered /\ OnlineMoveMessages(a, X)
  \/ "flag" \in Offered /\ OnlineFlagMessages(a, X)

ClientRequest(a) ==
  \/ \E x \in Account : AccountRequest(a, x)
  \/ \E X \in SUBSET Account \ {{}} : MultiAccountRequest(a, X)
  \/ "copyToLocal" \in Offered /\ OnlineCopyToLocal(a)
  \/ "local" \in Offered /\ LocalOperation(a)
  \/ "transmitOne" \in Offered /\ \E m \in Message : TransmitMessage(a, m)

AccountChange(x) ==
  \/ AccountsRemoved(x)
  \/ \E N \in SUBSET {s \in Service : AccountOf[s] = x} : AccountsUpdated(x, N)

CancelTransfer(a) == CancelActive(a) \/ CancelPending(a)

DispatchRequest == DispatchStart \/ DispatchSkip \/ Dispatch \/ DispatchEnd

ServiceSignal(s) ==
  \/ ServiceProgress(s)
  \/ ServiceFailed(s)
  \/ ServiceSucceeded(s)

MailCheck(s) == MailCheckStarted(s) \/ MailCheckEnded(s)

Next ==
  \/ \E a \in ClientAction : ClientRequest(a)
  \/ DispatchRequest
  \/ \E s \in Service : ServiceSignal(s)
  \/ \E s \in Sink, m \in Message : MessageTransmitted(s, m)
  \/ "mailCheck" \in Offered /\ \E s \in Source : MailCheck(s)
  \/ "accounts" \in Offered /\ \E x \in Account : AccountChange(x)
  \/ "cancel" \in Offered /\ \E a \in ClientAction : CancelTransfer(a)
  \/ \E i \in 1 .. Len(mActionExpiry) : Elapse(i)
  \/ ExpireAction
  \/ ExpiryCheck
  \/ Crash
  \/ ReportFailures

Spec == Init /\ [][Next]_vars

\* The event loop delivers every timer that is due, whatever else is posted, and
\* time passes.  Nothing is assumed of the services, which may fall silent.
Fairness ==
  /\ WF_vars(DispatchRequest)
  /\ SF_vars(\E i \in 1 .. Len(mActionExpiry) : Elapse(i))
  /\ SF_vars(ExpireAction \/ ExpiryCheck)
  /\ SF_vars(ReportFailures)

FairSpec == Spec /\ Fairness

-----------------------------------------------------------------------------
(* Properties *)

\* The shape of the handler's state.
TypeOK ==
  /\ serviceMap \subseteq Service
  /\ mUnavailableServices \subseteq serviceMap \cap Source
  /\ busy \subseteq serviceMap
  /\ sending \in [Sink -> SUBSET Message]
  /\ mRequests \in Seq(Request)
  /\ mActiveActions \in [Action -> ActionData]
  /\ mServiceAction \in [Service -> Action \cup {NoAction}]
  /\ mActionExpiry \in Seq(Action)
  /\ expiryTimer \in BOOLEAN
  /\ dispatchPosted \in BOOLEAN
  /\ cursor \in Nat
  /\ expiring \in BOOLEAN
  /\ retrievalAccountIds \subseteq Account
  /\ transmissionAccountIds \subseteq Account
  /\ outstandingRequests \subseteq Action
  /\ failedRequests \subseteq Action
  /\ issued \subseteq Action
  /\ reports \in [Action -> SUBSET Report]
  /\ outbox \subseteq Message
  /\ mSentIds \subseteq Message
  /\ delivered \in [Message -> 0 .. 2]
  /\ crashes \in 0 .. MaxCrashes

\* A service is associated with an action exactly as long as the action still
\* waits for it: no service works for two actions, no signal is credited to an
\* action that has ended, and updateAction (which would create an entry in
\* mActiveActions for an action that has none) only ever finds active actions.
ServiceExclusive ==
  \A s \in Service, a \in Action :
    mServiceAction[s] = a <=> s \in mActiveActions[a].services

\* dispatchRequest keeps within the limits of QMail, whatever fails or expires.
ConcurrencyLimited ==
  /\ Cardinality(Active) =< MaxActive
  /\ \A p \in {ProcessOf[a] : a \in Action} :
       Cardinality({a \in Active : ProcessOf[a] = p}) =< MaxActivePerProcess

\* An action whose services fall silent cannot hold its slot for ever: every
\* active action is on the expiry list, and while that list has entries a call
\* of expireAction is pending (or expireAction itself is running).
ExpiryCovered ==
  /\ \A a \in Active : \E i \in 1 .. Len(mActionExpiry) : mActionExpiry[i] = a
  /\ mActionExpiry # <<>> => expiryTimer \/ expiring

\* The handler never drops an action silently: a client that has been told
\* neither success nor failure has an action that is queued, active, or about
\* to be reported by reportFailures.
NoActionForgotten ==
  \A a \in issued \cap ClientAction :
    reports[a] \cap Terminal = {} => a \in Queued \cup Active \cup failedRequests

\* A crash at any moment is reported to every client it affects: actions
\* without a final report are in the requests file.
CrashSafe ==
  \A a \in Queued \cup Active :
    reports[a] \cap Terminal = {} => a \in outstandingRequests

\* "Failed: the action could not be completed successfully, and has finished
\* execution" (QMailServiceAction::Activity).
FailedHasFinished ==
  \A a \in Action : "Failed" \in reports[a] => a \notin Queued \cup Active

\* The transmission of an action never overtakes its preparation: while an
\* earlier request of the same action is queued, a request is not dispatched.
PreparationFirst ==
  [][cursor # 0 /\ cursor' = cursor =>
       \A j \in 1 .. cursor - 1 : mRequests[j].action # Current.action]_vars

\* Requests of one process that need the same services are dispatched in the
\* order in which they were made.  (Not so when a request of the server's own
\* interrupts a source that another request waits for; see FlushSent.)
DispatchInOrder ==
  [][cursor # 0 /\ cursor' = cursor =>
       \A j \in 1 .. cursor - 1 :
         ProcessOf[mRequests[j].action] = ProcessOf[Current.action]
           => ~(Needs(mRequests[j]) \subseteq Needs(Current))]_vars

\* Marking messages as Sent in actionCompleted touches none that a sink has
\* not transmitted: a message only leaves the Outbox after its transmission,
\* or with its account.
OnlySentLeavesOutbox ==
  [][\A m \in outbox \ outbox' :
       delivered[m] > 0 \/ \A s \in serviceMap' : AccountOf[s] # OwnerOf[m]]_vars

\* An account whose source works on a retrieval is flagged as retrieving: no
\* other action that ends or fails takes the flag away.
RetrievalFlagged ==
  \A s \in busy :
    mServiceAction[s] # NoAction /\ mActiveActions[mServiceAction[s]].kind = "retrieve"
      => AccountOf[s] \in retrievalAccountIds

\* Services that report progress for ever keep their action alive for ever;
\* otherwise every action that is submitted is reported as successful or failed
\* in the end: by its services, by expireAction if they fall silent, or by
\* reportFailures after a crash.
EveryActionEnds ==
  <>[][\A s \in Service : ~ServiceProgress(s)]_vars =>
    \A a \in ClientAction : a \in issued ~> reports[a] \cap Terminal # {}

-----------------------------------------------------------------------------
(* What the documentation says and the code does not do.                   *)

\* "Any message successfully transmitted will be moved to the account's Sent
\* folder" (QMailTransmitAction::transmitMessages), so none is sent again.
TransmittedOnce == \A m \in Message : delivered[m] =< 1

=============================================================================
