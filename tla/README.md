# A TLA+ model of the Qt Messaging Framework

The Qt Messaging Framework is a mail system in three parts. Client programs
link the `qmfclient` library. A daemon, `messageserver`, does all work that
involves a network. Plugins loaded by the daemon speak SMTP, POP and IMAP. The
clients and the daemon share one mail store (an SQLite database with message
bodies beside it) and exchange requests and signals over a small IPC layer
(QCop).

This directory models the centre of that system, the request queue of the
daemon, and what works for it: the SMTP client that transmits messages, the POP
client and the IMAP strategies that fetch and synchronize them, and the part of
the mail store that keeps messages in conversations. It checks them with TLC and
proves part of what TLC checks with TLAPS.

## Inventory

| Component | State it keeps | Operations | What is hard about it |
|---|---|---|---|
| `ServiceHandler` (`src/tools/messageserver/servicehandler.cpp`) | queue of requests, active actions, which service works for which action, expiry list and timer, account flags, requests file, messages sent and not yet marked | about 40 request slots, dispatchRequest, expireAction, cancelTransfer, account signals, service signals, reportFailures | every slot can run between any two others; services answer late, never, or inside the call; accounts vanish; the daemon crashes |
| message search (same file) | mSearches, batches | searchMessages, continueSearch, cancelLocalSearch | local and remote search of one action at once |
| `MessageServer` | new-message counts, the client connection | forwards requests, counts arrivals | notification after acknowledgement |
| `QMailServiceAction` (`libraries/qmfclient`) | activity, connectivity, status, validity, pending sub-actions | newAction, setActivity, cancelOperation, serverFailure | signals of an action that is already over; composite actions |
| QCop IPC (`libraries/qmfclient/support`) | channels, connections | attach, detach, forward, reconnect | restarts of either side |
| `QMailStore` | mail database with threads and predecessors, caches, notification queues, locks | add, update, remove, query | mails of a conversation in any order, caches read inside transactions; two processes, notification order, lock order |
| content manager | body files | add, update, ensureDurability, remove | crash between database and file |
| `QMailDisconnected` | previous folder, status bits | move, flag, restore, roll back | long sequences of offline operations |
| SMTP plugin | message list, sending state, chunk map, timers | the SMTP conversation | retries, late responses, errors in the middle of a batch |
| POP plugin | positions and identifiers of a session, selection, mail check queue, timers | the POP conversation, interval checks | positions that are valid in one session only; a check of its own racing a request; deletions that are final at QUIT |
| IMAP plugin | strategy with its lists, push connections, action queue | the IMAP conversation: searches, exports, previews, deletions | many round trips with users and other clients acting between them, refused and lost commands, push, cancellation |
| transport, message buffer, heartbeat timer (`libraries/qmfmessageserver`) | socket, timers | open, close, write | late socket signals |
| messages, codecs, keys, models | values | parsing, encoding, queries | sequential |
| widgets, settings editors, crypto, examples, tests | user interface, external libraries | | not modelled |

Interaction: a client calls `QMailServiceAction`, which sends a request to
`MessageServer`, which calls a slot of `ServiceHandler`. The slot queues a
request for the services of the accounts concerned. `dispatchRequest` hands it
to them as soon as they are free and the limits allow. Services report by Qt
signals, delivered as direct calls in the daemon's single event loop;
`ServiceHandler` turns them into `activityChanged`, `statusChanged` and a
completion signal, which reach the client over IPC. Account changes arrive as
signals of the mail store.

What makes `ServiceHandler` correct: services work for at most one action and
the tables agree about it; limits hold; no action is dropped without a report,
whatever expires, fails, is cancelled or crashes; an action that is not
progressing ends; requests start in a sensible order; sent messages are marked
as sent and no others; account flags follow the work.

## ServiceHandler.tla

One action per slot or timer. The daemon has one thread, so a slot is atomic,
with one refinement: `dispatchRequest`, the loop over the queue, takes one step
per request (`cursor` is its position, and every other action waits for
`cursor = 0`). That keeps the order of its decisions visible.

| Model | Code |
|---|---|
| `serviceMap` | `serviceMap`, `sourceMap`, `sinkMap`; a service is identified by account and role, so a service that is deleted and created again is the same element |
| `mRequests`, `mActiveActions`, `mServiceAction`, `mActionExpiry`, `mUnavailableServices`, `mSentIds` | the members of that name |
| `ActionData.stale` | `unixTimeExpiry <= now`; `Elapse` is the passage of ExpirySeconds |
| `expiryTimer`, `dispatchPosted` | a pending `singleShot` to expireAction, to dispatchRequest. Several pending ones count as one: an extra call finds nothing to do |
| `cursor`, `expiring` | the iterator of dispatchRequest, and whether expireAction called it |
| `retrievalAccountIds`, `transmissionAccountIds` | the members, and what the store is told |
| `outstandingRequests`, `failedRequests` | the requests file and what the constructor read from it |
| `busy`, `sending` | environment: services at work, what a sink has still to send |
| `reports`, `issued`, `delivered`, `crashes` | history, for the properties and the bounds |

A request is a record with its action, its kind, the services it needs, the
preconditions, and the accounts and messages in its data. The kind stands for
the servicer and the completion signal.

Failures. `actionCompleted(false)` is reached from a signal, from inside
`cancelOperation` and from inside the call that starts an operation; all three
use `ActiveAfterFailure`, `Flagged`, `Told` and `FlushSent`. A call that starts
an operation may return false, may start it, or may report an error before it
returns (`ServicerOutcome`); a servicer that calls several accounts may stop
half-way. Deleting a service cancels it first. Services in `Mute` may stay
silent when cancelled, as `ImapService` does while push e-mail is not
established; all others answer with an error.

A crash loses everything but the mail store and the requests file, at any
moment, also in the middle of dispatchRequest.

`Sendable` leaves open which messages `transmitMessages` withholds because they
failed too often (the counter itself is not modelled) and which ones the sink
refuses, as `SmtpService::Sink` does with messages it cannot address.

`TransmitMessages` may queue two requests for one action. The first, the
preparation, has no completion signal; the second names the sources of the
first as preconditions.

`FlushSent` is the beginning of `actionCompleted`: marking what was sent and
queueing a request of the server's own. During the removal of an account the
maps still name a source that has been deleted, and the request gets a null
pointer (`Null`).

Definitions introduced by "A mistake the runs detect" are wrong variants of the
definition that follows. They are used by nothing; each is what the named
property would have to catch.

## SmtpClient.tla and MessageSink.tla

`MessageSink` states what the daemon expects of a sink (`QMailMessageSink`): it
is handed a batch, may refuse some of it, reports the rest message by message
and ends the batch once, with success only if everything was reported.
`SmtpClient` implements it (`ImplementsSink`): `busy` is `sending`, and what is
pending is the batch without the messages reported on this connection.

`SmtpClient` has one action per slot of the client, plus the server. A response
line is one step: `nextAction` calls itself until it has sent a command, so the
cases without a command of their own (StartTLS, Connected, Authenticated,
MetaData, From, PrepareData, Data, Chunk, Quit) are the operators `LoginTurn`,
`MessageTurn`, `MetaDataTurn`, `DataTurn`, `ChunkTurn` and `QuitTurn`, and `OnInit` to
`OnSent` are the cases that wait for a response.

| Model | Code |
|---|---|
| `status`, `sending`, `mailList`, `mailItr`, `it`, `mailChunks`, `outstandingResponses`, `capabilities` | the members of that name; iterators are positions |
| `temporaryFile`, `authTimeout` | the pointer is not null |
| `lineBuffer` | a line of which a part has been read, with the number of its connection. In a later connection it may spoil the first line (`Leftover`) |
| `configured` | the account has a server |
| `socket`, `wire`, `replies` | the transport and what is under way. `close()` flushes, so the server still handles what was written; an error loses it |
| `envelope`, `content`, `accepted` | the server's transaction and what it accepted on this connection |
| `transmitted`, `outbox`, `outcome`, `batch`, `batches` | what the daemon has been told, what it handed over, the bound |

A message is a list of parts: its chunks, or one part. The server answers each
command positively or not, in one line or in several (`MultiLine`), offers
pipelining or not each time it is asked, refuses whatever belongs to no
transaction, and may give up at any time. What to authenticate with is open.

## PopClient.tla

The client, the source that the daemon calls (`PopService::Source`), the buffer
of writes before the store, the transport and a POP3 server. Handlers call each
other synchronously: a completion reported from inside `nextAction` may start
the next mail check, which opens a connection, before `nextAction` goes on. Each
handler is therefore an operator from a state to a state, and the actions apply
them to `Now`. `nextAction` takes one step per case, during which nothing else
runs (`client.running`).

| Model | Code |
|---|---|
| `client.status` | `status`; the cases are `Greeted` to `LogOut`, what is read in them `ReceivePlain` to `ReceiveGoodbye` |
| `client.numbers`, `newUids`, `obsolete`, `selection`, `left`, `uid` | `serverUidNumber`, `newUids`, `obsoleteUids`, the keys of `selectionMap` and those from `selectionItr` on, `messageUid` |
| `client.selected`, `deleting`, `pendingDeletes`, `limit` | the members; `limit` is what of a message is fetched (`partialContent`, the size limit of the account) |
| `client.timer` | `inactiveTimer` is running |
| `source.unavailable`, `checking`, `queued`, `deleting` | `_unavailable`, `_queuedMailCheckInProgress`, `_mailCheckQueued`, `_deleting` |
| `link` | the transport, with the server's session: the maildrop as it was at login and what is marked in it. A position is a rank in that maildrop |
| `mailbox` | the messages on the server between sessions |
| `client.existing` | the messages of `selectionMap` whose rows are still in the store |
| `store` | local messages (partial or whole), removal records, `QMailMessageBuffer`; the additions of a flush are one transaction, the updates another, and each fails as a whole (`Additions`, `Updates`). `refused` notes the messages whose last write has failed so |
| `handler` | what the daemon has asked and been told; `posted` is a completion in the event queue (`singleShot`) |

The server may refuse any command, the connection may break at any point,
operations are cancelled, the timers fire, the account's server is removed and
set again, and the daemon crashes, which loses all but store and server.
`QUIT` reaches the server or not.

## MailThreads.tla

The tables `mailmessages`, `mailmessageidentifiers`, `mailthreads`,
`missingmessages`, `missingancestors`, `mailsubjects` and `mailthreadsubjects`,
and `messageCache`. Each operation of the store is a transaction and one action:
`AddMessage`, `UpdateMetaData`, `UpdateContent`, the two bulk updates,
`RemoveMessages`, `RemoveFolder`, `RemoveThread`, `RemoveAccount`, and the purge
of entries that have waited too long.

| Model | Code |
|---|---|
| `MessagePredecessor` | `messagePredecessor`: the last reference that is present, else the latest earlier message with the subject |
| `IdentifyAncestors`, `NotBefore` | `identifyAncestors`: what waits for a message must not come before it already |
| `ResolveReferences`, `ResolveSubject` | `resolveMissingMessages`, by identifier and by subject |
| `MergeThreads` | its merge of the descendants' threads into that of the arrival |
| `AddThread`, `JoinThread`, `RecalculateThreads`, `CountUpdate` | the thread row and its counts |
| `FirstLeft` | `deleteMessages`: the nearest predecessor that is not deleted as well |
| `Metadata`, `Looked` | `QMailMessageMetaData(id)`: the cache first, then the table |

A mail is its identifier, its references, its base subject, whether it is an
answer, and its stamp. `Bare`, `Zone` and `Detaching` switch on messages added
without their content, a local time different from UTC, and programs that set
the predecessor themselves.

## ImapSync.tla

The strategies of `imapstrategy.cpp` for `synchronize`, `retrieveAll`,
`exportUpdates`, the update of flags, and `deleteMessages`. One command is under
way at a time; an action is the server's answer with all that the strategy does
until it has sent the next command (`Answer` and its cases). Between two answers
the user changes flags or removes messages, other clients act, the connection is
lost before or after the server has acted on the command, a command is refused,
or the daemon crashes.

| Model | Code |
|---|---|
| `server` | the flags of each message on the server, with `\Deleted` |
| `local[m].here`, `.elsewhere`, `.removed` | the status `Read`, `Important` and `ReadElsewhere`, `ImportantElsewhere`; `Removed` |
| `records` | the removal records |
| `client.todo`, `folder`, `box` | the mailboxes left, the current one, the one selected at the server |
| `client.found`, `conclusive` | `_seenUids`, `_unseenUids`, `_flaggedUids`, and whether their count agrees with EXISTS (`Consistent`) |
| `client.marks`, `removed`, `expunge`, `plan` | `_readUids` and the lists like it, `_removedUids`, `_expungeRequired`, and the lists of `exportUpdates` made at login |
| `client.retrieve` | `_retrieveUids`: what to preview, per folder |
| `stored` | `_storedReadUids` and the lists like it, `_storedRemovedUids`. They belong to the strategy and outlive its run |
| `reports` | the search results that `ImapUpdateMessagesFlagsStrategy` keeps between runs |

Lists are shorter than a batch, so one command covers a list. The write buffer
is left out: what is fetched is stored.

## Runs

The `handler` runs and `transmitted_twice` use `MCServiceHandler`, `smtp_dialog`
uses `MCSmtpClient`, the `store` runs `MCMailThreads`, the `imap` runs
`MCImapSync`; the `pop` runs use `PopClient` itself, whose constants are numbers
and flags. `Offered` selects the requests and events of a handler instance,
`Requests`, `Others` and `Faults` those of an IMAP instance.

| Run | Instance | Checks |
|---|---|---|
| `handler_queue` | 2 accounts with a source each, 3 actions of 2 processes, limits 2 and 1 as in `QMail`, 1 crash; retrieval, export, local operations, cancellation, mail checks, account changes, expiry | `TypeOK`, `ServiceExclusive`, `ConcurrencyLimited`, `ExpiryCovered`, `NoActionForgotten`, `CrashSafe`, `FailedHasFinished`, `RetrievalFlagged` |
| `handler_multi` | the same services, one of them mute; actions on both accounts at once, folder operations, local copies (which need no service), cancellation; limits 2 and 2, so that the device limit is the one that bites | `ServiceExclusive`, `ConcurrencyLimited`, `RetrievalFlagged`, `DispatchInOrder` |
| `handler_transmit` | 1 account with source and sink, 2 messages of which one needs preparation, 2 clients, 1 action of the server's own, cancellation, account changes | `ServiceExclusive`, `PreparationFirst`, `OnlySentLeavesOutbox` |
| `handler_liveness` | 2 accounts, 2 actions of one account each, 1 crash, limits 1 and 1 | `EveryActionEnds` |
| `smtp_dialog` | 2 batches of 3 messages: one in 2 chunks, one with a body and 2 recipients, one that addMail refuses; STARTTLS; the server's configuration may be removed; replies other than 250 in one or two lines | `TypeOK`, `ReportedIsAccepted`, `AcceptedIntact`, `NoStandstill`, `Released`, `ImplementsSink` |
| `pop_sessions` | 2 messages, one above the size limit, one there at the start; accounts that delete what was retrieved or not; 2 requests or mail checks; another client; a configuration that comes and goes; 1 crash | `ListingCurrent`, `DeletesOnlyHeld`, `DeleteDone`, `RetrieveDone` |
| `store_threads` | 3 messages out of 4 mails that answer each other, two of which name no other; inbox and trash, hidden messages; no cache | `ThreadExists`, `ResponseExists`, `NoCycle`, `ArrivalEndsWait`, `AncestorsKept` |
| `imap_sync` | 2 mails in one folder and 1 that arrives in another, read flags, another client at any moment, 1 incomplete search | `LiveKept`, `RecordKept`, `UnreadWasReadElsewhere` |
| `imap_recovery` | 1 mail in each of two folders, all requests but retrieveAll, another client between requests, 1 failure of any kind | `SynchronizationAgrees`, `PendingKept` |

The bounds are the smallest at which the interesting cases meet: two services
so that one is busy while the other is free, three actions so that one is
active, one skipped and one waiting behind it, two processes so that the
process limit and the device limit differ, two messages so that a batch can be
half sent, one crash. The queue is bounded by the number of actions. For the
client: two messages sent in different ways and in both orders, and two batches,
so that what one connection leaves behind meets the next. For POP: two messages,
so that a deletion shifts a position, and two operations, so that one inherits
the members of the other. For the store: three messages are a chain with a
middle that can arrive last or be removed first. (A cycle takes four, and clocks
that disagree: `store_cycle`.) For IMAP: a folder with two
mails, so that the counts of two searches can hide a change, and a second
folder, so that lists outlive a folder.
`CHECK_DEADLOCK FALSE` because the handler rests when all actions are done, the
clients when all batches or requests are; the store and IMAP runs check for it.
The safety runs use symmetry: actions of one process are alike, and so are two
accounts with the same services; of `ProcessOf` only equality matters. The
liveness run uses none.

Three runs state what a document, a comment or the schema says and find the
behaviour of the code that contradicts it:

| Run | The text says | The code does |
|---|---|---|
| `transmitted_twice` | a message successfully transmitted is moved to Sent | when the action expires, what was sent is not marked, and the next transmission sends it again |
| `pop_wrong_message` | "Only delete the messages that were specified" | a deletion over a new connection keeps the positions of the earlier session for messages that are no longer listed, and deletes what is at that position now |
| `store_cycle` | "Do not create a cycle - ensure that none of these messages is an ancestor of the new message" | a predecessor set by subject leaves the threads apart, and ancestors are looked for in one thread only: each of two mails that arrive late becomes an ancestor of the other |

Other departures met while modelling, each a behaviour of the models (the first
five of `ServiceHandler`, the sixth of `SmtpClient`, then `PopClient`,
`MailThreads` and `ImapSync`):

- an action on two accounts may fail on one and be reported Successful when the
  other completes (servicehandler.cpp:2854);
- the end of a preparation is reported as success while the transmission waits
  (2854; the comment at 1375 says that no signal is emitted);
- the queued transmission of an action that is cancelled during its preparation
  goes ahead (1286);
- a copy to a local folder succeeds and stays in the requests file (2126);
- the removal of an account may queue a request for the service it has just
  deleted (2809);
- each line of a 250 reply counts as a reply, so a reply to MAIL FROM in two lines
  makes the client report a message that the server does not have yet
  (smtpclient.cpp:401); `smtp_dialog` leaves 250 out of `MultiLine`;
- with deletions pending, QUIT is sent before the buffer is flushed; a crash in
  between loses a retrieved message (popclient.cpp:845, 921);
- a check that is cancelled leaves retrieved messages in the write buffer; the next
  check does not find them in the store and fetches them again; the flush then adds
  a message twice, which the store rejects together with all other additions of the
  batch (qmailstore_p.cpp:5854, 4636), while the DELE that follows each retrieval
  has been sent. QUIT makes that final: the message is lost, although the comment at
  popclient.cpp:844 wants it on the device before it is removed from the server.
  TLC shows it with 2 messages, 2 requests and an account that deletes what it has
  retrieved, as a violation of "every message that has arrived is on the server, in
  the store or in the buffer, unless a user has removed it";
- the inactivity timer of a connection goes on running when the connection fails,
  and may close the next one in the middle of a session (popclient.cpp:1268);
- a removal record is purged before the server has acknowledged the deletion
  (popclient.cpp:872);
- the thread of a predecessor is read from `messageCache` (qmailstore_p.cpp:8468),
  which a merge of threads does not touch: the new row may name a deleted thread.
  TLC shows it on the instance of `store_threads` with a cache of 4;
- when a message that was added as metadata is fetched and its predecessor, found by
  subject, is the one it has, its metadata name the thread of the predecessor and
  its row its own; the merge then takes the thread of the row for obsolete, moves
  its messages to where they are, and deletes it (8602). TLC shows it with three
  messages, an answer that names no mail, the answer to it and the mail that
  both come from, and `Bare = {TRUE, FALSE}`;
- after a lost connection the records of messages that were marked and never
  expunged are dropped by the next export, and the messages stay on the server
  (imapstrategy.cpp:2799);
- the update of flags uses the answers of its last run for a folder that has
  become empty, and marks read messages unread (imapstrategy.cpp:3423);
- a search for SEEN and one for UNSEEN between which two flags change in opposite
  directions have the expected count, and a live message is purged
  (imapstrategy.cpp:2716). It is fetched again by the next run;
- the fallback, a search for ALL, takes every message for unread (2722).

Some properties hold only where they are checked, and the code is why.
`CrashSafe` and `EveryActionEnds` need actions with one request and one
service: the first completion removes an action from the requests file even
when other services still work for it, so a crash after that is never reported.
`NoActionForgotten` needs services that answer a cancellation.
`FailedHasFinished` fails when one of several services fails. `DispatchInOrder`
holds without the server's own requests, which call sources they did not wait
for. `AcceptedIntact` fails with messages sent by reference to an external
location, because chunks left over from a failed transfer go out before the
reference. `ImplementsSink` fails if an account without a server is given one:
the messages of the attempts without a server are still in the list, and go out
twice. `NoStandstill` begins after the greeting, which the rest of an
earlier connection's multi-line reply can hide. `ListingCurrent` and
`DeletesOnlyHeld` say nothing of selected messages over a new connection,
where `pop_wrong_message` shows the opposite. `store_threads` has no cache: what it
checks is the logic of the tables. A stale entry of `messageCache`, which the store
reads inside its transactions and an update writes back, breaks `ThreadExists` and
then the predecessors too (`ResponseExists`, `AncestorsKept`). Without a cache
`ThreadExists` needs that messages are added with their headers, and
`ResponseExists`, `NoCycle` and `AncestorsKept` that the clocks of the senders agree
and that no program sets predecessors itself; the mails of `store_threads` are such.
`RecordKept` fails after a lost connection, and `PendingKept` after a refused
STORE, which the client passes over as if it had been done;
`UnreadWasReadElsewhere` fails with the update of flags. `LiveKept` is checked
with another client that sets flags and does not clear them. That
`SynchronizationAgrees` holds all the same says that the next undisturbed
synchronization repairs what a failure has left, save for removals.

### Fairness

`FairSpec` assumes that dispatchRequest runs when posted and runs to its end
(one thread, no blocking), that time passes (`Elapse`), that a pending expiry
timer fires, and that reportFailures runs. The last three are strong fairness:
other events may come between, but Qt delivers every timer that is due. Nothing
is assumed of the services. A service that reports progress for ever keeps its
action alive for ever, in the code as in the model, so `EveryActionEnds` has
the premise that progress reports stop. The other runs check safety and assume no
fairness. In SMTP, after the greeting the client has no timer, and a silent server is left to the
daemon's expiry, which is a `CancelTransfer` of that model.

## Proofs

Eight modules hold proofs, each about the specification as TLC runs it. What they
state holds for all sets of accounts, services, actions, messages, chunks and
recipients, all limits and bounds, and all instances that satisfy the hypothesis
in the third column.

| Theorem | States | If | Rests on |
|---|---|---|---|
| *`ServiceHandlerProofs.tla`* | | | |
| `TypeCorrect` | `TypeOK` | | one lemma per group of actions; `KeptEntries`, `TouchEntries`, `RemoveAtEntries` for the lists |
| `LimitsRespected` | `ConcurrencyLimited` | | `OrdinaryStep`, `DispatchStep` |
| `ExpiryCoversActive` | `ExpiryCovered` | | `OrdinaryStep`, `DispatchStep`, `TouchFollows`, `PruneFollows` |
| `ServicesExclusive` | `ServiceExclusive` | | `QueueInv`, `OrdinaryDetaches`, `DispatchExclusive` |
| `PreparationGoesFirst` | `PreparationFirst` | | `QueueInv`, `NoneBefore` |
| *`ServiceHandlerEffects.tla`* | | | |
| `OutboxKept` | `OnlySentLeavesOutbox` | | `SentDelivered`, `OutboxStep` |
| `RetrievalStaysFlagged` | `RetrievalFlagged` | | `Retrieving`, `ServicesExclusive` |
| `DispatchedInOrder` | `DispatchInOrder` | no transmissions and no changes of folders are offered | `SkippedBlocked`, `AwaitedInOrder` |
| *`ServiceHandlerReports.tla`* | | | |
| `CrashReported` | `CrashSafe` | no request concerns several accounts | `OneService`, `QueueWellMade` |
| `FailedIsOver` | `FailedHasFinished` | the same; no message is prepared by another account | `Accounted`, `OneRequest` |
| `NothingForgotten` | `NoActionForgotten` | the same; no changes of folders; every service answers a cancellation; at most one crash | `Served`, `CrashNoted`, `Departures` |
| *`SmtpClientProofs.tla`* | | | |
| `TransferReleases` | `Released` | | `Tidy`, `FailureReleases`, `NextActionTidy` |
| `TypesKept` | `TypeOK` | | `WellTyped`, `GoodTurn` |
| `ClientIsSink` | `ImplementsSink` | a removed configuration is not set again | `BatchKept`, `StepOfSink` |
| `AcceptedWhole` | `AcceptedIntact` | no message is sent by reference | `StreamInv` |
| *`SmtpFlowProofs.tla`* | | | |
| `DialogGoesOn` | `NoStandstill` | 250 and 251 come in one line | `FlowInv` |
| `ReportedWasAccepted` | `ReportedIsAccepted` | both of these | `FlowInv`, `StreamInv`, `Answered` |
| *`PopClientProofs.tla`* | | | |
| `ListingStaysCurrent` | `ListingCurrent` | | `PopInv`, `RankOnto` |
| `MarksOnlyHeld` | `DeletesOnlyHeld` | | `SoundKept`, `MarksOne`, `CreateFields` |
| `DeletionDone` | `DeleteDone` | | `SoundKept`, `NextDeleted`, `OperationEnds` |
| `RetrievalDone` | `RetrieveDone` | | `SoundKept`, `SelectedRequested`, `FlushStore` |
| *`MailThreadsProofs.tla`* | | | |
| `ThreadsExist` | `ThreadExists` | no cache; all messages are added with their headers, or no mail has a subject and no program sets predecessors | `BecameNamed`, `BecameThreaded` |
| `ResponsesExist` | `ResponseExists` | no cache; the clocks agree or no mail has a subject; no program sets predecessors | `SoundKept` |
| `NoCycles` | `NoCycle` | the same | `SoundKept`, `NoLoop` |
| `AncestorsStay` | `AncestorsKept` | the same | `SoundKept`, `RelinkedChains` |
| `ArrivalsEndWaits` | `ArrivalEndsWait` | no cache | `TablesKept`, `ResolveArrival` |
| *`ImapSyncProofs.tla`* | | | |
| `ReadStaysRead` | `UnreadWasReadElsewhere` | no update of flags; other clients do not clear flags | `Base`, `StepKeeps` |
| `LiveStays` | `LiveKept` | the same; other clients remove nothing; if messages are deleted, no refusals and no `\Deleted` from elsewhere | `Found`, `Deleting`, `Complete` |
| `RecordsStay` | `RecordKept` | no update of flags; other clients deliver and set flags only; no lost connection and no refusal | `Found`, `Removing` |
| `PendingStays` | `PendingKept` | | `Sound`, `StoreSound`, `NotedHolds` |
| `SynchronizationCompletes` | `SynchronizationAgrees` | | `Sound`, `ResultsSound`, `FoundSettled`, `AsMany` |

Assumptions: those named in the modules and no others. Sources and sinks are
disjoint and each account has at most one of each; action identifiers of clients
and of the server differ; there are finitely many actions, and finitely many
messages in an outbox; POP messages are numbered, and IMAP mails finitely many;
identifiers of mails are positive numbers, or 0 for none, and stamps are integers.

The hypotheses are not conveniences of the proofs. Each leaves out a behaviour of
the code for which the property is false: the first of several services to
complete takes an action out of the requests file; a failed preparation leaves the
transmission queued; a folder operation on an account without a source is queued
for no service, so nobody completes it, and if a source appears meanwhile it is
called without having been waited for; a mute service, and a second crash before
reportFailures, lose an action; the server's own transmissions call sources that
they have not waited for; `addMail` without a server leaves its message in the
list; the reference to an external message goes out after the chunks of a failed
transfer; the first line of a reply 250 counts for all of it; between the search
for seen messages and that for unseen ones another client may clear a flag, so
that a message is in both, or remove one message while another arrives, so that the
counts agree and one is missing; a refused STORE counts as done, so that what it
named is dropped while it is on the server; the lists of what has been stored
outlive a lost connection, and the search results of the update of flags its run;
`messageCache` is stale inside a transaction that merges threads; a message
without headers waits for nothing and is waited for by none until its content is
fetched, when row and metadata may name different threads; a mail from a slow
clock, or a local time ahead of UTC, makes an earlier mail by its stamp a later
one in the conversation, and a program can set any predecessor. "The clocks agree"
(`ClocksAgree`) says that a mail has a later stamp than what it refers to and that
local time is not ahead of UTC; it is about the mails, not about their order of
arrival.
Two are wider than need be: `ReportedWasAccepted` excludes external messages
because it uses `StreamInv`, which does not hold with them, and `RecordsStay` the
update of flags because it uses `Base`. The runs check these properties on
instances that satisfy the hypotheses, with one exception: `handler_multi` offers
folder operations, and no changes of accounts. For such instances there is
`AwaitedInOrder`, which proves `DispatchInOrder` of every behaviour in which the
servicers call only what they have waited for (`CallsAwaited`).

The arguments, in short:

- `TypeOK` is inductive; the proof has one case per action.
- Limits and expiry. Every step but `Dispatch` is `Steady`: it activates
  nothing, keeps the entries of active actions on the expiry list (moving an
  entry to the end and dropping entries up to the first active one lose none)
  and keeps a timer where the list is not empty. `Dispatch` activates at most
  the current action, below both limits, and appends it to the list.
- `ServiceExclusive` is not inductive by itself. When an action is dispatched
  its entry in `mActiveActions` is overwritten; services left over from an
  earlier request of the same action would stay associated with it and be
  waited for by nobody. That this cannot happen is a fact about the queue, and
  `QueueInv` states it. `Adjacent`: requests of one action are next to each
  other, and the later needs all that the earlier needs (the transmission has
  the sources of the preparation as preconditions). `Known`: queued and active
  actions have been issued, so a new action is neither. `Fits`: an action only
  holds services that its queued requests wait for. `Skipped`: if dispatchRequest
  has passed an earlier request of the current action, that request still could
  not start. So when a request is dispatched all it needs is free, the
  action holds nothing, and its earlier request is gone. Every other step only
  detaches services (`Detached`), on both sides at once. How the queue changes
  is one lemma (`QueueStep`): a step removes requests, or appends those of an
  action never seen before, or both.
- `PreparationFirst` follows from `Skipped` and `Adjacent`.
- `OnlySentLeavesOutbox`: what is in `mSentIds` has been delivered
  (`SentDelivered`), and only `FlushSent` and the removal of an account take
  anything out of the Outbox.
- `RetrievalFlagged`: a service that fails or ends clears the flag of its account
  unless another active action retrieves for it. `Retrieving` adds what that needs
  to be inductive: queued and active retrievals name sources only, and an account
  has one source, which by `ServiceExclusive` works for one action.
- `DispatchInOrder`: what dispatchRequest has passed stays blocked until it
  reaches the end (`SkippedBlocked`). A dispatch that fails inside the call could
  free a service, but only one that the request has waited for, and which was
  therefore free (`CallsAwaited`).
- `CrashSafe`: an action leaves the requests file when one of its services
  reports its end. If it has but one (`OneService`), it is then neither queued nor
  active, or has been reported.
- `FailedHasFinished`: an action has one request or is active, not both
  (`OneRequest`), so an end that is reported ends all there is; and since what is
  reported has been issued (`Accounted`), it never comes back.
- `NoActionForgotten`: whenever an action leaves the queue without becoming active,
  or a service leaves its action, that step reports its end (`Departures`); an
  active action without a service has been reported (`Served`); and after a crash
  the requests file has what was under way (`CrashSafe`).
- `Released` needs `Tidy`: case Quit does not look at the temporary file, so it
  must be known that a file is open in status Body only; the end of the
  handshake restarts the dialog, so it must belong to status TLS; and nothing
  may be read when no transfer is running.
- `TypeOK` of the client says that `mailItr` is a position of the list. It needs
  that inside a transaction the position is not yet the end, and that after a
  chunk there are chunks left to remove (`WellTyped`).
- The refinement maps `sending` and the messages not yet reported to the state of a
  sink. `BatchKept`: while a transfer runs the list is the batch, without
  repetitions, and what has been reported is exactly what comes before `mailItr`.
  Every step is then a step of `MessageSink` or leaves its state alone.
- `AcceptedIntact` is about what is under way. `StreamInv`: the commands written
  and not yet handled continue what the server has of its transaction; parts
  follow each other (`Follows`), belong to the message of the last MAIL, and the
  first fits the server's state (`Fits`). `Written` ties the end of the stream to
  the position of the client. The server may refuse any command, and what follows
  then belongs to no transaction.
- `NoStandstill`: the client counts responses. `FlowInv` says how the count relates
  to the lines that have arrived and the commands that have not been handled
  (`Flow`): the lines are `g` good responses, the last of them possibly in several
  lines, then perhaps one that ends the transfer, and unless that one is there
  `g` and the commands add up to what the client waits for (`Expected`). So if
  there are neither lines nor commands, nothing is waited for.
- `ReportedIsAccepted` joins the two: when all the responses of status Sent have
  arrived and none is fatal, no command is left (`FlowComplete`), so by `Written` the server
  has handled the last part of the message at `mailItr`, and has accepted it
  (`Answered`).
- `ListingCurrent`: `Positions` extends it to the whole session, from its opening.
  It is inductive only with three more facts. What is on the wire names messages
  of the session's maildrop (`Formed`), so that a UIDL line gives a position of
  that session; for the server's side `RankOnto` shows that every position of a
  listing belongs to a message, a counting argument. A test of the connection does
  not clear the positions, and never gets as far as to use them (`Tested`). And an
  operation on a selection, whose positions may be old, never turns into a listing
  while it runs (`Requested`): only `setOperation` could do that, the daemon has
  one request at a time, and no completion of an earlier one is still in the
  event queue.
- The other three of `PopClient` follow from one invariant, `Sound`, and from what
  each step does (`Proper`). `Deleting` and `Retrieving` say how far the operation
  under way has come with each selected message, at every status. A message of a
  deletion is gone, with no addition of it in the buffer that could bring it back
  (`Absent`), or is still in `obsoleteUids`, or its DELE is under way. A message of
  a retrieval is still to come, or it is `Complete`: the last write to it that is in
  the buffer is one of the whole message, or there is none that can take effect and
  what is in the store is whole. `Complete` survives whatever may come between: a
  flush (`FlushStore`: a transaction that succeeds leaves the last item's content,
  one that fails notes all its messages as refused), a removal by the user, which
  makes updates miss their row, and the next message (`AppendStore`). For that no
  message may have two rows (`StoreTyped`): what is to be added is not in the store,
  what is to be updated is, or has lost its row. `Locked`: no mail check begins
  while such an operation runs, and no posted completion ends it instead.
  `Asking`: `obsoleteUids` and the removal records name only what somebody has asked
  for. `Received`: after the end of a message fetched by RETR the message is held or
  refused, whatever the flush inside `createMail` has done; and a current position
  belongs to one message (`RankOne`), so the DELE that follows marks that message
  and no other (`MarksOne`).
- The store. Every step is one of five kinds (`Became`): a message is added or
  updated, flags or folders change, messages are removed, or nothing changes. The
  operations are cut into parts, each with a lemma of what it changes. A chain of
  predecessors is defined by recursion over the number of steps; it is the least
  set that has its first message and is closed under predecessors (`ChainLeast`,
  `ChainClosed`), and this takes the induction. That the chain has an end
  (`ChainClosed`) is a counting argument: each step that does not reach it adds a
  message.
- No cycles: `Acyclic` says that every set of messages has one whose predecessor is
  outside. If the clocks agree, a predecessor always has an earlier stamp
  (`Ordered`): by reference that is what the clocks say, by subject the code
  compares stamps, and a removal only goes further back. If mails have no subjects,
  a conversation is always in one thread (`SameThread`), so identifyAncestors sees
  all that comes before a message. That is needed and given at once: a merge puts
  descendants into the thread of their predecessor, and the check for cycles is
  right because earlier merges have done so (`CalledNotBefore`).
- `ThreadExists`: a merge deletes every thread but that of the message
  it is for, so the thread in the metadata must be that of the row (`ResolveThere`).
  It is when a message is added. In an update it is if the identifier is not new
  (`Named`, kept if no message is added without headers) or if predecessor and
  message were in one thread before (`Threaded`).
- `AncestorsKept`: `deleteMessages` gives each message the first predecessor that is
  left (`FirstLeftStep`), so going along what is left is going along all and
  skipping what is gone (`RelinkedChains`).
- `ArrivalEndsWait`: what still waits for an arrival has been left out as an ancestor
  of its predecessor. The threads are merged after that, but what is an ancestor
  within one thread stays one (`ChainKept`).
- Three of `ImapSync` are about what a client concludes from several answers
  while the server goes on changing. `Base`: while searches are under way they are
  about the selected folder, what has been found as seen is seen on the server or
  gone, and nothing is found as both seen and unseen. So `NowUnread` only takes
  what the server has unread. `Found`: what has been found is still there. If the
  results are conclusive, as many messages have been found as the mailbox holds;
  by `Complete`, a counting argument, what has not been found is then not on the
  server, and may be purged. `Deleting`: the messages of a deletion are off the
  server, or carry `\Deleted` and CLOSE is under way. `Removing`: a message in
  `_storedRemovedUids` that is on the server is named by the STORE under way with
  an expunge to follow, or EXPUNGE is under way; so the records are dropped after
  the message. Each handler has a lemma of what it changes (`UidStored`,
  `MetaDataRows`), each action one of what it keeps, and `StepKeeps` combines
  them.
- The other two of `ImapSync` are about what a synchronization achieves, and need
  no hypothesis: that nothing has failed, or that nobody has interfered, is said
  in the properties. Their invariant is `Sound`. `Exact`: the searches so far have
  found just what the mailbox holds; so the counts agree (`AsMany`) and the search
  for all messages is not reached. `Sent`: a `_stored` list holds what the
  pending STORE names and nothing else, so what handleUidStore notes as exported
  has been stored (`NotedHolds`), whatever the user has changed meanwhile.
  `Synced`: in the folders that the synchronization is through with every message
  is `Settled`, that is, it is in the store, and each flag is the server's or is
  among the changes that the STOREs still to come export (`Owed`), or it is not in
  the store and is among what is still to be fetched (`Wanted`). When the request
  ends nothing is owed or wanted. Leftovers of an earlier failure in the `_stored`
  lists are noted as exported and do no harm: a search compares what is here with
  the server afresh (`FoundSettled`). Each handler has a lemma (`PreviewSound`,
  `FolderSound`, `StoreSound`, `ResultsSound`), each answer one (`LoginOn` to
  `SearchedOn`), and `StepSound` combines them.

Only model-checked:

- `EveryActionEnds`, as liveness under fairness is out of the prover's reach;
- the properties of `MailThreads` with a cache: three of the five are then false.

Every other property a passing run checks is stated by a theorem above, under
the hypotheses its row gives.

## Plan

Done: `ServiceHandler` but for search, `SmtpClient` with `MessageSink`,
`PopClient`, `MailThreads`, `ImapSync`.

Left, in this order:

1. `ServiceAction`: the client's view, composed with the reports of
   `ServiceHandler`; each action ends at most once for its user.
2. The strategies of IMAP that copy and move, the queue of strategies and the
   push connections of `ImapService::Source`.
3. The folder tables of the store; `QMailDisconnected` over them.
4. Local and remote search of one action; the fetching of SMTP capabilities with
   its retries; the failure counter of a message.
5. QCop channels; the content manager's durability.

## Not modelled

More than half of the implementation is code without a state machine to check:
MIME parsing and encoding (`qmailmessage.cpp`, `qmailcodec.cpp`), the generation
of SQL from keys and sort orders, item models, widgets, settings editors, the
example programs, and crypto plugins (calls into GPGME). A model of it would be a
copy. What has a state that several parties change is listed in the plan as far as
it is not modelled. The share of lines the models cover is therefore small; what
they cover is where requests, services, server and store meet.
