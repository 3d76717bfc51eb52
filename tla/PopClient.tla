------------------------------ MODULE PopClient ------------------------------
(***************************************************************************)
(* The message source of the POP plugin: classes PopClient and             *)
(* PopService::Source of src/plugins/messageservices/pop, the buffer that  *)
(* stands before the mail store (QMailMessageBuffer), and a POP3 server    *)
(* whose maildrop other clients may change between two sessions.           *)
(*                                                                         *)
(* Messages are numbered in the order of their arrival; a position is a    *)
(* rank in the listing of one session.  The handlers call each other       *)
(* synchronously (a completion may start the next mail check from inside   *)
(* nextAction), so each is an operator from a state to a state: Now is the *)
(* state of the variables, Become(s) makes s the next one.                 *)
(*                                                                         *)
(* Left out: progress figures and texts, the sizes themselves, what is in  *)
(* a message (only how much of it is there is kept), the exchange of       *)
(* several authentication commands (one stands for all), the encryption of *)
(* the connection, and completionList, which nothing fills.                *)
(***************************************************************************)
EXTENDS Integers, Sequences, FiniteSets, FiniteSetsExt, SequencesExt

CONSTANTS
  MaxUid,          \* bound: messages that ever arrive at the server
  Initial,         \* how many of them are there at the start
  Large,           \* those above the size limit of the account
  CanDelete,       \* canDeleteMail of the account
  DeleteRetrieved, \* the values deleteRetrievedMailsFromServer may have
  OtherClient,     \* another client may remove messages from the server
  Configurations,  \* what an update may make of configured
  MaxRequests,     \* bound: requests of the daemon and mail checks
  MaxCrashes       \* bound: crashes of the daemon

Uid == 1 .. MaxUid

ASSUME PopAssumption ==
  /\ MaxUid \in Nat /\ Initial \in 0 .. MaxUid /\ Large \subseteq Uid
  /\ CanDelete \in BOOLEAN /\ OtherClient \in BOOLEAN /\ DeleteRetrieved \subseteq BOOLEAN
  /\ Configurations \subseteq BOOLEAN
  /\ MaxRequests \in Nat /\ MaxCrashes \in Nat

VARIABLES
  client,    \* the members of PopClient
  source,    \* the members of PopService::Source
  link,      \* the transport, and the server's session at its other end
  mailbox,   \* the messages on the server
  store,     \* the local messages, removal records and buffered writes
  handler,   \* what the daemon knows of the service
  account,   \* whether a server is configured, and when it was synchronized
  history    \* arrivals, requests and crashes so far; what the user removed

vars == <<client, source, link, mailbox, store, handler, account, history>>

Now == [client |-> client, source |-> source, link |-> link, mailbox |-> mailbox,
        store |-> store, handler |-> handler, account |-> account]

Become(s) ==
  /\ client' = s.client /\ source' = s.source /\ link' = s.link /\ mailbox' = s.mailbox
  /\ store' = s.store /\ handler' = s.handler /\ account' = s.account

-----------------------------------------------------------------------------
(* The server *)

\* The position of a message in a listing of the messages in drop.
Rank(u, drop) == Cardinality({v \in drop : v <= u})

At(pos, drop) == {u \in drop : Rank(u, drop) = pos}

Line(kind, uid) == [kind |-> kind, uid |-> uid]
Ok  == Line("+OK", 0)
Err == Line("-ERR", 0)
End == Line(".", 0)

\* The messages of a set in the order of their arrival.
InOrder(S) == [k \in 1 .. Cardinality(S) |-> CHOOSE u \in S : Rank(u, S) = k]

\* The listing is read line by line, in the order of the positions.
Listing(drop) == [k \in 1 .. Cardinality(drop) |-> Line("item", InOrder(drop)[k])]

\* The answers the server may give to a command; arg is a position.
Answers(command, arg, l) ==
  LET there == At(arg, l.drop) \ l.marked
  IN CASE command = "UIDL"            -> {<<Err>>, <<Ok>> \o Listing(l.drop) \o <<End>>}
       [] command \in {"CAPA", "LIST"} -> {<<Err>>, <<Ok, End>>}
       [] command \in {"RETR", "TOP"} -> {<<Err>>} \cup {<<Ok, End>> : u \in there}
       [] command = "DELE"            -> {<<Err>>} \cup {<<Ok>> : u \in there}
       [] OTHER                       -> {<<Ok>>, <<Err>>}

\* The session the server is left with after its answer.
Marked(command, arg, answer, l) ==
  IF command = "DELE" /\ answer = <<Ok>> THEN l.marked \cup At(arg, l.drop) ELSE l.marked

NoSession == [state |-> "none", wire |-> <<>>, drop |-> {}, marked |-> {}]

\* QUIT makes the deletions of the session final, if it arrives.
Quit(s, arrives) ==
  IF arrives THEN [s EXCEPT !.mailbox = @ \ s.link.marked, !.link.marked = {}] ELSE s

-----------------------------------------------------------------------------
(* PopClient: connections *)

InUse(s) == s.link.state \in {"opening", "up"}

\* closeConnection
CloseConnection(s, arrives) ==
  LET q == IF s.link.state = "up" /\ s.client.status # "Exit" THEN Quit(s, arrives) ELSE s
  IN [q EXCEPT !.client.timer = FALSE,
               !.client.status = IF s.link.state = "up" THEN "Exit" ELSE @,
               !.link = NoSession]

\* QMailTransport::open, after createTransport.  A socket that is open stays
\* as it is.
Open(s) ==
  [s EXCEPT !.client.status = "Init",
            !.link = IF InUse(s) THEN @ ELSE [NoSession EXCEPT !.state = "opening"]]

\* PopService::Source::retrievalTerminated
RetrievalTerminated(s) ==
  [s EXCEPT !.source.unavailable = FALSE, !.source.checking = FALSE, !.source.queued = FALSE,
            !.handler.available = @ \/ s.source.checking]

\* PopService::errorOccurred; the daemon ends its request.
ErrorOccurred(s) ==
  [RetrievalTerminated(s) EXCEPT !.handler.request = "none", !.handler.success = FALSE]

\* operationFailed
OperationFailed(s) ==
  ErrorOccurred([s EXCEPT !.link = IF InUse(s) THEN NoSession ELSE @, !.client.running = FALSE])

NoUids == [u \in Uid |-> 0]

\* A mistake the runs detect: the lists of the last session survive.
KeepsLists(c) == IF c.selected THEN c ELSE [c EXCEPT !.newUids = <<>>, !.obsolete = <<>>]

\* newConnection clears the lists, unless it is to work on a selection.
ClearLists(c) ==
  IF c.selected THEN c
  ELSE [c EXCEPT !.numbers = NoUids, !.newUids = <<>>, !.obsolete = <<>>]

\* uidlIntegrityCheck with deleting set: only the selection is deleted.
DeleteSelection(c) ==
  [c EXCEPT !.newUids = <<>>, !.obsolete = InOrder(c.selection), !.left = {}]

\* newConnection, with the configuration reloaded.
NewConnection(s, arrives) ==
  LET c == s.client
      reuse == s.link.state = "up" /\ c.selected
      a == IF s.link.state = "up" /\ ~c.selected THEN CloseConnection(s, arrives)
           ELSE IF reuse THEN [s EXCEPT !.client.timer = FALSE] ELSE s
      b == [a EXCEPT !.client = ClearLists([a.client EXCEPT !.testing = FALSE,
                                                           !.pendingDeletes = FALSE])]
  IN IF ~s.account.configured
     THEN OperationFailed([a EXCEPT !.client.testing = FALSE, !.client.pendingDeletes = FALSE,
                                    !.client.status = "Exit"])
     ELSE IF reuse
     THEN [b EXCEPT !.client = [IF c.deleting THEN DeleteSelection(b.client) ELSE b.client
                                EXCEPT !.status = "RequestMessage", !.running = TRUE]]
     ELSE Open(b)

\* testConnection
TestConnection(s, arrives) ==
  LET a == CloseConnection([s EXCEPT !.client.testing = TRUE, !.client.pendingDeletes = FALSE],
                           arrives)
  IN IF s.account.configured THEN Open(a)
     ELSE OperationFailed([a EXCEPT !.client.status = "Exit"])

\* setOperation; findInbox makes the folder if there is none.
SetOperation(s, limit) ==
  [s EXCEPT !.client.selected = FALSE, !.client.deleting = FALSE, !.client.limit = limit,
            !.store.inbox = TRUE]

\* setSelectedMails
SetSelectedMails(s, uids) ==
  [s EXCEPT !.client.selected = TRUE, !.client.selection = uids, !.client.existing = uids,
            !.client.left = uids]

-----------------------------------------------------------------------------
(* The store and the buffer before it *)

\* messageProcessed, for the messages in uids: Source::messageActionCompleted
\* reports those that are in the store as deleted, if a deletion is under way.
MessageProcessed(s, uids) ==
  IF s.source.deleting
  THEN [s EXCEPT !.handler.told = @ \cup {u \in uids : s.store.local[u] # "none"}]
  ELSE s

\* The identifiers of the rows go with them: neither the selection nor an
\* update that is still in the buffer will find its message.
RemoveLocal(s, uids) ==
  LET Miss(item) == [item EXCEPT !.lost = @ \/ (~item.add /\ item.uid \in uids)]
  IN [s EXCEPT !.store.local = [u \in Uid |-> IF u \in uids THEN "none" ELSE @[u]],
               !.store.buffer = [k \in DOMAIN @ |-> Miss(@[k])],
               !.client.existing = @ \ uids]

\* Writing the items ks of the buffer b: a later one replaces an earlier one.
Write(local, b, ks) ==
  [u \in Uid |-> LET mine == {k \in ks : b[k].uid = u}
                 IN IF mine = {} THEN local[u] ELSE b[Max(mine)].what]

\* addMessages and updateMessages are one transaction each.  A message cannot
\* be added twice, nor updated when its row is gone: then none is written.
Additions(s) ==
  LET b    == s.store.buffer
      adds == {k \in DOMAIN b : b[k].add}
  IN IF \A k \in adds : /\ s.store.local[b[k].uid] = "none"
                        /\ \A j \in adds : b[j].uid = b[k].uid => j = k
     THEN adds ELSE {}

Updates(s) ==
  LET puts == {k \in DOMAIN s.store.buffer : ~s.store.buffer[k].add}
  IN IF \A k \in puts : ~s.store.buffer[k].lost THEN puts ELSE {}

\* messageFlush: the additions, then the updates.  The callbacks are called
\* whether the store has taken the messages or not.
Flush(s) ==
  LET b       == s.store.buffer
      refused == DOMAIN b \ (Additions(s) \cup Updates(s))
  IN MessageProcessed(
       [s EXCEPT !.store.local = Write(Write(@, b, Additions(s)), b, Updates(s)),
                 !.store.refused = @ \cup {b[k].uid : k \in refused},
                 !.store.buffer = <<>>, !.store.timer = TRUE],
       {b[k].uid : k \in {j \in DOMAIN b : b[j].what = "whole"}})

\* A mistake the runs detect: a completed retrieval is left in the buffer.
LeavesPending(s) == s

\* flush
FlushPending(s) == IF s.store.buffer = <<>> THEN s ELSE Flush(s)

\* The command is RETR, not TOP.
Whole(c, u) == c.limit = "all" \/ (c.limit = "auto" /\ u \notin Large)

\* createMail: an update, if the message is one of the selected and has still
\* the row it had then; if not, it is added in the place of any that is there.
\* The buffer is flushed at once if its timer is not running, or if it is full
\* or overdue.
CreateMail(s, full) ==
  LET u      == s.client.uid
      update == u \in s.client.existing
      item   == [uid |-> u, add |-> ~update, lost |-> FALSE,
                 what |-> IF Whole(s.client, u) THEN "whole" ELSE "header"]
      a == IF update THEN s ELSE RemoveLocal(s, {u})
      b == [a EXCEPT !.store.buffer = Append(@, item), !.store.refused = @ \ {u}]
  IN IF full \/ ~s.store.timer THEN Flush(b) ELSE b

-----------------------------------------------------------------------------
(* PopService::Source: completions and mail checks *)

\* retrieveAll
RetrieveAll(s, arrives) ==
  [NewConnection(SetOperation(s, "none"), arrives) EXCEPT !.source.unavailable = TRUE]

\* queueMailCheck
QueueMailCheck(s, arrives) ==
  IF s.source.unavailable THEN [s EXCEPT !.source.queued = TRUE]
  ELSE RetrieveAll([s EXCEPT !.source.queued = FALSE, !.source.checking = TRUE,
                             !.handler.available = FALSE], arrives)

\* retrievalCompleted; the daemon ends its request.
RetrievalCompleted(s, arrives) ==
  LET a == [s EXCEPT !.source.unavailable = FALSE, !.source.checking = FALSE,
                     !.source.deleting = FALSE,
                     !.handler.request = "none", !.handler.success = TRUE,
                     !.handler.available = @ \/ s.source.checking]
  IN IF s.source.queued THEN QueueMailCheck(a, arrives) ELSE a

\* PopClient::retrieveOperationCompleted, and deactivateConnection if there is
\* a transport when the receivers of its signals have returned.
RetrieveOperationCompleted(s, arrives) ==
  LET f == FlushPending(s)
      a == IF s.client.selected THEN f ELSE [f EXCEPT !.account.synchronized = @ + 1]
      b == RetrievalCompleted(a, arrives)
  IN IF b.link.state = "none" THEN b
     ELSE [b EXCEPT !.client.timer = TRUE, !.client.selected = FALSE]

-----------------------------------------------------------------------------
(* nextAction: it calls itself until it has sent a command or has to wait   *)
(* for a line; each call is a step, and nothing comes between them.         *)

Running(st) == client.running /\ client.status = st

GoOn(s, st) == Become([s EXCEPT !.client.status = st])

Await(s, st) == Become([s EXCEPT !.client.status = st, !.client.running = FALSE])

Send(s, st, command, arg) ==
  \E answer \in Answers(command, arg, s.link) :
    Become([s EXCEPT !.client.status = st, !.client.running = FALSE,
                     !.link.wire = @ \o answer,
                     !.link.marked = Marked(command, arg, answer, s.link)])

Greeted == Running("Init") /\ Send(Now, "CapabilityTest", "CAPA", 0)

CapabilitiesFollow == Running("CapabilityTest") /\ Await(Now, "Capabilities")

\* Capabilities, StartTLS and Connected, on an unencrypted connection.
LogIn == Running("Capabilities") /\ Send(Now, "Auth", "PASS", 0)

LoggedIn ==
  /\ Running("Auth")
  /\ IF client.testing THEN GoOn(Now, "Done") ELSE Send(Now, "Uidl", "UIDL", 0)

DataFollows ==
  \/ Running("Uidl") /\ Await(Now, "UidList")
  \/ Running("List") /\ Await(Now, "SizeList")
  \/ Running("Retr") /\ Await(Now, "MessageDataRetr")
  \/ Running("Top") /\ Await(Now, "MessageDataTop")

\* uidlIntegrityCheck: what is new on the server and what is to be deleted
\* there, from the last position to the first, and the removal records that
\* have become pointless.
UidlIntegrityCheck(s) ==
  LET c      == s.client
      listed == {u \in Uid : c.numbers[u] # 0}
      fresh  == {u \in listed \ s.store.records : s.store.local[u] = "none"}
      dead   == IF CanDelete THEN listed \cap s.store.records ELSE {}
  IN IF c.deleting THEN [s EXCEPT !.client = DeleteSelection(c)]
     ELSE IF c.selected THEN s
     ELSE MessageProcessed(
            [s EXCEPT !.client.newUids = @ \o Reverse(InOrder(fresh)),
                      !.client.obsolete = Reverse(InOrder(dead)),
                      !.store.records = @ \cap listed],
            s.store.records \ listed)

Listed ==
  /\ Running("UidList")
  /\ LET s == UidlIntegrityCheck(Now)
     IN IF s.client.newUids # <<>> THEN Send(s, "List", "LIST", 0)
        ELSE GoOn(s, "RequestMessage")

SizesKnown == Running("SizeList") /\ GoOn(Now, "RequestMessage")

\* What to do when there is nothing more to fetch.
NothingToFetch(s) == GoOn(s, IF s.client.obsolete # <<>> THEN "DeleteMessage" ELSE "Done")

Fetch(s, u) ==
  LET c == [s EXCEPT !.client.uid = u]
  IN IF Whole(s.client, u) THEN Send(c, "Retr", "RETR", s.client.numbers[u])
     ELSE Send(c, "Top", "TOP", s.client.numbers[u])

\* RequestMessage in a listing: the next of the new messages.
RequestNew ==
  /\ Running("RequestMessage") /\ ~client.selected
  /\ IF client.newUids = <<>> THEN NothingToFetch(Now)
     ELSE Fetch([Now EXCEPT !.client.newUids = Tail(@)], Head(client.newUids))

\* RequestMessage on a selection: the next that has a position; those before
\* it are marked as removed from the server.
RequestSelected ==
  /\ Running("RequestMessage") /\ client.selected
  /\ LET there == {u \in client.left : client.numbers[u] # 0}
         gone  == {u \in client.left : \A v \in there : u < v}
         s == MessageProcessed([Now EXCEPT !.client.left = @ \ gone,
                                           !.store.removed = @ \cup (gone \cap client.existing)],
                               gone)
     IN IF there = {} THEN NothingToFetch(s)
        ELSE Fetch([s EXCEPT !.client.left = @ \ {Min(there)}], Min(there))

\* A mistake the runs detect: a message is deleted when only its header is here.
DeletesAfterTop ==
  /\ client.status \in {"MessageDataRetr", "MessageDataTop", "DeleAfterRetr"} /\ client.running
  /\ IF account.deleteRetrieved /\ client.status # "DeleAfterRetr"
     THEN Send(Now, "DeleAfterRetr", "DELE", client.numbers[client.uid])
     ELSE GoOn(Now, "RequestMessage")

\* MessageDataRetr and MessageDataTop, when the message is in the buffer.
Fetched ==
  \/ /\ Running("MessageDataRetr") /\ account.deleteRetrieved
     /\ Send(Now, "DeleAfterRetr", "DELE", client.numbers[client.uid])
  \/ /\ Running("MessageDataRetr") /\ ~account.deleteRetrieved
     /\ GoOn(Now, "RequestMessage")
  \/ client.status \in {"MessageDataTop", "DeleAfterRetr"} /\ client.running
     /\ GoOn(Now, "RequestMessage")

\* DeleteMessage: the next of obsoleteUids with a position.  The removal
\* records of those taken from the list are purged; if the user has asked for
\* the deletion, the messages that have no position are removed locally.
DeleteMessage ==
  /\ Running("DeleteMessage")
  /\ LET there == {k \in DOMAIN client.obsolete : client.numbers[client.obsolete[k]] # 0}
         n     == IF there = {} THEN Len(client.obsolete) ELSE Min(there)
         u     == client.obsolete[n]
         taken == {client.obsolete[k] : k \in 1 .. n}
         gone  == {v \in taken : client.numbers[v] = 0}
         a == [Now EXCEPT !.client.obsolete = SubSeq(@, n + 1, Len(@)),
                          !.store.records = @ \ taken]
         s == IF client.deleting THEN RemoveLocal(a, gone) ELSE a
     IN IF there = {} THEN GoOn(s, "Done")
        ELSE Send([s EXCEPT !.client.uid = u, !.client.pendingDeletes = TRUE],
                  "Dele", "DELE", client.numbers[u])

\* A mistake the runs detect: the deleted message stays in the store.
KeepsDeleted == Running("Dele") /\ GoOn(MessageProcessed(Now, {client.uid}), "DeleteMessage")

\* Dele, when the server has agreed.
Deleted ==
  /\ Running("Dele")
  /\ GoOn(IF client.deleting
          THEN RemoveLocal(MessageProcessed(Now, {client.uid}), {client.uid})
          ELSE Now, "DeleteMessage")

\* Done: deletions need the end of the session; without them the connection
\* is kept.  The status is set after the completion has been reported.
Finish ==
  /\ Running("Done")
  /\ IF client.pendingDeletes THEN GoOn(Now, "Quit")
     ELSE \E arrives \in BOOLEAN : Await(RetrieveOperationCompleted(Now, arrives), "Quit")

LogOut ==
  /\ Running("Quit")
  /\ \/ Send(Quit(Now, TRUE), "Exit", "QUIT", 0)
     \/ Await(Now, "Exit")  \* the command is lost

NextAction ==
  \/ Greeted \/ CapabilitiesFollow \/ LogIn \/ LoggedIn \/ DataFollows \/ Listed \/ SizesKnown
  \/ RequestNew \/ RequestSelected \/ Fetched \/ DeleteMessage \/ Deleted \/ Finish \/ LogOut

-----------------------------------------------------------------------------
(* processResponse: one line from the server *)

Response == Head(link.wire)
Read == [Now EXCEPT !.link.wire = Tail(@)]
Waiting(statuses) ==
  ~client.running /\ link.state = "up" /\ link.wire # <<>> /\ client.status \in statuses

Proceed(s) == Become([s EXCEPT !.client.running = TRUE])

\* The greeting; what comes in Quit is ignored.
ReceivePlain == Waiting({"Init", "Quit"}) /\ Proceed(Read)

\* CAPA need not be supported.
ReceiveCapability ==
  /\ Waiting({"CapabilityTest"})
  /\ Proceed(IF Response.kind # "+OK" THEN [Read EXCEPT !.client.status = "Capabilities"] ELSE Read)

\* A list that the model has no use for, up to its end.
ReceiveList ==
  /\ Waiting({"Capabilities", "SizeList"})
  /\ IF Response = End THEN Proceed(Read) ELSE Become(Read)

\* The answer to a command that may fail.
ReceiveAnswer ==
  /\ Waiting({"Auth", "Uidl", "List", "Retr", "Top", "DeleAfterRetr", "Dele"})
  /\ IF Response.kind # "+OK" THEN Become(OperationFailed(Read)) ELSE Proceed(Read)

ReceiveUid ==
  /\ Waiting({"UidList"})
  /\ IF Response = End THEN Proceed(Read)
     ELSE IF Response.kind # "item" THEN Become(Read)
     ELSE Become([Read EXCEPT !.client.numbers[Response.uid] = Rank(Response.uid, link.drop)])

\* The data of the message, up to its end; it may not fit on the disk.
ReceiveMessage ==
  /\ Waiting({"MessageDataRetr", "MessageDataTop"})
  /\ \/ IF Response = End THEN \E full \in BOOLEAN : Proceed(CreateMail(Read, full)) ELSE Become(Read)
     \/ Become(OperationFailed(Read))

ReceiveGoodbye ==
  /\ Waiting({"Exit"})
  /\ Become(RetrieveOperationCompleted(CloseConnection(Read, FALSE), FALSE))

ProcessResponse ==
  \/ ReceivePlain \/ ReceiveCapability \/ ReceiveList \/ ReceiveAnswer
  \/ ReceiveUid \/ ReceiveMessage \/ ReceiveGoodbye

-----------------------------------------------------------------------------
(* Requests of the daemon.  It has one at a time, and none while the service *)
(* says that it is not available.                                           *)

Count == history' = [history EXCEPT !.requests = @ + 1]

Idle ==
  /\ ~client.running /\ history.requests < MaxRequests
  /\ handler.request = "none" /\ handler.available /\ ~handler.posted

Asked(s, request) == [s EXCEPT !.handler.request = request]

\* _unavailable is set when the client has returned, even if it has failed.
Busy(s) == Become([s EXCEPT !.source.unavailable = TRUE])

Post(s) == Become([s EXCEPT !.handler.posted = TRUE])

\* retrieveFolderList
RetrieveFolderList ==
  /\ Idle /\ Count
  /\ LET s == Asked(Now, "folders")
     IN IF store.inbox THEN Post(s)
        ELSE \E arrives \in BOOLEAN :
               Busy(TestConnection([s EXCEPT !.store.inbox = TRUE], arrives))

\* retrieveMessageList; the folder may be excluded from synchronization.
RetrieveMessageList ==
  /\ Idle /\ Count
  /\ LET s == SetOperation(Asked(Now, "list"), "auto")
     IN \/ Post(s)
        \/ \E arrives \in BOOLEAN : Busy(NewConnection(s, arrives))

\* retrieveAll and synchronize
Synchronize ==
  /\ Idle /\ Count
  /\ \E arrives \in BOOLEAN : Become(RetrieveAll(Asked(Now, "synchronize"), arrives))

\* exportUpdates, and retrieveMessages for the flags only
ExportUpdates == Idle /\ Count /\ Post(Asked(Now, "export"))

InStore == {u \in Uid : store.local[u] # "none"}

\* retrieveMessages
RetrieveMessages(uids, limit) ==
  /\ Idle /\ Count /\ uids # {}
  /\ \E arrives \in BOOLEAN :
       Busy(NewConnection(SetSelectedMails(SetOperation(Asked(Now, "retrieve"), limit), uids),
                          arrives))

\* deleteMessages
DeleteMessages(uids) ==
  /\ Idle /\ CanDelete /\ uids # {}
  /\ history' = [history EXCEPT !.requests = @ + 1, !.asked = @ \cup uids]
  /\ LET s == [Asked(Now, "delete") EXCEPT !.source.deleting = TRUE, !.client.deleting = TRUE]
     IN \E arrives \in BOOLEAN : Busy(NewConnection(SetSelectedMails(s, uids), arrives))

\* PopService::cancelOperation
CancelOperation ==
  Become(RetrievalTerminated(CloseConnection(OperationFailed(Now), FALSE)))

\* The daemon cancels its request, or gives it up at its expiry.
CancelRequest ==
  /\ ~client.running /\ handler.request # "none"
  /\ CancelOperation
  /\ UNCHANGED history

Request ==
  \/ RetrieveFolderList \/ RetrieveMessageList \/ Synchronize \/ ExportUpdates
  \/ \E uids \in SUBSET InStore :
       DeleteMessages(uids) \/ \E limit \in {"none", "all"} : RetrieveMessages(uids, limit)
  \/ CancelRequest

-----------------------------------------------------------------------------
(* Timers, the transport, and the world around *)

Quiet == ~client.running /\ UNCHANGED history

\* The completion that was posted with a timer of zero.
Posted ==
  /\ Quiet /\ handler.posted
  /\ \E arrives \in BOOLEAN :
       Become(RetrievalCompleted([Now EXCEPT !.handler.posted = FALSE], arrives))

\* The interval timer of the account.
MailCheckDue ==
  /\ ~client.running /\ history.requests < MaxRequests /\ Count
  /\ \E arrives \in BOOLEAN : Become(QueueMailCheck(Now, arrives))

\* connectionInactive
ConnectionInactive ==
  /\ Quiet /\ client.timer
  /\ \E arrives \in BOOLEAN : Become(CloseConnection(Now, arrives))

\* QMailMessageBuffer::messageTimeout
MessageTimeout ==
  /\ Quiet /\ store.timer
  /\ Become(IF store.buffer # <<>> THEN Flush(Now) ELSE [Now EXCEPT !.store.timer = FALSE])

LinkUp ==
  /\ Quiet /\ link.state = "opening"
  /\ Become([Now EXCEPT !.link = [state |-> "up", wire |-> <<Ok>>, drop |-> mailbox,
                                   marked |-> {}]])

\* transportError: the transport closes itself before it reports the error.
LinkFails ==
  /\ Quiet /\ InUse(Now)
  /\ Become(OperationFailed([Now EXCEPT !.link = [NoSession EXCEPT !.state = "idle"]]))

\* accountsUpdated: the account has another server, or is disabled.
AccountsUpdated ==
  /\ Quiet
  /\ \/ \E c \in Configurations \ {account.configured} :
          Become([Now EXCEPT !.account.configured = c])
     \/ Configurations # {} /\ CancelOperation

\* A client removes a message from the store and leaves a record of it.
UserRemoves(u) ==
  /\ ~client.running /\ store.local[u] # "none"
  /\ Become([RemoveLocal(Now, {u}) EXCEPT !.store.records = @ \cup {u}])
  /\ history' = [history EXCEPT !.asked = @ \cup {u}]

Arrives ==
  /\ ~client.running /\ history.arrived < MaxUid
  /\ Become([Now EXCEPT !.mailbox = @ \cup {history.arrived + 1}])
  /\ history' = [history EXCEPT !.arrived = @ + 1]

\* Another client removes a message; a session locks the maildrop.
OthersRemove(u) ==
  /\ ~client.running /\ OtherClient /\ link.state # "up" /\ u \in mailbox
  /\ Become([Now EXCEPT !.mailbox = @ \ {u}])
  /\ history' = [history EXCEPT !.asked = @ \cup {u}]

NewClient == [status |-> "Init", running |-> FALSE, selected |-> FALSE, deleting |-> FALSE,
              testing |-> FALSE, pendingDeletes |-> FALSE, timer |-> FALSE, limit |-> "none",
              numbers |-> NoUids, newUids |-> <<>>, obsolete |-> <<>>, selection |-> {},
              existing |-> {}, left |-> {}, uid |-> 1]
NewSource == [deleting |-> FALSE, unavailable |-> FALSE, queued |-> FALSE, checking |-> FALSE]
NewHandler == [request |-> "none", available |-> TRUE, posted |-> FALSE, told |-> {},
               success |-> FALSE]

\* The daemon dies and is started again: only the store is left.
Crash ==
  /\ ~client.running /\ history.crashes < MaxCrashes
  /\ Become([Now EXCEPT !.client = NewClient, !.source = NewSource, !.link = NoSession,
                         !.handler = [NewHandler EXCEPT !.told = handler.told],
                         !.store.buffer = <<>>, !.store.timer = FALSE])
  /\ history' = [history EXCEPT !.crashes = @ + 1]

Init ==
  /\ client = NewClient /\ source = NewSource /\ link = NoSession /\ handler = NewHandler
  /\ mailbox = 1 .. Initial
  /\ store = [local |-> [u \in Uid |-> "none"], records |-> {}, removed |-> {}, refused |-> {},
              buffer |-> <<>>, timer |-> FALSE, inbox |-> FALSE]
  /\ account \in [configured : {TRUE}, synchronized : {0}, deleteRetrieved : DeleteRetrieved]
  /\ history = [arrived |-> Initial, requests |-> 0, crashes |-> 0, asked |-> {}]

Next ==
  \/ NextAction /\ UNCHANGED history
  \/ ProcessResponse /\ UNCHANGED history
  \/ Request
  \/ Posted \/ MailCheckDue \/ ConnectionInactive \/ MessageTimeout
  \/ LinkUp \/ LinkFails \/ AccountsUpdated \/ Arrives \/ Crash
  \/ \E u \in Uid : UserRemoves(u) \/ OthersRemove(u)

Spec == Init /\ [][Next]_vars

-----------------------------------------------------------------------------
(* Properties *)

\* The positions the client works with are those of the present session.
Current(s) ==
  \A u \in Uid : s.client.numbers[u] # 0 =>
    u \in s.link.drop /\ s.client.numbers[u] = Rank(u, s.link.drop)

\* The whole message is in the store, or in the buffer before it.
Held(u) ==
  \/ store.local[u] = "whole"
  \/ \E k \in DOMAIN store.buffer :
       LET item == store.buffer[k] IN item.uid = u /\ item.what = "whole" /\ ~item.lost

\* A session that works through the new messages (a listing, not a selection)
\* uses only positions that it has read itself: newConnection and the UIDL
\* dialogue leave nothing of an earlier session behind, whatever broke it off.
ListingCurrent ==
  link.state = "up" /\ ~client.selected
    /\ client.status \in {"RequestMessage", "Retr", "Top", "MessageDataRetr", "MessageDataTop",
                          "DeleAfterRetr", "DeleteMessage", "Dele"}
  => Current(Now)

\* When the positions are current, PopClient marks for deletion only what a
\* user has removed, or what it has fetched as a whole and either holds or has
\* given to the store in vain.
DeletesOnlyHeld ==
  [][link.state = "up" /\ Current(Now) =>
       \A u \in link'.marked \ link.marked :
         u \in history.asked \/ Held(u) \/ u \in store.refused]_vars

Succeeds(request) ==
  handler.request = request /\ handler'.request = "none" /\ handler'.success

\* When deleteMessages is reported as successful, none of the messages is left
\* in the store.
DeleteDone ==
  [][Succeeds("delete") => \A u \in client.selection : store'.local[u] = "none"]_vars

\* When retrieveMessages is reported as successful, every message is complete
\* in the store, not only in the buffer, unless the server did not list it, it
\* has been removed meanwhile, or the store has refused it.
RetrieveDone ==
  [][Succeeds("retrieve") /\ client.limit = "all" =>
       \A u \in client.selection :
         u \in store'.removed \cup store'.refused \/ store'.local[u] \in {"none", "whole"}]_vars

\* uidlIntegrityCheck says "Only delete the messages that were specified": no
\* message is marked for deletion that nobody has removed, unless the account
\* deletes what has been retrieved.
OnlySpecifiedDeleted ==
  link.marked \subseteq history.asked \cup {u \in Uid : account.deleteRetrieved /\ Held(u)}
==============================================================================
