------------------------------ MODULE ImapSync ------------------------------
(***************************************************************************)
(* The strategies of the IMAP plugin that keep the local messages and the  *)
(* server in agreement (src/plugins/messageservices/imap): the full        *)
(* synchronization, the retrieval of everything, the export of local       *)
(* changes, the check of flags and the deletion of messages.  Each runs as *)
(* a sequence of commands; the user, other clients and failures act        *)
(* between a command and the completion of the next.                       *)
(*                                                                         *)
(* A mail stands for a message of one folder, with its UID: UIDs are       *)
(* stored with the id of their folder and differ between folders.  The     *)
(* handlers call each other, so each is an operator from a state to a      *)
(* state: Now is the state of the variables, Become(s) makes s the next    *)
(* one.                                                                    *)
(*                                                                         *)
(* Left out: the dialogue before the login, the hierarchy of mailboxes     *)
(* (the listing finds every folder), the counts of undiscovered messages,  *)
(* the bodies of messages, CONDSTORE and QRESYNC, a change of UIDVALIDITY, *)
(* and failures of the local store.  Lists stay shorter than a batch.      *)
(***************************************************************************)
EXTENDS Integers, FiniteSets, FiniteSetsExt, Sequences

CONSTANTS
  FolderOf,     \* the folder, a number, of each mail
  Initial,      \* the mails on the server at the start
  Flags,        \* the flags users change: "seen", "flagged"
  CanDelete,    \* canDeleteMail of the account
  Requests,     \* the requests made
  Others,       \* what other clients do: "arrive", "set", "clear", "delete", "remove"
  Meanwhile,    \* whether they do so while a request runs
  Faults,       \* what may fail: "loss", "refusal", "partial", "crash"
  MaxFaults     \* bound: failures

Mail == DOMAIN FolderOf
Folder == {FolderOf[m] : m \in Mail}
Kinds == {"synchronize", "retrieveAll", "exportUpdates", "updateFlags", "delete"}
Exporting == {"synchronize", "exportUpdates"}

ASSUME ImapAssumption ==
  /\ FolderOf \in [Mail -> Nat \ {0}] /\ IsFiniteSet(Mail)
  /\ Initial \subseteq Mail /\ Flags \subseteq {"seen", "flagged"}
  /\ CanDelete \in BOOLEAN /\ Requests \subseteq Kinds
  /\ Others \subseteq {"arrive", "set", "clear", "delete", "remove"} /\ Meanwhile \in BOOLEAN
  /\ Faults \subseteq {"loss", "refusal", "partial", "crash"} /\ MaxFaults \in Nat

VARIABLES
  server,   \* the flags of the mails on the server
  local,    \* the status of the messages in the store
  records,  \* the mails with a removal record
  client,   \* the connection and the members of the running strategy
  stored,   \* the _stored lists, which outlive a strategy's run
  reports,  \* the search results updateMessagesFlags keeps between its runs
  history   \* arrivals and failures so far, and whether there was a failure
            \* or another client acted during a request

vars == <<server, local, records, client, stored, reports, history>>

Now == [server |-> server, local |-> local, records |-> records, client |-> client,
        stored |-> stored, reports |-> reports]

Become(s) ==
  /\ server' = s.server /\ local' = s.local /\ records' = s.records
  /\ client' = s.client /\ stored' = s.stored /\ reports' = s.reports

In(f, M) == {m \in M : FolderOf[m] = f}

\* The function fn without the mails of M.
Without(fn, M) == [m \in DOMAIN fn \ M |-> fn[m]]

-----------------------------------------------------------------------------
(* The members of a strategy *)

\* The changes of flags to export, in the order of the STORE commands, and
\* the flag of messages to delete.
Mark == 1 .. 4
Deleted == 5
Marked(k) == IF k = Deleted THEN "deleted" ELSE IF k <= 2 THEN "seen" ELSE "flagged"
Sets(k) == k \in {1, 3, Deleted}

NoMarks == [k \in Mark |-> {}]
NothingFound == [seen |-> {}, unseen |-> {}, flagged |-> {}]

\* A connection without a strategy; box is the selected mailbox.  alone says
\* that nobody else acted since the request was made.
Idle(up, box) ==
  [up |-> up, box |-> box, alone |-> TRUE, request |-> "none", command |-> "none",
   folder |-> 0, todo |-> {}, found |-> NothingFound, conclusive |-> TRUE,
   marks |-> NoMarks, removed |-> {}, expunge |-> FALSE, sending |-> <<0, {}>>,
   plan |-> [marks |-> NoMarks, removed |-> {}], retrieve |-> <<>>,
   selected |-> {}, list |-> {}, last |-> 0]

Disconnected == Idle(FALSE, 0)

Init ==
  /\ server = [m \in Initial |-> {}] /\ local = <<>> /\ records = {}
  /\ client = Disconnected
  /\ stored = [r \in Exporting |-> [marks |-> NoMarks, removed |-> {}]]
  /\ reports = NothingFound
  /\ history = [arrived |-> Initial, faults |-> 0, clean |-> TRUE]

Send(s, command) == [s EXCEPT !.client.command = command]

\* ImapStrategyContextBase::operationCompleted; the connection stays open.
Completed(s) == [s EXCEPT !.client = Idle(@.up, @.box)]

-----------------------------------------------------------------------------
(* Retrieval of the new messages *)

\* selectNextPreviewFolder and fetchNextMailPreview
PreviewNext(s) ==
  IF s.client.retrieve = <<>> THEN Completed(s)
  ELSE LET next == Head(s.client.retrieve)
           t == [s EXCEPT !.client.retrieve = Tail(@), !.client.folder = next[1],
                          !.client.sending = <<0, next[2]>>]
       IN Send(t, IF s.client.box = next[1] THEN "FETCH" ELSE "PREVIEW")

\* nextFolder, processFolder and, when none is left, folderListCompleted
ProcessNextFolder(s) ==
  LET t == [s EXCEPT !.client.found = NothingFound, !.client.conclusive = TRUE,
                     !.client.marks = NoMarks, !.client.removed = {}, !.client.expunge = FALSE]
  IN IF s.client.todo = {} THEN PreviewNext([t EXCEPT !.client.folder = 0])
     ELSE LET f == Min(s.client.todo)
          IN Send([t EXCEPT !.client.folder = f, !.client.todo = @ \ {f}], "SELECT")

\* purge: the messages of M, and their removal records if they had any
Purge(s, M) == [s EXCEPT !.local = Without(@, M), !.records = @ \ (M \cap DOMAIN s.local)]

\* A mistake the runs detect: new messages are stored as unread.
StoredUnread(s, M) ==
  LET t   == Purge(s, M \ DOMAIN s.server)
      new == (M \cap DOMAIN s.server) \ DOMAIN t.local
  IN [t EXCEPT !.local = [m \in DOMAIN @ \cup new |->
        IF m \in DOMAIN @ THEN @[m] ELSE [here |-> {}, elsewhere |-> {}, removed |-> FALSE]]]

\* nonexistentUid for the missing, createMail and messageFetched for the rest
Fetched(s, M) ==
  LET t   == Purge(s, M \ DOMAIN s.server)
      new == (M \cap DOMAIN s.server) \ DOMAIN t.local
  IN [t EXCEPT !.local = [m \in DOMAIN @ \cup new |->
        IF m \in DOMAIN @ THEN @[m]
        ELSE [here |-> s.server[m] \ {"deleted"}, elsewhere |-> s.server[m] \ {"deleted"},
              removed |-> "deleted" \in s.server[m]]]]

-----------------------------------------------------------------------------
(* Import *)

\* updateMessagesMetaData(.., flag, value) and the same for flagElsewhere
SetBoth(l, M, flag) ==
  [m \in DOMAIN l |-> IF m \in M THEN [l[m] EXCEPT !.here = @ \cup {flag}, !.elsewhere = @ \cup {flag}]
                      ELSE l[m]]

ClearBoth(l, M, flag) ==
  [m \in DOMAIN l |-> IF m \in M THEN [l[m] EXCEPT !.here = @ \ {flag}, !.elsewhere = @ \ {flag}]
                      ELSE l[m]]

Elsewhere(l, flag) == {m \in DOMAIN l : flag \in l[m].elsewhere}

\* unreadElsewhereKey
UnreadElsewhere(l, f) == In(f, DOMAIN l) \ Elsewhere(l, "seen")

\* A mistake the runs detect: whatever the server has as unseen is unread.
AllUnseen(l, f, unseen) == unseen \cap DOMAIN l

\* The messages reported as unread elsewhere.
NowUnread(l, f, unseen) == unseen \ UnreadElsewhere(l, f)

\* updateMessagesMetaData for the stored messages of M in folder f.  The keys
\* of the flag changes select by UID alone, whatever the folder; none is
\* flagged as deleted, for flagChanges is empty here.
UpdateMessagesMetaData(s, f, M, found) ==
  LET reported == found.seen \cup found.unseen
      purged == Purge(s, M \ reported)
      there  == [m \in DOMAIN purged.local |->
                   [purged.local[m] EXCEPT !.removed = @ /\ ~(FolderOf[m] = f /\ m \in reported)]]
      read   == SetBoth(there, found.seen \cap UnreadElsewhere(there, f), "seen")
      unread == ClearBoth(read, NowUnread(read, f, found.unseen), "seen")
      flagged == SetBoth(unread, found.flagged \ Elsewhere(unread, "flagged"), "flagged")
      cleared == ClearBoth(flagged, (reported \ found.flagged) \cap Elsewhere(flagged, "flagged"), "flagged")
  IN [purged EXCEPT !.local = cleared]

-----------------------------------------------------------------------------
(* Export *)

\* The messages of l whose flag was changed here only, in the sense of mark k.
ChangedHere(l, k) ==
  {m \in DOMAIN l : /\ (Marked(k) \in l[m].here) = Sets(k)
                    /\ (Marked(k) \in l[m].elsewhere) # Sets(k)
                    /\ ~l[m].removed}

\* A mistake the runs detect: a command's success confirms every change.
ConfirmAll(l, f, marks) ==
  [m \in DOMAIN l |-> IF FolderOf[m] # f THEN l[m] ELSE [l[m] EXCEPT !.elsewhere = l[m].here]]

\* What the stored lists say is entered as the server's state, for the
\* messages of the current folder.
MarkElsewhere(l, f, marks) ==
  [m \in DOMAIN l |->
     IF FolderOf[m] # f THEN l[m]
     ELSE [l[m] EXCEPT !.elsewhere =
             (@ \cup {Marked(k) : k \in {j \in Mark : Sets(j) /\ m \in marks[j]}})
                \ {Marked(k) : k \in {j \in Mark : ~Sets(j) /\ m \in marks[j]}}]]

\* A mistake the runs detect: the mailbox is left without an EXPUNGE.
NoExpunge(s) == FALSE

\* setNextDeleted after the last STORE
ExpungeDue(s) == CanDelete /\ s.client.expunge

\* handleUidStore of a request that exports changes, with setNextSeen,
\* setNextNotSeen, setNextImportant, setNextNotImportant and setNextDeleted
ExportNext(s) ==
  LET r == s.client.request
      t == [s EXCEPT !.local = MarkElsewhere(@, s.client.folder, s.stored[r].marks),
                     !.stored[r].marks = NoMarks]
      left == {k \in Mark : s.client.marks[k] # {}}
      k == Min(left)
  IN CASE left # {} ->
            Send([t EXCEPT !.stored[r].marks[k] = s.client.marks[k], !.client.marks[k] = {},
                           !.client.sending = <<k, s.client.marks[k]>>], "STORE")
       [] left = {} /\ CanDelete /\ s.client.removed # {} ->
            Send([t EXCEPT !.stored[r].removed = @ \cup s.client.removed, !.client.removed = {},
                           !.client.sending = <<Deleted, s.client.removed>>], "STORE")
       [] left = {} /\ ~(CanDelete /\ s.client.removed # {}) /\ ExpungeDue(s) -> Send(t, "EXPUNGE")
       [] OTHER ->
            ProcessNextFolder([t EXCEPT !.records = @ \ s.stored[r].removed, !.stored[r].removed = {}])

\* handleUidStore
HandleUidStore(s) ==
  IF s.client.request \in Exporting THEN ExportNext(s) ELSE ProcessNextFolder(s)

\* processUidSearchResults of the full synchronization
ProcessUidSearchResults(s) ==
  LET f == s.client.folder
      found == s.client.found
      reported == found.seen \cup found.unseen
      rows == In(f, DOMAIN s.local)
      new == reported \ rows
      t == [s EXCEPT !.client.retrieve = IF new = {} THEN @ ELSE Append(@, <<f, new>>)]
      u == UpdateMessagesMetaData(t, f, rows, found)
      out(k) == CASE k = 1 -> found.unseen [] k = 2 -> found.seen
                  [] k = 3 -> reported \ found.flagged [] OTHER -> found.flagged
      removed == In(f, s.records) \cap reported
  IN IF ~s.client.conclusive THEN ProcessNextFolder(t)
     ELSE HandleUidStore(
            [u EXCEPT !.client.removed = removed, !.client.expunge = removed # {},
                      !.client.marks = [k \in Mark |-> In(f, ChangedHere(u.local, k)) \cap out(k)]])

\* processUidSearchResults of exportUpdates: the lists made at login, as far
\* as the server reports the messages
ProcessExports(s, reported) ==
  LET mine == In(s.client.folder, reported)
      plan == s.client.plan
      removed == plan.removed \cap mine
  IN HandleUidStore([s EXCEPT !.client.removed = removed, !.client.expunge = removed # {},
                              !.client.marks = [k \in Mark |-> plan.marks[k] \cap mine]])

\* processUidSearchResults of updateMessagesFlags
ProcessFlags(s) ==
  LET f == s.client.folder
      M == In(f, s.client.selected) \cap DOMAIN s.local
  IN ProcessNextFolder(UpdateMessagesMetaData(s, f, M, s.reports))

\* The size of the selected mailbox: the server tells it with every answer,
\* in EXISTS and EXPUNGE responses.
Exists(s) == Cardinality(In(s.client.box, DOMAIN s.server))

\* folderListFolderAction: a folder without messages is not searched
FolderAction(s) ==
  LET some == Exists(s) > 0
  IN CASE s.client.request = "exportUpdates" -> IF some THEN Send(s, "KNOWN") ELSE ProcessExports(s, {})
       [] s.client.request = "updateFlags"   -> IF some THEN Send(s, "UNSEEN") ELSE ProcessFlags(s)
       [] OTHER -> IF some THEN Send(s, "SEEN") ELSE ProcessUidSearchResults(s)

-----------------------------------------------------------------------------
(* Deletion of selected messages *)

\* The store command for the selected messages of the current folder.
StoreSelected(s) ==
  LET M == In(s.client.folder, s.client.selected)
  IN Send([s EXCEPT !.client.selected = @ \ M, !.client.sending = <<Deleted, M>>], "STORE")

\* ImapMessageListStrategy::messageListFolderAction
SelectOrEnd(s) ==
  IF s.client.folder = 0 THEN Completed(s)
  ELSE IF s.client.folder = s.client.box THEN StoreSelected(s)
  ELSE Send(s, "SELECT")

\* selectNextMessageSequence reaches the next folder, or the end; a mailbox
\* with marked messages is closed first.
NextSelection(s) ==
  LET left == {FolderOf[m] : m \in s.client.selected}
      t == [s EXCEPT !.client.folder = IF left = {} THEN 0 ELSE Min(left)]
  IN IF s.client.box # 0 /\ s.client.last # 0 THEN Send(t, "CLOSE")
     ELSE SelectOrEnd([t EXCEPT !.client.list = {}])

\* handleUidStore of the deletion
DeletionStored(s) ==
  NextSelection([s EXCEPT !.client.list = @ \cup s.client.sending[2], !.client.last = s.client.folder])

\* handleClose: the local copies go, without removal records.
HandleClose(s) ==
  Send([s EXCEPT !.local = Without(@, s.client.list), !.client.box = 0], "EXAMINE")

-----------------------------------------------------------------------------
(* Connections *)

\* handleLogin of the strategies
HandleLogin(s) ==
  CASE s.client.request = "exportUpdates" ->
         LET marks == [k \in Mark |-> ChangedHere(s.local, k)]
             deleted == IF CanDelete THEN s.records ELSE {}
             all == deleted \cup UNION {marks[k] : k \in Mark}
         IN ProcessNextFolder([s EXCEPT !.client.plan = [marks |-> marks, removed |-> deleted],
                                        !.client.todo = {FolderOf[m] : m \in all}])
    [] s.client.request = "updateFlags" ->
         LET M == s.client.selected \cap DOMAIN s.local
         IN ProcessNextFolder([s EXCEPT !.client.selected = M,
                                        !.client.todo = {FolderOf[m] : m \in M}])
    [] s.client.request = "delete" -> NextSelection(s)
    [] OTHER -> Send(s, "LIST")

\* A request for the messages M (of all folders, for the others).
Start(request, M) ==
  /\ client.request = "none" /\ request \in Requests
  /\ IF request \in {"updateFlags", "delete"} THEN M # {} /\ M \subseteq DOMAIN local ELSE M = {}
  /\ request = "delete" => CanDelete
  /\ LET s == [Now EXCEPT !.client.request = request, !.client.selected = M]
     IN Become(IF client.up THEN HandleLogin(s) ELSE Send(s, "LOGIN"))
  /\ UNCHANGED history

\* connectionInactive
Logout ==
  /\ client.request = "none" /\ client.up
  /\ client' = Disconnected
  /\ UNCHANGED <<server, local, records, stored, reports, history>>

-----------------------------------------------------------------------------
(* The server's answers *)

\* What a command does at the server.
Execute(s) ==
  LET c == s.client
      flag == {Marked(c.sending[1])}
      put(F) == IF Sets(c.sending[1]) THEN F \cup flag ELSE F \ flag
  IN CASE c.command = "STORE" ->
            [s EXCEPT !.server = [m \in DOMAIN @ |-> IF m \in c.sending[2] THEN put(@[m]) ELSE @[m]]]
       [] c.command \in {"EXPUNGE", "CLOSE"} ->
            [s EXCEPT !.server = Without(@, {m \in In(c.box, DOMAIN @) : "deleted" \in @[m]})]
       [] OTHER -> s

\* The answer to the pending command arrives, and h handles it.
On(command, h(_)) ==
  /\ client.command = command
  /\ Become(h(Execute(Now)))
  /\ UNCHANGED history

Selected(s) == [s EXCEPT !.client.box = s.client.folder]

LoginDone == On("LOGIN", LAMBDA s : HandleLogin([s EXCEPT !.client.up = TRUE]))

\* mailboxListed for every folder, then handleList
ListDone == On("LIST", LAMBDA s : ProcessNextFolder([s EXCEPT !.client.todo = Folder]))

SelectDone ==
  On("SELECT", LAMBDA s : IF s.client.request = "delete" THEN StoreSelected(Selected(s))
                          ELSE FolderAction(Selected(s)))

PreviewDone == On("PREVIEW", LAMBDA s : Send(Selected(s), "FETCH"))

FetchDone == On("FETCH", LAMBDA s : PreviewNext(Fetched(s, s.client.sending[2])))

ExpungeDone == On("EXPUNGE", ProcessNextFolder)

CloseDone == On("CLOSE", HandleClose)

ExamineDone == On("EXAMINE", LAMBDA s : SelectOrEnd([s EXCEPT !.client.last = 0]))

StoreHandled(s) == IF s.client.request = "delete" THEN DeletionStored(s) ELSE HandleUidStore(s)

StoreDone == On("STORE", StoreHandled)

\* checkCommandResponse: a refused STORE is passed over.
StoreRefused ==
  /\ client.command = "STORE" /\ "refusal" \in Faults /\ history.faults < MaxFaults
  /\ Become(StoreHandled([Now EXCEPT !.client.alone = FALSE]))
  /\ history' = [history EXCEPT !.faults = @ + 1, !.clean = FALSE]

\* The answer to the pending search of the selected mailbox.
Matches ==
  LET c == client.command
      flag == IF c = "FLAGGED" THEN "flagged" ELSE "seen"
  IN {m \in In(client.box, DOMAIN server) :
        c \in {"ALL", "KNOWN"} \/ (flag \in server[m]) = (c # "UNSEEN")}

\* A mistake the runs detect: the answers are not counted.
NotCounted(s) == TRUE

\* Whether the seen and the unseen messages are as many as there are.
Consistent(s) ==
  Cardinality(s.client.found.seen) + Cardinality(s.client.found.unseen) = Exists(s)

\* handleUidSearch of the full synchronization
SynchronizeSearch(s, M) ==
  CASE s.client.command = "SEEN"   -> Send([s EXCEPT !.client.found.seen = M], "UNSEEN")
    [] s.client.command = "UNSEEN" -> Send([s EXCEPT !.client.found.unseen = M], "FLAGGED")
    [] s.client.command = "FLAGGED" /\ Consistent(s) ->
         ProcessUidSearchResults([s EXCEPT !.client.found.flagged = M])
    [] s.client.command = "FLAGGED" /\ ~Consistent(s) ->
         Send([s EXCEPT !.client.found = NothingFound], "ALL")
    [] s.client.command = "ALL" ->
         ProcessUidSearchResults(
           [s EXCEPT !.client.found.unseen = M, !.client.conclusive = Cardinality(M) = Exists(s)])

\* handleUidSearch of updateMessagesFlags, which asks for the selected
\* messages only, those that are unseen first
FlagsSearch(s, M) ==
  CASE s.client.command = "UNSEEN"  -> Send([s EXCEPT !.reports.unseen = M], "SEEN")
    [] s.client.command = "SEEN"    -> Send([s EXCEPT !.reports.seen = M], "FLAGGED")
    [] s.client.command = "FLAGGED" -> ProcessFlags([s EXCEPT !.reports.flagged = M])

SearchHandled(s, M) ==
  CASE s.client.request = "exportUpdates" -> ProcessExports(s, M)
    [] s.client.request = "updateFlags"   -> FlagsSearch(s, M \cap s.client.selected)
    [] OTHER                              -> SynchronizeSearch(s, M)

Searching == client.command \in {"SEEN", "UNSEEN", "FLAGGED", "ALL", "KNOWN"}

SearchDone == Searching /\ Become(SearchHandled(Now, Matches)) /\ UNCHANGED history

\* The answer lacks a message it should name.
SearchPartial(m) ==
  /\ Searching /\ "partial" \in Faults /\ history.faults < MaxFaults /\ m \in Matches
  /\ Become(SearchHandled([Now EXCEPT !.client.alone = FALSE], Matches \ {m}))
  /\ history' = [history EXCEPT !.faults = @ + 1, !.clean = FALSE]

\* operationFailed: the connection is lost, or a command refused, before or
\* after the server acted on the command.
Lose(done) ==
  /\ client.command # "none" /\ "loss" \in Faults /\ history.faults < MaxFaults
  /\ Become([(IF done THEN Execute(Now) ELSE Now) EXCEPT !.client = Disconnected])
  /\ history' = [history EXCEPT !.faults = @ + 1, !.clean = FALSE]

\* The daemon ends and starts again: its members are as at the start.
Crash ==
  /\ "crash" \in Faults /\ history.faults < MaxFaults
  /\ client' = Disconnected /\ reports' = NothingFound
  /\ stored' = [r \in Exporting |-> [marks |-> NoMarks, removed |-> {}]]
  /\ history' = [history EXCEPT !.faults = @ + 1, !.clean = FALSE]
  /\ UNCHANGED <<server, local, records>>

-----------------------------------------------------------------------------
(* The user and other clients *)

Toggle(F, flag) == IF flag \in F THEN F \ {flag} ELSE F \cup {flag}

Disturbed == [client EXCEPT !.alone = client.request = "none"]

\* The user changes a flag of a message.
UserMarks(m, flag) ==
  /\ local' = [local EXCEPT ![m].here = Toggle(@, flag)]
  /\ client' = Disturbed
  /\ UNCHANGED <<server, records, stored, reports, history>>

\* removeMessages with a removal record
UserRemoves(m) ==
  /\ local' = Without(local, {m}) /\ records' = records \cup {m}
  /\ client' = Disturbed
  /\ UNCHANGED <<server, stored, reports, history>>

OthersAct(kind, then) ==
  /\ kind \in Others /\ (Meanwhile \/ client.request = "none")
  /\ history' = [history EXCEPT !.clean = @ /\ client.request = "none",
                                !.arrived = @ \cup DOMAIN then]
  /\ server' = then /\ client' = Disturbed
  /\ UNCHANGED <<local, records, stored, reports>>

Arrives(m) ==
  /\ m \notin history.arrived
  /\ OthersAct("arrive", [n \in DOMAIN server \cup {m} |-> IF n = m THEN {} ELSE server[n]])

OthersMark(m, flag) ==
  OthersAct(IF flag = "deleted" THEN "delete" ELSE IF flag \in server[m] THEN "clear" ELSE "set",
            [server EXCEPT ![m] = Toggle(@, flag)])

OthersRemove(m) == OthersAct("remove", Without(server, {m}))

Answer ==
  \/ LoginDone \/ ListDone \/ SelectDone \/ PreviewDone \/ FetchDone \/ ExpungeDone
  \/ CloseDone \/ ExamineDone \/ StoreDone \/ SearchDone

User ==
  \/ \E m \in DOMAIN local, flag \in Flags : UserMarks(m, flag)
  \/ \E m \in DOMAIN local : UserRemoves(m)

OtherClients ==
  \/ \E m \in Mail : Arrives(m)
  \/ \E m \in DOMAIN server, flag \in Flags \cup {"deleted"} : OthersMark(m, flag)
  \/ \E m \in DOMAIN server : OthersRemove(m)

Next ==
  \/ \E r \in Requests, M \in SUBSET Mail : Start(r, M)
  \/ Answer
  \/ StoreRefused
  \/ \E m \in Mail : SearchPartial(m)
  \/ Logout
  \/ \E done \in BOOLEAN : Lose(done)
  \/ Crash
  \/ User
  \/ OtherClients

Spec == Init /\ [][Next]_vars

-----------------------------------------------------------------------------
(* Properties *)

\* A step of the strategies: users and other clients change no member of
\* client but alone.
Handles == [client EXCEPT !.alone = TRUE] # [client' EXCEPT !.alone = TRUE]

\* When nobody interferes with a full synchronization, the store then holds
\* every message of the server, with the server's flags: the searches, the
\* exports and the previews of all folders together leave nothing out,
\* whatever an earlier failure has left in the _stored lists.
SynchronizationAgrees ==
  [][/\ client.request = "synchronize" /\ client.alone
     /\ client' = Idle(TRUE, client'.box) /\ history' = history
     => \A m \in DOMAIN server' : m \in DOMAIN local' /\ local'[m].here = server'[m] \ {"deleted"}]_vars

\* A message that is on the server does not vanish from the store unless
\* the user removes it: processUidSearchResults purges what no search has
\* reported, and another client may change flags between the searches.
LiveKept == [][Handles => \A m \in DOMAIN local \ DOMAIN local' : m \notin DOMAIN server']_vars

\* A removal record is dropped only when the server no longer has the message:
\* setNextDeleted purges the records of all that has been marked so far, in this
\* folder or an earlier one, and EXPUNGE must have taken place by then.
RecordKept == [][Handles => \A m \in records \ records' : m \notin DOMAIN server']_vars

Pending(l, m, flag) == m \in DOMAIN l /\ (flag \in l[m].here) # (flag \in l[m].elsewhere)

\* As long as no command fails and other clients act between requests only, a
\* change the user makes, between whichever commands of a request, stays to be
\* exported until the server agrees with it: handleUidStore records as exported
\* what a STORE named, and nothing else.
PendingKept ==
  [][Handles /\ history'.clean /\ client.request # "updateFlags"
     => \A m \in DOMAIN server' \cap DOMAIN local', flag \in Flags :
       Pending(local, m, flag) /\ ~Pending(local', m, flag)
         => (flag \in local'[m].here) = (flag \in server'[m])]_vars

\* A message is marked unread only if it was read elsewhere:
\* updateMessagesMetaData leaves alone what the user has read here and the server
\* has not been told.
UnreadWasReadElsewhere ==
  [][Handles => \A m \in DOMAIN local \cap DOMAIN local' :
       "seen" \in local[m].here \ local'[m].here => "seen" \in local[m].elsewhere]_vars
=============================================================================
