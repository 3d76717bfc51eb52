----------------------------- MODULE MailThreads -----------------------------
(***************************************************************************)
(* The message and thread tables of the mail store (class                  *)
(* QMailStorePrivate, libraries/qmfclient/qmailstore_p.cpp): how a message *)
(* finds its predecessor and its thread when it is added or updated, how   *)
(* messages that arrive late are put before those that wait for them, and  *)
(* what a removal leaves behind.                                           *)
(*                                                                         *)
(* db is the database: each operation is one transaction.  messages joins  *)
(* mailmessages and mailmessageidentifiers; missing is missingmessages,    *)
(* waiting is missingancestors, subjects is mailsubjects and about is      *)
(* mailthreadsubjects.  cache is messageCache of the process: it answers   *)
(* QMailMessageMetaData(id), inside the transactions too.                  *)
(*                                                                         *)
(* Left out: contents, custom fields, senders, dates and previews of       *)
(* threads, server uids, and the lists of changed objects that are only    *)
(* reported.  The trash folder stands for the drafts folder as well.       *)
(***************************************************************************)
EXTENDS Integers, Sequences, FiniteSets, FiniteSetsExt, SequencesExt, Functions

CONSTANTS
  Accounts,
  Headers,    \* what mails may say: [identifier, references, subject, reply, stamp];
              \* the identifier is 0 if there is none
  Subjects,   \* base subjects; a mail without one has NoSubject
  Folders,    \* a subset of {"inbox", "trash"}
  Flags,      \* the status flags that clients change, of {"read", "hidden"}
  Bare,       \* whether a message may be added as metadata only: a subset of BOOLEAN
  Zone,       \* by how much local time is ahead of UTC
  Detaching,  \* clients may set or clear the predecessor of a message
  CacheSize,  \* how many messages messageCache holds
  MaxMessages \* bound: messages that are ever added

NoSubject == "none"
Id == 1 .. MaxMessages

ASSUME ThreadsAssumption ==
  /\ MaxMessages \in Nat /\ CacheSize \in Nat /\ Zone \in Int /\ Detaching \in BOOLEAN
  /\ Folders \subseteq {"inbox", "trash"} /\ Flags \subseteq {"read", "hidden"} /\ Bare \subseteq BOOLEAN
  /\ \A h \in Headers : /\ h.subject \in Subjects \cup {NoSubject} /\ h.stamp \in Int
                       /\ h.identifier \in Nat /\ h.references \in Seq(Nat \ {0})

VARIABLES db, cache

vars == <<db, cache>>

Messages(d) == DOMAIN d.messages
InThread(d, t) == {m \in Messages(d) : d.messages[m].thread = t}

\* A function with one more value, a part of it, and the function without a part.
With(f, x, v) == [y \in DOMAIN f \cup {x} |-> IF y = x THEN v ELSE f[y]]
Part(f, S) == [x \in DOMAIN f \cap S |-> f[x]]
Without(f, S) == [x \in DOMAIN f \ S |-> f[x]]

\* What QMailMessageMetaData(id) returns, and the cache when it has.
Metadata(d, c, m) == IF m \in DOMAIN c THEN c[m] ELSE d.messages[m]
Looked(d, c, m) ==
  IF m \in DOMAIN c \/ Cardinality(DOMAIN c) >= CacheSize THEN c ELSE With(c, m, d.messages[m])

\* The cache when the metadata of all of S is read, in the order of their ids.
LookedAll(d, c, S) ==
  LET free     == CacheSize - Cardinality(DOMAIN c)
      enter(m) == Cardinality({k \in S \ DOMAIN c : k < m}) < free
  IN [m \in DOMAIN c \cup {k \in S : enter(k)} |-> Metadata(d, c, m)]

\* From x along the predecessors in r.
Chain(r, x) ==
  LET step[n \in 0 .. MaxMessages] ==
        IF n = 0 THEN {x} ELSE step[n-1] \cup {r[y] : y \in step[n-1] \cap DOMAIN r}
  IN step[MaxMessages] \ {0}

Responses(d, S) == [m \in S |-> d.messages[m].response]

-----------------------------------------------------------------------------
(* Finding a predecessor *)

SubjectId(d, s) == {n \in DOMAIN d.subjects : d.subjects[n] = s}

\* findPotentialPredecessorsBySubject: earlier messages of the threads with
\* this subject; stamps are in UTC, and are compared with a local time.
BySubject(d, id, md) ==
  {m \in Messages(d) \ {id} :
     /\ d.messages[m].account = md.account
     /\ d.messages[m].mail.stamp < md.mail.stamp + Zone
     /\ \E n \in SubjectId(d, md.mail.subject) : <<d.messages[m].thread, n>> \in d.about}

Latest(d, S) == {m \in S : \A n \in S : d.messages[n].mail.stamp <= d.messages[m].mail.stamp}

\* The references the store holds, and the position of the last of them.
Holders(d, account, ref) ==
  {m \in Messages(d) : d.messages[m].identifier = ref /\ d.messages[m].account = account}
LastHeld(d, md, refs) == Max({0} \cup {k \in DOMAIN refs : Holders(d, md.account, refs[k]) # {}})

NoDuplicates(s) ==
  LET kept[n \in 0 .. Len(s)] ==
        IF n = 0 THEN <<>>
        ELSE IF s[n] \in Range(kept[n-1]) THEN kept[n-1] ELSE Append(kept[n-1], s[n])
  IN kept[Len(s)]

\* messagePredecessor for references refs.  id is 0 for a message that is being
\* added.  Each result has the metadata with its new predecessor and thread,
\* the references that are missing, and whether an ancestor is missing.
MessagePredecessor(d, c, id, md, refs) ==
  LET last    == LastHeld(d, md, refs)
      unknown == (refs # <<>> /\ last = 0) \/ (refs = <<>> /\ md.mail.subject # NoSubject /\ md.mail.reply)
      all     == IF last # 0 THEN Holders(d, md.account, refs[last])
                 ELSE IF unknown THEN BySubject(d, id, md) ELSE {}
      near    == {m \in Messages(d) :
                    /\ d.messages[m].account = md.account
                    /\ \E p \in all \cup {id} : d.messages[m].thread = d.messages[p].thread}
      usable  == IF id = 0 THEN all ELSE {p \in all : id \notin Chain(Responses(d, near), p)}
      first   == IF last # 0 THEN usable ELSE Latest(d, usable)
      lost    == IF last # 0 THEN NoDuplicates(Reverse(SubSeq(refs, last + 1, Len(refs))))
                 ELSE NoDuplicates(refs)
      result(m, k) == [md |-> m, lost |-> lost, unknown |-> unknown, cache |-> k]
  IN IF first = {} THEN {result(md, c)}
     ELSE {result([md EXCEPT !.response = p, !.thread = Metadata(d, c, p).thread], Looked(d, c, p)) :
             p \in first}

\* identifyAncestors: which of the children come before pred, and pred.  A
\* message that is gone has no thread.
IdentifyAncestors(d, c, pred, children) ==
  LET p == Metadata(d, c, pred)
      S == {m \in Messages(d) : /\ pred \in Messages(d) \cup DOMAIN c
                               /\ d.messages[m].thread = p.thread /\ d.messages[m].account = p.account}
  IN (Chain(Responses(d, S), pred) \cap children) \cup {pred}

-----------------------------------------------------------------------------
(* Messages that wait for others *)

Respond(d, S, id) ==
  [d EXCEPT !.messages = [m \in DOMAIN @ |-> IF m \in S THEN [@[m] EXCEPT !.response = id] ELSE @[m]]]

\* Those of S that do not come before the predecessor that md has.
NotBefore(d, c, md, S) ==
  IF S = {} \/ md.response = 0 THEN S ELSE S \ IdentifyAncestors(d, c, md.response, S)

Total(d, S, field) == FoldSet(LAMBDA t, n : n + d.threads[t][field], 0, S)

\* Mutant: the messages stay in the threads that are deleted.
LeavesMessages(d, S, into, t) == [d EXCEPT !.threads = Without(@, S)]

\* The messages of the threads in S move to thread into, their counts are added
\* to those of thread t, and the threads in S are deleted.
MergeThreads(d, S, into, t) ==
  LET old  == S \cap DOMAIN d.threads
      more == IF t \in DOMAIN d.threads
              THEN [d.threads EXCEPT ![t].count = @ + Total(d, old, "count"),
                                     ![t].unread = @ + Total(d, old, "unread")]
              ELSE d.threads
  IN [d EXCEPT
        !.messages = [m \in DOMAIN @ |-> IF @[m].thread \in S THEN [@[m] EXCEPT !.thread = into] ELSE @[m]],
        !.threads = Without(more, S),
        !.failed = @ \/ (old = {} /\ t \in DOMAIN d.threads)]  \* the sum is NULL

\* Mutant: what an arrival ends the wait for stays registered.
KeepsWaiting(d, c, id, md, identifier) ==
  LET asks == {w \in d.missing : w.identifier = identifier /\ d.messages[w.id].account = md.account}
      S    == NotBefore(d, c, md, {w.id : w \in asks}) \ {id}
      old  == {d.messages[m].thread : m \in S} \ {md.thread}
      a    == Respond(d, S, id)
  IN IF identifier = 0 \/ S = {} THEN d
     ELSE IF old = {} THEN a ELSE MergeThreads(a, old, a.messages[id].thread, md.thread)

\* resolveMissingMessages, by identifier: the messages that wait for this one
\* become its successors, and their threads become part of its thread.
ResolveReferences(d, c, id, md, identifier) ==
  LET asks == {w \in d.missing : w.identifier = identifier /\ d.messages[w.id].account = md.account}
      S    == NotBefore(d, c, md, {w.id : w \in asks}) \ {id}
      old  == {d.messages[m].thread : m \in S} \ {md.thread}
      a    == [Respond(d, S, id) EXCEPT
                 !.missing = {w \in @ : \A v \in asks : v.id \in S /\ v.id = w.id => w.level < v.level}]
  IN IF identifier = 0 \/ S = {} THEN d
     ELSE IF old = {} THEN a ELSE MergeThreads(a, old, a.messages[id].thread, md.thread)

\* Mutant: by subject, whatever waits for a predecessor gets this one.
AnswersAll(d, c, id, md) ==
  LET S == {w.id : w \in {v \in d.waiting : v.subject \in SubjectId(d, md.mail.subject)}} \ {id}
  IN [Respond(d, S, id) EXCEPT
        !.waiting = {IF w.id \in S THEN [w EXCEPT !.found = TRUE] ELSE w : w \in @}]

\* resolveMissingMessages, by subject: it gets the later messages that have no
\* predecessor, or an older one.
ResolveSubject(d, c, id, md) ==
  LET stamp(m) == d.messages[m].mail.stamp
      waits == {w.id : w \in {v \in d.waiting : v.subject \in SubjectId(d, md.mail.subject)}}
      later == {m \in waits \cap Messages(d) :
                  /\ stamp(m) > stamp(id)
                  /\ LET r == d.messages[m].response
                     IN r = 0 \/ (r \in Messages(d) /\ stamp(id) > stamp(r))}
      S == NotBefore(d, c, md, later) \ {id}
  IN IF md.mail.subject = NoSubject THEN d
     ELSE [Respond(d, S, id) EXCEPT
             !.waiting = {IF w.id \in S THEN [w EXCEPT !.found = TRUE] ELSE w : w \in @}]

ResolveMissingMessages(d, c, id, md, identifier) ==
  ResolveSubject(ResolveReferences(d, c, id, md, identifier), c, id, md)

\* registerSubject
RegisterSubject(d, id, md, unknown) ==
  LET new == 1 + Max({0} \cup DOMAIN d.subjects)
      a == IF SubjectId(d, md.mail.subject) # {} THEN d
           ELSE [d EXCEPT !.subjects = With(@, new, md.mail.subject)]
      n == CHOOSE k \in SubjectId(a, md.mail.subject) : TRUE
      known == \E w \in a.waiting : w.id = id
      wait == [id |-> id, subject |-> n, found |-> md.response # 0]
  IN IF md.mail.subject = NoSubject THEN d
     ELSE [a EXCEPT
             !.about = @ \cup {<<a.messages[id].thread, n>>},
             !.waiting = IF ~unknown THEN @
                         ELSE IF known
                         THEN {IF w.id = id THEN [w EXCEPT !.subject = n] ELSE w : w \in @}
                         ELSE @ \cup {wait}]

\* The references that are missing: the first of the list has the highest level.
MissingEntries(id, lost) ==
  {[id |-> id, identifier |-> lost[k], level |-> Len(lost) - k] : k \in DOMAIN lost}

-----------------------------------------------------------------------------
(* Threads *)

Trashed(md) == md.hidden \/ md.folder = "trash"

One(b) == IF b THEN 1 ELSE 0

\* recalculateThreadsColumns; a thread without messages is deleted.
RecalculateThreads(d, S) ==
  LET counted(t) == {m \in InThread(d, t) : ~Trashed(d.messages[m])}
      empty == {t \in S : InThread(d, t) = {}}
      fresh(t) == [d.threads[t] EXCEPT
                     !.count = Cardinality(counted(t)),
                     !.unread = Cardinality({m \in counted(t) : ~d.messages[m].read})]
  IN [d EXCEPT !.threads = [t \in DOMAIN @ \ empty |-> IF t \in S THEN fresh(t) ELSE @[t]]]

AddThread(d, md, count, unread) ==
  [d EXCEPT !.threads = With(@, d.lastThread + 1, [count |-> count, unread |-> unread, account |-> md.account]),
            !.lastThread = @ + 1]

\* updateThreadsValues: more unread messages in a thread.
AddUnread(d, t, n) ==
  IF t \in DOMAIN d.threads THEN [d EXCEPT !.threads[t].unread = @ + n] ELSE d

-----------------------------------------------------------------------------
(* Adding a message *)

\* attemptAddMessage: the thread the client asks for by a predecessor.
Addressed(d, md) ==
  IF md.response = 0 THEN md
  ELSE IF md.response \in Messages(d) THEN [md EXCEPT !.thread = d.messages[md.response].thread]
  ELSE [md EXCEPT !.response = 0]

\* attemptAddMessage: the thread is told, or there is a new one.
JoinThread(d, md) ==
  IF md.thread = 0
  THEN AddThread(d, md, One(~md.hidden), One(~md.hidden /\ ~md.read))
  ELSE IF Trashed(md) \/ md.thread \notin DOMAIN d.threads THEN d
  ELSE [d EXCEPT !.threads[md.thread].count = @ + 1,
                 !.threads[md.thread].unread = @ + One(~md.read)]

Commit(d, c) ==
  /\ db' = IF d.failed THEN db ELSE d
  /\ cache' = c

\* bare: the client adds metadata only, so there are no headers to read.
AddMessage(h, bare, account, folder, flags, response) ==
  /\ db.lastMessage < MaxMessages
  /\ LET id   == db.lastMessage + 1
         name == IF bare THEN 0 ELSE h.identifier
         refs == IF bare THEN <<>> ELSE h.references
         md0  == Addressed(db, [account |-> account, folder |-> folder, read |-> "read" \in flags,
                                hidden |-> "hidden" \in flags, mail |-> h, identifier |-> name,
                                thread |-> 0, response |-> response])
         none == [md |-> md0, lost |-> <<>>, unknown |-> FALSE, cache |-> cache]
     IN \E r \in IF md0.response # 0 THEN {none} ELSE MessagePredecessor(db, cache, 0, md0, refs) :
          LET a  == JoinThread(db, r.md)
              md == IF r.md.thread = 0 THEN [r.md EXCEPT !.thread = a.lastThread] ELSE r.md
              b  == [a EXCEPT !.messages = With(@, id, md), !.lastMessage = id]
              e  == ResolveMissingMessages(RegisterSubject(b, id, md, r.unknown), r.cache, id, md, name)
          IN Commit([e EXCEPT !.missing = @ \cup MissingEntries(id, r.lost)], r.cache)

-----------------------------------------------------------------------------
(* Updating a message *)

\* attemptUpdateMessage, when the predecessor has changed: the thread joins the
\* thread of the predecessor, or the message leaves it with its successors.
ChangePredecessor(d, id, md) ==
  LET old == d.messages[id].thread
      p   == md.response
      successors == {m \in Messages(d) : id \in Chain(Responses(d, Messages(d)), m)}
      a == IF p = 0
           THEN LET n == AddThread(d, md, 1, One(~md.read))
                IN [n EXCEPT !.messages = [m \in DOMAIN @ |->
                      IF m \in successors THEN [@[m] EXCEPT !.thread = n.lastThread] ELSE @[m]]]
           ELSE IF md.thread = old THEN d
           ELSE IF p \notin Messages(d) THEN [d EXCEPT !.failed = TRUE]  \* the thread is NULL
           ELSE MergeThreads(d, {old}, d.messages[p].thread, d.messages[p].thread)
  IN [a EXCEPT !.missing = {w \in @ : w.id # id}, !.waiting = {w \in @ : w.id # id}]

\* attemptUpdateMessage, when the row has been written: the thread's counts.
CountUpdate(d, old, md) ==
  LET moved == md.folder # old.folder
      trash == moved /\ (Trashed(md) \/ old.folder = "trash" \/ md.hidden # old.hidden)
  IN IF trash THEN RecalculateThreads(d, {md.thread})
     ELSE AddUnread(d, md.thread, One(old.read) - One(md.read))

\* attemptUpdateMessage.  copy is the metadata of the client; full says whether
\* the client has the mail and not only its metadata; data and content say
\* which of the two has been modified.
UpdateMessage(id, copy, full, data, content) ==
  LET old  == db.messages[id]
      ask  == full /\ (content \/ copy.response = 0 \/ copy.response # old.response)
      none == [md |-> copy, lost |-> <<>>, unknown |-> FALSE, cache |-> cache]
  IN \E r \in IF ~ask THEN {none}
              ELSE MessagePredecessor(db, cache, id, copy, old.mail.references) :
       LET md      == r.md
           changed == md.response # old.response
           name    == IF content THEN old.mail.identifier ELSE 0
           a == IF changed THEN ChangePredecessor(db, id, md) ELSE db
           b == [a EXCEPT !.messages[id] =
                   IF data THEN [md EXCEPT !.identifier = old.identifier]
                   ELSE [@ EXCEPT !.response = md.response]]
           e == CountUpdate(b, old, md)
           f == IF data THEN RegisterSubject(e, id, md, r.unknown) ELSE e
           g == IF ~content THEN f
                ELSE [f EXCEPT !.messages[id].identifier = name,
                               !.missing = IF r.lost = <<>> THEN @
                                           ELSE {w \in @ : w.id # id} \cup MissingEntries(id, r.lost)]
           z == IF data \/ changed \/ name \notin {0, old.identifier}
                THEN ResolveMissingMessages(g, r.cache, id, md, name) ELSE g
           new(c) == IF data THEN md ELSE [c EXCEPT !.response = md.response]
       IN Commit(z, [m \in DOMAIN r.cache |-> IF m = id THEN new(r.cache[m]) ELSE r.cache[m]])

\* What a client may change in the metadata of a message.
Edits(md) ==
  {[md EXCEPT ![flag] = ~@] : flag \in Flags} \cup {[md EXCEPT !.folder = f] : f \in Folders \ {md.folder}}
  \cup (IF Detaching THEN {[md EXCEPT !.response = m] : m \in (0 .. db.lastMessage) \ {md.response}} ELSE {})

\* updateMessage with metadata, which may come from the cache.
UpdateMetaData(id) ==
  \E copy \in Edits(Metadata(db, cache, id)) : UpdateMessage(id, copy, FALSE, TRUE, FALSE)

\* updateMessage with a mail: its content has been fetched, or it is edited.
UpdateContent(id) ==
  LET now == db.messages[id]
  IN \/ UpdateMessage(id, now, TRUE, FALSE, TRUE)
     \/ \E copy \in Edits(now), content \in BOOLEAN : UpdateMessage(id, copy, TRUE, TRUE, content)

Change(f, S, Op(_)) == [m \in DOMAIN f |-> IF m \in S THEN Op(f[m]) ELSE f[m]]

\* attemptUpdateMessagesMetaData
UpdateMessagesMetaData(S, folder) ==
  LET move(md) == [md EXCEPT !.folder = folder]
      d == [db EXCEPT !.messages = Change(@, S, move)]
  IN Commit(RecalculateThreads(d, {db.messages[m].thread : m \in S}), Change(cache, S, move))

\* attemptUpdateMessagesStatus.  The list of messages is used up for the first
\* of the threads.
UpdateMessagesStatus(S, flag, set) ==
  LET first == Metadata(db, cache, Min(S)).thread
      flips == {m \in S : db.messages[m].thread = first /\ db.messages[m].read # set}
      mark(md) == [md EXCEPT ![flag] = set]
      n == Cardinality(flips) * (IF set THEN -1 ELSE 1)
      d == IF flag = "read" THEN AddUnread(db, first, n) ELSE db
  IN Commit([d EXCEPT !.messages = Change(@, S, mark)], Change(LookedAll(db, cache, S), S, mark))

-----------------------------------------------------------------------------
(* Removing messages *)

\* Mutants: one deleted predecessor is skipped at most; the answers are cut off.
NextLeft(d, S, x) == IF x \in S THEN d.messages[x].response ELSE x
NoneLeft(d, S, x) == IF x \in S THEN 0 ELSE x

\* The first message that is left, from x along the predecessors.
FirstLeft(d, S, x) ==
  LET step[n \in 0 .. MaxMessages] ==
        IF n = 0 THEN x ELSE IF step[n-1] \in S THEN d.messages[step[n-1]].response ELSE step[n-1]
  IN step[MaxMessages]

\* deleteMessages
DeleteMessages(d, S) ==
  LET touched == {d.messages[m].thread : m \in S}
      left(md) == [md EXCEPT !.response = FirstLeft(d, S, @)]
      messages == Without(Change(d.messages, Messages(d), left), S)
      about    == {p \in d.about : \E m \in DOMAIN messages : messages[m].thread = p[1]}
  IN IF S = {} THEN d
     ELSE RecalculateThreads(
            [d EXCEPT !.messages = messages,
                      !.missing = {w \in @ : w.id \notin S}, !.waiting = {w \in @ : w.id \notin S},
                      !.about = about,
                      !.subjects = Part(@, {p[2] : p \in about})], touched)

\* removeExpiredData: the deleted messages leave the cache.
Expire(d, S) == Commit(d, Without(cache, S))

RemoveMessages(S) == Expire(DeleteMessages(db, S), S)

RemoveFolder(folder) ==
  LET S == {m \in Messages(db) : db.messages[m].folder = folder}
  IN Expire(DeleteMessages(db, S), S)

\* deleteThreads
DeleteThreads(d, T) ==
  LET a == DeleteMessages(d, {m \in Messages(d) : d.messages[m].thread \in T})
  IN [a EXCEPT !.threads = Without(@, T)]

RemoveThread(t) == Expire(DeleteThreads(db, {t}), InThread(db, t))

\* deleteAccounts: its messages, then its threads.
RemoveAccount(account) ==
  LET S == {m \in Messages(db) : db.messages[m].account = account}
      a == DeleteMessages(db, S)
      T == {t \in DOMAIN a.threads : a.threads[t].account = account}
  IN Expire(DeleteThreads(a, T), S \cup UNION {InThread(a, t) : t \in T})

\* A client reads the metadata of a message.
ReadMetaData(m) == Metadata(db, cache, m) = db.messages[m] /\ Commit(db, Looked(db, cache, m))

\* purgeMissingAncestors, when the store is opened: the cache is empty then.
PurgeMissingAncestors == Commit([db EXCEPT !.waiting = {w \in @ : ~w.found}], <<>>)

Init ==
  /\ db = [messages |-> <<>>, threads |-> <<>>, missing |-> {}, waiting |-> {}, subjects |-> <<>>,
           about |-> {}, lastMessage |-> 0, lastThread |-> 0, failed |-> FALSE]
  /\ cache = <<>>

Next ==
  \/ \E h \in Headers, bare \in Bare, account \in Accounts, flags \in SUBSET Flags, folder \in Folders :
       \E response \in IF Detaching THEN 0 .. db.lastMessage ELSE {0} :
         AddMessage(h, bare, account, folder, flags, response)
  \/ \E m \in Messages(db) : UpdateMetaData(m) \/ UpdateContent(m) \/ ReadMetaData(m)
  \/ \E S \in SUBSET Messages(db) \ {{}} :
       \/ \E folder \in Folders : UpdateMessagesMetaData(S, folder)
       \/ \E flag \in Flags, set \in BOOLEAN : UpdateMessagesStatus(S, flag, set)
       \/ RemoveMessages(S)
  \/ \E folder \in Folders : RemoveFolder(folder)
  \/ \E t \in DOMAIN db.threads : RemoveThread(t)
  \/ \E account \in Accounts : RemoveAccount(account)
  \/ PurgeMissingAncestors

Spec == Init /\ [][Next]_vars

-----------------------------------------------------------------------------
(* Properties *)

\* Every message belongs to a thread of the thread table, whatever merges and
\* removals have taken place: a row that names a deleted thread breaks the
\* foreign key of mailmessages and is shown in no conversation.
ThreadExists == \A m \in Messages(db) : db.messages[m].thread \in DOMAIN db.threads

\* The predecessor of a message is a message of the store: deleteMessages
\* relinks the answers to what it deletes, over any number of deleted messages.
ResponseExists == \A m \in Messages(db) : db.messages[m].response \in Messages(db) \cup {0}

\* No message is its own ancestor, in whatever order the mails that refer to
\* each other arrive and are resolved.
NoCycle ==
  \A m \in Messages(db) :
    LET r == db.messages[m].response
    IN r \in Messages(db) => m \notin Chain(Responses(db, Messages(db)), r)

\* A mail that arrives ends every wait for it, and becomes the predecessor of
\* what waited, but for its own ancestors: those go on waiting for a mail that
\* is there, since it cannot come before them as well.
ArrivalEndsWait ==
  [][\A n \in Messages(db') \ Messages(db), w \in db'.missing :
       LET all == db'.messages
       IN w.identifier = all[n].identifier /\ all[w.id].account = all[n].account
            => w.id \in Chain(Responses(db', Messages(db')), n)]_vars

\* A removal changes no conversation between the messages that are left: each
\* has the ancestors it had, without the deleted ones.
AncestorsKept ==
  [][LET now   == Messages(db)
         later == Messages(db')
     IN later \subseteq now /\ later # now =>
          \A m \in later : Chain(Responses(db', later), m) = Chain(Responses(db, now), m) \cap later]_vars

=============================================================================
