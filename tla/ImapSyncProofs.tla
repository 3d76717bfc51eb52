--------------------------- MODULE ImapSyncProofs ---------------------------
(***************************************************************************)
(* What TLAPS proves of ImapSync.  First, what a synchronization takes     *)
(* away: no message that is on the server is purged, no message is marked  *)
(* unread that the user has read, and no removal record is dropped too     *)
(* early; the invariant is Kept, with Found, Deleting and Removing.  Then, *)
(* what it achieves: an undisturbed synchronization leaves the store as    *)
(* the server is, and no change to export is lost; the invariant is Sound. *)
(***************************************************************************)
EXTENDS ImapSync, FiniteSetTheorems, TLAPS

\* r is a record (or a function) on D.
Has(r, D) == r = [x \in D |-> r[x]]

Rows(l) == Has(l, DOMAIN l) /\ \A m \in DOMAIN l : Has(l[m], {"here", "elsewhere", "removed"})

\* The members of the client.
Members(c) ==
  /\ Has(c, {"up", "box", "alone", "request", "command", "folder", "todo", "found", "conclusive", "marks",
             "removed", "expunge", "sending", "plan", "retrieve", "selected", "list", "last"})
  /\ Has(c.found, {"seen", "unseen", "flagged"})

\* A state has its components.
Formed(s) ==
  /\ Has(s, {"server", "local", "records", "client", "stored", "reports"})
  /\ Members(s.client)
  /\ Has(s.server, DOMAIN s.server) /\ DOMAIN s.server \in SUBSET Mail
  /\ Rows(s.local)
  /\ Has(s.stored, Exporting) /\ \A r \in Exporting : Has(s.stored[r], {"marks", "removed"})

-----------------------------------------------------------------------------
(* Handlers that leave the store alone *)

\* Nothing but the client's members differs.
Same(s, n) ==
  /\ Formed(n)
  /\ n.server = s.server /\ n.local = s.local /\ n.records = s.records
  /\ n.stored = s.stored /\ n.reports = s.reports

\* No search is under way, and a selected folder starts from nothing.
Calm(c) ==
  /\ c.command \notin {"SEEN", "UNSEEN", "FLAGGED", "ALL"}
  /\ c.command = "SELECT" /\ c.request # "delete" => c.found = NothingFound /\ c.conclusive = TRUE

\* The request goes on with the list of what is deleted, or it ends.
Keeps(c, d) ==
  /\ d.request = c.request \/ (d.request = "none" /\ d.command = "none")
  /\ d.list \in {c.list, {}}

\* The members of the client are c.
LEMMA ClientSet ==
  ASSUME NEW s, Formed(s), NEW c, Members(c)
  PROVE  LET n == [s EXCEPT !.client = c] IN Same(s, n) /\ n.client = c
<1> DEFINE n == [s EXCEPT !.client = c]
<1>1. /\ Has(n, {"server", "local", "records", "client", "stored", "reports"})
      /\ n.client = c /\ n.server = s.server /\ n.local = s.local /\ n.records = s.records
      /\ n.stored = s.stored /\ n.reports = s.reports
  BY DEF Formed, Has
<1> HIDE DEF n
<1>2. Formed(n)
  BY <1>1 DEF Formed
<1> QED
  BY <1>1, <1>2 DEF Same, n

\* A connection without a strategy.
LEMMA IdleClient ==
  ASSUME NEW up, NEW box
  PROVE  /\ Members(Idle(up, box))
         /\ Idle(up, box).command = "none" /\ Idle(up, box).request = "none" /\ Idle(up, box).list = {}
  BY DEF Idle, NothingFound, Members, Has

\* operationCompleted
LEMMA CompletedSame ==
  ASSUME NEW s, Formed(s)
  PROVE  LET n == Completed(s)
         IN Same(s, n) /\ n.client.command = "none" /\ Keeps(s.client, n.client)
<1> DEFINE c == Idle(s.client.up, s.client.box)
<1>1. Completed(s) = [s EXCEPT !.client = c]
  BY DEF Completed, Formed, Has
<1> HIDE DEF c
<1> QED
  BY <1>1, ClientSet, IdleClient DEF c, Keeps

\* selectNextPreviewFolder
LEMMA PreviewSame ==
  ASSUME NEW s, Formed(s)
  PROVE  LET n == PreviewNext(s)
         IN /\ Same(s, n) /\ n.client.command \in {"none", "FETCH", "PREVIEW"}
            /\ Keeps(s.client, n.client)
<1> DEFINE next == Head(s.client.retrieve)
           t == [s EXCEPT !.client.retrieve = Tail(@), !.client.folder = next[1],
                          !.client.sending = <<0, next[2]>>]
           x == IF s.client.box = next[1] THEN "FETCH" ELSE "PREVIEW"
           n == [t EXCEPT !.client.command = x]
           c == [s.client EXCEPT !.retrieve = Tail(@), !.folder = next[1], !.sending = <<0, next[2]>>,
                                 !.command = x]
<1>1. PreviewNext(s) = IF s.client.retrieve = <<>> THEN Completed(s) ELSE n
  BY DEF PreviewNext, Send
<1>2. n = [s EXCEPT !.client = c]
  BY DEF Formed, Has
<1>3. Members(c) /\ c.command = x /\ Keeps(s.client, c)
  BY DEF Formed, Members, Has, Keeps
<1>4. x \in {"FETCH", "PREVIEW"}
  OBVIOUS
<1> HIDE DEF n, c, x
<1>6. Same(s, n) /\ n.client = c
  BY <1>2, <1>3, ClientSet
<1> QED
  BY <1>1, <1>3, <1>4, <1>6, CompletedSame

\* nextFolder goes to the next folder, or to the previews.
LEMMA FolderCases ==
  ASSUME NEW s, Formed(s)
  PROVE  LET c == [s.client EXCEPT !.found = NothingFound, !.conclusive = TRUE, !.marks = NoMarks,
                                   !.removed = {}, !.expunge = FALSE]
             f == Min(s.client.todo)
             a == [c EXCEPT !.folder = 0]
             b == [c EXCEPT !.folder = f, !.todo = @ \ {f}, !.command = "SELECT"]
         IN ProcessNextFolder(s) = IF s.client.todo = {} THEN PreviewNext([s EXCEPT !.client = a])
                                   ELSE [s EXCEPT !.client = b]
<1> DEFINE c == [s.client EXCEPT !.found = NothingFound, !.conclusive = TRUE, !.marks = NoMarks,
                                 !.removed = {}, !.expunge = FALSE]
           f == Min(s.client.todo)
           a == [c EXCEPT !.folder = 0]
           b == [c EXCEPT !.folder = f, !.todo = @ \ {f}, !.command = "SELECT"]
           t == [s EXCEPT !.client.found = NothingFound, !.client.conclusive = TRUE,
                          !.client.marks = NoMarks, !.client.removed = {}, !.client.expunge = FALSE]
           x == [t EXCEPT !.client.folder = 0]
           y == [t EXCEPT !.client.folder = f, !.client.todo = @ \ {f}]
<1>1. Has(s, {"server", "local", "records", "client", "stored", "reports"}) /\ Members(s.client)
  BY DEF Formed
<1>2. t = [s EXCEPT !.client = c]
  BY <1>1 DEF Has
<1>3. Members(c) /\ c.todo = s.client.todo
  BY <1>1 DEF Members, Has, NothingFound
<1>4. ProcessNextFolder(s) = IF s.client.todo = {} THEN PreviewNext(x) ELSE [y EXCEPT !.client.command = "SELECT"]
  BY Zenon DEF ProcessNextFolder, Send
<1> HIDE DEF c, t, f
<1>5. x = [s EXCEPT !.client = a]
  BY <1>1, <1>2, <1>3 DEF Has
<1>6. [y EXCEPT !.client.command = "SELECT"] = [s EXCEPT !.client = b]
  BY <1>1, <1>2, <1>3 DEF Has
<1> HIDE DEF a, b, x, y
<1> QED
  BY <1>4, <1>5, <1>6 DEF a, b, c, f

\* nextFolder, and folderListCompleted when none is left.
LEMMA NextFolderSame ==
  ASSUME NEW s, Formed(s)
  PROVE  LET n == ProcessNextFolder(s)
         IN /\ Same(s, n) /\ Calm(n.client)
            /\ n.client.command \in {"none", "FETCH", "PREVIEW", "SELECT"}
            /\ Keeps(s.client, n.client)
<1> DEFINE c == [s.client EXCEPT !.found = NothingFound, !.conclusive = TRUE, !.marks = NoMarks,
                                 !.removed = {}, !.expunge = FALSE]
           f == Min(s.client.todo)
           a == [c EXCEPT !.folder = 0]
           b == [c EXCEPT !.folder = f, !.todo = @ \ {f}, !.command = "SELECT"]
           x == [s EXCEPT !.client = a]
           y == [s EXCEPT !.client = b]
<1>1. ProcessNextFolder(s) = IF s.client.todo = {} THEN PreviewNext(x) ELSE y
  BY FolderCases
<1>2. /\ Members(c) /\ c.request = s.client.request /\ c.list = s.client.list
      /\ c.found = NothingFound /\ c.conclusive = TRUE
  BY DEF Formed, Members, Has, NothingFound
<1> HIDE DEF c, f
<1>3. Members(a) /\ a.request = c.request /\ a.list = c.list
  BY <1>2 DEF Members, Has
<1>4. /\ Members(b) /\ b.request = c.request /\ b.list = c.list /\ b.command = "SELECT"
      /\ b.found = c.found /\ b.conclusive = c.conclusive
  BY <1>2 DEF Members, Has
<1> HIDE DEF a, b
<1>5. Same(s, x) /\ x.client = a
  BY <1>3, ClientSet
<1>6. Same(s, y) /\ y.client = b
  BY <1>4, ClientSet
<1> HIDE DEF x, y
<1>7. Calm(y.client)
  BY <1>2, <1>4, <1>6 DEF Calm
<1>8. /\ Same(x, PreviewNext(x)) /\ PreviewNext(x).client.command \in {"none", "FETCH", "PREVIEW"}
      /\ Keeps(s.client, PreviewNext(x).client)
  BY <1>2, <1>3, <1>5, PreviewSame DEF Same, Keeps
<1>9. Same(s, PreviewNext(x)) /\ Calm(PreviewNext(x).client)
  BY <1>5, <1>8 DEF Same, Calm
<1> QED
  BY <1>1, <1>2, <1>4, <1>6, <1>7, <1>8, <1>9 DEF Keeps

-----------------------------------------------------------------------------
(* Export *)

\* What a STORE has confirmed is entered: no row goes, no flag of the user changes.
LEMMA ElsewhereRows ==
  ASSUME NEW l, Rows(l), NEW f, NEW marks
  PROVE  LET k == MarkElsewhere(l, f, marks)
         IN Rows(k) /\ DOMAIN k = DOMAIN l /\ \A m \in DOMAIN l : k[m].here = l[m].here
<1> DEFINE E(m) == (l[m].elsewhere \cup {Marked(k) : k \in {j \in Mark : Sets(j) /\ m \in marks[j]}})
                     \ {Marked(k) : k \in {j \in Mark : ~Sets(j) /\ m \in marks[j]}}
           n == MarkElsewhere(l, f, marks)
           v(m) == IF FolderOf[m] # f THEN l[m] ELSE [l[m] EXCEPT !.elsewhere = E(m)]
<1>1. n = [m \in DOMAIN l |-> v(m)]
  BY DEF MarkElsewhere, Rows, Has
<1> HIDE DEF n, E
<1>2. \A m \in DOMAIN l : Has(v(m), {"here", "elsewhere", "removed"}) /\ v(m).here = l[m].here
  BY DEF Rows, Has
<1> HIDE DEF v
<1>3. DOMAIN n = DOMAIN l /\ \A m \in DOMAIN l : n[m] = v(m)
  BY <1>1
<1>4. Rows(n)
  BY <1>1, <1>2, <1>3 DEF Rows, Has
<1> QED
  BY <1>2, <1>3, <1>4 DEF n

\* The first of some marks is one of them.
LEMMA MinMark ==
  ASSUME NEW S, S \subseteq 1 .. 4, S # {}
  PROVE  Min(S) \in S
<1>1. \E x \in S : \A y \in S : x <= y
  <2>1. \A x \in S : x \in {1, 2, 3, 4}
    OBVIOUS
  <2>2. CASE 1 \in S
    BY <2>1, <2>2
  <2>3. CASE 1 \notin S /\ 2 \in S
    BY <2>1, <2>3
  <2>4. CASE 1 \notin S /\ 2 \notin S /\ 3 \in S
    BY <2>1, <2>4
  <2>5. CASE 1 \notin S /\ 2 \notin S /\ 3 \notin S
    <3>1. \A x \in S : x = 4
      BY <2>1, <2>5
    <3>2. PICK x \in S : TRUE
      OBVIOUS
    <3>3. 4 \in S /\ 4 <= 4
      BY <3>1, <3>2
    <3> QED
      BY <3>1, <3>3
  <2> QED
    BY <2>2, <2>3, <2>4, <2>5
<1> QED
  BY <1>1 DEF Min

\* n has the store of s but for what the server is known to have.
Noted(s, n) ==
  /\ Formed(n) /\ n.server = s.server /\ n.reports = s.reports
  /\ DOMAIN n.local = DOMAIN s.local /\ \A m \in DOMAIN s.local : n.local[m].here = s.local[m].here

\* What a handler leaves, given its parts.
LEMMA NotedParts ==
  ASSUME NEW s, Formed(s), NEW n, Has(n, {"server", "local", "records", "client", "stored", "reports"}),
         n.server = s.server, n.reports = s.reports, Rows(n.local), Members(n.client),
         Has(n.stored, Exporting), \A r \in Exporting : Has(n.stored[r], {"marks", "removed"}),
         DOMAIN n.local = DOMAIN s.local, \A m \in DOMAIN s.local : n.local[m].here = s.local[m].here
  PROVE  Noted(s, n)
  BY DEF Noted, Formed

\* What handleUidStore may do, for request r: send another STORE for a mark, send
\* the STORE that marks messages as deleted, send EXPUNGE, or go on, and then
\* the removal records of all that has been marked are dropped.
Exports(s, n, r) ==
  \/ /\ n.client.command = "STORE" /\ n.client.sending[1] # Deleted
     /\ n.records = s.records /\ \A q \in Exporting : n.stored[q].removed = s.stored[q].removed
     /\ n.client.box = s.client.box /\ n.client.request = r /\ n.client.removed = s.client.removed
     /\ n.client.expunge = s.client.expunge /\ \E k \in Mark : s.client.marks[k] # {}
  \/ /\ CanDelete /\ n.client.command = "STORE" /\ n.client.sending = <<Deleted, s.client.removed>>
     /\ n.client.box = s.client.box /\ n.client.request = r /\ n.client.removed = {}
     /\ n.client.expunge = s.client.expunge /\ n.client.marks = s.client.marks
     /\ \A k \in Mark : s.client.marks[k] = {}
     /\ n.records = s.records /\ s.client.removed # {}
     /\ n.stored[r].removed = s.stored[r].removed \cup s.client.removed
     /\ \A q \in Exporting \ {r} : n.stored[q].removed = s.stored[q].removed
  \/ /\ n.client.command = "EXPUNGE" /\ n.client.box = s.client.box /\ n.client.request = r
     /\ n.records = s.records /\ \A q \in Exporting : n.stored[q].removed = s.stored[q].removed
  \/ /\ ~(CanDelete /\ s.client.removed # {}) /\ ~(CanDelete /\ s.client.expunge)
     /\ n.client.command \in {"none", "FETCH", "PREVIEW", "SELECT"}
     /\ n.records = s.records \ s.stored[r].removed /\ n.stored[r].removed = {}
     /\ \A q \in Exporting \ {r} : n.stored[q].removed = s.stored[q].removed

\* What handleUidStore does for request r: n1 sends the STORE of mark k, n2 the one that
\* marks messages as deleted, n3 EXPUNGE, and n4 goes on to the next folder.
LEMMA StoreCases ==
  ASSUME NEW s, Formed(s), s.client.request \in Exporting
  PROVE  LET r == s.client.request
             l == MarkElsewhere(s.local, s.client.folder, s.stored[r].marks)
             left == {k \in Mark : s.client.marks[k] # {}}
             k == Min(left)
             st == [s.stored EXCEPT ![r].marks = NoMarks]
             st1 == [s.stored EXCEPT ![r].marks = [NoMarks EXCEPT ![k] = s.client.marks[k]]]
             c1 == [s.client EXCEPT !.marks[k] = {}, !.sending = <<k, s.client.marks[k]>>, !.command = "STORE"]
             n1 == [s EXCEPT !.local = l, !.stored = st1, !.client = c1, !.records = s.records]
             st2 == [s.stored EXCEPT ![r].marks = NoMarks, ![r].removed = @ \cup s.client.removed]
             c2 == [s.client EXCEPT !.removed = {}, !.sending = <<Deleted, s.client.removed>>, !.command = "STORE"]
             n2 == [s EXCEPT !.local = l, !.stored = st2, !.client = c2, !.records = s.records]
             c3 == [s.client EXCEPT !.command = "EXPUNGE"]
             n3 == [s EXCEPT !.local = l, !.stored = st, !.client = c3, !.records = s.records]
             st4 == [s.stored EXCEPT ![r].marks = NoMarks, ![r].removed = {}]
             n4 == [s EXCEPT !.local = l, !.stored = st4, !.client = s.client, !.records = s.records \ s.stored[r].removed]
             n == HandleUidStore(s)
         IN \/ left # {} /\ n = n1
            \/ left = {} /\ CanDelete /\ s.client.removed # {} /\ n = n2
            \/ left = {} /\ n = n3
            \/ left = {} /\ ~(CanDelete /\ s.client.removed # {}) /\ ~(CanDelete /\ s.client.expunge) /\ n = ProcessNextFolder(n4)
<1> DEFINE n == HandleUidStore(s)
           r == s.client.request
           l == MarkElsewhere(s.local, s.client.folder, s.stored[r].marks)
           st == [s.stored EXCEPT ![r].marks = NoMarks]
           left == {k \in Mark : s.client.marks[k] # {}}
           k == Min(left)
           st1 == [s.stored EXCEPT ![r].marks = [NoMarks EXCEPT ![k] = s.client.marks[k]]]
           c1 == [s.client EXCEPT !.marks[k] = {}, !.sending = <<k, s.client.marks[k]>>, !.command = "STORE"]
           n1 == [s EXCEPT !.local = l, !.stored = st1, !.client = c1, !.records = s.records]
           st2 == [s.stored EXCEPT ![r].marks = NoMarks, ![r].removed = @ \cup s.client.removed]
           c2 == [s.client EXCEPT !.removed = {}, !.sending = <<Deleted, s.client.removed>>, !.command = "STORE"]
           n2 == [s EXCEPT !.local = l, !.stored = st2, !.client = c2, !.records = s.records]
           c3 == [s.client EXCEPT !.command = "EXPUNGE"]
           n3 == [s EXCEPT !.local = l, !.stored = st, !.client = c3, !.records = s.records]
           st4 == [s.stored EXCEPT ![r].marks = NoMarks, ![r].removed = {}]
           n4 == [s EXCEPT !.local = l, !.stored = st4, !.client = s.client, !.records = s.records \ s.stored[r].removed]
<1>A. /\ Has(s, {"server", "local", "records", "client", "stored", "reports"}) /\ Has(s.stored, Exporting)
      /\ Has(s.stored[r], {"marks", "removed"}) /\ Members(s.client)
      /\ \A q \in Exporting : Has(s.stored[q], {"marks", "removed"})
  BY DEF Formed
<1> DEFINE t == [s EXCEPT !.local = l, !.stored[r].marks = NoMarks]
<1>0. t = [s EXCEPT !.local = l, !.stored = st]
  BY <1>A DEF Has
<1>1. [t EXCEPT !.stored[r].marks[k] = s.client.marks[k], !.client.marks[k] = {},
                !.client.sending = <<k, s.client.marks[k]>>, !.client.command = "STORE"] = n1
  <2> DEFINE M == s.client.marks[k]
  <2>1. [st EXCEPT ![r].marks[k] = M] = st1
    <3> DEFINE o == s.stored[r]
               a == [o EXCEPT !.marks = NoMarks]
               N == [NoMarks EXCEPT ![k] = M]
    <3>1. a.marks = NoMarks /\ Has(o, {"marks", "removed"})
      BY <1>A DEF Has
    <3>2. st = [s.stored EXCEPT ![r] = a] /\ st1 = [s.stored EXCEPT ![r] = [o EXCEPT !.marks = N]]
      OBVIOUS
    <3> HIDE DEF M, k, st, st1
    <3>3. [a EXCEPT !.marks = N] = [o EXCEPT !.marks = N]
      <4> HIDE DEF N
      <4> QED
        BY <3>1 DEF Has
    <3>4. [a EXCEPT !.marks[k] = M] = [a EXCEPT !.marks = N]
      BY <3>1
    <3> HIDE DEF a, N, o
    <3>5. [st EXCEPT ![r].marks[k] = M] = [s.stored EXCEPT ![r] = [a EXCEPT !.marks[k] = M]]
      BY <1>A, <3>2 DEF Has
    <3> QED
      BY <3>2, <3>3, <3>4, <3>5
  <2> HIDE DEF M, k, l, st, st1, t
  <2>2. [t EXCEPT !.stored[r].marks[k] = M, !.client.marks[k] = {}, !.client.sending = <<k, M>>,
                  !.client.command = "STORE"]
        = [s EXCEPT !.local = l, !.stored = [st EXCEPT ![r].marks[k] = M],
                    !.client = [s.client EXCEPT !.marks[k] = {}, !.sending = <<k, M>>, !.command = "STORE"]]
    BY <1>A, <1>0 DEF Has
  <2> QED
    BY <1>A, <2>1, <2>2 DEF Has, M
<1>2. [t EXCEPT !.stored[r].removed = @ \cup s.client.removed, !.client.removed = {},
                !.client.sending = <<Deleted, s.client.removed>>, !.client.command = "STORE"] = n2
  <2> DEFINE R == s.client.removed
  <2>1. [st EXCEPT ![r].removed = @ \cup R] = st2
    BY <1>A DEF Has
  <2> HIDE DEF R, l, st, st2, t
  <2>2. [t EXCEPT !.stored[r].removed = @ \cup R, !.client.removed = {}, !.client.sending = <<Deleted, R>>,
                  !.client.command = "STORE"]
        = [s EXCEPT !.local = l, !.stored = [st EXCEPT ![r].removed = @ \cup R],
                    !.client = [s.client EXCEPT !.removed = {}, !.sending = <<Deleted, R>>, !.command = "STORE"]]
    BY <1>A, <1>0 DEF Has
  <2> QED
    BY <1>A, <2>1, <2>2 DEF Has, R
<1>3. [t EXCEPT !.client.command = "EXPUNGE"] = n3
  BY <1>A DEF Has, Members
<1>4. [t EXCEPT !.records = @ \ s.stored[r].removed, !.stored[r].removed = {}] = n4
  BY <1>A DEF Has, Members
<1> DEFINE p1 == [t EXCEPT !.stored[r].marks[k] = s.client.marks[k], !.client.marks[k] = {},
                           !.client.sending = <<k, s.client.marks[k]>>]
           p2 == [t EXCEPT !.stored[r].removed = @ \cup s.client.removed, !.client.removed = {},
                           !.client.sending = <<Deleted, s.client.removed>>]
           e4 == [t EXCEPT !.records = @ \ s.stored[r].removed, !.stored[r].removed = {}]
<1>5. n = CASE left # {} -> Send(p1, "STORE")
            [] left = {} /\ CanDelete /\ s.client.removed # {} -> Send(p2, "STORE")
            [] left = {} /\ ~(CanDelete /\ s.client.removed # {}) /\ ExpungeDue(s) -> Send(t, "EXPUNGE")
            [] OTHER -> ProcessNextFolder(e4)
  <2>1. n = ExportNext(s)
    BY DEF HandleUidStore
  <2> HIDE DEF n
  <2> QED
    BY <2>1, Zenon DEF ExportNext
<1>6. Send(p1, "STORE") = n1
  BY <1>1 DEF Send
<1>7. Send(p2, "STORE") = n2
  BY <1>2 DEF Send
<1>8. Send(t, "EXPUNGE") = n3 /\ e4 = n4
  BY <1>3, <1>4 DEF Send
<1>9. ExpungeDue(s) <=> CanDelete /\ s.client.expunge
  BY DEF ExpungeDue
<1>10. \/ left # {} /\ n = n1
       \/ left = {} /\ CanDelete /\ s.client.removed # {} /\ n = n2
       \/ left = {} /\ n = n3
       \/ left = {} /\ ~(CanDelete /\ s.client.removed # {}) /\ ~(CanDelete /\ s.client.expunge) /\ n = ProcessNextFolder(n4)
  <2> HIDE DEF t, n, n1, n2, n3, n4, p1, p2, e4, left, k
  <2> QED
    BY <1>5, <1>6, <1>7, <1>8, <1>9
<1> QED
  BY <1>10, Zenon

\* handleUidStore
LEMMA UidStored ==
  ASSUME NEW s, Formed(s)
  PROVE  LET n == HandleUidStore(s)
         IN /\ Noted(s, n) /\ Calm(n.client)
            /\ n.client.command \in {"none", "FETCH", "PREVIEW", "SELECT", "STORE", "EXPUNGE"}
            /\ Keeps(s.client, n.client)
            /\ s.client.request \in Exporting => Exports(s, n, s.client.request)
            /\ s.client.request \notin Exporting =>
                 /\ n.records = s.records /\ n.stored = s.stored
                 /\ n.client.command \in {"none", "FETCH", "PREVIEW", "SELECT"}
<1> DEFINE n == HandleUidStore(s)
           r == s.client.request
           l == MarkElsewhere(s.local, s.client.folder, s.stored[r].marks)
           st == [s.stored EXCEPT ![r].marks = NoMarks]
           left == {k \in Mark : s.client.marks[k] # {}}
           k == Min(left)
           st1 == [s.stored EXCEPT ![r].marks = [NoMarks EXCEPT ![k] = s.client.marks[k]]]
           c1 == [s.client EXCEPT !.marks[k] = {}, !.sending = <<k, s.client.marks[k]>>, !.command = "STORE"]
           n1 == [s EXCEPT !.local = l, !.stored = st1, !.client = c1, !.records = s.records]
           st2 == [s.stored EXCEPT ![r].marks = NoMarks, ![r].removed = @ \cup s.client.removed]
           c2 == [s.client EXCEPT !.removed = {}, !.sending = <<Deleted, s.client.removed>>, !.command = "STORE"]
           n2 == [s EXCEPT !.local = l, !.stored = st2, !.client = c2, !.records = s.records]
           c3 == [s.client EXCEPT !.command = "EXPUNGE"]
           n3 == [s EXCEPT !.local = l, !.stored = st, !.client = c3, !.records = s.records]
           st4 == [s.stored EXCEPT ![r].marks = NoMarks, ![r].removed = {}]
           n4 == [s EXCEPT !.local = l, !.stored = st4, !.client = s.client, !.records = s.records \ s.stored[r].removed]
<1>1. CASE r \notin Exporting
  <2>1. n = ProcessNextFolder(s)
    BY <1>1 DEF HandleUidStore
  <2>2. Same(s, n) /\ Calm(n.client) /\ n.client.command \in {"none", "FETCH", "PREVIEW", "SELECT"}
        /\ Keeps(s.client, n.client)
    BY <2>1, NextFolderSame
  <2> HIDE DEF n
  <2> QED
    BY <1>1, <2>2 DEF Same, Noted, n
<1>2. CASE r \in Exporting
  <2>0. /\ Has(s, {"server", "local", "records", "client", "stored", "reports"}) /\ Has(s.stored, Exporting)
        /\ Has(s.stored[r], {"marks", "removed"}) /\ Members(s.client)
        /\ \A q \in Exporting : Has(s.stored[q], {"marks", "removed"})
    BY <1>2 DEF Formed
  <2>1. \/ left # {} /\ n = n1
        \/ left = {} /\ CanDelete /\ s.client.removed # {} /\ n = n2
        \/ n = n3
        \/ ~(CanDelete /\ s.client.removed # {}) /\ ~(CanDelete /\ s.client.expunge) /\ n = ProcessNextFolder(n4)
    BY <1>2, Zenon, StoreCases
  <2>2. Rows(l) /\ DOMAIN l = DOMAIN s.local /\ \A m \in DOMAIN s.local : l[m].here = s.local[m].here
    BY ElsewhereRows DEF Formed
  <2>3. /\ Has(st, Exporting) /\ \A q \in Exporting : Has(st[q], {"marks", "removed"})
        /\ \A q \in Exporting : st[q].removed = s.stored[q].removed
    BY <1>2, <2>0 DEF Has
  <2>4. /\ Has(st1, Exporting) /\ \A q \in Exporting : Has(st1[q], {"marks", "removed"})
        /\ \A q \in Exporting : st1[q].removed = s.stored[q].removed
    BY <1>2, <2>0 DEF Has
  <2>5. /\ Has(st2, Exporting) /\ \A q \in Exporting : Has(st2[q], {"marks", "removed"})
        /\ st2[r].removed = s.stored[r].removed \cup s.client.removed
        /\ \A q \in Exporting \ {r} : st2[q].removed = s.stored[q].removed
    BY <1>2, <2>0 DEF Has
  <2>6. /\ Has(st4, Exporting) /\ \A q \in Exporting : Has(st4[q], {"marks", "removed"})
        /\ st4[r].removed = {} /\ \A q \in Exporting \ {r} : st4[q].removed = s.stored[q].removed
    BY <1>2, <2>0 DEF Has
  <2>7. /\ Members(c1) /\ c1.command = "STORE" /\ c1.sending = <<k, s.client.marks[k]>> /\ c1.request = r
        /\ c1.box = s.client.box /\ c1.removed = s.client.removed /\ c1.expunge = s.client.expunge
        /\ c1.list = s.client.list
    BY <2>0 DEF Members, Has
  <2>8. /\ Members(c2) /\ c2.command = "STORE" /\ c2.sending = <<Deleted, s.client.removed>> /\ c2.request = r
        /\ c2.list = s.client.list /\ c2.box = s.client.box /\ c2.removed = {} /\ c2.expunge = s.client.expunge /\ c2.marks = s.client.marks
    BY <2>0 DEF Members, Has
  <2>9. /\ Members(c3) /\ c3.command = "EXPUNGE" /\ c3.request = r /\ c3.box = s.client.box
        /\ c3.list = s.client.list
    BY <2>0 DEF Members, Has
  <2>10. left # {} => (k \in left /\ k # Deleted)
    <3>1. left \subseteq 1 .. 4
      BY DEF Mark
    <3> HIDE DEF left
    <3>2. left # {} => k \in left
      BY <3>1, MinMark
    <3> QED
      BY <3>1, <3>2 DEF Deleted
  <2>11. left # {} => \E j \in Mark : s.client.marks[j] # {}
    OBVIOUS
  <2>12. left = {} => \A j \in Mark : s.client.marks[j] = {}
    OBVIOUS
  <2> HIDE DEF l, st, st1, st2, st4, c1, c2, c3, left, k, n
  <2>13. Noted(s, n1) /\ n1.client = c1 /\ n1.stored = st1 /\ n1.records = s.records
    <3>1. /\ Has(n1, {"server", "local", "records", "client", "stored", "reports"})
          /\ n1.client = c1 /\ n1.stored = st1 /\ n1.records = s.records /\ n1.local = l
          /\ n1.server = s.server /\ n1.reports = s.reports
      BY <2>0 DEF Has
    <3> HIDE DEF n1
    <3> QED
      BY <2>2, <2>4, <2>7, <3>1, NotedParts
  <2>14. Noted(s, n2) /\ n2.client = c2 /\ n2.stored = st2 /\ n2.records = s.records
    <3>1. /\ Has(n2, {"server", "local", "records", "client", "stored", "reports"})
          /\ n2.client = c2 /\ n2.stored = st2 /\ n2.records = s.records /\ n2.local = l
          /\ n2.server = s.server /\ n2.reports = s.reports
      BY <2>0 DEF Has
    <3> HIDE DEF n2
    <3> QED
      BY <2>2, <2>5, <2>8, <3>1, NotedParts
  <2>15. Noted(s, n3) /\ n3.client = c3 /\ n3.stored = st /\ n3.records = s.records
    <3>1. /\ Has(n3, {"server", "local", "records", "client", "stored", "reports"})
          /\ n3.client = c3 /\ n3.stored = st /\ n3.records = s.records /\ n3.local = l
          /\ n3.server = s.server /\ n3.reports = s.reports
      BY <2>0 DEF Has
    <3> HIDE DEF n3
    <3> QED
      BY <2>2, <2>3, <2>9, <3>1, NotedParts
  <2>16. Noted(s, n4) /\ n4.client = s.client /\ n4.stored = st4 /\ n4.records = s.records \ s.stored[r].removed
    <3>1. /\ Has(n4, {"server", "local", "records", "client", "stored", "reports"})
          /\ n4.client = s.client /\ n4.stored = st4 /\ n4.records = s.records \ s.stored[r].removed /\ n4.local = l
          /\ n4.server = s.server /\ n4.reports = s.reports
      BY <2>0 DEF Has
    <3> HIDE DEF n4
    <3> QED
      BY <2>0, <2>2, <2>6, <3>1, NotedParts
  <2> HIDE DEF n1, n2, n3, n4
  <2> SUFFICES /\ Noted(s, n) /\ Calm(n.client)
               /\ n.client.command \in {"none", "FETCH", "PREVIEW", "SELECT", "STORE", "EXPUNGE"}
               /\ Keeps(s.client, n.client) /\ Exports(s, n, r)
    BY <1>2 DEF n
  <2>17. CASE left # {} /\ n = n1
    <3>1. n.client.sending[1] # Deleted
      BY <2>7, <2>10, <2>13, <2>17
    <3> QED
      BY <2>4, <2>7, <2>11, <2>13, <2>17, <3>1 DEF Calm, Exports, Keeps
  <2>18. CASE left = {} /\ CanDelete /\ s.client.removed # {} /\ n = n2
    BY <2>5, <2>8, <2>12, <2>14, <2>18 DEF Calm, Exports, Keeps
  <2>19. CASE n = n3
    BY <2>3, <2>9, <2>15, <2>19 DEF Calm, Exports, Keeps
  <2>20. CASE ~(CanDelete /\ s.client.removed # {}) /\ ~(CanDelete /\ s.client.expunge) /\ n = ProcessNextFolder(n4)
    <3>1. Formed(n4)
      BY <2>16 DEF Noted
    <3>2. /\ Same(n4, n) /\ Calm(n.client) /\ n.client.command \in {"none", "FETCH", "PREVIEW", "SELECT"}
          /\ Keeps(s.client, n.client)
      BY <2>16, <2>20, <3>1, NextFolderSame
    <3>3. Noted(s, n)
      BY <2>16, <3>2 DEF Same, Noted
    <3> QED
      BY <2>6, <2>16, <2>20, <3>2, <3>3 DEF Same, Exports
  <2> QED
    BY <2>1, <2>17, <2>18, <2>19, <2>20
<1> QED
  BY <1>1, <1>2

-----------------------------------------------------------------------------
(* Import *)

\* Some rows go.
LEMMA WithoutRows ==
  ASSUME NEW l, Rows(l), NEW M
  PROVE  LET k == Without(l, M)
         IN Rows(k) /\ DOMAIN k = DOMAIN l \ M /\ \A m \in DOMAIN l \ M : k[m] = l[m]
  BY DEF Without, Rows, Has

\* A flag is set, here and elsewhere.
LEMMA SetRows ==
  ASSUME NEW l, Rows(l), NEW M, NEW flag
  PROVE  LET k == SetBoth(l, M, flag)
         IN /\ Rows(k) /\ DOMAIN k = DOMAIN l
            /\ \A m \in DOMAIN l :
                 /\ m \in M => k[m].here = l[m].here \cup {flag} /\ k[m].elsewhere = l[m].elsewhere \cup {flag}
                             /\ k[m].removed = l[m].removed
                 /\ m \notin M => k[m] = l[m]
<1> DEFINE k == SetBoth(l, M, flag)
           v(m) == IF m \in M THEN [l[m] EXCEPT !.here = @ \cup {flag}, !.elsewhere = @ \cup {flag}] ELSE l[m]
<1>1. k = [m \in DOMAIN l |-> v(m)]
  BY DEF SetBoth
<1>2. \A m \in DOMAIN l :
        /\ Has(v(m), {"here", "elsewhere", "removed"})
        /\ m \in M => v(m).here = l[m].here \cup {flag} /\ v(m).elsewhere = l[m].elsewhere \cup {flag}
                    /\ v(m).removed = l[m].removed
        /\ m \notin M => v(m) = l[m]
  BY DEF Rows, Has
<1> HIDE DEF k, v
<1>3. DOMAIN k = DOMAIN l /\ \A m \in DOMAIN l : k[m] = v(m)
  BY <1>1
<1>4. Rows(k)
  BY <1>1, <1>2, <1>3 DEF Rows, Has
<1> QED
  BY <1>2, <1>3, <1>4 DEF k

\* A flag is cleared, here and elsewhere.
LEMMA ClearRows ==
  ASSUME NEW l, Rows(l), NEW M, NEW flag
  PROVE  LET k == ClearBoth(l, M, flag)
         IN /\ Rows(k) /\ DOMAIN k = DOMAIN l
            /\ \A m \in DOMAIN l :
                 /\ m \in M => k[m].here = l[m].here \ {flag} /\ k[m].elsewhere = l[m].elsewhere \ {flag}
                             /\ k[m].removed = l[m].removed
                 /\ m \notin M => k[m] = l[m]
<1> DEFINE k == ClearBoth(l, M, flag)
           v(m) == IF m \in M THEN [l[m] EXCEPT !.here = @ \ {flag}, !.elsewhere = @ \ {flag}] ELSE l[m]
<1>1. k = [m \in DOMAIN l |-> v(m)]
  BY DEF ClearBoth
<1>2. \A m \in DOMAIN l :
        /\ Has(v(m), {"here", "elsewhere", "removed"})
        /\ m \in M => v(m).here = l[m].here \ {flag} /\ v(m).elsewhere = l[m].elsewhere \ {flag}
                    /\ v(m).removed = l[m].removed
        /\ m \notin M => v(m) = l[m]
  BY DEF Rows, Has
<1> HIDE DEF k, v
<1>3. DOMAIN k = DOMAIN l /\ \A m \in DOMAIN l : k[m] = v(m)
  BY <1>1
<1>4. Rows(k)
  BY <1>1, <1>2, <1>3 DEF Rows, Has
<1> QED
  BY <1>2, <1>3, <1>4 DEF k

\* What the user has read, and the server has not, stays read.
KeptRead(l, k) ==
  \A m \in DOMAIN l \cap DOMAIN k : "seen" \in l[m].here \ k[m].here => "seen" \in l[m].elsewhere

\* purge
LEMMA PurgeParts ==
  ASSUME NEW s, Formed(s), NEW M
  PROVE  LET n == Purge(s, M)
         IN /\ Formed(n) /\ n.server = s.server /\ n.client = s.client /\ n.stored = s.stored
            /\ n.reports = s.reports
            /\ n.local = Without(s.local, M) /\ n.records = s.records \ (M \cap DOMAIN s.local)
<1> DEFINE n == Purge(s, M)
           l == Without(s.local, M)
           d == M \cap DOMAIN s.local
<1>1. n = [s EXCEPT !.local = l, !.records = @ \ d]
  BY DEF Purge, Formed, Has
<1>2. Rows(l)
  BY WithoutRows DEF Formed
<1> HIDE DEF l, d, n
<1>3. /\ Has(n, {"server", "local", "records", "client", "stored", "reports"})
      /\ n.server = s.server /\ n.client = s.client /\ n.stored = s.stored /\ n.reports = s.reports
      /\ n.local = l /\ n.records = s.records \ d
  BY <1>1 DEF Formed, Has
<1>4. Formed(n)
  BY <1>2, <1>3 DEF Formed
<1> QED
  BY <1>3, <1>4 DEF l, d, n

\* What updateMessagesMetaData changes: what is reported has the server's flags as
\* those known elsewhere, and a flag that changes for the user becomes the same.
Imported(s, n, f, M, found) ==
  LET gone == M \ (found.seen \cup found.unseen)
  IN /\ Formed(n) /\ n.server = s.server /\ n.client = s.client /\ n.stored = s.stored
     /\ n.reports = s.reports
     /\ DOMAIN n.local = DOMAIN s.local \ gone
     /\ n.records = s.records \ (gone \cap DOMAIN s.local)
     /\ found.seen \cap found.unseen = {} /\ (\A m \in found.unseen : FolderOf[m] = f)
          => KeptRead(s.local, n.local)
     /\ \A m \in DOMAIN n.local :
          /\ n.local[m].here \subseteq s.local[m].here \cup {"seen", "flagged"}
          /\ m \notin found.seen \cup found.unseen \cup found.flagged =>
               n.local[m].here = s.local[m].here /\ n.local[m].elsewhere = s.local[m].elsewhere
          /\ m \in found.seen \cup found.unseen /\ m \notin found.seen \cap found.unseen /\ FolderOf[m] = f =>
               /\ ~n.local[m].removed
               /\ "seen" \in n.local[m].elsewhere <=> m \in found.seen
               /\ "flagged" \in n.local[m].elsewhere <=> m \in found.flagged
          /\ \A flag \in {"seen", "flagged"} :
               \/ /\ flag \in n.local[m].here <=> flag \in s.local[m].here
                  /\ flag \in n.local[m].elsewhere <=> flag \in s.local[m].elsewhere
               \/ flag \in n.local[m].here <=> flag \in n.local[m].elsewhere

\* updateMessagesMetaData.  No message the user has read is unread if no message is
\* reported both as seen and as unseen, and the unseen ones are of the folder.
LEMMA MetaDataRows ==
  ASSUME NEW s, Formed(s), NEW f, NEW M, NEW found
  PROVE  Imported(s, UpdateMessagesMetaData(s, f, M, found), f, M, found)
<1> DEFINE n == UpdateMessagesMetaData(s, f, M, found)
           reported == found.seen \cup found.unseen
           gone == M \ reported
           purged == Purge(s, gone)
           l == purged.local
           there == [m \in DOMAIN l |-> [l[m] EXCEPT !.removed = @ /\ ~(FolderOf[m] = f /\ m \in reported)]]
           R == found.seen \cap UnreadElsewhere(there, f)
           read == SetBoth(there, R, "seen")
           U == NowUnread(read, f, found.unseen)
           unread == ClearBoth(read, U, "seen")
           F == found.flagged \ Elsewhere(unread, "flagged")
           flagged == SetBoth(unread, F, "flagged")
           C == (reported \ found.flagged) \cap Elsewhere(flagged, "flagged")
           cleared == ClearBoth(flagged, C, "flagged")
<1>1. n = [purged EXCEPT !.local = cleared]
  BY DEF UpdateMessagesMetaData
<1>2. /\ Formed(purged) /\ purged.server = s.server /\ purged.client = s.client /\ purged.stored = s.stored
      /\ purged.reports = s.reports /\ l = Without(s.local, gone)
      /\ purged.records = s.records \ (gone \cap DOMAIN s.local)
  BY PurgeParts
<1>3. Rows(l) /\ DOMAIN l = DOMAIN s.local \ gone /\ \A m \in DOMAIN l : l[m] = s.local[m]
  <2>1. Rows(s.local)
    BY DEF Formed
  <2> DEFINE k == Without(s.local, gone)
  <2> HIDE DEF gone
  <2>2. Rows(k) /\ DOMAIN k = DOMAIN s.local \ gone /\ \A m \in DOMAIN s.local \ gone : k[m] = s.local[m]
    BY <2>1, WithoutRows
  <2>3. l = k
    BY <1>2 DEF gone
  <2> HIDE DEF k, l
  <2> QED
    BY <2>2, <2>3
<1> HIDE DEF purged, gone, n
<1>4. /\ Rows(there) /\ DOMAIN there = DOMAIN l
      /\ \A m \in DOMAIN l : /\ there[m].here = l[m].here /\ there[m].elsewhere = l[m].elsewhere
                             /\ FolderOf[m] = f /\ m \in reported => ~there[m].removed
  <2> DEFINE b(m) == l[m].removed /\ ~(FolderOf[m] = f /\ m \in reported)
             v(m) == [l[m] EXCEPT !.removed = b(m)]
  <2>1. there = [m \in DOMAIN l |-> v(m)]
    OBVIOUS
  <2>0. \A m \in DOMAIN l : Has(l[m], {"here", "elsewhere", "removed"})
    BY <1>3 DEF Rows
  <2>5. \A m \in DOMAIN l : FolderOf[m] = f /\ m \in reported => b(m) = FALSE
    OBVIOUS
  <2> HIDE DEF b, there, l, reported
  <2>2. \A m \in DOMAIN l : /\ Has(v(m), {"here", "elsewhere", "removed"})
                            /\ v(m).here = l[m].here /\ v(m).elsewhere = l[m].elsewhere /\ v(m).removed = b(m)
    BY <2>0 DEF Has
  <2> HIDE DEF v
  <2>3. DOMAIN there = DOMAIN l /\ \A m \in DOMAIN l : there[m] = v(m)
    BY <2>1
  <2>4. Rows(there)
    BY <2>1, <2>2, <2>3 DEF Rows, Has
  <2> QED
    BY <2>2, <2>3, <2>4, <2>5
<1> HIDE DEF there
<1>5. /\ Rows(read) /\ DOMAIN read = DOMAIN there
      /\ \A m \in DOMAIN there :
           /\ m \in R => read[m].here = there[m].here \cup {"seen"} /\ read[m].elsewhere = there[m].elsewhere \cup {"seen"}
                       /\ read[m].removed = there[m].removed
           /\ m \notin R => read[m] = there[m]
  <2> HIDE DEF R
  <2> QED
    BY <1>4, SetRows
<1> HIDE DEF read
<1>6. /\ Rows(unread) /\ DOMAIN unread = DOMAIN read
      /\ \A m \in DOMAIN read :
           /\ m \in U => unread[m].here = read[m].here \ {"seen"} /\ unread[m].elsewhere = read[m].elsewhere \ {"seen"}
                       /\ unread[m].removed = read[m].removed
           /\ m \notin U => unread[m] = read[m]
  <2> HIDE DEF U
  <2> QED
    BY <1>5, ClearRows
<1> HIDE DEF unread
<1>7. /\ Rows(flagged) /\ DOMAIN flagged = DOMAIN unread
      /\ \A m \in DOMAIN unread :
           /\ m \in F => flagged[m].here = unread[m].here \cup {"flagged"}
                       /\ flagged[m].elsewhere = unread[m].elsewhere \cup {"flagged"}
                       /\ flagged[m].removed = unread[m].removed
           /\ m \notin F => flagged[m] = unread[m]
  <2> HIDE DEF F
  <2> QED
    BY <1>6, SetRows
<1> HIDE DEF flagged, F
<1>8. /\ Rows(cleared) /\ DOMAIN cleared = DOMAIN flagged
      /\ \A m \in DOMAIN flagged :
           /\ m \in C => cleared[m].here = flagged[m].here \ {"flagged"}
                       /\ cleared[m].elsewhere = flagged[m].elsewhere \ {"flagged"}
                       /\ cleared[m].removed = flagged[m].removed
           /\ m \notin C => cleared[m] = flagged[m]
  <2> HIDE DEF C
  <2> QED
    BY <1>7, ClearRows
<1> HIDE DEF cleared, C
<1>9. ASSUME \A m \in found.unseen : FolderOf[m] = f, found.seen \cap found.unseen = {},
             NEW m \in DOMAIN l, "seen" \in l[m].here, "seen" \notin cleared[m].here
      PROVE  "seen" \in l[m].elsewhere
  <2>1. m \in DOMAIN there /\ m \in DOMAIN read /\ m \in DOMAIN unread /\ m \in DOMAIN flagged
    BY <1>4, <1>5, <1>6, <1>7
  <2>2. "seen" \notin flagged[m].here
    BY <1>8, <1>9, <2>1
  <2>3. "seen" \notin unread[m].here
    BY <1>7, <2>1, <2>2
  <2>4. "seen" \in there[m].here
    BY <1>4, <1>9
  <2>5. "seen" \in read[m].here
    BY <1>5, <2>1, <2>4
  <2>6. m \in U
    BY <1>6, <2>1, <2>3, <2>5
  <2>7. m \in found.unseen /\ m \notin UnreadElsewhere(read, f)
    BY <2>6 DEF NowUnread
  <2>8. "seen" \in read[m].elsewhere
    BY <1>9, <2>1, <2>7 DEF UnreadElsewhere, In, Elsewhere
  <2>9. m \notin R
    BY <1>9, <2>7
  <2>10. "seen" \in there[m].elsewhere
    BY <1>5, <2>1, <2>8, <2>9
  <2> QED
    BY <1>4, <2>10
<1>10. /\ Has(n, {"server", "local", "records", "client", "stored", "reports"})
       /\ n.server = purged.server /\ n.client = purged.client /\ n.stored = purged.stored
       /\ n.reports = purged.reports /\ n.records = purged.records /\ n.local = cleared
  BY <1>1, <1>2 DEF Formed, Has
<1>11. Formed(n)
  BY <1>2, <1>8, <1>10 DEF Formed
<1>12. DOMAIN n.local = DOMAIN s.local \ gone
  BY <1>3, <1>4, <1>5, <1>6, <1>7, <1>8, <1>10
<1>13. found.seen \cap found.unseen = {} /\ (\A m \in found.unseen : FolderOf[m] = f) => KeptRead(s.local, n.local)
  BY <1>3, <1>9, <1>10, <1>12 DEF KeptRead
<1>14. ASSUME NEW m \in DOMAIN l
       PROVE  /\ cleared[m].here \subseteq s.local[m].here \cup {"seen", "flagged"}
              /\ m \notin reported \cup found.flagged =>
                   cleared[m].here = s.local[m].here /\ cleared[m].elsewhere = s.local[m].elsewhere
              /\ m \in reported /\ m \notin found.seen \cap found.unseen /\ FolderOf[m] = f =>
                   /\ ~cleared[m].removed
                   /\ "seen" \in cleared[m].elsewhere <=> m \in found.seen
                   /\ "flagged" \in cleared[m].elsewhere <=> m \in found.flagged
              /\ \A flag \in {"seen", "flagged"} :
                   \/ /\ flag \in cleared[m].here <=> flag \in s.local[m].here
                      /\ flag \in cleared[m].elsewhere <=> flag \in s.local[m].elsewhere
                   \/ flag \in cleared[m].here <=> flag \in cleared[m].elsewhere
  <2>1. m \in DOMAIN there /\ m \in DOMAIN read /\ m \in DOMAIN unread /\ m \in DOMAIN flagged
    BY <1>4, <1>5, <1>6, <1>7
  <2>2. there[m].here = s.local[m].here /\ there[m].elsewhere = s.local[m].elsewhere
    BY <1>3, <1>4
  <2>3. m \in R <=> m \in found.seen /\ FolderOf[m] = f /\ "seen" \notin there[m].elsewhere
    BY <2>1 DEF UnreadElsewhere, In, Elsewhere
  <2>4. m \in U <=> m \in found.unseen /\ ~(FolderOf[m] = f /\ "seen" \notin read[m].elsewhere)
    BY <2>1 DEF NowUnread, UnreadElsewhere, In, Elsewhere
  <2>5. m \in F <=> m \in found.flagged /\ "flagged" \notin unread[m].elsewhere
    BY <2>1 DEF Elsewhere, F
  <2>6. m \in C <=> m \in reported /\ m \notin found.flagged /\ "flagged" \in flagged[m].elsewhere
    BY <2>1 DEF Elsewhere, C
  <2> DEFINE w0 == there[m]
             w1 == read[m]
             w2 == unread[m]
             w3 == flagged[m]
             w4 == cleared[m]
  <2>7. /\ m \in R => w1.here = w0.here \cup {"seen"} /\ w1.elsewhere = w0.elsewhere \cup {"seen"}
        /\ m \notin R => w1 = w0
    BY <1>5, <2>1
  <2>8. /\ m \in U => w2.here = w1.here \ {"seen"} /\ w2.elsewhere = w1.elsewhere \ {"seen"}
        /\ m \notin U => w2 = w1
    BY <1>6, <2>1
  <2>9. /\ m \in F => w3.here = w2.here \cup {"flagged"} /\ w3.elsewhere = w2.elsewhere \cup {"flagged"}
        /\ m \notin F => w3 = w2
    BY <1>7, <2>1
  <2>10. /\ m \in C => w4.here = w3.here \ {"flagged"} /\ w4.elsewhere = w3.elsewhere \ {"flagged"}
         /\ m \notin C => w4 = w3
    BY <1>8, <2>1
  <2>11. m \in reported /\ FolderOf[m] = f => ~w4.removed
    BY <1>4, <1>5, <1>6, <1>7, <1>8, <2>1
  <2> HIDE DEF w0, w1, w2, w3, w4, R, U, F, C
  <2>12. w4.here \subseteq w0.here \cup {"seen", "flagged"}
    BY <2>7, <2>8, <2>9, <2>10
  <2>13. m \notin reported \cup found.flagged => w4.here = w0.here /\ w4.elsewhere = w0.elsewhere
    BY <2>3, <2>4, <2>5, <2>6, <2>7, <2>8, <2>9, <2>10
  <2>14. m \in reported /\ m \notin found.seen \cap found.unseen /\ FolderOf[m] = f =>
           ("seen" \in w2.elsewhere <=> m \in found.seen)
    BY <2>3, <2>4, <2>7, <2>8 DEF w0, w1
  <2>15. ("seen" \in w4.elsewhere <=> "seen" \in w2.elsewhere) /\ ("seen" \in w4.here <=> "seen" \in w2.here)
    BY <2>9, <2>10
  <2>16. m \in reported => ("flagged" \in w4.elsewhere <=> m \in found.flagged)
    BY <2>5, <2>6, <2>9, <2>10 DEF w2, w3
  <2>17. \/ ("seen" \in w2.here <=> "seen" \in w0.here) /\ ("seen" \in w2.elsewhere <=> "seen" \in w0.elsewhere)
         \/ "seen" \in w2.here <=> "seen" \in w2.elsewhere
    BY <2>7, <2>8
  <2>18. /\ "flagged" \in w2.here <=> "flagged" \in w0.here
         /\ "flagged" \in w2.elsewhere <=> "flagged" \in w0.elsewhere
    BY <2>7, <2>8
  <2>19. \/ ("flagged" \in w4.here <=> "flagged" \in w2.here) /\ ("flagged" \in w4.elsewhere <=> "flagged" \in w2.elsewhere)
         \/ "flagged" \in w4.here <=> "flagged" \in w4.elsewhere
    BY <2>9, <2>10
  <2>20. w0.here = s.local[m].here /\ w0.elsewhere = s.local[m].elsewhere
    BY <2>2 DEF w0
  <2> HIDE DEF reported
  <2> SUFFICES
        /\ w4.here \subseteq s.local[m].here \cup {"seen", "flagged"}
        /\ m \notin reported \cup found.flagged =>
             w4.here = s.local[m].here /\ w4.elsewhere = s.local[m].elsewhere
        /\ m \in reported /\ m \notin found.seen \cap found.unseen /\ FolderOf[m] = f =>
             /\ ~w4.removed
             /\ "seen" \in w4.elsewhere <=> m \in found.seen
             /\ "flagged" \in w4.elsewhere <=> m \in found.flagged
        /\ \A flag \in {"seen", "flagged"} :
             \/ /\ flag \in w4.here <=> flag \in s.local[m].here
                /\ flag \in w4.elsewhere <=> flag \in s.local[m].elsewhere
             \/ flag \in w4.here <=> flag \in w4.elsewhere
    BY DEF w4
  <2> QED
    BY <2>11, <2>12, <2>13, <2>14, <2>15, <2>16, <2>17, <2>18, <2>19, <2>20
<1> HIDE DEF cleared
<1>15. DOMAIN n.local = DOMAIN l /\ n.local = cleared
  BY <1>3, <1>10, <1>12
<1> QED
  BY <1>2, <1>10, <1>11, <1>12, <1>13, <1>14, <1>15 DEF n, gone, reported, Imported

-----------------------------------------------------------------------------
(* The results of the searches *)

\* v is ready for handleUidStore when the searches of s reported R.
Prepared(s, v, R) ==
  /\ Formed(v) /\ v.server = s.server /\ v.stored = s.stored
  /\ v.client.box = s.client.box /\ v.client.request = s.client.request /\ v.client.list = s.client.list
  /\ \A m \in v.client.removed : FolderOf[m] = s.client.folder /\ m \in R
  /\ v.client.removed # {} => v.client.expunge = TRUE
  /\ DOMAIN v.local \subseteq DOMAIN s.local /\ KeptRead(s.local, v.local)
  /\ \A m \in DOMAIN s.local \ DOMAIN v.local : s.client.conclusive /\ FolderOf[m] = s.client.folder /\ m \notin R
  /\ \A m \in s.records \ v.records : m \in DOMAIN s.local \ DOMAIN v.local

\* n is the state after the results R of the searches are processed.
Processed(s, n, R) ==
  \/ \E t : /\ Same(s, t) /\ t.client.request = s.client.request /\ t.client.list = s.client.list
            /\ n = ProcessNextFolder(t)
  \/ \E v : Prepared(s, v, R) /\ n = HandleUidStore(v)

\* The members with what is to be exported.
Due(u, removed, expunge, marks) ==
  [u EXCEPT !.client.removed = removed, !.client.expunge = expunge, !.client.marks = marks]

\* Nothing else differs.
LEMMA ToExport ==
  ASSUME NEW u, Formed(u), NEW removed, NEW expunge, NEW marks
  PROVE  LET v == Due(u, removed, expunge, marks)
         IN /\ Same(u, v) /\ v.client.removed = removed /\ v.client.expunge = expunge
            /\ v.client.box = u.client.box /\ v.client.request = u.client.request /\ v.client.list = u.client.list
<1> DEFINE v == Due(u, removed, expunge, marks)
           c == [u.client EXCEPT !.removed = removed, !.expunge = expunge, !.marks = marks]
<1>1. v = [u EXCEPT !.client = c]
  BY DEF Formed, Has, Due
<1>2. /\ Members(c) /\ c.removed = removed /\ c.expunge = expunge
      /\ c.box = u.client.box /\ c.request = u.client.request /\ c.list = u.client.list
  BY DEF Formed, Members, Has
<1> HIDE DEF c, v
<1>3. Same(u, v) /\ v.client = c
  BY <1>1, <1>2, ClientSet
<1> QED
  BY <1>2, <1>3 DEF v

\* processUidSearchResults of exportUpdates
LEMMA ExportsProcessed ==
  ASSUME NEW s, Formed(s), NEW R
  PROVE  Processed(s, ProcessExports(s, R), R) /\ DOMAIN ProcessExports(s, R).local = DOMAIN s.local
<1> DEFINE mine == In(s.client.folder, R)
           removed == s.client.plan.removed \cap mine
           expunge == (removed # {})
           marks == [k \in Mark |-> s.client.plan.marks[k] \cap mine]
           v == Due(s, removed, expunge, marks)
<1>1. ProcessExports(s, R) = HandleUidStore(v)
  BY DEF ProcessExports, Due
<1>2. \A m \in removed : FolderOf[m] = s.client.folder /\ m \in R
  BY DEF In
<1>3. removed # {} => expunge = TRUE
  OBVIOUS
<1> HIDE DEF removed, expunge, marks
<1>4. /\ Same(s, v) /\ v.client.removed = removed /\ v.client.expunge = expunge
      /\ v.client.box = s.client.box /\ v.client.request = s.client.request /\ v.client.list = s.client.list
  BY ToExport
<1> HIDE DEF v
<1>5. KeptRead(s.local, v.local) /\ DOMAIN v.local = DOMAIN s.local
  BY <1>4 DEF Same, KeptRead
<1>6. Prepared(s, v, R)
  BY <1>2, <1>3, <1>4, <1>5 DEF Prepared, Same
<1>7. DOMAIN HandleUidStore(v).local = DOMAIN s.local
  BY <1>4, <1>5, UidStored DEF Noted, Same
<1> QED
  BY <1>1, <1>6, <1>7 DEF Processed

\* processUidSearchResults of the full synchronization
LEMMA SearchProcessed ==
  ASSUME NEW s, Formed(s), s.client.conclusive \in BOOLEAN,
         s.client.found.seen \cap s.client.found.unseen = {},
         \A m \in s.client.found.unseen : FolderOf[m] = s.client.folder
  PROVE  Processed(s, ProcessUidSearchResults(s), s.client.found.seen \cup s.client.found.unseen)
<1> DEFINE f == s.client.folder
           found == s.client.found
           reported == found.seen \cup found.unseen
           rows == In(f, DOMAIN s.local)
           new == reported \ rows
           list == IF new = {} THEN s.client.retrieve ELSE Append(s.client.retrieve, <<f, new>>)
           t == [s EXCEPT !.client.retrieve = list]
           u == UpdateMessagesMetaData(t, f, rows, found)
           out(k) == CASE k = 1 -> found.unseen [] k = 2 -> found.seen
                       [] k = 3 -> reported \ found.flagged [] OTHER -> found.flagged
           removed == In(f, s.records) \cap reported
           expunge == (removed # {})
           marks == [k \in Mark |-> In(f, ChangedHere(u.local, k)) \cap out(k)]
           v == Due(u, removed, expunge, marks)
           c == [s.client EXCEPT !.retrieve = list]
           n == ProcessUidSearchResults(s)
<1>1. n = IF ~s.client.conclusive THEN ProcessNextFolder(t) ELSE HandleUidStore(v)
  BY DEF ProcessUidSearchResults, Due
<1>2. \A m \in removed : FolderOf[m] = f /\ m \in reported
  BY DEF In
<1>3. removed # {} => expunge = TRUE
  OBVIOUS
<1>4. Same(s, t) /\ t.client = c /\ c.box = s.client.box /\ c.request = s.client.request /\ c.list = s.client.list
  <2> HIDE DEF list
  <2>1. t = [s EXCEPT !.client = c]
    BY DEF Formed, Has
  <2>2. Members(c) /\ c.box = s.client.box /\ c.request = s.client.request /\ c.list = s.client.list
    BY DEF Formed, Members, Has
  <2> HIDE DEF t, c
  <2>3. Same(s, t) /\ t.client = c
    BY <2>1, <2>2, ClientSet
  <2> QED
    BY <2>2, <2>3
<1> HIDE DEF n, t, c, removed, expunge, marks
<1>5. CASE ~s.client.conclusive
  BY <1>1, <1>4, <1>5 DEF Processed, n
<1>6. CASE s.client.conclusive
  <2> DEFINE gone == rows \ reported
  <2>1. /\ Formed(u) /\ u.server = s.server /\ u.client = c /\ u.stored = s.stored
        /\ DOMAIN u.local = DOMAIN s.local \ gone
        /\ u.records = s.records \ (gone \cap DOMAIN s.local)
        /\ KeptRead(s.local, u.local)
    <3>1. Formed(t) /\ t.local = s.local /\ t.server = s.server /\ t.stored = s.stored /\ t.records = s.records
      BY <1>4 DEF Same
    <3>2. found.seen \cap found.unseen = {} /\ \A m \in found.unseen : FolderOf[m] = f
      OBVIOUS
    <3> HIDE DEF rows, found, f
    <3>3. /\ Formed(u) /\ u.server = t.server /\ u.client = t.client /\ u.stored = t.stored
          /\ DOMAIN u.local = DOMAIN t.local \ gone
          /\ u.records = t.records \ (gone \cap DOMAIN t.local)
          /\ KeptRead(t.local, u.local)
      BY <3>1, <3>2, MetaDataRows DEF Imported
    <3> HIDE DEF u, gone
    <3> QED
      BY <1>4, <3>1, <3>3
  <2>2. \A m \in gone : FolderOf[m] = f /\ m \notin reported
    BY DEF In
  <2> HIDE DEF u
  <2>3. /\ Same(u, v) /\ v.client.removed = removed /\ v.client.expunge = expunge
        /\ v.client.box = u.client.box /\ v.client.request = u.client.request /\ v.client.list = u.client.list
    BY <2>1, ToExport
  <2> HIDE DEF v, gone
  <2>4. Formed(v) /\ v.server = s.server /\ v.stored = s.stored /\ v.local = u.local /\ v.records = u.records
    BY <2>1, <2>3 DEF Same
  <2>5. /\ \A m \in DOMAIN s.local \ DOMAIN v.local : FolderOf[m] = f /\ m \notin reported
        /\ \A m \in s.records \ v.records : m \in DOMAIN s.local \ DOMAIN v.local
    BY <2>1, <2>2, <2>4
  <2>6. v.client.box = s.client.box /\ v.client.request = s.client.request /\ v.client.list = s.client.list
    BY <1>4, <2>1, <2>3
  <2>7. Prepared(s, v, reported)
    BY <1>2, <1>3, <1>6, <2>1, <2>3, <2>4, <2>5, <2>6 DEF Prepared
  <2> QED
    BY <1>1, <1>6, <2>7 DEF Processed, n
<1> QED
  BY <1>5, <1>6

\* What the processing of the results leaves.
LEMMA ProcessedParts ==
  ASSUME NEW s, Formed(s), NEW R, NEW n, Processed(s, n, R)
  PROVE  /\ Formed(n) /\ n.server = s.server /\ Calm(n.client) /\ Keeps(s.client, n.client)
         /\ n.client.command \in {"none", "FETCH", "PREVIEW", "SELECT", "STORE", "EXPUNGE"}
         /\ KeptRead(s.local, n.local) /\ DOMAIN n.local \subseteq DOMAIN s.local
         /\ \A m \in DOMAIN s.local \ DOMAIN n.local :
              s.client.conclusive /\ FolderOf[m] = s.client.folder /\ m \notin R
<1>1. CASE \E t : /\ Same(s, t) /\ t.client.request = s.client.request /\ t.client.list = s.client.list
                  /\ n = ProcessNextFolder(t)
  <2>1. PICK t : /\ Same(s, t) /\ t.client.request = s.client.request /\ t.client.list = s.client.list
                 /\ n = ProcessNextFolder(t)
    BY <1>1
  <2>2. /\ Same(t, n) /\ Calm(n.client) /\ Keeps(t.client, n.client)
        /\ n.client.command \in {"none", "FETCH", "PREVIEW", "SELECT"}
    BY <2>1, NextFolderSame DEF Same
  <2>3. Formed(n) /\ n.server = s.server /\ n.local = s.local
    BY <2>1, <2>2 DEF Same
  <2>4. Keeps(s.client, n.client)
    BY <2>1, <2>2 DEF Keeps
  <2> QED
    BY <2>2, <2>3, <2>4 DEF KeptRead
<1>2. CASE \E v : Prepared(s, v, R) /\ n = HandleUidStore(v)
  <2>1. PICK v : Prepared(s, v, R) /\ n = HandleUidStore(v)
    BY <1>2
  <2>2. Formed(v)
    BY <2>1 DEF Prepared
  <2>3. /\ Noted(v, n) /\ Calm(n.client) /\ Keeps(v.client, n.client)
        /\ n.client.command \in {"none", "FETCH", "PREVIEW", "SELECT", "STORE", "EXPUNGE"}
    BY <2>1, <2>2, UidStored
  <2>4. Formed(n) /\ n.server = s.server /\ Keeps(s.client, n.client) /\ DOMAIN n.local = DOMAIN v.local
    BY <2>1, <2>3 DEF Noted, Prepared, Keeps
  <2>5. KeptRead(s.local, n.local)
    BY <2>1, <2>3, <2>4 DEF Noted, Prepared, KeptRead
  <2> QED
    BY <2>1, <2>3, <2>4, <2>5 DEF Prepared
<1> QED
  BY <1>1, <1>2 DEF Processed

\* The set of messages of the selected mailbox is finite.
LEMMA BoxFinite ==
  ASSUME NEW s, Formed(s)
  PROVE  IsFiniteSet(In(s.client.box, DOMAIN s.server))
<1>1. In(s.client.box, DOMAIN s.server) \subseteq Mail
  BY DEF In, Formed
<1> QED
  BY <1>1, ImapAssumption, FS_Subset

\* R is all the selected mailbox holds, unless it names a message that has gone.
Complete(s, R) == R \subseteq DOMAIN s.server => In(s.client.box, DOMAIN s.server) \subseteq R

\* An empty mailbox.
LEMMA NothingThere ==
  ASSUME NEW s, Formed(s), ~(Exists(s) > 0)
  PROVE  In(s.client.box, DOMAIN s.server) = {}
<1> DEFINE B == In(s.client.box, DOMAIN s.server)
<1>1. IsFiniteSet(B)
  BY BoxFinite
<1>2. ~(Cardinality(B) > 0)
  BY DEF Exists
<1> HIDE DEF B
<1>3. Cardinality(B) = 0
  BY <1>1, <1>2, FS_CardinalityType
<1>4. B = {}
  BY <1>1, <1>3, FS_EmptySet
<1> QED
  BY <1>4 DEF B

\* As many messages of the mailbox as it has.
LEMMA AllThere ==
  ASSUME NEW s, Formed(s), NEW R, Cardinality(R) = Exists(s), \A m \in R : FolderOf[m] = s.client.box
  PROVE  Complete(s, R)
<1> DEFINE B == In(s.client.box, DOMAIN s.server)
<1>1. IsFiniteSet(B)
  BY BoxFinite
<1>2. Cardinality(R) = Cardinality(B)
  BY DEF Exists
<1>3. R \subseteq DOMAIN s.server => R \subseteq B
  BY DEF In
<1> HIDE DEF B
<1>4. R \subseteq DOMAIN s.server => R = B
  BY <1>1, <1>2, <1>3, FS_Subset
<1> QED
  BY <1>4 DEF B, Complete

\* The messages that are seen and those that are not, when they are as many.
LEMMA BothThere ==
  ASSUME NEW s, Formed(s), Consistent(s), NEW A, A \in SUBSET Mail,
         s.client.found.seen \subseteq A, s.client.found.unseen \subseteq A,
         s.client.found.seen \cap s.client.found.unseen = {},
         \A m \in s.client.found.seen \cup s.client.found.unseen : FolderOf[m] = s.client.box
  PROVE  Complete(s, s.client.found.seen \cup s.client.found.unseen)
<1> DEFINE S == s.client.found.seen
           T == s.client.found.unseen
<1>1. Cardinality(S) + Cardinality(T) = Exists(s)
  BY DEF Consistent
<1>2. S \subseteq Mail /\ T \subseteq Mail /\ S \cap T = {} /\ \A m \in S \cup T : FolderOf[m] = s.client.box
  OBVIOUS
<1> HIDE DEF S, T
<1>3. IsFiniteSet(S) /\ IsFiniteSet(T)
  BY <1>2, ImapAssumption, FS_Subset
<1>4. Cardinality(S) \in Nat /\ Cardinality(T) \in Nat
  BY <1>3, FS_CardinalityType
<1>5. Cardinality(S \cup T) = Cardinality(S) + Cardinality(T) - Cardinality({})
  BY <1>2, <1>3, FS_Union
<1>6. Cardinality(S \cup T) = Exists(s)
  BY <1>1, <1>4, <1>5, FS_EmptySet
<1>7. Complete(s, S \cup T)
  BY <1>2, <1>6, AllThere
<1> QED
  BY <1>7 DEF S, T

-----------------------------------------------------------------------------
(* The searches of a folder *)

\* The searches so far of the full synchronization: nothing is known to be seen
\* that the server has as unseen.  A are the messages that have ever been there.
Searched(s, A) ==
  LET c == s.client
  IN /\ c.command \in {"SEEN", "UNSEEN", "FLAGGED", "ALL", "KNOWN"} => c.box = c.folder
     /\ c.command \in {"SEEN", "UNSEEN", "FLAGGED", "ALL"} => c.conclusive = TRUE
     /\ c.command = "KNOWN" => c.request = "exportUpdates"
     /\ c.command = "SELECT" /\ c.request # "delete" => c.found = NothingFound /\ c.conclusive = TRUE
     /\ c.command \in {"SEEN", "ALL"} => c.found = NothingFound
     /\ c.command \in {"UNSEEN", "FLAGGED"} =>
          \A m \in c.found.seen : /\ m \in A /\ FolderOf[m] = c.box
                                  /\ m \in DOMAIN s.server => "seen" \in s.server[m]
     /\ c.command = "FLAGGED" =>
          /\ \A m \in c.found.unseen : m \in A /\ FolderOf[m] = c.box
          /\ c.found.seen \cap c.found.unseen = {}

\* What the searches have found is still there.
Found(s) ==
  LET c == s.client
  IN /\ c.command \in {"UNSEEN", "FLAGGED"} => c.found.seen \subseteq DOMAIN s.server
     /\ c.command = "FLAGGED" => c.found.unseen \subseteq DOMAIN s.server

\* The members with the results F of the searches, b for conclusive and the
\* command x.
With(s, F, b, x) == [s EXCEPT !.client = [@ EXCEPT !.found = F, !.conclusive = b, !.command = x]]

\* The members that stay.
Alike(c, d) ==
  /\ d.box = c.box /\ d.folder = c.folder /\ d.request = c.request /\ d.list = c.list
  /\ d.selected = c.selected /\ d.sending = c.sending /\ d.marks = c.marks /\ d.retrieve = c.retrieve

\* Nothing else differs.
LEMMA WithParts ==
  ASSUME NEW s, Formed(s), NEW F, Has(F, {"seen", "unseen", "flagged"}), NEW b, NEW x
  PROVE  LET n == With(s, F, b, x)
         IN /\ Same(s, n) /\ Alike(s.client, n.client)
            /\ n.client.found = F /\ n.client.conclusive = b /\ n.client.command = x
<1> DEFINE c == [s.client EXCEPT !.found = F, !.conclusive = b, !.command = x]
           n == With(s, F, b, x)
<1>1. n = [s EXCEPT !.client = c]
  BY DEF With
<1>2. Members(c) /\ Alike(s.client, c) /\ c.found = F /\ c.conclusive = b /\ c.command = x
  BY DEF Formed, Members, Has, Alike
<1> HIDE DEF c, n
<1>3. Same(s, n) /\ n.client = c
  BY <1>1, <1>2, ClientSet
<1> QED
  BY <1>2, <1>3 DEF n

\* A command is sent.
LEMMA SendParts ==
  ASSUME NEW s, Formed(s), NEW x
  PROVE  LET n == Send(s, x)
         IN /\ Same(s, n) /\ Alike(s.client, n.client)
            /\ n.client.found = s.client.found /\ n.client.conclusive = s.client.conclusive
            /\ n.client.command = x
<1>1. Has(s.client.found, {"seen", "unseen", "flagged"})
  BY DEF Formed, Members
<1>2. Send(s, x) = With(s, s.client.found, s.client.conclusive, x)
  BY DEF Send, With, Formed, Members, Has
<1> QED
  BY <1>1, <1>2, WithParts

\* What a search, or the selection of a folder, leads to: another search, or the
\* results R are processed.
Answered(s, n, A) ==
  \/ /\ Same(s, n) /\ Alike(s.client, n.client) /\ Searched(n, A) /\ (Found(s) => Found(n))
     /\ n.client.command \in {"SEEN", "UNSEEN", "FLAGGED", "ALL", "KNOWN"}
  \/ \E t, R : /\ Same(s, t) /\ Alike(s.client, t.client) /\ Processed(t, n, R) /\ R \subseteq A
               /\ \/ DOMAIN n.local = DOMAIN s.local
                  \/ Found(s) => (t.client.conclusive => In(s.client.box, DOMAIN s.server) \subseteq R)

\* folderListFolderAction
LEMMA FolderActed ==
  ASSUME NEW s, Formed(s), NEW A, s.client.box = s.client.folder, s.client.request # "updateFlags",
         s.client.found = NothingFound, s.client.conclusive = TRUE
  PROVE  Answered(s, FolderAction(s), A)
<1>1. CASE s.client.request = "exportUpdates" /\ Exists(s) > 0
  <2> DEFINE n == Send(s, "KNOWN")
  <2>1. FolderAction(s) = n
    BY <1>1 DEF FolderAction
  <2>2. Same(s, n) /\ Alike(s.client, n.client) /\ n.client.command = "KNOWN"
    BY SendParts
  <2> HIDE DEF n
  <2>3. Searched(n, A) /\ Found(n)
    BY <1>1, <2>2 DEF Searched, Found, Alike
  <2> QED
    BY <2>1, <2>2, <2>3 DEF Answered
<1>2. CASE s.client.request = "exportUpdates" /\ ~(Exists(s) > 0)
  <2> DEFINE n == ProcessExports(s, {})
  <2>1. FolderAction(s) = n
    BY <1>2 DEF FolderAction
  <2>2. Processed(s, n, {}) /\ DOMAIN n.local = DOMAIN s.local
    BY ExportsProcessed
  <2>3. Same(s, s) /\ Alike(s.client, s.client)
    BY DEF Same, Alike
  <2> QED
    BY <2>1, <2>2, <2>3 DEF Answered
<1>3. CASE s.client.request # "exportUpdates" /\ Exists(s) > 0
  <2> DEFINE n == Send(s, "SEEN")
  <2>1. FolderAction(s) = n
    BY <1>3 DEF FolderAction
  <2>2. /\ Same(s, n) /\ Alike(s.client, n.client) /\ n.client.command = "SEEN"
        /\ n.client.found = NothingFound /\ n.client.conclusive = TRUE
    BY SendParts
  <2> HIDE DEF n
  <2>3. Searched(n, A) /\ Found(n)
    BY <1>3, <2>2 DEF Searched, Found, Alike
  <2> QED
    BY <2>1, <2>2, <2>3 DEF Answered
<1>4. CASE s.client.request # "exportUpdates" /\ ~(Exists(s) > 0)
  <2> DEFINE n == ProcessUidSearchResults(s)
  <2>1. FolderAction(s) = n
    BY <1>4 DEF FolderAction
  <2>2. s.client.found.seen = {} /\ s.client.found.unseen = {}
    BY DEF NothingFound
  <2>3. Processed(s, n, {} \cup {})
    BY <2>2, SearchProcessed
  <2>4. Same(s, s) /\ Alike(s.client, s.client)
    BY DEF Same, Alike
  <2>5. In(s.client.box, DOMAIN s.server) \subseteq {} \cup {}
    BY <1>4, NothingThere
  <2> HIDE DEF n
  <2> QED
    BY <2>1, <2>3, <2>4, <2>5 DEF Answered
<1> QED
  BY <1>1, <1>2, <1>3, <1>4

\* M is (a part of) the right answer to the search.
Right(s, M) ==
  \A m \in M : /\ m \in DOMAIN s.server /\ FolderOf[m] = s.client.box
               /\ s.client.command = "SEEN" => "seen" \in s.server[m]
               /\ s.client.command = "UNSEEN" => "seen" \notin s.server[m]

\* handleUidSearch of the full synchronization
LEMMA SynchronizeAnswered ==
  ASSUME NEW s, Formed(s), NEW A, DOMAIN s.server \subseteq A, A \in SUBSET Mail, Searched(s, A),
         s.client.command \in {"SEEN", "UNSEEN", "FLAGGED", "ALL"}, NEW M, Right(s, M)
  PROVE  Answered(s, SynchronizeSearch(s, M), A)
<1> DEFINE c == s.client
           n == SynchronizeSearch(s, M)
<1>0. Has(c.found, {"seen", "unseen", "flagged"}) /\ c.box = c.folder /\ c.conclusive = TRUE
  BY DEF Formed, Members, Searched
<1>1. CASE c.command = "SEEN"
  <2> DEFINE F == [c.found EXCEPT !.seen = M]
             w == With(s, F, c.conclusive, "UNSEEN")
  <2>1. n = w
    BY <1>1 DEF SynchronizeSearch, Send, With, Formed, Members, Has
  <2>2. Has(F, {"seen", "unseen", "flagged"}) /\ F.seen = M
    BY <1>0 DEF Has
  <2> HIDE DEF F
  <2>3. /\ Same(s, w) /\ Alike(c, w.client) /\ w.client.found = F /\ w.client.conclusive = c.conclusive
        /\ w.client.command = "UNSEEN"
    BY <2>2, WithParts
  <2> HIDE DEF w
  <2>4. w.client.box = c.box /\ w.client.folder = c.folder /\ w.server = s.server
    BY <2>3 DEF Alike, Same
  <2>5. Searched(w, A)
    BY <1>0, <1>1, <2>2, <2>3, <2>4 DEF Searched, Right
  <2>6. Found(w)
    BY <2>2, <2>3, <2>4 DEF Found, Right
  <2> HIDE DEF n, c
  <2> QED
    BY <2>1, <2>3, <2>5, <2>6 DEF Answered, n, c
<1>2. CASE c.command = "UNSEEN"
  <2> DEFINE F == [c.found EXCEPT !.unseen = M]
             w == With(s, F, c.conclusive, "FLAGGED")
  <2>1. n = w
    BY <1>2 DEF SynchronizeSearch, Send, With, Formed, Members, Has
  <2>2. Has(F, {"seen", "unseen", "flagged"}) /\ F.unseen = M /\ F.seen = c.found.seen
    BY <1>0 DEF Has
  <2> HIDE DEF F
  <2>3. /\ Same(s, w) /\ Alike(c, w.client) /\ w.client.found = F /\ w.client.conclusive = c.conclusive
        /\ w.client.command = "FLAGGED"
    BY <2>2, WithParts
  <2> HIDE DEF w
  <2>4. w.client.box = c.box /\ w.client.folder = c.folder /\ w.server = s.server
    BY <2>3 DEF Alike, Same
  <2>5. c.found.seen \cap M = {}
    BY <1>2 DEF Searched, Right
  <2>6. \A m \in c.found.seen : /\ m \in A /\ FolderOf[m] = c.box
                                /\ m \in DOMAIN s.server => "seen" \in s.server[m]
    BY <1>2 DEF Searched
  <2>7. Searched(w, A)
    BY <1>0, <2>2, <2>3, <2>4, <2>5, <2>6 DEF Searched, Right
  <2>8. Found(s) => Found(w)
    BY <1>2, <2>2, <2>3, <2>4 DEF Found, Right
  <2> HIDE DEF n, c
  <2> QED
    BY <2>1, <2>3, <2>7, <2>8 DEF Answered, n, c
<1>3. CASE c.command = "FLAGGED" /\ Consistent(s)
  <2> DEFINE F == [c.found EXCEPT !.flagged = M]
             w == With(s, F, c.conclusive, c.command)
             R == c.found.seen \cup c.found.unseen
  <2>1. n = ProcessUidSearchResults(w)
    BY <1>3 DEF SynchronizeSearch, With, Formed, Members, Has
  <2>2. Has(F, {"seen", "unseen", "flagged"}) /\ F.unseen = c.found.unseen /\ F.seen = c.found.seen
    BY <1>0 DEF Has
  <2> HIDE DEF F
  <2>3. Same(s, w) /\ Alike(c, w.client) /\ w.client.found = F /\ w.client.conclusive = c.conclusive
    BY <2>2, WithParts
  <2> HIDE DEF w
  <2>4. w.client.box = c.box /\ w.client.folder = c.folder /\ Formed(w)
    BY <2>3 DEF Alike, Same
  <2>5. /\ c.found.seen \cap c.found.unseen = {} /\ c.found.seen \subseteq A /\ c.found.unseen \subseteq A
        /\ \A m \in R : FolderOf[m] = c.box
    BY <1>3 DEF Searched
  <2>6. Processed(w, n, R)
    <3>1. \A m \in w.client.found.unseen : FolderOf[m] = w.client.folder
      BY <1>0, <2>2, <2>3, <2>4, <2>5
    <3>2. w.client.found.seen \cap w.client.found.unseen = {} /\ w.client.conclusive \in BOOLEAN
      BY <1>0, <2>2, <2>3, <2>5
    <3>3. Processed(w, n, w.client.found.seen \cup w.client.found.unseen)
      BY <2>1, <2>4, <3>1, <3>2, SearchProcessed
    <3> QED
      BY <2>2, <2>3, <3>3
  <2>7. Complete(s, R)
    BY <1>3, <2>5, BothThere
  <2>8. Found(s) => In(c.box, DOMAIN s.server) \subseteq R
    BY <1>3, <2>7 DEF Found, Complete
  <2>9. R \subseteq A
    BY <2>5
  <2> HIDE DEF n, c, R
  <2> QED
    BY <2>3, <2>6, <2>8, <2>9 DEF Answered, n, c
<1>4. CASE c.command = "FLAGGED" /\ ~Consistent(s)
  <2> DEFINE w == With(s, NothingFound, c.conclusive, "ALL")
  <2>1. n = w
    BY <1>4 DEF SynchronizeSearch, Send, With, Formed, Members, Has
  <2>2. Has(NothingFound, {"seen", "unseen", "flagged"})
    BY DEF Has, NothingFound
  <2>3. /\ Same(s, w) /\ Alike(c, w.client) /\ w.client.found = NothingFound /\ w.client.conclusive = c.conclusive
        /\ w.client.command = "ALL"
    BY <2>2, WithParts
  <2> HIDE DEF w
  <2>4. w.client.box = c.box /\ w.client.folder = c.folder /\ w.server = s.server
    BY <2>3 DEF Alike, Same
  <2>5. Searched(w, A)
    BY <1>0, <2>3, <2>4 DEF Searched
  <2>6. Found(w)
    BY <2>3 DEF Found
  <2> HIDE DEF n, c
  <2> QED
    BY <2>1, <2>3, <2>5, <2>6 DEF Answered, n, c
<1>5. CASE c.command = "ALL"
  <2> DEFINE F == [c.found EXCEPT !.unseen = M]
             b == Cardinality(M) = Exists(s)
             w == With(s, F, b, c.command)
  <2>1. n = ProcessUidSearchResults(w)
    <3>1. n = ProcessUidSearchResults(
                [s EXCEPT !.client.found.unseen = M, !.client.conclusive = Cardinality(M) = Exists(s)])
      BY <1>5 DEF SynchronizeSearch
    <3>2. [s EXCEPT !.client.found.unseen = M, !.client.conclusive = b] = w
      <4> HIDE DEF b
      <4> QED
        BY DEF With, Formed, Members, Has
    <3> QED
      BY <3>1, <3>2
  <2>2. Has(F, {"seen", "unseen", "flagged"}) /\ F.unseen = M /\ F.seen = {}
    BY <1>0, <1>5 DEF Has, Searched, NothingFound
  <2>3. b \in BOOLEAN
    OBVIOUS
  <2>4. b => Cardinality(M) = Exists(s)
    OBVIOUS
  <2> HIDE DEF F, b
  <2>5. Same(s, w) /\ Alike(c, w.client) /\ w.client.found = F /\ w.client.conclusive = b
    BY <2>2, WithParts
  <2> HIDE DEF w
  <2>6. w.client.box = c.box /\ w.client.folder = c.folder /\ Formed(w)
    BY <2>5 DEF Alike, Same
  <2>7. \A m \in M : FolderOf[m] = c.box /\ m \in DOMAIN s.server
    BY DEF Right
  <2>8. Processed(w, n, M)
    <3>1. \A m \in w.client.found.unseen : FolderOf[m] = w.client.folder
      BY <1>0, <2>2, <2>5, <2>6, <2>7
    <3>2. w.client.found.seen \cap w.client.found.unseen = {} /\ w.client.conclusive \in BOOLEAN
      BY <2>2, <2>3, <2>5
    <3>3. Processed(w, n, w.client.found.seen \cup w.client.found.unseen)
      BY <2>1, <2>6, <3>1, <3>2, SearchProcessed
    <3>4. w.client.found.seen \cup w.client.found.unseen = M
      BY <2>2, <2>5
    <3> QED
      BY <3>3, <3>4
  <2>9. b => In(c.box, DOMAIN s.server) \subseteq M
    <3>1. b => Complete(s, M)
      BY <2>4, <2>7, AllThere
    <3> QED
      BY <2>7, <3>1 DEF Complete
  <2>10. M \subseteq A
    BY <2>7
  <2> HIDE DEF n, c
  <2> QED
    BY <2>5, <2>8, <2>9, <2>10 DEF Answered, n, c
<1> QED
  BY <1>1, <1>2, <1>3, <1>4, <1>5

\* The answer to a search.
LEMMA SearchAnswered ==
  ASSUME NEW s, Formed(s), NEW A, DOMAIN s.server \subseteq A, A \in SUBSET Mail, Searched(s, A),
         s.client.command \in {"SEEN", "UNSEEN", "FLAGGED", "ALL", "KNOWN"}, s.client.request # "updateFlags",
         NEW M, Right(s, M)
  PROVE  Answered(s, SearchHandled(s, M), A)
<1>1. CASE s.client.request = "exportUpdates"
  <2> DEFINE n == ProcessExports(s, M)
  <2>1. SearchHandled(s, M) = n
    BY <1>1 DEF SearchHandled
  <2>2. Processed(s, n, M) /\ DOMAIN n.local = DOMAIN s.local
    BY ExportsProcessed
  <2>3. Same(s, s) /\ Alike(s.client, s.client)
    BY DEF Same, Alike
  <2>4. M \subseteq A
    BY DEF Right
  <2> QED
    BY <2>1, <2>2, <2>3, <2>4 DEF Answered
<1>2. CASE s.client.request # "exportUpdates"
  <2>1. SearchHandled(s, M) = SynchronizeSearch(s, M)
    BY <1>2 DEF SearchHandled
  <2>2. s.client.command # "KNOWN"
    BY <1>2 DEF Searched
  <2> QED
    BY <2>1, <2>2, SynchronizeAnswered
<1> QED
  BY <1>1, <1>2

-----------------------------------------------------------------------------
(* Deletion, login and the server *)

\* The next step of a deletion: a STORE for messages of the selected mailbox,
\* another mailbox, the end, or CLOSE.
Selecting(s, n) ==
  /\ Same(s, n)
  /\ \/ /\ n.client.command = "none" /\ n.client.request = "none" /\ n.client.list = {}
        /\ \E up, box : n.client = Idle(up, box)
     \/ /\ n.client.command \in {"STORE", "SELECT", "CLOSE"} /\ n.client.request = s.client.request
        /\ n.client.marks = s.client.marks /\ n.client.retrieve = s.client.retrieve
        /\ n.client.box = s.client.box /\ n.client.list \subseteq s.client.list
        /\ n.client.selected \subseteq s.client.selected
        /\ n.client.command = "STORE" =>
             /\ n.client.sending[1] = Deleted /\ n.client.sending[2] \subseteq s.client.selected
             /\ \A m \in n.client.sending[2] : FolderOf[m] = n.client.box

\* The STORE for the messages of the selected mailbox.
LEMMA SelectedStored ==
  ASSUME NEW s, Formed(s), s.client.folder = s.client.box
  PROVE  Selecting(s, StoreSelected(s)) /\ StoreSelected(s).client.command = "STORE"
<1> DEFINE M == In(s.client.folder, s.client.selected)
           c == [s.client EXCEPT !.selected = @ \ M, !.sending = <<Deleted, M>>, !.command = "STORE"]
           n == StoreSelected(s)
<1>1. n = [s EXCEPT !.client = c]
  BY DEF StoreSelected, Send, Formed, Members, Has
<1>2. M \subseteq s.client.selected /\ \A m \in M : FolderOf[m] = s.client.box
  BY DEF In
<1> HIDE DEF M
<1>3. /\ Members(c) /\ c.command = "STORE" /\ c.request = s.client.request /\ c.box = s.client.box
      /\ c.list = s.client.list /\ c.selected = s.client.selected \ M
      /\ c.marks = s.client.marks /\ c.retrieve = s.client.retrieve
      /\ c.sending[1] = Deleted /\ c.sending[2] = M
  BY DEF Formed, Members, Has
<1> HIDE DEF c, n
<1>4. Same(s, n) /\ n.client = c
  BY <1>1, <1>3, ClientSet
<1> QED
  BY <1>2, <1>3, <1>4 DEF Selecting, n

\* messageListFolderAction
LEMMA SelectedOrEnded ==
  ASSUME NEW s, Formed(s)
  PROVE  Selecting(s, SelectOrEnd(s)) /\ SelectOrEnd(s).client.command # "CLOSE"
<1>1. CASE s.client.folder = 0
  <2>1. SelectOrEnd(s) = Completed(s)
    BY <1>1 DEF SelectOrEnd
  <2>2. Completed(s).client = Idle(s.client.up, s.client.box)
    BY DEF Completed, Formed, Has
  <2>3. Same(s, Completed(s))
    BY CompletedSame
  <2> QED
    BY <2>1, <2>2, <2>3, IdleClient DEF Selecting
<1>2. CASE s.client.folder # 0 /\ s.client.folder = s.client.box
  BY <1>2, SelectedStored DEF SelectOrEnd
<1>3. CASE s.client.folder # 0 /\ s.client.folder # s.client.box
  <2> DEFINE n == Send(s, "SELECT")
  <2>1. SelectOrEnd(s) = n
    BY <1>3 DEF SelectOrEnd
  <2>2. Same(s, n) /\ Alike(s.client, n.client) /\ n.client.command = "SELECT"
    BY SendParts
  <2> HIDE DEF n
  <2> QED
    BY <2>1, <2>2 DEF Selecting, Alike
<1> QED
  BY <1>1, <1>2, <1>3

\* selectNextMessageSequence
LEMMA SelectionNext ==
  ASSUME NEW s, Formed(s)
  PROVE  LET n == NextSelection(s)
         IN Selecting(s, n) /\ (n.client.command # "CLOSE" => n.client.list = {})
<1> DEFINE n == NextSelection(s)
           left == {FolderOf[m] : m \in s.client.selected}
           f == IF left = {} THEN 0 ELSE Min(left)
           t == [s EXCEPT !.client.folder = f]
           c1 == [s.client EXCEPT !.folder = f, !.command = "CLOSE"]
           c2 == [s.client EXCEPT !.folder = f, !.list = {}]
           n1 == [s EXCEPT !.client = c1]
           n2 == [s EXCEPT !.client = c2]
<1> HIDE DEF f
<1>1. [t EXCEPT !.client.command = "CLOSE"] = n1
  BY DEF Formed, Members, Has
<1>2. [t EXCEPT !.client.list = {}] = n2
  BY DEF Formed, Members, Has
<1>3. n = IF s.client.box # 0 /\ s.client.last # 0 THEN n1 ELSE SelectOrEnd(n2)
  BY <1>1, <1>2 DEF NextSelection, Send, f
<1>4. /\ Members(c1) /\ c1.command = "CLOSE" /\ c1.request = s.client.request /\ c1.box = s.client.box
      /\ c1.list = s.client.list /\ c1.selected = s.client.selected
      /\ c1.marks = s.client.marks /\ c1.retrieve = s.client.retrieve
  BY DEF Formed, Members, Has
<1>5. /\ Members(c2) /\ c2.request = s.client.request /\ c2.box = s.client.box
      /\ c2.list = {} /\ c2.selected = s.client.selected
      /\ c2.marks = s.client.marks /\ c2.retrieve = s.client.retrieve
  BY DEF Formed, Members, Has
<1> HIDE DEF c1, c2, n
<1>6. Same(s, n1) /\ n1.client = c1
  BY <1>4, ClientSet
<1>7. Same(s, n2) /\ n2.client = c2
  BY <1>5, ClientSet
<1> HIDE DEF n1, n2
<1>8. CASE n = n1
  BY <1>4, <1>6, <1>8 DEF Selecting, n
<1>9. CASE n = SelectOrEnd(n2)
  <2>1. Selecting(n2, n) /\ n.client.command # "CLOSE"
    BY <1>7, <1>9, SelectedOrEnded DEF Same
  <2>2. Same(s, n)
    BY <1>7, <2>1 DEF Same, Selecting
  <2>3. n.client.list = {}
    BY <1>5, <1>7, <2>1 DEF Selecting
  <2> QED
    BY <1>5, <1>7, <2>1, <2>2, <2>3 DEF Selecting, n
<1> QED
  BY <1>3, <1>8, <1>9

\* handleUidStore of the deletion
LEMMA DeletionNext ==
  ASSUME NEW s, Formed(s)
  PROVE  LET n == DeletionStored(s)
         IN /\ Same(s, n)
            /\ \/ /\ n.client.command = "none" /\ n.client.request = "none" /\ n.client.list = {}
                  /\ \E up, box : n.client = Idle(up, box)
               \/ /\ n.client.command \in {"STORE", "SELECT", "CLOSE"} /\ n.client.request = s.client.request
                  /\ n.client.marks = s.client.marks /\ n.client.retrieve = s.client.retrieve
                  /\ n.client.box = s.client.box /\ n.client.selected \subseteq s.client.selected
                  /\ n.client.list \subseteq s.client.list \cup s.client.sending[2]
                  /\ n.client.command # "CLOSE" => n.client.list = {}
                  /\ n.client.command = "STORE" =>
                       /\ n.client.sending[1] = Deleted /\ n.client.sending[2] \subseteq s.client.selected
                       /\ \A m \in n.client.sending[2] : FolderOf[m] = n.client.box
<1> DEFINE n == DeletionStored(s)
           L == s.client.list \cup s.client.sending[2]
           c == [s.client EXCEPT !.list = L, !.last = s.client.folder]
           t == [s EXCEPT !.client = c]
<1>1. n = NextSelection(t)
  BY DEF DeletionStored, Formed, Members, Has
<1>2. /\ Members(c) /\ c.request = s.client.request /\ c.box = s.client.box
      /\ c.list = L /\ c.selected = s.client.selected
      /\ c.marks = s.client.marks /\ c.retrieve = s.client.retrieve
  BY DEF Formed, Members, Has
<1> HIDE DEF c, n, L
<1>3. Same(s, t) /\ t.client = c
  BY <1>2, ClientSet
<1> HIDE DEF t
<1>4. Selecting(t, n) /\ (n.client.command # "CLOSE" => n.client.list = {})
  BY <1>1, <1>3, SelectionNext DEF Same
<1>5. Same(s, n)
  BY <1>3, <1>4 DEF Same, Selecting
<1> QED
  BY <1>2, <1>3, <1>4, <1>5 DEF Selecting, n, L

\* handleClose
LEMMA Closed ==
  ASSUME NEW s, Formed(s)
  PROVE  LET n == HandleClose(s)
         IN /\ Formed(n) /\ n.server = s.server /\ n.records = s.records /\ n.stored = s.stored
            /\ n.local = Without(s.local, s.client.list)
            /\ n.client.command = "EXAMINE" /\ n.client.request = s.client.request
            /\ n.client.list = s.client.list /\ n.client.selected = s.client.selected
            /\ n.client.marks = s.client.marks /\ n.client.retrieve = s.client.retrieve
<1> DEFINE n == HandleClose(s)
           l == Without(s.local, s.client.list)
           c == [s.client EXCEPT !.box = 0, !.command = "EXAMINE"]
<1>1. n = [s EXCEPT !.local = l, !.client = c]
  BY DEF HandleClose, Send, Formed, Members, Has
<1>2. Rows(l)
  BY WithoutRows DEF Formed
<1>3. /\ Members(c) /\ c.command = "EXAMINE" /\ c.request = s.client.request
      /\ c.list = s.client.list /\ c.selected = s.client.selected
      /\ c.marks = s.client.marks /\ c.retrieve = s.client.retrieve
  BY DEF Formed, Members, Has
<1> HIDE DEF n, l, c
<1>4. /\ Has(n, {"server", "local", "records", "client", "stored", "reports"})
      /\ n.server = s.server /\ n.client = c /\ n.stored = s.stored
      /\ n.local = l /\ n.records = s.records
  BY <1>1 DEF Formed, Has
<1>5. Formed(n)
  BY <1>2, <1>3, <1>4 DEF Formed
<1> QED
  BY <1>3, <1>4, <1>5 DEF l, n

\* handleLogin
LEMMA LoggedIn ==
  ASSUME NEW s, Formed(s), s.client.request # "updateFlags"
  PROVE  LET n == HandleLogin(s)
         IN IF s.client.request = "delete" THEN n = NextSelection(s)
            ELSE /\ Same(s, n) /\ Calm(n.client) /\ Keeps(s.client, n.client)
                 /\ n.client.command \in {"none", "FETCH", "PREVIEW", "SELECT", "LIST"}
<1> DEFINE n == HandleLogin(s)
<1>1. CASE s.client.request = "exportUpdates"
  <2> DEFINE marks == [k \in Mark |-> ChangedHere(s.local, k)]
             deleted == IF CanDelete THEN s.records ELSE {}
             all == deleted \cup UNION {marks[k] : k \in Mark}
             plan == [marks |-> marks, removed |-> deleted]
             todo == {FolderOf[m] : m \in all}
             c == [s.client EXCEPT !.plan = plan, !.todo = todo]
             t == [s EXCEPT !.client = c]
  <2>1. n = ProcessNextFolder([s EXCEPT !.client.plan = plan, !.client.todo = todo])
    BY <1>1 DEF HandleLogin
  <2> HIDE DEF plan, todo, n
  <2>2. [s EXCEPT !.client.plan = plan, !.client.todo = todo] = t
    BY DEF Formed, Members, Has
  <2>3. Members(c) /\ c.request = s.client.request /\ c.list = s.client.list
    BY DEF Formed, Members, Has
  <2> HIDE DEF c
  <2>4. Same(s, t) /\ t.client = c
    BY <2>3, ClientSet
  <2> HIDE DEF t
  <2>5. /\ Same(t, n) /\ Calm(n.client) /\ Keeps(t.client, n.client)
        /\ n.client.command \in {"none", "FETCH", "PREVIEW", "SELECT"}
    BY <2>1, <2>2, <2>4, NextFolderSame DEF Same
  <2>6. Same(s, n) /\ Keeps(s.client, n.client)
    BY <2>3, <2>4, <2>5 DEF Same, Keeps
  <2> QED
    BY <1>1, <2>5, <2>6 DEF n
<1>2. CASE s.client.request = "delete"
  BY <1>2 DEF HandleLogin
<1>3. CASE s.client.request # "exportUpdates" /\ s.client.request # "delete"
  <2>1. n = Send(s, "LIST")
    BY <1>3 DEF HandleLogin
  <2>2. Same(s, n) /\ Alike(s.client, n.client) /\ n.client.command = "LIST"
    BY <2>1, SendParts
  <2> HIDE DEF n
  <2> QED
    BY <1>3, <2>2 DEF Alike, Keeps, Calm, n
<1> QED
  BY <1>1, <1>2, <1>3

\* The server has acted on the command.
LEMMA Executed ==
  ASSUME NEW s, Formed(s)
  PROVE  LET n == Execute(s)
         IN /\ Formed(n) /\ n.client = s.client /\ n.local = s.local /\ n.records = s.records
            /\ n.stored = s.stored /\ n.reports = s.reports
            /\ DOMAIN n.server \subseteq DOMAIN s.server
            /\ s.client.command \notin {"STORE", "EXPUNGE", "CLOSE"} => n = s
            /\ s.client.command = "STORE" /\ s.client.sending[1] = Deleted =>
                 \A m \in DOMAIN n.server : m \in s.client.sending[2] => "deleted" \in n.server[m]
            /\ s.client.command \in {"EXPUNGE", "CLOSE"} =>
                 \A m \in DOMAIN n.server : /\ ~(FolderOf[m] = s.client.box /\ "deleted" \in s.server[m])
                                          /\ n.server[m] = s.server[m]
            /\ s.client.command = "STORE" =>
                 \A m \in DOMAIN n.server :
                   /\ m \notin s.client.sending[2] => n.server[m] = s.server[m]
                   /\ m \in s.client.sending[2] =>
                        /\ Marked(s.client.sending[1]) \in n.server[m] <=> Sets(s.client.sending[1])
                        /\ \A x : x # Marked(s.client.sending[1]) => (x \in n.server[m] <=> x \in s.server[m])
<1> DEFINE c == s.client
           n == Execute(s)
           flag == {Marked(c.sending[1])}
           put(F) == IF Sets(c.sending[1]) THEN F \cup flag ELSE F \ flag
           v1 == [m \in DOMAIN s.server |-> IF m \in c.sending[2] THEN put(s.server[m]) ELSE s.server[m]]
           gone == {m \in In(c.box, DOMAIN s.server) : "deleted" \in s.server[m]}
           v2 == Without(s.server, gone)
<1>1. CASE c.command = "STORE"
  <2>1. n = [s EXCEPT !.server = v1]
    BY <1>1 DEF Execute
  <2>2. DOMAIN v1 = DOMAIN s.server /\ Has(v1, DOMAIN v1)
    BY DEF Has
  <2>3. c.sending[1] = Deleted => \A m \in DOMAIN v1 : m \in c.sending[2] => "deleted" \in v1[m]
    BY DEF Sets, Marked
  <2>6. \A m \in DOMAIN v1 :
          /\ m \notin c.sending[2] => v1[m] = s.server[m]
          /\ m \in c.sending[2] =>
               /\ Marked(c.sending[1]) \in v1[m] <=> Sets(c.sending[1])
               /\ \A x : x # Marked(c.sending[1]) => (x \in v1[m] <=> x \in s.server[m])
    <3>1. Sets(c.sending[1]) \in BOOLEAN
      BY DEF Sets
    <3>2. \A F : /\ Marked(c.sending[1]) \in put(F) <=> Sets(c.sending[1])
                 /\ \A x : x # Marked(c.sending[1]) => (x \in put(F) <=> x \in F)
      BY <3>1
    <3> HIDE DEF put
    <3> QED
      BY <3>2
  <2> HIDE DEF v1, n
  <2>4. /\ Has(n, {"server", "local", "records", "client", "stored", "reports"}) /\ n.server = v1
        /\ n.client = s.client /\ n.local = s.local /\ n.records = s.records
        /\ n.stored = s.stored /\ n.reports = s.reports
    BY <2>1 DEF Formed, Has
  <2>5. Formed(n)
    BY <2>2, <2>4 DEF Formed
  <2> QED
    BY <1>1, <2>2, <2>3, <2>4, <2>5, <2>6 DEF n
<1>2. CASE c.command \in {"EXPUNGE", "CLOSE"}
  <2>1. n = [s EXCEPT !.server = v2]
    BY <1>2 DEF Execute
  <2>2. DOMAIN v2 = DOMAIN s.server \ gone /\ Has(v2, DOMAIN v2)
    BY DEF Has, Without
  <2>3. \A m \in DOMAIN v2 : ~(FolderOf[m] = c.box /\ "deleted" \in s.server[m]) /\ v2[m] = s.server[m]
    BY <2>2 DEF In, Without
  <2> HIDE DEF v2, n, gone
  <2>4. /\ Has(n, {"server", "local", "records", "client", "stored", "reports"}) /\ n.server = v2
        /\ n.client = s.client /\ n.local = s.local /\ n.records = s.records
        /\ n.stored = s.stored /\ n.reports = s.reports
    BY <2>1 DEF Formed, Has
  <2>5. Formed(n)
    BY <2>2, <2>4 DEF Formed
  <2> QED
    BY <1>2, <2>2, <2>3, <2>4, <2>5 DEF n
<1>3. CASE c.command \notin {"STORE", "EXPUNGE", "CLOSE"}
  <2>1. n = s
    BY <1>3 DEF Execute
  <2> QED
    BY <1>3, <2>1
<1> QED
  BY <1>1, <1>2, <1>3

\* createMail, messageFetched and nonexistentUid
LEMMA FetchedParts ==
  ASSUME NEW s, Formed(s), NEW M
  PROVE  LET n == Fetched(s, M)
             gone == M \ DOMAIN s.server
         IN /\ Formed(n) /\ n.server = s.server /\ n.client = s.client /\ n.stored = s.stored
            /\ DOMAIN n.local = (DOMAIN s.local \ gone) \cup (M \cap DOMAIN s.server)
            /\ n.records = s.records \ (gone \cap DOMAIN s.local)
            /\ KeptRead(s.local, n.local)
            /\ \A m \in DOMAIN n.local :
                 IF m \in DOMAIN s.local THEN n.local[m] = s.local[m]
                 ELSE m \in M \cap DOMAIN s.server /\ n.local[m].here = s.server[m] \ {"deleted"}
            /\ n.reports = s.reports
<1> DEFINE n == Fetched(s, M)
           gone == M \ DOMAIN s.server
           t == Purge(s, gone)
           new == (M \cap DOMAIN s.server) \ DOMAIN t.local
           row(m) == [here |-> s.server[m] \ {"deleted"}, elsewhere |-> s.server[m] \ {"deleted"},
                      removed |-> "deleted" \in s.server[m]]
           l == [m \in DOMAIN t.local \cup new |-> IF m \in DOMAIN t.local THEN t.local[m] ELSE row(m)]
<1>1. n = [t EXCEPT !.local = l]
  BY DEF Fetched
<1>2. /\ Formed(t) /\ t.server = s.server /\ t.client = s.client /\ t.stored = s.stored
      /\ t.local = Without(s.local, gone) /\ t.records = s.records \ (gone \cap DOMAIN s.local)
      /\ t.reports = s.reports
  BY PurgeParts
<1> HIDE DEF n, t
<1>3. DOMAIN t.local = DOMAIN s.local \ gone /\ \A m \in DOMAIN s.local \ gone : t.local[m] = s.local[m]
  <2> DEFINE k == Without(s.local, gone)
  <2> HIDE DEF gone
  <2>1. DOMAIN k = DOMAIN s.local \ gone /\ \A m \in DOMAIN s.local \ gone : k[m] = s.local[m]
    BY WithoutRows DEF Formed
  <2>2. t.local = k
    BY <1>2 DEF gone
  <2> HIDE DEF k
  <2> QED
    BY <2>1, <2>2
<1>4. /\ DOMAIN l = DOMAIN t.local \cup new
      /\ \A m \in DOMAIN t.local : l[m] = t.local[m]
      /\ \A m \in new \ DOMAIN t.local : l[m].here = s.server[m] \ {"deleted"}
  OBVIOUS
<1>5. Rows(l)
  <2>1. \A m : Has(row(m), {"here", "elsewhere", "removed"})
    BY DEF Has
  <2>2. Rows(t.local)
    BY <1>2 DEF Formed
  <2> HIDE DEF row, new
  <2>3. \A m \in DOMAIN l : Has(l[m], {"here", "elsewhere", "removed"})
    BY <2>1, <2>2 DEF Rows
  <2>4. Has(l, DOMAIN l)
    BY DEF Has
  <2> QED
    BY <2>3, <2>4 DEF Rows
<1> HIDE DEF l
<1>6. /\ Has(n, {"server", "local", "records", "client", "stored", "reports"})
      /\ n.server = t.server /\ n.client = t.client /\ n.stored = t.stored
      /\ n.records = t.records /\ n.local = l /\ n.reports = t.reports
  BY <1>1, <1>2 DEF Formed, Has
<1>7. Formed(n)
  BY <1>2, <1>5, <1>6 DEF Formed
<1>8. DOMAIN n.local = (DOMAIN s.local \ gone) \cup (M \cap DOMAIN s.server)
  BY <1>3, <1>4, <1>6
<1>9. KeptRead(s.local, n.local)
  BY <1>3, <1>4, <1>6 DEF KeptRead
<1>10. \A m \in DOMAIN n.local :
         IF m \in DOMAIN s.local THEN n.local[m] = s.local[m]
         ELSE m \in M \cap DOMAIN s.server /\ n.local[m].here = s.server[m] \ {"deleted"}
  <2>1. ASSUME NEW m \in DOMAIN l
        PROVE  IF m \in DOMAIN s.local THEN l[m] = s.local[m]
               ELSE m \in M \cap DOMAIN s.server /\ l[m].here = s.server[m] \ {"deleted"}
    <3>1. CASE m \in DOMAIN t.local
      BY <1>3, <1>4, <3>1
    <3>2. CASE m \notin DOMAIN t.local
      <4>1. m \in new
        BY <1>4, <2>1, <3>2
      <4> QED
        BY <1>3, <1>4, <3>2, <4>1
    <3> QED
      BY <3>1, <3>2
  <2> QED
    BY <1>6, <2>1
<1> QED
  BY <1>2, <1>6, <1>7, <1>8, <1>9, <1>10 DEF n

\* The state the variables take.
LEMMA Became ==
  ASSUME NEW n, Formed(n), Become(n)
  PROVE  Now' = n
  BY DEF Become, Now, Formed, Has

-----------------------------------------------------------------------------
(* The invariants *)

\* A state has its components, the messages were on the server at some time,
\* and the searches are as they should be.
Base(s, A) ==
  /\ Formed(s) /\ A \in SUBSET Mail /\ DOMAIN s.server \subseteq A /\ DOMAIN s.local \subseteq A
  /\ s.client.request \in Requests \cup {"none"} /\ s.client.request # "updateFlags"
  /\ s.client.request = "none" => s.client.command = "none"
  /\ s.client.command \in {"CLOSE", "EXAMINE"} => s.client.request = "delete"
  /\ Searched(s, A)

\* A deletion: what the list names is no longer on the server, or CLOSE will
\* remove it.
Deleting(s, A) ==
  LET c == s.client
  IN /\ c.request # "delete" => c.list = {}
     /\ c.request = "delete" =>
          /\ c.selected \subseteq A /\ c.list \subseteq A
          /\ c.command \in {"none", "LOGIN", "SELECT", "STORE", "CLOSE", "EXAMINE"}
          /\ c.command = "STORE" => /\ c.sending[1] = Deleted /\ c.sending[2] \subseteq A
                                    /\ \A m \in c.sending[2] : FolderOf[m] = c.box
          /\ \A m \in c.list \cap DOMAIN s.server :
               c.command = "CLOSE" /\ FolderOf[m] = c.box /\ "deleted" \in s.server[m]

\* No message that has been marked as deleted is on the server.
Clear(s) == \A r \in Exporting : s.stored[r].removed \cap DOMAIN s.server = {}

\* An export: a message that is marked as deleted and still on the server is one
\* that the pending STORE marks, or one that the pending EXPUNGE removes.
Removing(s, A) ==
  LET c == s.client
  IN /\ \A r \in Exporting : s.stored[r].removed \subseteq A
     /\ \A r \in Exporting : \A m \in s.stored[r].removed \cap DOMAIN s.server :
          /\ CanDelete /\ c.request = r /\ FolderOf[m] = c.box
          /\ \/ /\ c.command = "STORE" /\ c.sending[1] = Deleted /\ m \in c.sending[2]
                /\ c.expunge = TRUE /\ c.removed = {} /\ \A k \in Mark : c.marks[k] = {}
             \/ c.command = "EXPUNGE" /\ "deleted" \in s.server[m]
     /\ c.command = "STORE" /\ c.request \in Exporting =>
          /\ c.removed \subseteq A /\ \A m \in c.removed : FolderOf[m] = c.box
          /\ c.removed # {} => c.expunge = TRUE

\* No message that is on the server goes, and no record of one.
KeptLive(s, n) == \A m \in DOMAIN s.local \ DOMAIN n.local : m \notin DOMAIN n.server
KeptRecords(s, n) == \A m \in s.records \ n.records : m \notin DOMAIN n.server

\* A step from s to n keeps what it should.
Moves(s, n, A) ==
  /\ Base(n, A) /\ KeptRead(s.local, n.local)
  /\ Found(s) => Found(n)
  /\ Deleting(s, A) => Deleting(n, A)
  /\ Found(s) /\ Deleting(s, A) => KeptLive(s, n)
  /\ Found(s) /\ Deleting(s, A) /\ Removing(s, A) => Removing(n, A) /\ KeptRecords(s, n)

\* Calm after the searches.
LEMMA CalmSearched ==
  ASSUME NEW n, Calm(n.client), n.client.command # "KNOWN", NEW A
  PROVE  Searched(n, A) /\ Found(n)
  BY DEF Calm, Searched, Found

\* Unless an export is under way, nothing that is marked is on the server.
LEMMA ClearWhen ==
  ASSUME NEW s, NEW A, Removing(s, A), s.client.command \notin {"STORE", "EXPUNGE"}
  PROVE  Clear(s)
  BY DEF Removing, Clear

\* A step of a request other than a deletion that leaves no search, STORE or
\* EXPUNGE behind.
LEMMA CalmMoves ==
  ASSUME NEW s, NEW A, Base(s, A), NEW n, Formed(n), DOMAIN n.server \subseteq DOMAIN s.server,
         DOMAIN n.local \subseteq A, KeptRead(s.local, n.local), KeptLive(s, n), KeptRecords(s, n),
         n.stored = s.stored, s.client.request # "none", Calm(n.client), Keeps(s.client, n.client),
         n.client.command \notin {"KNOWN", "CLOSE", "EXAMINE", "STORE"},
         Deleting(s, A) => s.client.request # "delete",
         Removing(s, A) => Clear(n)
  PROVE  Moves(s, n, A)
<1>1. Searched(n, A) /\ Found(n)
  BY CalmSearched
<1>2. Base(n, A)
  BY <1>1 DEF Base, Keeps
<1>3. Deleting(s, A) => Deleting(n, A)
  BY DEF Deleting, Keeps
<1>4. Removing(s, A) => Removing(n, A)
  BY DEF Removing, Clear
<1> QED
  BY <1>1, <1>2, <1>3, <1>4 DEF Moves

\* handleUidStore drops no record too early.
LEMMA StoredMoves ==
  ASSUME NEW v, Formed(v), NEW A, \A r \in Exporting : v.stored[r].removed \subseteq A,
         v.client.removed \subseteq A, \A m \in v.client.removed : FolderOf[m] = v.client.box,
         v.client.removed # {} => v.client.expunge = TRUE,
         \/ Clear(v)
         \/ /\ CanDelete /\ v.client.request \in Exporting
            /\ v.client.expunge = TRUE /\ v.client.removed = {} /\ \A k \in Mark : v.client.marks[k] = {}
            /\ \A r \in Exporting : \A m \in v.stored[r].removed \cap DOMAIN v.server :
                 r = v.client.request /\ FolderOf[m] = v.client.box /\ "deleted" \in v.server[m]
  PROVE  LET n == HandleUidStore(v)
         IN Removing(n, A) /\ KeptRecords(v, n)
<1> DEFINE n == HandleUidStore(v)
           r == v.client.request
<1>1. /\ Noted(v, n) /\ n.client.command \in {"none", "FETCH", "PREVIEW", "SELECT", "STORE", "EXPUNGE"}
      /\ r \in Exporting => Exports(v, n, r)
      /\ r \notin Exporting => /\ n.records = v.records /\ n.stored = v.stored
                               /\ n.client.command \in {"none", "FETCH", "PREVIEW", "SELECT"}
  BY UidStored
<1>2. n.server = v.server
  BY <1>1 DEF Noted
<1> HIDE DEF n
<1>3. CASE r \notin Exporting
  <2>1. Clear(v)
    BY <1>3
  <2> QED
    BY <1>1, <1>2, <1>3, <2>1 DEF Removing, KeptRecords, Clear, n
<1>4. CASE r \in Exporting /\ ~Clear(v)
  <2>1. /\ n.client.command = "EXPUNGE" /\ n.client.box = v.client.box /\ n.client.request = r
        /\ n.records = v.records /\ \A q \in Exporting : n.stored[q].removed = v.stored[q].removed
    BY <1>1, <1>4 DEF Exports
  <2> QED
    BY <1>2, <1>4, <2>1 DEF Removing, KeptRecords, n
<1>5. CASE r \in Exporting /\ Clear(v)
  <2>1. CASE /\ n.client.command = "STORE" /\ n.client.sending[1] # Deleted
             /\ n.records = v.records /\ \A q \in Exporting : n.stored[q].removed = v.stored[q].removed
             /\ n.client.box = v.client.box /\ n.client.request = r /\ n.client.removed = v.client.removed
             /\ n.client.expunge = v.client.expunge
    BY <1>2, <1>5, <2>1 DEF Removing, KeptRecords, Clear, n
  <2>2. CASE /\ CanDelete /\ n.client.command = "STORE" /\ n.client.sending = <<Deleted, v.client.removed>>
             /\ n.client.box = v.client.box /\ n.client.request = r /\ n.client.removed = {}
             /\ n.client.expunge = v.client.expunge /\ n.client.marks = v.client.marks
             /\ \A k \in Mark : v.client.marks[k] = {}
             /\ n.records = v.records /\ v.client.removed # {}
             /\ n.stored[r].removed = v.stored[r].removed \cup v.client.removed
             /\ \A q \in Exporting \ {r} : n.stored[q].removed = v.stored[q].removed
    <3>1. n.client.sending[1] = Deleted /\ n.client.sending[2] = v.client.removed
      BY <2>2
    <3>2. \A q \in Exporting : n.stored[q].removed \subseteq A
      BY <2>2
    <3>3. \A q \in Exporting : \A m \in n.stored[q].removed \cap DOMAIN n.server :
            q = r /\ m \in v.client.removed
      BY <1>2, <1>5, <2>2 DEF Clear
    <3> QED
      BY <2>2, <3>1, <3>2, <3>3 DEF Removing, KeptRecords, n
  <2>3. CASE /\ n.client.command = "EXPUNGE" /\ n.client.box = v.client.box /\ n.client.request = r
             /\ n.records = v.records /\ \A q \in Exporting : n.stored[q].removed = v.stored[q].removed
    BY <1>2, <1>5, <2>3 DEF Removing, KeptRecords, Clear, n
  <2>4. CASE /\ n.client.command \in {"none", "FETCH", "PREVIEW", "SELECT"}
             /\ n.records = v.records \ v.stored[r].removed /\ n.stored[r].removed = {}
             /\ \A q \in Exporting \ {r} : n.stored[q].removed = v.stored[q].removed
    BY <1>2, <1>5, <2>4 DEF Removing, KeptRecords, Clear, n
  <2> QED
    BY <1>1, <1>5, <2>1, <2>2, <2>3, <2>4 DEF Exports
<1> QED
  BY <1>3, <1>4, <1>5

\* A search, or the selection of a folder.
LEMMA AnsweredMoves ==
  ASSUME NEW s, NEW A, Base(s, A), NEW u, Same(s, u), u.client.request = s.client.request,
         u.client.list = s.client.list, u.client.box = u.client.folder, Found(s) => Found(u),
         s.client.command \notin {"none", "STORE", "EXPUNGE"},
         Deleting(s, A) => s.client.request # "delete", NEW n, Answered(u, n, A)
  PROVE  Moves(s, n, A)
<1>0. /\ Formed(s) /\ Formed(u) /\ u.server = s.server /\ u.local = s.local /\ u.records = s.records
      /\ u.stored = s.stored
  BY DEF Base, Same
<1>1. Removing(s, A) => Clear(s)
  BY ClearWhen
<1>2. CASE /\ Same(u, n) /\ Alike(u.client, n.client) /\ Searched(n, A) /\ (Found(u) => Found(n))
           /\ n.client.command \in {"SEEN", "UNSEEN", "FLAGGED", "ALL", "KNOWN"}
  <2>1. /\ Formed(n) /\ n.server = s.server /\ n.local = s.local /\ n.records = s.records /\ n.stored = s.stored
        /\ n.client.request = s.client.request /\ n.client.list = s.client.list
    BY <1>0, <1>2 DEF Same, Alike
  <2>2. Base(n, A)
    BY <1>2, <2>1 DEF Base
  <2>3. Deleting(s, A) => Deleting(n, A)
    BY <2>1 DEF Deleting
  <2>4. Removing(s, A) => Removing(n, A)
    BY <1>1, <1>2, <2>1 DEF Removing, Clear
  <2>5. KeptRead(s.local, n.local) /\ KeptLive(s, n) /\ KeptRecords(s, n)
    BY <2>1 DEF KeptRead, KeptLive, KeptRecords
  <2> QED
    BY <1>2, <2>2, <2>3, <2>4, <2>5 DEF Moves
<1>3. ASSUME NEW t, NEW R, Same(u, t), Alike(u.client, t.client), Processed(t, n, R), R \subseteq A,
             \/ DOMAIN n.local = DOMAIN u.local
             \/ Found(u) => (t.client.conclusive => In(u.client.box, DOMAIN u.server) \subseteq R)
      PROVE  Moves(s, n, A)
  <2>1. /\ Formed(t) /\ t.server = s.server /\ t.local = s.local /\ t.records = s.records /\ t.stored = s.stored
        /\ t.client.request = s.client.request /\ t.client.list = s.client.list
        /\ t.client.box = u.client.box /\ t.client.folder = u.client.box
    BY <1>0, <1>3 DEF Same, Alike
  <2>2. /\ Formed(n) /\ n.server = t.server /\ Calm(n.client) /\ Keeps(t.client, n.client)
        /\ n.client.command \in {"none", "FETCH", "PREVIEW", "SELECT", "STORE", "EXPUNGE"}
        /\ KeptRead(t.local, n.local) /\ DOMAIN n.local \subseteq DOMAIN t.local
        /\ \A m \in DOMAIN t.local \ DOMAIN n.local :
             t.client.conclusive /\ FolderOf[m] = t.client.folder /\ m \notin R
    BY <1>3, <2>1, ProcessedParts
  <2>3. Searched(n, A) /\ Found(n)
    BY <2>2, CalmSearched
  <2>4. Base(n, A)
    BY <2>1, <2>2, <2>3 DEF Base, Keeps
  <2>5. Deleting(s, A) => Deleting(n, A)
    BY <2>1, <2>2 DEF Deleting, Keeps
  <2>6. Found(s) => KeptLive(s, n)
    <3> SUFFICES ASSUME Found(s), NEW m \in DOMAIN s.local \ DOMAIN n.local
                 PROVE  m \notin DOMAIN n.server
      BY DEF KeptLive
    <3>1. t.client.conclusive /\ FolderOf[m] = u.client.box /\ m \notin R
      BY <2>1, <2>2
    <3>2. In(u.client.box, DOMAIN u.server) \subseteq R
      BY <1>0, <1>3, <3>1
    <3> QED
      BY <1>0, <2>1, <2>2, <3>1, <3>2 DEF In
  <2>7. Found(s) /\ Removing(s, A) => Removing(n, A) /\ KeptRecords(s, n)
    <3> SUFFICES ASSUME Found(s), Removing(s, A)
                 PROVE  Removing(n, A) /\ KeptRecords(s, n)
      OBVIOUS
    <3>0. Clear(s) /\ \A r \in Exporting : s.stored[r].removed \subseteq A
      BY <1>1 DEF Removing
    <3>1. ASSUME NEW w, Same(t, w), n = ProcessNextFolder(w)
          PROVE  Removing(n, A) /\ KeptRecords(s, n)
      <4>1. Same(w, n) /\ n.client.command \in {"none", "FETCH", "PREVIEW", "SELECT"}
        BY <3>1, NextFolderSame DEF Same
      <4>2. n.stored = s.stored /\ n.records = s.records /\ n.server = s.server
        BY <2>1, <3>1, <4>1 DEF Same
      <4> QED
        BY <3>0, <4>1, <4>2 DEF Removing, Clear, KeptRecords
    <3>2. ASSUME NEW v, Prepared(t, v, R), n = HandleUidStore(v)
          PROVE  Removing(n, A) /\ KeptRecords(s, n)
      <4>1. Formed(v) /\ v.server = s.server /\ v.stored = s.stored /\ v.client.box = t.client.box
        BY <2>1, <3>2 DEF Prepared
      <4>2. /\ v.client.removed \subseteq A /\ \A m \in v.client.removed : FolderOf[m] = v.client.box
            /\ v.client.removed # {} => v.client.expunge = TRUE
        BY <1>3, <2>1, <3>2 DEF Prepared
      <4>3. Clear(v)
        BY <3>0, <4>1 DEF Clear
      <4>4. Removing(n, A) /\ KeptRecords(v, n)
        BY <3>0, <3>2, <4>1, <4>2, <4>3, StoredMoves
      <4>5. DOMAIN n.local = DOMAIN v.local
        BY <3>2, <4>1, UidStored DEF Noted
      <4>6. \A m \in s.records \ v.records : m \in DOMAIN s.local \ DOMAIN n.local
        BY <2>1, <3>2, <4>5 DEF Prepared
      <4>7. KeptRecords(s, n)
        BY <2>6, <4>4, <4>6 DEF KeptRecords, KeptLive
      <4> QED
        BY <4>4, <4>7
    <3> QED
      BY <1>3, <3>1, <3>2 DEF Processed
  <2> QED
    BY <2>1, <2>2, <2>3, <2>4, <2>5, <2>6, <2>7 DEF Moves
<1> QED
  BY <1>2, <1>3 DEF Answered

-----------------------------------------------------------------------------
(* The answers *)

\* A step of a deletion.
LEMMA DeletionMoves ==
  ASSUME NEW s, NEW A, Base(s, A), s.client.request = "delete",
         NEW n, Formed(n), DOMAIN n.server \subseteq DOMAIN s.server, DOMAIN n.local \subseteq DOMAIN s.local,
         KeptRead(s.local, n.local), n.records = s.records, n.stored = s.stored,
         \/ n.client.request = "none" /\ n.client.command = "none"
         \/ /\ n.client.request = "delete"
            /\ n.client.command \in {"none", "LOGIN", "SELECT", "STORE", "CLOSE", "EXAMINE"},
         Deleting(s, A) => Deleting(n, A) /\ KeptLive(s, n)
  PROVE  Moves(s, n, A)
<1>1. Searched(n, A) /\ Found(n)
  BY DEF Searched, Found
<1>2. Base(n, A)
  BY <1>1 DEF Base
<1>3. Removing(s, A) => Removing(n, A) /\ KeptRecords(s, n)
  BY DEF Removing, KeptRecords, Exporting
<1> QED
  BY <1>1, <1>2, <1>3 DEF Moves

\* NextSelection, SelectOrEnd or StoreSelected.
LEMMA SelectingMoves ==
  ASSUME NEW s, NEW A, Base(s, A), s.client.request = "delete",
         NEW u, Same(s, u), u.client.request = "delete", u.client.list = s.client.list,
         u.client.selected = s.client.selected, NEW n, Selecting(u, n),
         s.client.command # "CLOSE", n.client.command # "CLOSE" \/ u.client.box = s.client.box
  PROVE  Moves(s, n, A)
<1>1. /\ Formed(n) /\ n.server = s.server /\ n.local = s.local /\ n.records = s.records /\ n.stored = s.stored
  BY DEF Selecting, Same
<1>2. Deleting(s, A) => Deleting(n, A)
  BY <1>1 DEF Deleting, Selecting
<1>3. KeptLive(s, n) /\ KeptRead(s.local, n.local)
  BY <1>1 DEF KeptLive, KeptRead
<1>4. \/ n.client.request = "none" /\ n.client.command = "none"
      \/ n.client.request = "delete" /\ n.client.command \in {"STORE", "SELECT", "CLOSE"}
  BY DEF Selecting
<1> QED
  BY <1>1, <1>2, <1>3, <1>4, DeletionMoves

\* handleLogin
LEMMA LoginMoves ==
  ASSUME NEW s, NEW A, Base(s, A), s.client.request # "none",
         s.client.command \in {"none", "LOGIN"},
         NEW u, Same(s, u), Alike(s.client, u.client)
  PROVE  Moves(s, HandleLogin(u), A)
<1> DEFINE n == HandleLogin(u)
<1>1. Formed(u) /\ u.client.request = s.client.request /\ u.client.request # "updateFlags"
  BY DEF Base, Same, Alike
<1>2. CASE s.client.request = "delete"
  <2>1. n = NextSelection(u)
    BY <1>1, <1>2, LoggedIn
  <2>2. Selecting(u, n)
    BY <1>1, <2>1, SelectionNext
  <2> HIDE DEF n
  <2>3. Moves(s, n, A)
    BY <1>2, <2>2, SelectingMoves DEF Alike
  <2> QED
    BY <2>3 DEF n
<1>3. CASE s.client.request # "delete"
  <2>1. /\ Same(u, n) /\ Calm(n.client) /\ Keeps(u.client, n.client)
        /\ n.client.command \in {"none", "FETCH", "PREVIEW", "SELECT", "LIST"}
    BY <1>1, <1>3, LoggedIn
  <2> HIDE DEF n
  <2>2. /\ Formed(n) /\ n.server = s.server /\ n.local = s.local /\ n.records = s.records /\ n.stored = s.stored
        /\ Keeps(s.client, n.client)
    BY <2>1 DEF Same, Keeps, Alike
  <2>3. KeptRead(s.local, n.local) /\ KeptLive(s, n) /\ KeptRecords(s, n) /\ DOMAIN n.local \subseteq A
    BY <2>2 DEF KeptRead, KeptLive, KeptRecords, Base
  <2>4. Removing(s, A) => Clear(n)
    BY <2>2, ClearWhen DEF Clear
  <2>5. Moves(s, n, A)
    BY <1>3, <2>1, <2>2, <2>3, <2>4, CalmMoves
  <2> QED
    BY <2>5 DEF n
<1> QED
  BY <1>2, <1>3

\* A pending command has a request.
LEMMA PendingRequest ==
  ASSUME NEW s, NEW A, Base(s, A), s.client.command # "none"
  PROVE  s.client.request # "none"
  BY DEF Base

\* A handler that changes the members of the client only, for a command that is
\* not one of a deletion.
LEMMA SameMoves ==
  ASSUME NEW s, NEW A, Base(s, A), s.client.command \in {"LIST", "PREVIEW"},
         NEW n, Same(s, n), Calm(n.client), Keeps(s.client, n.client),
         n.client.command \in {"none", "FETCH", "PREVIEW", "SELECT"}
  PROVE  Moves(s, n, A)
<1>1. /\ Formed(n) /\ n.server = s.server /\ n.local = s.local /\ n.records = s.records /\ n.stored = s.stored
  BY DEF Same
<1>2. KeptRead(s.local, n.local) /\ KeptLive(s, n) /\ KeptRecords(s, n) /\ DOMAIN n.local \subseteq A
  BY <1>1 DEF KeptRead, KeptLive, KeptRecords, Base
<1>3. Removing(s, A) => Clear(n)
  BY <1>1, ClearWhen DEF Clear
<1>4. Deleting(s, A) => s.client.request # "delete"
  BY DEF Deleting
<1> QED
  BY <1>1, <1>2, <1>3, <1>4, CalmMoves, PendingRequest

\* mailboxListed and handleList
LEMMA ListMoves ==
  ASSUME NEW s, NEW A, Base(s, A), s.client.command = "LIST"
  PROVE  Moves(s, ProcessNextFolder([s EXCEPT !.client.todo = Folder]), A)
<1> DEFINE c == [s.client EXCEPT !.todo = Folder]
           u == [s EXCEPT !.client = c]
           n == ProcessNextFolder(u)
<1>1. [s EXCEPT !.client.todo = Folder] = u
  BY DEF Base, Formed, Members, Has
<1>2. Members(c) /\ c.request = s.client.request /\ c.list = s.client.list
  BY DEF Base, Formed, Members, Has
<1> HIDE DEF c
<1>3. Same(s, u) /\ u.client = c
  BY <1>2, ClientSet DEF Base
<1> HIDE DEF u
<1>4. /\ Same(u, n) /\ Calm(n.client) /\ Keeps(u.client, n.client)
      /\ n.client.command \in {"none", "FETCH", "PREVIEW", "SELECT"}
  BY <1>3, NextFolderSame DEF Same
<1> HIDE DEF n
<1>5. Same(s, n) /\ Keeps(s.client, n.client)
  BY <1>2, <1>3, <1>4 DEF Same, Keeps
<1>6. Moves(s, n, A)
  BY <1>4, <1>5, SameMoves
<1> QED
  BY <1>1, <1>6 DEF n

\* The selection of the folder is done.
LEMMA SelectedParts ==
  ASSUME NEW s, Formed(s)
  PROVE  LET u == Selected(s)
         IN /\ Same(s, u) /\ u.client.box = s.client.folder /\ u.client.folder = s.client.folder
            /\ u.client.request = s.client.request /\ u.client.list = s.client.list
            /\ u.client.selected = s.client.selected /\ u.client.command = s.client.command
            /\ u.client.found = s.client.found /\ u.client.conclusive = s.client.conclusive
<1> DEFINE c == [s.client EXCEPT !.box = s.client.folder]
           u == Selected(s)
<1>1. u = [s EXCEPT !.client = c]
  BY DEF Selected, Formed, Members, Has
<1>2. /\ Members(c) /\ c.box = s.client.folder /\ c.folder = s.client.folder
      /\ c.request = s.client.request /\ c.list = s.client.list
      /\ c.selected = s.client.selected /\ c.command = s.client.command
      /\ c.found = s.client.found /\ c.conclusive = s.client.conclusive
  BY DEF Formed, Members, Has
<1> HIDE DEF c, u
<1>3. Same(s, u) /\ u.client = c
  BY <1>1, <1>2, ClientSet
<1> QED
  BY <1>2, <1>3 DEF u

\* A folder is selected to be previewed.
LEMMA PreviewMoves ==
  ASSUME NEW s, NEW A, Base(s, A), s.client.command = "PREVIEW"
  PROVE  Moves(s, Send(Selected(s), "FETCH"), A)
<1> DEFINE u == Selected(s)
           n == Send(u, "FETCH")
<1>1. Same(s, u) /\ u.client.request = s.client.request /\ u.client.list = s.client.list
  BY SelectedParts DEF Base
<1> HIDE DEF u
<1>2. Same(u, n) /\ Alike(u.client, n.client) /\ n.client.command = "FETCH"
  BY <1>1, SendParts DEF Same
<1> HIDE DEF n
<1>3. Same(s, n) /\ Keeps(s.client, n.client) /\ Calm(n.client)
  BY <1>1, <1>2 DEF Same, Keeps, Alike, Calm
<1>4. Moves(s, n, A)
  BY <1>2, <1>3, SameMoves
<1> QED
  BY <1>4 DEF n, u

\* A folder is selected for its searches, or for the deletion of messages.
LEMMA SelectMoves ==
  ASSUME NEW s, NEW A, Base(s, A), s.client.command = "SELECT"
  PROVE  Moves(s, IF s.client.request = "delete" THEN StoreSelected(Selected(s))
                  ELSE FolderAction(Selected(s)), A)
<1> DEFINE u == Selected(s)
<1>1. /\ Same(s, u) /\ u.client.box = s.client.folder /\ u.client.folder = s.client.folder
      /\ u.client.request = s.client.request /\ u.client.list = s.client.list
      /\ u.client.selected = s.client.selected /\ u.client.command = s.client.command
      /\ u.client.found = s.client.found /\ u.client.conclusive = s.client.conclusive
  BY SelectedParts DEF Base
<1>2. Formed(u)
  BY <1>1 DEF Same
<1> HIDE DEF u
<1>3. CASE s.client.request = "delete"
  <2> DEFINE n == StoreSelected(u)
  <2>1. Selecting(u, n) /\ n.client.command = "STORE"
    BY <1>1, <1>2, SelectedStored
  <2> HIDE DEF n
  <2>2. Moves(s, n, A)
    BY <1>1, <1>3, <2>1, SelectingMoves
  <2> QED
    BY <1>3, <2>2 DEF n, u
<1>4. CASE s.client.request # "delete"
  <2>1. u.client.found = NothingFound /\ u.client.conclusive = TRUE /\ u.client.request # "updateFlags"
    BY <1>1, <1>4 DEF Base, Searched
  <2>2. Answered(u, FolderAction(u), A)
    BY <1>1, <1>2, <2>1, FolderActed
  <2>3. Found(u)
    BY <1>1 DEF Found
  <2>4. Moves(s, FolderAction(u), A)
    BY <1>1, <1>4, <2>2, <2>3, AnsweredMoves
  <2> QED
    BY <1>4, <2>4 DEF u
<1> QED
  BY <1>3, <1>4

\* Messages are fetched.
LEMMA FetchMoves ==
  ASSUME NEW s, NEW A, Base(s, A), s.client.command = "FETCH"
  PROVE  Moves(s, PreviewNext(Fetched(s, s.client.sending[2])), A)
<1> DEFINE M == s.client.sending[2]
           gone == M \ DOMAIN s.server
           t == Fetched(s, M)
           n == PreviewNext(t)
<1>0. Formed(s) /\ DOMAIN s.server \subseteq A /\ DOMAIN s.local \subseteq A
  BY DEF Base
<1>1. /\ Formed(t) /\ t.server = s.server /\ t.client = s.client /\ t.stored = s.stored
      /\ DOMAIN t.local = (DOMAIN s.local \ gone) \cup (M \cap DOMAIN s.server)
      /\ t.records = s.records \ (gone \cap DOMAIN s.local)
      /\ KeptRead(s.local, t.local)
  BY <1>0, FetchedParts
<1> HIDE DEF t
<1>2. Same(t, n) /\ n.client.command \in {"none", "FETCH", "PREVIEW"} /\ Keeps(t.client, n.client)
  BY <1>1, PreviewSame
<1> HIDE DEF n, M
<1>3. /\ Formed(n) /\ n.server = s.server /\ n.local = t.local /\ n.records = t.records /\ n.stored = s.stored
  BY <1>1, <1>2 DEF Same
<1>4. KeptLive(s, n) /\ KeptRecords(s, n) /\ DOMAIN n.local \subseteq A
  BY <1>0, <1>1, <1>3 DEF KeptLive, KeptRecords
<1>5. KeptRead(s.local, n.local) /\ Calm(n.client) /\ Keeps(s.client, n.client)
  BY <1>1, <1>2, <1>3 DEF Calm
<1>6. Removing(s, A) => Clear(n)
  BY <1>3, ClearWhen DEF Clear
<1>7. Deleting(s, A) => s.client.request # "delete"
  BY DEF Deleting
<1>8. s.client.request # "none"
  BY PendingRequest
<1>9. Moves(s, n, A)
  BY <1>2, <1>3, <1>4, <1>5, <1>6, <1>7, <1>8, CalmMoves
<1> QED
  BY <1>9 DEF n, t, M

\* EXPUNGE has removed the marked messages of the mailbox.
LEMMA ExpungeMoves ==
  ASSUME NEW s, NEW A, Base(s, A), s.client.command = "EXPUNGE"
  PROVE  Moves(s, ProcessNextFolder(Execute(s)), A)
<1> DEFINE t == Execute(s)
           n == ProcessNextFolder(t)
<1>1. /\ Formed(t) /\ t.client = s.client /\ t.local = s.local /\ t.records = s.records /\ t.stored = s.stored
      /\ DOMAIN t.server \subseteq DOMAIN s.server
      /\ \A m \in DOMAIN t.server : ~(FolderOf[m] = s.client.box /\ "deleted" \in s.server[m])
  BY Executed DEF Base
<1> HIDE DEF t
<1>2. /\ Same(t, n) /\ n.client.command \in {"none", "FETCH", "PREVIEW", "SELECT"} /\ Keeps(t.client, n.client)
      /\ Calm(n.client)
  BY <1>1, NextFolderSame
<1> HIDE DEF n
<1>3. /\ Formed(n) /\ n.server = t.server /\ n.local = s.local /\ n.records = s.records /\ n.stored = s.stored
      /\ Keeps(s.client, n.client)
  BY <1>1, <1>2 DEF Same
<1>4. KeptRead(s.local, n.local) /\ KeptLive(s, n) /\ KeptRecords(s, n) /\ DOMAIN n.local \subseteq A
  BY <1>3 DEF KeptRead, KeptLive, KeptRecords, Base
<1>5. Removing(s, A) => Clear(n)
  BY <1>1, <1>3 DEF Removing, Clear
<1>6. Deleting(s, A) => s.client.request # "delete"
  BY DEF Deleting
<1>7. s.client.request # "none"
  BY PendingRequest
<1>8. Moves(s, n, A)
  BY <1>1, <1>2, <1>3, <1>4, <1>5, <1>6, <1>7, CalmMoves
<1> QED
  BY <1>8 DEF n, t

\* CLOSE has removed the marked messages, and their local copies go.
LEMMA CloseMoves ==
  ASSUME NEW s, NEW A, Base(s, A), s.client.command = "CLOSE"
  PROVE  Moves(s, HandleClose(Execute(s)), A)
<1> DEFINE t == Execute(s)
           n == HandleClose(t)
<1>1. /\ Formed(t) /\ t.client = s.client /\ t.local = s.local /\ t.records = s.records /\ t.stored = s.stored
      /\ DOMAIN t.server \subseteq DOMAIN s.server
      /\ \A m \in DOMAIN t.server : ~(FolderOf[m] = s.client.box /\ "deleted" \in s.server[m])
  BY Executed DEF Base
<1> HIDE DEF t
<1>2. /\ Formed(n) /\ n.server = t.server /\ n.records = t.records /\ n.stored = t.stored
      /\ n.local = Without(t.local, t.client.list)
      /\ n.client.command = "EXAMINE" /\ n.client.request = t.client.request
      /\ n.client.list = t.client.list /\ n.client.selected = t.client.selected
  BY <1>1, Closed
<1> HIDE DEF n
<1>3. s.client.request = "delete"
  BY DEF Base
<1>4. /\ DOMAIN n.local = DOMAIN s.local \ s.client.list
      /\ \A m \in DOMAIN n.local : n.local[m] = s.local[m]
  <2> DEFINE L == s.client.list
             k == Without(s.local, L)
  <2>1. Rows(s.local)
    BY DEF Base, Formed
  <2> HIDE DEF L
  <2>2. DOMAIN k = DOMAIN s.local \ L /\ \A m \in DOMAIN s.local \ L : k[m] = s.local[m]
    BY <2>1, WithoutRows
  <2>3. n.local = k
    BY <1>1, <1>2 DEF L
  <2> HIDE DEF k
  <2> QED
    BY <2>2, <2>3 DEF L
<1>5. KeptRead(s.local, n.local)
  BY <1>4 DEF KeptRead
<1>6. Deleting(s, A) => s.client.list \cap DOMAIN n.server = {}
  BY <1>1, <1>2, <1>3 DEF Deleting
<1>7. Deleting(s, A) => Deleting(n, A) /\ KeptLive(s, n)
  BY <1>1, <1>2, <1>3, <1>4, <1>6 DEF Deleting, KeptLive
<1>8. Moves(s, n, A)
  BY <1>1, <1>2, <1>3, <1>4, <1>5, <1>7, DeletionMoves
<1> QED
  BY <1>8 DEF n, t

\* EXAMINE is answered.
LEMMA ExamineMoves ==
  ASSUME NEW s, NEW A, Base(s, A), s.client.command = "EXAMINE"
  PROVE  Moves(s, SelectOrEnd([s EXCEPT !.client.last = 0]), A)
<1> DEFINE c == [s.client EXCEPT !.last = 0]
           u == [s EXCEPT !.client = c]
           n == SelectOrEnd(u)
<1>1. [s EXCEPT !.client.last = 0] = u
  BY DEF Base, Formed, Members, Has
<1>2. /\ Members(c) /\ c.request = s.client.request /\ c.list = s.client.list /\ c.selected = s.client.selected
      /\ c.box = s.client.box
  BY DEF Base, Formed, Members, Has
<1> HIDE DEF c
<1>3. Same(s, u) /\ u.client = c
  BY <1>2, ClientSet DEF Base
<1> HIDE DEF u
<1>4. Selecting(u, n)
  BY <1>3, SelectedOrEnded DEF Same
<1>5. s.client.request = "delete"
  BY DEF Base
<1> HIDE DEF n
<1>6. Moves(s, n, A)
  BY <1>2, <1>3, <1>4, <1>5, SelectingMoves
<1> QED
  BY <1>1, <1>6 DEF n

\* The answer to a STORE, whatever it is.
LEMMA StoreBase ==
  ASSUME NEW s, NEW A, Base(s, A), s.client.command = "STORE",
         NEW t, Formed(t), t.local = s.local, DOMAIN t.server \subseteq DOMAIN s.server,
         t.client.request = s.client.request, t.client.list = s.client.list
  PROVE  LET n == StoreHandled(t)
         IN /\ Base(n, A) /\ Found(n) /\ KeptRead(s.local, n.local) /\ KeptLive(s, n)
            /\ s.client.request # "delete" => (Deleting(s, A) => Deleting(n, A))
<1> DEFINE n == StoreHandled(t)
<1>0. s.client.request # "none" /\ DOMAIN s.local \subseteq A
  BY PendingRequest DEF Base
<1>1. CASE s.client.request = "delete"
  <2>1. n = DeletionStored(t)
    BY <1>1 DEF StoreHandled
  <2>2. /\ Same(t, n)
        /\ \/ n.client.command = "none" /\ n.client.request = "none"
           \/ n.client.command \in {"STORE", "SELECT", "CLOSE"} /\ n.client.request = "delete"
    BY <1>1, <2>1, DeletionNext
  <2> HIDE DEF n
  <2>3. Formed(n) /\ n.server = t.server /\ n.local = s.local
    BY <2>2 DEF Same
  <2>4. Searched(n, A) /\ Found(n)
    BY <2>2 DEF Searched, Found
  <2>5. Base(n, A)
    BY <1>1, <2>2, <2>3, <2>4 DEF Base
  <2> QED
    BY <1>1, <2>3, <2>4, <2>5 DEF KeptRead, KeptLive, n
<1>2. CASE s.client.request # "delete"
  <2>1. n = HandleUidStore(t)
    BY <1>2 DEF StoreHandled
  <2>2. /\ Noted(t, n) /\ Calm(n.client) /\ Keeps(t.client, n.client)
        /\ n.client.command \in {"none", "FETCH", "PREVIEW", "SELECT", "STORE", "EXPUNGE"}
    BY <2>1, UidStored
  <2> HIDE DEF n
  <2>3. /\ Formed(n) /\ n.server = t.server /\ DOMAIN n.local = DOMAIN s.local
        /\ \A m \in DOMAIN s.local : n.local[m].here = s.local[m].here
    BY <2>2 DEF Noted
  <2>4. Searched(n, A) /\ Found(n)
    BY <2>2, CalmSearched
  <2>5. Base(n, A)
    BY <1>0, <1>2, <2>2, <2>3, <2>4 DEF Base, Keeps
  <2>6. KeptRead(s.local, n.local) /\ KeptLive(s, n)
    BY <2>3 DEF KeptRead, KeptLive
  <2>7. Deleting(s, A) => Deleting(n, A)
    BY <1>2, <2>2 DEF Deleting, Keeps
  <2> QED
    BY <2>4, <2>5, <2>6, <2>7 DEF n
<1> QED
  BY <1>1, <1>2

\* STORE has been carried out.
LEMMA StoreMoves ==
  ASSUME NEW s, NEW A, Base(s, A), s.client.command = "STORE"
  PROVE  Moves(s, StoreHandled(Execute(s)), A)
<1> DEFINE t == Execute(s)
           n == StoreHandled(t)
<1>1. /\ Formed(t) /\ t.client = s.client /\ t.local = s.local /\ t.records = s.records /\ t.stored = s.stored
      /\ DOMAIN t.server \subseteq DOMAIN s.server
      /\ s.client.sending[1] = Deleted =>
           \A m \in DOMAIN t.server : m \in s.client.sending[2] => "deleted" \in t.server[m]
  BY Executed DEF Base
<1> HIDE DEF t
<1>2. /\ Base(n, A) /\ Found(n) /\ KeptRead(s.local, n.local) /\ KeptLive(s, n)
      /\ s.client.request # "delete" => (Deleting(s, A) => Deleting(n, A))
  BY <1>1, StoreBase
<1>3. CASE s.client.request = "delete"
  <2>1. n = DeletionStored(t)
    BY <1>1, <1>3 DEF StoreHandled
  <2>2. /\ Same(t, n)
        /\ \/ n.client.command = "none" /\ n.client.request = "none" /\ n.client.list = {}
           \/ /\ n.client.command \in {"STORE", "SELECT", "CLOSE"} /\ n.client.request = "delete"
              /\ n.client.box = t.client.box /\ n.client.selected \subseteq t.client.selected
              /\ n.client.list \subseteq t.client.list \cup t.client.sending[2]
              /\ n.client.command # "CLOSE" => n.client.list = {}
              /\ n.client.command = "STORE" =>
                   /\ n.client.sending[1] = Deleted /\ n.client.sending[2] \subseteq t.client.selected
                   /\ \A m \in n.client.sending[2] : FolderOf[m] = n.client.box
    BY <1>1, <1>3, <2>1, DeletionNext
  <2> HIDE DEF n
  <2>3. Formed(n) /\ n.server = t.server /\ n.local = s.local /\ n.records = s.records /\ n.stored = s.stored
    BY <1>1, <2>2 DEF Same
  <2>4. Deleting(s, A) => Deleting(n, A)
    BY <1>1, <1>3, <2>2, <2>3 DEF Deleting
  <2>5. \/ n.client.request = "none" /\ n.client.command = "none"
        \/ n.client.request = "delete" /\ n.client.command \in {"STORE", "SELECT", "CLOSE"}
    BY <2>2
  <2>6. Moves(s, n, A)
    BY <1>1, <1>2, <1>3, <2>3, <2>4, <2>5, DeletionMoves
  <2> QED
    BY <2>6 DEF n, t
<1>4. CASE s.client.request # "delete"
  <2>1. n = HandleUidStore(t)
    BY <1>1, <1>4 DEF StoreHandled
  <2>2. CASE s.client.request \notin Exporting
    <3>1. /\ n.records = t.records /\ n.stored = t.stored /\ Noted(t, n)
          /\ n.client.command \in {"none", "FETCH", "PREVIEW", "SELECT"}
      BY <1>1, <2>1, <2>2, UidStored
    <3> HIDE DEF n
    <3>2. Removing(s, A) => Removing(n, A) /\ KeptRecords(s, n)
      BY <1>1, <2>2, <3>1 DEF Removing, KeptRecords, Noted
    <3> QED
      BY <1>2, <1>4, <3>2 DEF Moves, n, t
  <2>3. CASE s.client.request \in Exporting
    <3>1. ASSUME Removing(s, A)
          PROVE  Removing(n, A) /\ KeptRecords(t, n)
      <4>1. \A r \in Exporting : t.stored[r].removed \subseteq A
        BY <1>1, <3>1 DEF Removing
      <4>2. /\ t.client.removed \subseteq A /\ \A m \in t.client.removed : FolderOf[m] = t.client.box
            /\ t.client.removed # {} => t.client.expunge = TRUE
        BY <1>1, <2>3, <3>1 DEF Removing
      <4>3. ~Clear(t) =>
              /\ CanDelete /\ t.client.request \in Exporting
              /\ t.client.expunge = TRUE /\ t.client.removed = {} /\ \A k \in Mark : t.client.marks[k] = {}
              /\ \A r \in Exporting : \A m \in t.stored[r].removed \cap DOMAIN t.server :
                   r = t.client.request /\ FolderOf[m] = t.client.box /\ "deleted" \in t.server[m]
        BY <1>1, <2>3, <3>1 DEF Removing, Clear
      <4> DEFINE w == HandleUidStore(t)
      <4>4. CASE Clear(t)
        <5>1. Removing(w, A) /\ KeptRecords(t, w)
          BY <1>1, <4>1, <4>2, <4>4, StoredMoves
        <5> QED
          BY <2>1, <5>1
      <4>5. CASE ~Clear(t)
        <5>1. Removing(w, A) /\ KeptRecords(t, w)
          BY <1>1, <4>1, <4>2, <4>3, <4>5, StoredMoves
        <5> QED
          BY <2>1, <5>1
      <4> QED
        BY <4>4, <4>5
    <3> HIDE DEF n
    <3>2. Removing(s, A) => Removing(n, A) /\ KeptRecords(s, n)
      BY <1>1, <3>1 DEF KeptRecords
    <3> QED
      BY <1>2, <1>4, <3>2 DEF Moves, n, t
  <2> QED
    BY <2>2, <2>3
<1> QED
  BY <1>3, <1>4

\* The answer to a search.
LEMMA SearchMoves ==
  ASSUME NEW s, NEW A, Base(s, A), s.client.command \in {"SEEN", "UNSEEN", "FLAGGED", "ALL", "KNOWN"},
         NEW u, Same(s, u), Alike(s.client, u.client), u.client.found = s.client.found,
         u.client.conclusive = s.client.conclusive, u.client.command = s.client.command,
         NEW M, Right(s, M)
  PROVE  Moves(s, SearchHandled(u, M), A)
<1>1. /\ Formed(u) /\ u.server = s.server /\ u.client.request = s.client.request /\ u.client.list = s.client.list
      /\ u.client.box = s.client.box /\ u.client.folder = s.client.folder
  BY DEF Same, Alike
<1>2. Searched(u, A) /\ Right(u, M) /\ (Found(s) => Found(u))
  BY <1>1 DEF Base, Searched, Right, Found
<1>3. u.client.box = u.client.folder
  BY <1>2 DEF Searched
<1>4. Answered(u, SearchHandled(u, M), A)
  BY <1>1, <1>2, SearchAnswered DEF Base
<1>5. Deleting(s, A) => s.client.request # "delete"
  BY DEF Deleting
<1> QED
  BY <1>1, <1>2, <1>3, <1>4, <1>5, AnsweredMoves

-----------------------------------------------------------------------------
(* The steps *)

\* The state, from its variables.
LEMMA NowParts ==
  /\ Now.server = server /\ Now.local = local /\ Now.records = records /\ Now.client = client
  /\ Now.stored = stored /\ Now.reports = reports
  BY DEF Now

\* The next one.
LEMMA NextParts ==
  /\ (Now').server = server' /\ (Now').local = local' /\ (Now').records = records' /\ (Now').client = client'
  /\ (Now').stored = stored' /\ (Now').reports = reports'
  BY DEF Now

\* A handler of a sound state.
LEMMA BecameMoves ==
  ASSUME NEW A, NEW n, Moves(Now, n, A), Become(n)
  PROVE  Moves(Now, Now', A)
<1>1. Formed(n)
  BY DEF Moves, Base
<1> QED
  BY <1>1, Became

\* A command that the server only answers.
LEMMA JustAnswered ==
  ASSUME NEW A, Base(Now, A), client.command \notin {"STORE", "EXPUNGE", "CLOSE"}
  PROVE  Execute(Now) = Now
<1>1. Now.client.command \notin {"STORE", "EXPUNGE", "CLOSE"} /\ Formed(Now)
  BY NowParts DEF Base
<1> QED
  BY <1>1, Executed

\* The answers of the server.
LEMMA AnswerMoves ==
  ASSUME NEW A, Base(Now, A), Answer
  PROVE  Moves(Now, Now', A) /\ UNCHANGED history
<1>0. Formed(Now) /\ Now.client = client
  BY NowParts DEF Base
<1>1. CASE LoginDone
  <2> DEFINE c == [Now.client EXCEPT !.up = TRUE]
             u == [Now EXCEPT !.client = c]
  <2>1. /\ client.command = "LOGIN" /\ UNCHANGED history
        /\ Become(HandleLogin([Execute(Now) EXCEPT !.client.up = TRUE]))
    BY <1>1 DEF LoginDone, On
  <2>2. Execute(Now) = Now
    BY <2>1, JustAnswered
  <2>3. [Execute(Now) EXCEPT !.client.up = TRUE] = u
    BY <1>0, <2>2 DEF Formed, Members, Has
  <2>4. Members(c) /\ Alike(Now.client, c)
    BY <1>0 DEF Formed, Members, Has, Alike
  <2> HIDE DEF c
  <2>5. Same(Now, u) /\ u.client = c
    BY <1>0, <2>4, ClientSet
  <2> HIDE DEF u
  <2>6. Now.client.request # "none"
    BY <1>0, <2>1, PendingRequest
  <2>7. Moves(Now, HandleLogin(u), A)
    BY <1>0, <2>1, <2>4, <2>5, <2>6, LoginMoves
  <2> QED
    BY <2>1, <2>3, <2>7, BecameMoves
<1>2. CASE ListDone
  <2>1. /\ client.command = "LIST" /\ UNCHANGED history
        /\ Become(ProcessNextFolder([Execute(Now) EXCEPT !.client.todo = Folder]))
    BY <1>2 DEF ListDone, On
  <2>2. Execute(Now) = Now
    BY <2>1, JustAnswered
  <2>3. Moves(Now, ProcessNextFolder([Now EXCEPT !.client.todo = Folder]), A)
    BY <1>0, <2>1, ListMoves
  <2>4. Become(ProcessNextFolder([Now EXCEPT !.client.todo = Folder]))
    BY <2>1, <2>2
  <2> QED
    BY <2>1, <2>3, <2>4, BecameMoves
<1>3. CASE SelectDone
  <2> DEFINE n == IF Now.client.request = "delete" THEN StoreSelected(Selected(Now)) ELSE FolderAction(Selected(Now))
  <2>1. client.command = "SELECT" /\ UNCHANGED history
    BY <1>3 DEF SelectDone, On
  <2>2. Execute(Now) = Now
    BY <2>1, JustAnswered
  <2>3. Become(n)
    BY <1>3, <2>2 DEF SelectDone, On
  <2>4. Moves(Now, n, A)
    BY <1>0, <2>1, SelectMoves
  <2> HIDE DEF n
  <2> QED
    BY <2>1, <2>3, <2>4, BecameMoves
<1>4. CASE PreviewDone
  <2> DEFINE n == Send(Selected(Now), "FETCH")
  <2>1. client.command = "PREVIEW" /\ UNCHANGED history
    BY <1>4 DEF PreviewDone, On
  <2>2. Execute(Now) = Now
    BY <2>1, JustAnswered
  <2>3. Become(n)
    BY <1>4, <2>2 DEF PreviewDone, On
  <2>4. Moves(Now, n, A)
    BY <1>0, <2>1, PreviewMoves
  <2> HIDE DEF n
  <2> QED
    BY <2>1, <2>3, <2>4, BecameMoves
<1>5. CASE FetchDone
  <2> DEFINE n == PreviewNext(Fetched(Now, Now.client.sending[2]))
  <2>1. client.command = "FETCH" /\ UNCHANGED history
    BY <1>5 DEF FetchDone, On
  <2>2. Execute(Now) = Now
    BY <2>1, JustAnswered
  <2>3. Become(n)
    BY <1>5, <2>2 DEF FetchDone, On
  <2>4. Moves(Now, n, A)
    BY <1>0, <2>1, FetchMoves
  <2> HIDE DEF n
  <2> QED
    BY <2>1, <2>3, <2>4, BecameMoves
<1>6. CASE ExpungeDone
  <2> DEFINE n == ProcessNextFolder(Execute(Now))
  <2>1. client.command = "EXPUNGE" /\ UNCHANGED history /\ Become(n)
    BY <1>6 DEF ExpungeDone, On
  <2>2. Moves(Now, n, A)
    BY <1>0, <2>1, ExpungeMoves
  <2> HIDE DEF n
  <2> QED
    BY <2>1, <2>2, BecameMoves
<1>7. CASE CloseDone
  <2> DEFINE n == HandleClose(Execute(Now))
  <2>1. client.command = "CLOSE" /\ UNCHANGED history /\ Become(n)
    BY <1>7 DEF CloseDone, On
  <2>2. Moves(Now, n, A)
    BY <1>0, <2>1, CloseMoves
  <2> HIDE DEF n
  <2> QED
    BY <2>1, <2>2, BecameMoves
<1>8. CASE ExamineDone
  <2> DEFINE n == SelectOrEnd([Now EXCEPT !.client.last = 0])
  <2>1. client.command = "EXAMINE" /\ UNCHANGED history
    BY <1>8 DEF ExamineDone, On
  <2>2. Execute(Now) = Now
    BY <2>1, JustAnswered
  <2>3. Become(n)
    BY <1>8, <2>2 DEF ExamineDone, On
  <2>4. Moves(Now, n, A)
    BY <1>0, <2>1, ExamineMoves
  <2> HIDE DEF n
  <2> QED
    BY <2>1, <2>3, <2>4, BecameMoves
<1>9. CASE StoreDone
  <2> DEFINE n == StoreHandled(Execute(Now))
  <2>1. client.command = "STORE" /\ UNCHANGED history /\ Become(n)
    BY <1>9 DEF StoreDone, On
  <2>2. Moves(Now, n, A)
    BY <1>0, <2>1, StoreMoves
  <2> HIDE DEF n
  <2> QED
    BY <2>1, <2>2, BecameMoves
<1>10. CASE SearchDone
  <2> DEFINE n == SearchHandled(Now, Matches)
  <2>1. client.command \in {"SEEN", "UNSEEN", "FLAGGED", "ALL", "KNOWN"} /\ UNCHANGED history /\ Become(n)
    BY <1>10 DEF SearchDone, Searching
  <2>2. Right(Now, Matches)
    BY NowParts DEF Right, Matches, In
  <2>3. Same(Now, Now) /\ Alike(Now.client, Now.client)
    BY <1>0 DEF Same, Alike
  <2>4. Moves(Now, n, A)
    BY <1>0, <2>1, <2>2, <2>3, SearchMoves
  <2> HIDE DEF n
  <2> QED
    BY <2>1, <2>4, BecameMoves
<1> QED
  BY <1>1, <1>2, <1>3, <1>4, <1>5, <1>6, <1>7, <1>8, <1>9, <1>10 DEF Answer

\* While messages are deleted no STORE is refused, and nobody takes back the mark
\* of a deleted message.
Firm == "delete" \in Requests => "refusal" \notin Faults /\ "delete" \notin Others

\* No connection is lost, no STORE refused, and nobody takes back such a mark.
Sturdy == Faults \subseteq {"partial", "crash"} /\ "delete" \notin Others

\* What every step keeps.
Keeping ==
  LET A == history.arrived
      B == history'.arrived
  IN /\ Has(history', {"arrived", "faults", "clean"}) /\ Base(Now', B)
     /\ Handles => KeptRead(local, local')
     /\ "remove" \notin Others /\ Found(Now) => Found(Now')
     /\ Firm /\ Deleting(Now, A) => Deleting(Now', B)
     /\ Found(Now) /\ Deleting(Now, A) /\ Firm /\ Handles => KeptLive(Now, Now')
     /\ Found(Now) /\ Deleting(Now, A) /\ Removing(Now, A) /\ Firm /\ Sturdy =>
          Removing(Now', B) /\ (Handles => KeptRecords(Now, Now'))

\* A handler's step.
LEMMA MovesKeep ==
  ASSUME Moves(Now, Now', history.arrived), history'.arrived = history.arrived,
         Has(history', {"arrived", "faults", "clean"})
  PROVE  Keeping
<1> DEFINE A == history.arrived
           B == history'.arrived
<1>1. A = B /\ Now.local = local /\ (Now').local = local'
  BY NowParts, NextParts
<1> QED
  BY <1>1 DEF Keeping, Moves

\* A failure is counted.
LEMMA Failed ==
  ASSUME Has(history, {"arrived", "faults", "clean"}),
         history' = [history EXCEPT !.faults = @ + 1, !.clean = FALSE]
  PROVE  history'.arrived = history.arrived /\ Has(history', {"arrived", "faults", "clean"})
  BY DEF Has

\* A search is answered in part.
LEMMA PartialKeeps ==
  ASSUME Has(history, {"arrived", "faults", "clean"}), Base(Now, history.arrived), NEW m, SearchPartial(m)
  PROVE  Keeping
<1> DEFINE A == history.arrived
           u == [Now EXCEPT !.client.alone = FALSE]
           c == [Now.client EXCEPT !.alone = FALSE]
           M == Matches \ {m}
           n == SearchHandled(u, M)
<1>0. Formed(Now) /\ Now.client = client
  BY NowParts DEF Base
<1>1. /\ client.command \in {"SEEN", "UNSEEN", "FLAGGED", "ALL", "KNOWN"} /\ Become(n)
      /\ history' = [history EXCEPT !.faults = @ + 1, !.clean = FALSE]
  BY DEF SearchPartial, Searching
<1>2. Right(Now, M)
  BY NowParts DEF Right, Matches, In
<1>3. u = [Now EXCEPT !.client = c]
  BY <1>0 DEF Formed, Members, Has
<1>4. /\ Members(c) /\ Alike(Now.client, c) /\ c.found = Now.client.found
      /\ c.conclusive = Now.client.conclusive /\ c.command = Now.client.command
  BY <1>0 DEF Formed, Members, Has, Alike
<1> HIDE DEF u, c, M
<1>5. Same(Now, u) /\ u.client = c
  BY <1>0, <1>3, <1>4, ClientSet
<1>6. Moves(Now, n, A)
  BY <1>0, <1>1, <1>2, <1>4, <1>5, SearchMoves
<1> HIDE DEF n
<1>7. Moves(Now, Now', A)
  BY <1>1, <1>6, BecameMoves
<1> QED
  BY <1>1, <1>7, Failed, MovesKeep

\* A STORE is refused.
LEMMA RefusedKeeps ==
  ASSUME Has(history, {"arrived", "faults", "clean"}), Base(Now, history.arrived), StoreRefused
  PROVE  Keeping
<1> DEFINE A == history.arrived
           t == [Now EXCEPT !.client.alone = FALSE]
           c == [Now.client EXCEPT !.alone = FALSE]
           n == StoreHandled(t)
<1>0. Formed(Now) /\ Now.client = client /\ Now.local = local
  BY NowParts DEF Base
<1>1. /\ client.command = "STORE" /\ Become(n) /\ "refusal" \in Faults
      /\ history' = [history EXCEPT !.faults = @ + 1, !.clean = FALSE]
  BY DEF StoreRefused
<1>2. t = [Now EXCEPT !.client = c]
  BY <1>0 DEF Formed, Members, Has
<1>3. Members(c) /\ c.request = Now.client.request /\ c.list = Now.client.list
  BY <1>0 DEF Formed, Members, Has
<1> HIDE DEF t, c
<1>4. Same(Now, t) /\ t.client = c
  BY <1>0, <1>2, <1>3, ClientSet
<1>5. /\ Base(n, A) /\ Found(n) /\ KeptRead(Now.local, n.local) /\ KeptLive(Now, n)
      /\ Now.client.request # "delete" => (Deleting(Now, A) => Deleting(n, A))
  BY <1>0, <1>1, <1>3, <1>4, StoreBase DEF Same
<1> HIDE DEF n
<1>6. Now' = n
  BY <1>1, <1>5, Became DEF Base
<1>7. Firm => Now.client.request # "delete"
  BY <1>1 DEF Base, Firm
<1>8. ~Sturdy
  BY <1>1 DEF Sturdy
<1>9. history'.arrived = A /\ Has(history', {"arrived", "faults", "clean"})
  BY <1>1, Failed
<1>10. n.local = local'
  BY <1>6, NextParts
<1> QED
  BY <1>0, <1>5, <1>6, <1>7, <1>8, <1>9, <1>10 DEF Keeping

\* A state without a strategy.
LEMMA IdleKept ==
  ASSUME NEW s, NEW A, Base(s, A), NEW n, Formed(n), n.client = Disconnected,
         n.local = s.local, n.records = s.records, DOMAIN n.server \subseteq DOMAIN s.server
  PROVE  /\ Base(n, A) /\ Found(n) /\ Deleting(n, A)
         /\ KeptRead(s.local, n.local) /\ KeptLive(s, n) /\ KeptRecords(s, n)
         /\ Clear(n) /\ (\A r \in Exporting : n.stored[r].removed \subseteq A) => Removing(n, A)
<1>1. n.client.command = "none" /\ n.client.request = "none" /\ n.client.list = {}
  BY IdleClient DEF Disconnected
<1>2. Searched(n, A) /\ Found(n)
  BY <1>1 DEF Searched, Found
<1>3. Base(n, A)
  BY <1>1, <1>2 DEF Base
<1>4. Deleting(n, A)
  BY <1>1 DEF Deleting
<1>5. KeptRead(s.local, n.local) /\ KeptLive(s, n) /\ KeptRecords(s, n)
  BY DEF KeptRead, KeptLive, KeptRecords
<1>6. Clear(n) /\ (\A r \in Exporting : n.stored[r].removed \subseteq A) => Removing(n, A)
  BY <1>1 DEF Clear, Removing
<1> QED
  BY <1>2, <1>3, <1>4, <1>5, <1>6

\* The connection is given up, lost or the daemon ends.
LEMMA EndKeeps ==
  ASSUME Has(history, {"arrived", "faults", "clean"}), Base(Now, history.arrived),
         Logout \/ Crash \/ \E done \in BOOLEAN : Lose(done)
  PROVE  Keeping
<1> DEFINE A == history.arrived
<1>0. Formed(Now) /\ Now.client = client /\ Members(Disconnected)
  BY NowParts, IdleClient DEF Base, Disconnected
<1>1. SUFFICES /\ Formed(Now') /\ (Now').client = Disconnected /\ (Now').local = Now.local
               /\ (Now').records = Now.records /\ DOMAIN (Now').server \subseteq DOMAIN Now.server
               /\ Removing(Now, A) /\ Sturdy => Clear(Now') /\ \A r \in Exporting : (Now').stored[r].removed \subseteq A
               /\ history'.arrived = A /\ Has(history', {"arrived", "faults", "clean"})
  <2> DEFINE n == Now'
  <2>0. n = Now'
    OBVIOUS
  <2>1. n.local = local' /\ Now.local = local
    BY NowParts, NextParts
  <2> HIDE DEF n
  <2>2. /\ Base(n, A) /\ Found(n) /\ Deleting(n, A)
        /\ KeptRead(Now.local, n.local) /\ KeptLive(Now, n) /\ KeptRecords(Now, n)
        /\ Removing(Now, A) /\ Sturdy => Removing(n, A)
    BY <1>1, <2>0, IdleKept
  <2> QED
    BY <1>1, <2>0, <2>1, <2>2 DEF Keeping
<1>2. CASE Logout
  <2> DEFINE n == [Now EXCEPT !.client = Disconnected]
  <2>1. client.request = "none" /\ history' = history /\ Now' = n
    BY <1>2 DEF Logout, Now
  <2>2. Same(Now, n) /\ n.client = Disconnected
    BY <1>0, ClientSet
  <2> HIDE DEF n
  <2>3. Removing(Now, A) => Clear(n) /\ \A r \in Exporting : n.stored[r].removed \subseteq A
    <3>1. n.stored = Now.stored /\ n.server = Now.server
      BY <2>2 DEF Same
    <3>2. Now.client.request \notin Exporting
      BY <1>0, <2>1 DEF Exporting
    <3> QED
      BY <3>1, <3>2 DEF Removing, Clear
  <2> QED
    BY <2>1, <2>2, <2>3 DEF Same
<1>3. CASE Crash
  <2> DEFINE st == [r \in Exporting |-> [marks |-> NoMarks, removed |-> {}]]
             n == Now'
  <2>0. n = Now'
    OBVIOUS
  <2>1. /\ n.server = Now.server /\ n.local = Now.local /\ n.records = Now.records
        /\ n.client = Disconnected /\ n.stored = st
        /\ history' = [history EXCEPT !.faults = @ + 1, !.clean = FALSE]
    BY <1>3, NowParts, NextParts DEF Crash
  <2>2. Has(n, {"server", "local", "records", "client", "stored", "reports"})
    BY DEF Now, Has
  <2>3. /\ Has(st, Exporting)
        /\ \A r \in Exporting : Has(st[r], {"marks", "removed"}) /\ st[r].removed = {}
    BY DEF Has
  <2> HIDE DEF n, st
  <2>4. Formed(n)
    BY <1>0, <2>1, <2>2, <2>3 DEF Formed
  <2>5. Clear(n) /\ \A r \in Exporting : n.stored[r].removed \subseteq A
    BY <2>1, <2>3 DEF Clear
  <2> QED
    BY <2>0, <2>1, <2>4, <2>5, Failed
<1>4. ASSUME NEW done \in BOOLEAN, Lose(done)
      PROVE  /\ Formed(Now') /\ (Now').client = Disconnected /\ (Now').local = Now.local
             /\ (Now').records = Now.records /\ DOMAIN (Now').server \subseteq DOMAIN Now.server
             /\ ~Sturdy /\ history'.arrived = A /\ Has(history', {"arrived", "faults", "clean"})
  <2> DEFINE x == IF done THEN Execute(Now) ELSE Now
             n == [x EXCEPT !.client = Disconnected]
  <2>1. /\ "loss" \in Faults /\ Become(n)
        /\ history' = [history EXCEPT !.faults = @ + 1, !.clean = FALSE]
    BY <1>4 DEF Lose
  <2>2. /\ Formed(x) /\ x.local = Now.local /\ x.records = Now.records
        /\ DOMAIN x.server \subseteq DOMAIN Now.server
    BY <1>0, Executed
  <2> HIDE DEF x
  <2>3. Same(x, n) /\ n.client = Disconnected
    BY <1>0, <2>2, ClientSet
  <2> HIDE DEF n
  <2>4. Now' = n
    BY <2>1, <2>3, Became DEF Same
  <2>5. ~Sturdy
    BY <2>1 DEF Sturdy
  <2> QED
    BY <2>1, <2>2, <2>3, <2>4, <2>5, Failed DEF Same
<1> QED
  BY <1>1, <1>2, <1>3, <1>4

\* A request is made.
LEMMA StartKeeps ==
  ASSUME Has(history, {"arrived", "faults", "clean"}), Base(Now, history.arrived),
         "updateFlags" \notin Requests, NEW r \in Requests, NEW M \in SUBSET Mail, Start(r, M)
  PROVE  Keeping
<1> DEFINE A == history.arrived
           c == [Now.client EXCEPT !.request = r, !.selected = M]
           s == [Now EXCEPT !.client = c]
           n == IF client.up THEN HandleLogin(s) ELSE Send(s, "LOGIN")
<1>0. Formed(Now) /\ Now.client = client /\ Now.local = local
  BY NowParts DEF Base
<1>1. [Now EXCEPT !.client.request = r, !.client.selected = M] = s
  BY <1>0 DEF Formed, Members, Has
<1>2. client.request = "none" /\ history' = history /\ (r = "delete" => M \subseteq DOMAIN local)
  BY DEF Start
<1>3. Become(n)
  BY <1>1 DEF Start
<1>4. /\ Members(c) /\ c.request = r /\ c.selected = M /\ c.list = Now.client.list
      /\ c.command = Now.client.command
  BY <1>0 DEF Formed, Members, Has
<1> HIDE DEF c
<1>5. Same(Now, s) /\ s.client = c
  BY <1>0, <1>4, ClientSet
<1> HIDE DEF s
<1>6. /\ Formed(s) /\ s.server = Now.server /\ s.local = Now.local /\ s.records = Now.records
      /\ s.stored = Now.stored
  BY <1>5 DEF Same
<1>7. s.client.command = "none" /\ r # "updateFlags" /\ r # "none"
  <2>1. Now.client.command = "none"
    BY <1>0, <1>2 DEF Base
  <2> QED
    BY <1>4, <1>5, <2>1, ImapAssumption DEF Kinds
<1>8. Searched(s, A) /\ Found(s)
  BY <1>7 DEF Searched, Found
<1>9. Base(s, A)
  BY <1>4, <1>5, <1>6, <1>7, <1>8 DEF Base
<1>10. Deleting(Now, A) => Deleting(s, A)
  <2>1. DOMAIN local \subseteq A
    BY <1>0 DEF Base
  <2>2. Deleting(Now, A) => s.client.list = {}
    BY <1>0, <1>2, <1>4, <1>5 DEF Deleting
  <2> QED
    BY <1>2, <1>4, <1>5, <1>7, <2>1, <2>2 DEF Deleting
<1>11. Removing(Now, A) => Removing(s, A)
  <2>1. Now.client.request \notin Exporting
    BY <1>0, <1>2 DEF Exporting
  <2> QED
    BY <1>6, <1>7, <2>1 DEF Removing
<1>12. Moves(s, n, A)
  <2>1. CASE client.up
    <3>1. Same(s, s) /\ Alike(s.client, s.client)
      BY <1>6 DEF Same, Alike
    <3>2. s.client.request # "none"
      BY <1>4, <1>5, <1>7
    <3>3. Moves(s, HandleLogin(s), A)
      BY <1>7, <1>9, <3>1, <3>2, LoginMoves
    <3> QED
      BY <2>1, <3>3
  <2>2. CASE ~client.up
    <3> DEFINE w == Send(s, "LOGIN")
    <3>1. Same(s, w) /\ Alike(s.client, w.client) /\ w.client.command = "LOGIN"
      BY <1>6, SendParts
    <3> HIDE DEF w
    <3>2. /\ Formed(w) /\ w.server = s.server /\ w.local = s.local /\ w.records = s.records /\ w.stored = s.stored
          /\ w.client.request = s.client.request /\ w.client.list = s.client.list
          /\ w.client.selected = s.client.selected
      BY <3>1 DEF Same, Alike
    <3>3. Searched(w, A) /\ Found(w)
      BY <3>1 DEF Searched, Found
    <3>4. Base(w, A)
      BY <1>4, <1>5, <1>7, <1>9, <3>1, <3>2, <3>3 DEF Base
    <3>5. Deleting(s, A) => Deleting(w, A)
      BY <1>7, <3>1, <3>2 DEF Deleting
    <3>6. Removing(s, A) => Removing(w, A)
      BY <1>7, <3>1, <3>2 DEF Removing
    <3>7. KeptRead(s.local, w.local) /\ KeptLive(s, w) /\ KeptRecords(s, w)
      BY <3>2 DEF KeptRead, KeptLive, KeptRecords
    <3>8. Moves(s, w, A)
      BY <3>3, <3>4, <3>5, <3>6, <3>7 DEF Moves
    <3> QED
      BY <2>2, <3>8 DEF w
  <2> QED
    BY <2>1, <2>2
<1> HIDE DEF n
<1>13. Moves(Now, n, A)
  <2>1. Found(n)
    BY <1>8, <1>12 DEF Moves
  <2>2. KeptRead(Now.local, n.local) /\ Base(n, A)
    BY <1>6, <1>12 DEF Moves
  <2>3. Deleting(Now, A) => Deleting(n, A) /\ KeptLive(Now, n)
    BY <1>6, <1>8, <1>10, <1>12 DEF Moves, KeptLive
  <2>4. Deleting(Now, A) /\ Removing(Now, A) => Removing(n, A) /\ KeptRecords(Now, n)
    BY <1>6, <1>8, <1>10, <1>11, <1>12 DEF Moves, KeptRecords
  <2> QED
    BY <2>1, <2>2, <2>3, <2>4 DEF Moves
<1>14. Moves(Now, Now', A)
  BY <1>3, <1>13, BecameMoves
<1> QED
  BY <1>2, <1>14, MovesKeep

\* The members of the client but alone.
SameMembers(c, d) ==
  /\ d.up = c.up /\ d.box = c.box /\ d.request = c.request /\ d.command = c.command /\ d.folder = c.folder
  /\ d.found = c.found /\ d.conclusive = c.conclusive /\ d.marks = c.marks /\ d.removed = c.removed
  /\ d.expunge = c.expunge /\ d.sending = c.sending /\ d.selected = c.selected /\ d.list = c.list
  /\ d.todo = c.todo /\ d.retrieve = c.retrieve

\* Somebody else acts.
LEMMA DisturbedParts ==
  ASSUME Members(client), client' = Disturbed
  PROVE  /\ Members(client') /\ SameMembers(client, client') /\ ~Handles
         /\ client'.alone <=> client.request = "none"
<1> DEFINE b == client.request = "none"
           d == [client EXCEPT !.alone = b]
<1>1. client' = d
  BY DEF Disturbed
<1> HIDE DEF b
<1>2. Members(d) /\ SameMembers(client, d) /\ [d EXCEPT !.alone = TRUE] = [client EXCEPT !.alone = TRUE] /\ d.alone = b
  BY DEF Members, Has, SameMembers
<1> HIDE DEF d
<1>3. d.alone <=> client.request = "none"
  BY <1>2 DEF b
<1> QED
  BY <1>1, <1>2, <1>3 DEF Handles

\* The members count, not alone.
LEMMA SameKeeps ==
  ASSUME NEW s, NEW n, NEW A, SameMembers(s.client, n.client), n.server = s.server, n.stored = s.stored
  PROVE  /\ Searched(s, A) => Searched(n, A)
         /\ Found(s) => Found(n)
         /\ Deleting(s, A) => Deleting(n, A)
         /\ Removing(s, A) => Removing(n, A)
<1>1. Searched(s, A) => Searched(n, A)
  BY DEF SameMembers, Searched
<1>2. Found(s) => Found(n)
  BY DEF SameMembers, Found
<1>3. Deleting(s, A) => Deleting(n, A)
  BY DEF SameMembers, Deleting
<1>4. Removing(s, A) => Removing(n, A)
  BY DEF SameMembers, Removing
<1> QED
  BY <1>1, <1>2, <1>3, <1>4

\* The user marks or removes a message.
LEMMA UserParts ==
  ASSUME Formed(Now), User
  PROVE  /\ history' = history /\ server' = server /\ stored' = stored /\ Formed(Now')
         /\ Members(client') /\ SameMembers(client, client') /\ ~Handles
         /\ client'.alone <=> client.request = "none"
         /\ DOMAIN local' \subseteq DOMAIN local
         /\ \A m \in DOMAIN local' : local'[m].here \subseteq local[m].here \cup Flags
<1> DEFINE n == Now'
<1>0. /\ n = Now' /\ Now.client = client /\ Now.local = local /\ Now.server = server /\ Now.stored = stored
      /\ n.client = client' /\ n.local = local' /\ n.server = server' /\ n.stored = stored'
  BY NowParts, NextParts
<1>1. client' = Disturbed /\ server' = server /\ stored' = stored /\ history' = history
  BY DEF User, UserMarks, UserRemoves
<1>2. /\ Members(client') /\ SameMembers(client, client') /\ ~Handles
      /\ client'.alone <=> client.request = "none"
  BY <1>0, <1>1, DisturbedParts DEF Formed
<1>3. /\ Rows(local') /\ DOMAIN local' \subseteq DOMAIN local
      /\ \A m \in DOMAIN local' : local'[m].here \subseteq local[m].here \cup Flags
  <2>1. Rows(local)
    BY <1>0 DEF Formed
  <2>2. ASSUME NEW m \in DOMAIN local, NEW flag \in Flags, UserMarks(m, flag)
        PROVE  /\ Rows(local') /\ DOMAIN local' \subseteq DOMAIN local
               /\ \A x \in DOMAIN local' : local'[x].here \subseteq local[x].here \cup Flags
    <3> DEFINE h == Toggle(local[m].here, flag)
               v == [local[m] EXCEPT !.here = h]
    <3>1. local' = [local EXCEPT ![m] = v]
      BY <2>2 DEF UserMarks
    <3>2. h \subseteq local[m].here \cup Flags
      BY DEF Toggle
    <3> HIDE DEF h
    <3>3. Has(v, {"here", "elsewhere", "removed"}) /\ v.here = h
      BY <2>1 DEF Rows, Has
    <3> HIDE DEF v
    <3>4. DOMAIN local' = DOMAIN local /\ \A x \in DOMAIN local : local'[x] = IF x = m THEN v ELSE local[x]
      BY <3>1
    <3>5. Has(local', DOMAIN local')
      BY <3>1, <3>4 DEF Has
    <3> QED
      BY <2>1, <3>2, <3>3, <3>4, <3>5 DEF Rows
  <2>3. ASSUME NEW m \in DOMAIN local, UserRemoves(m)
        PROVE  /\ Rows(local') /\ DOMAIN local' \subseteq DOMAIN local
               /\ \A x \in DOMAIN local' : local'[x].here \subseteq local[x].here \cup Flags
    <3> DEFINE k == Without(local, {m})
    <3>1. Rows(k) /\ DOMAIN k = DOMAIN local \ {m} /\ \A x \in DOMAIN k : k[x] = local[x]
      BY <2>1, WithoutRows DEF Without
    <3> HIDE DEF k
    <3>2. local' = k
      BY <2>3 DEF UserRemoves, k
    <3> QED
      BY <3>1, <3>2
  <2> QED
    BY <2>2, <2>3 DEF User
<1>4. Has(n, {"server", "local", "records", "client", "stored", "reports"})
  BY DEF Now, Has
<1> HIDE DEF n
<1>5. Formed(n)
  BY <1>0, <1>1, <1>2, <1>3, <1>4 DEF Formed
<1> QED
  BY <1>0, <1>1, <1>2, <1>3, <1>5

\* What the user does harms no search and no deletion.
LEMMA UserKeeps ==
  ASSUME Has(history, {"arrived", "faults", "clean"}), Base(Now, history.arrived), User
  PROVE  Keeping
<1> DEFINE A == history.arrived
           n == Now'
<1>0. /\ n = Now' /\ Formed(Now) /\ Now.client = client /\ Now.local = local /\ Now.server = server
      /\ n.client = client' /\ n.local = local' /\ n.server = server'
      /\ Now.stored = stored /\ n.stored = stored'
  BY NowParts, NextParts DEF Base
<1>1. /\ history' = history /\ server' = server /\ stored' = stored /\ Formed(n)
      /\ SameMembers(Now.client, n.client) /\ ~Handles /\ DOMAIN local' \subseteq DOMAIN local
  BY <1>0, UserParts
<1> HIDE DEF n
<1>2. /\ Searched(Now, A) => Searched(n, A)
      /\ Found(Now) => Found(n)
      /\ Deleting(Now, A) => Deleting(n, A)
      /\ Removing(Now, A) => Removing(n, A)
  BY <1>0, <1>1, SameKeeps
<1>3. Base(n, A)
  BY <1>0, <1>1, <1>2 DEF Base, SameMembers
<1> QED
  BY <1>0, <1>1, <1>2, <1>3 DEF Keeping

\* What another client leaves on the server: nothing that was there is unread, and
\* what is there now was there or is new.
Elsewise(t) ==
  /\ Has(t, DOMAIN t) /\ DOMAIN t \in SUBSET Mail
  /\ \A m \in DOMAIN t \cap history.arrived :
       m \in DOMAIN server /\ ("seen" \in server[m] => "seen" \in t[m])
  /\ "remove" \notin Others => DOMAIN server \subseteq DOMAIN t
  /\ "delete" \notin Others =>
       \A m \in DOMAIN t \cap history.arrived : "deleted" \in server[m] => "deleted" \in t[m]

\* Another client acts.
LEMMA OthersKeep ==
  ASSUME Has(history, {"arrived", "faults", "clean"}), Base(Now, history.arrived),
         NEW kind, NEW t, OthersAct(kind, t), Elsewise(t)
  PROVE  Keeping
<1> DEFINE A == history.arrived
           B == A \cup DOMAIN t
           n == Now'
<1>0. /\ n = Now' /\ Formed(Now) /\ Now.client = client /\ Now.local = local /\ Now.server = server
      /\ n.client = client' /\ n.local = local' /\ n.server = server'
      /\ Now.stored = stored /\ n.stored = stored'
  BY NowParts, NextParts DEF Base
<1>1. client' = Disturbed /\ server' = t /\ stored' = stored /\ local' = local
  BY DEF OthersAct
<1>2. history'.arrived = B /\ Has(history', {"arrived", "faults", "clean"})
  BY DEF OthersAct, Has
<1>3. Members(n.client) /\ SameMembers(Now.client, n.client) /\ ~Handles
  BY <1>0, <1>1, DisturbedParts DEF Formed
<1>4. Has(n, {"server", "local", "records", "client", "stored", "reports"})
  BY DEF Now, Has
<1> HIDE DEF n
<1>5. Formed(n)
  BY <1>0, <1>1, <1>3, <1>4 DEF Formed, Elsewise
<1>6. Searched(n, B)
  <2>1. Searched(Now, A)
    BY DEF Base
  <2>2. \A m \in DOMAIN n.server \cap A : m \in DOMAIN Now.server /\ ("seen" \in Now.server[m] => "seen" \in n.server[m])
    BY <1>0, <1>1 DEF Elsewise
  <2> QED
    BY <1>3, <2>1, <2>2 DEF Searched, SameMembers
<1>7. A \in SUBSET Mail /\ B \in SUBSET Mail /\ A \subseteq B /\ DOMAIN n.server \subseteq B
  BY <1>0, <1>1 DEF Base, Elsewise
<1>8. Base(n, B)
  BY <1>0, <1>1, <1>3, <1>5, <1>6, <1>7 DEF Base, SameMembers
<1>9. "remove" \notin Others /\ Found(Now) => Found(n)
  BY <1>0, <1>1, <1>3 DEF Found, SameMembers, Elsewise
<1>10. Now.client.request \in Requests \cup {"none"}
  BY DEF Base
<1>11. Firm /\ Deleting(Now, A) => Deleting(n, B)
  <2>1. CASE Now.client.request # "delete"
    BY <1>3, <2>1 DEF Deleting, SameMembers
  <2>2. CASE Now.client.request = "delete"
    <3>1. Firm => "delete" \notin Others
      BY <1>10, <2>2 DEF Firm
    <3>2. Firm => \A m \in DOMAIN n.server \cap A :
            m \in DOMAIN Now.server /\ ("deleted" \in Now.server[m] => "deleted" \in n.server[m])
      BY <1>0, <1>1, <3>1 DEF Elsewise
    <3> QED
      BY <1>3, <1>7, <2>2, <3>2 DEF Deleting, SameMembers
  <2> QED
    BY <2>1, <2>2
<1>12. Sturdy /\ Removing(Now, A) => Removing(n, B)
  <2>1. Sturdy => \A m \in DOMAIN n.server \cap A :
          m \in DOMAIN Now.server /\ ("deleted" \in Now.server[m] => "deleted" \in n.server[m])
    BY <1>0, <1>1 DEF Elsewise, Sturdy
  <2>2. n.stored = Now.stored
    BY <1>0, <1>1
  <2> DEFINE c == Now.client
             d == n.client
  <2>3. /\ d.request = c.request /\ d.box = c.box /\ d.command = c.command /\ d.sending = c.sending
        /\ d.expunge = c.expunge /\ d.removed = c.removed /\ d.marks = c.marks
    BY <1>3 DEF SameMembers
  <2> HIDE DEF c, d
  <2> SUFFICES ASSUME Sturdy, Removing(Now, A) PROVE Removing(n, B)
    OBVIOUS
  <2>4. \A r \in Exporting : n.stored[r].removed \subseteq B
    BY <1>7, <2>2 DEF Removing
  <2>5. ASSUME NEW r \in Exporting, NEW m \in n.stored[r].removed \cap DOMAIN n.server
        PROVE  /\ CanDelete /\ d.request = r /\ FolderOf[m] = d.box
               /\ \/ /\ d.command = "STORE" /\ d.sending[1] = Deleted /\ m \in d.sending[2]
                     /\ d.expunge = TRUE /\ d.removed = {} /\ \A k \in Mark : d.marks[k] = {}
                  \/ d.command = "EXPUNGE" /\ "deleted" \in n.server[m]
    <3>1. m \in Now.stored[r].removed /\ m \in A
      BY <2>2 DEF Removing
    <3>2. m \in DOMAIN Now.server /\ ("deleted" \in Now.server[m] => "deleted" \in n.server[m])
      BY <2>1, <3>1
    <3> QED
      BY <2>3, <3>1, <3>2 DEF Removing, c
  <2>6. d.command = "STORE" /\ d.request \in Exporting =>
          /\ d.removed \subseteq B /\ \A m \in d.removed : FolderOf[m] = d.box
          /\ d.removed # {} => d.expunge = TRUE
    BY <1>7, <2>3 DEF Removing, c
  <2> QED
    BY <2>4, <2>5, <2>6 DEF Removing, d
<1> QED
  BY <1>0, <1>2, <1>3, <1>8, <1>9, <1>11, <1>12 DEF Keeping

\* Other clients deliver, mark and remove messages.
LEMMA OtherClientsKeep ==
  ASSUME Has(history, {"arrived", "faults", "clean"}), Base(Now, history.arrived),
         "clear" \notin Others, OtherClients
  PROVE  Keeping
<1>0. Has(server, DOMAIN server) /\ DOMAIN server \in SUBSET Mail /\ DOMAIN server \subseteq history.arrived
  BY NowParts DEF Base, Formed
<1>1. ASSUME NEW m \in Mail, Arrives(m)
      PROVE  Keeping
  <2> DEFINE t == [n \in DOMAIN server \cup {m} |-> IF n = m THEN {} ELSE server[n]]
  <2>1. m \notin history.arrived /\ OthersAct("arrive", t)
    BY <1>1 DEF Arrives
  <2>2. /\ Has(t, DOMAIN t) /\ DOMAIN t = DOMAIN server \cup {m}
        /\ \A n \in DOMAIN server : n # m => t[n] = server[n]
    BY DEF Has
  <2> HIDE DEF t
  <2>3. Elsewise(t)
    BY <1>0, <2>1, <2>2 DEF Elsewise
  <2> QED
    BY <2>1, <2>3, OthersKeep
<1>2. ASSUME NEW m \in DOMAIN server, NEW flag \in Flags \cup {"deleted"}, OthersMark(m, flag)
      PROVE  Keeping
  <2> DEFINE F == Toggle(server[m], flag)
             t == [server EXCEPT ![m] = F]
             kind == IF flag = "deleted" THEN "delete" ELSE IF flag \in server[m] THEN "clear" ELSE "set"
  <2>1. OthersAct(kind, t)
    BY <1>2 DEF OthersMark
  <2>2. kind \in Others
    BY <2>1 DEF OthersAct
  <2>3. /\ "seen" \in server[m] => "seen" \in F
        /\ "delete" \notin Others => ("deleted" \in server[m] => "deleted" \in F)
    BY <2>2, ImapAssumption DEF Toggle
  <2> HIDE DEF F, kind
  <2>4. Has(t, DOMAIN t) /\ DOMAIN t = DOMAIN server /\ t[m] = F /\ \A n \in DOMAIN server : n # m => t[n] = server[n]
    BY <1>0 DEF Has
  <2> HIDE DEF t
  <2>5. Elsewise(t)
    BY <1>0, <2>3, <2>4 DEF Elsewise
  <2> QED
    BY <2>1, <2>5, OthersKeep
<1>3. ASSUME NEW m \in DOMAIN server, OthersRemove(m)
      PROVE  Keeping
  <2> DEFINE t == Without(server, {m})
  <2>1. OthersAct("remove", t) /\ "remove" \in Others
    BY <1>3 DEF OthersRemove, OthersAct
  <2>2. /\ Has(t, DOMAIN t) /\ DOMAIN t = DOMAIN server \ {m}
        /\ \A n \in DOMAIN server \ {m} : t[n] = server[n]
    BY DEF Has, Without
  <2> HIDE DEF t
  <2>3. Elsewise(t)
    BY <1>0, <2>1, <2>2 DEF Elsewise
  <2> QED
    BY <2>1, <2>3, OthersKeep
<1> QED
  BY <1>1, <1>2, <1>3 DEF OtherClients

\* Every step keeps it.
LEMMA StepKeeps ==
  ASSUME Has(history, {"arrived", "faults", "clean"}), Base(Now, history.arrived),
         "updateFlags" \notin Requests, "clear" \notin Others, [Next]_vars
  PROVE  Keeping
<1>1. CASE UNCHANGED vars
  <2>1. Now' = Now /\ history' = history /\ local' = local /\ client' = client
    BY <1>1 DEF vars, Now
  <2>2. ~Handles
    BY <2>1 DEF Handles
  <2> QED
    BY <2>1, <2>2 DEF Keeping
<1>2. ASSUME NEW r \in Requests, NEW M \in SUBSET Mail, Start(r, M)
      PROVE  Keeping
  BY <1>2, StartKeeps
<1>3. CASE Answer
  <2>1. Moves(Now, Now', history.arrived) /\ history' = history
    BY <1>3, AnswerMoves
  <2> QED
    BY <2>1, MovesKeep
<1>4. CASE StoreRefused
  BY <1>4, RefusedKeeps
<1>5. ASSUME NEW m \in Mail, SearchPartial(m)
      PROVE  Keeping
  BY <1>5, PartialKeeps
<1>6. CASE Logout \/ Crash \/ \E done \in BOOLEAN : Lose(done)
  BY <1>6, EndKeeps
<1>7. CASE User
  BY <1>7, UserKeeps
<1>8. CASE OtherClients
  BY <1>8, OtherClientsKeep
<1> QED
  BY <1>1, <1>2, <1>3, <1>4, <1>5, <1>6, <1>7, <1>8 DEF Next

\* What holds at the start.
LEMMA AtFirst ==
  ASSUME Init
  PROVE  /\ Has(history, {"arrived", "faults", "clean"}) /\ Base(Now, history.arrived)
         /\ Found(Now) /\ Deleting(Now, history.arrived) /\ Removing(Now, history.arrived)
<1> DEFINE A == history.arrived
<1>1. /\ Has(history, {"arrived", "faults", "clean"}) /\ A = Initial
      /\ Has(Now, {"server", "local", "records", "client", "stored", "reports"})
  BY DEF Init, Has, Now
<1>2. Now.server = [m \in Initial |-> {}] /\ Now.local = <<>>
  BY NowParts DEF Init
<1>3. /\ Members(Now.client) /\ Now.client.command = "none" /\ Now.client.request = "none" /\ Now.client.list = {}
  <2>1. Now.client = Idle(FALSE, 0)
    BY NowParts DEF Init, Disconnected
  <2> QED
    BY <2>1, IdleClient
<1>4. Has(Now.server, DOMAIN Now.server) /\ DOMAIN Now.server = Initial /\ Initial \in SUBSET Mail
  BY <1>2, ImapAssumption DEF Has
<1>5. DOMAIN Now.local = {} /\ Rows(Now.local)
  <2>1. DOMAIN <<>> = {} /\ Has(<<>>, {})
    BY DEF Has
  <2> QED
    BY <1>2, <2>1 DEF Rows
<1>6. /\ Has(Now.stored, Exporting)
      /\ \A r \in Exporting : Has(Now.stored[r], {"marks", "removed"}) /\ Now.stored[r].removed = {}
  <2> DEFINE e == [marks |-> NoMarks, removed |-> {}]
             st == [r \in Exporting |-> e]
  <2>1. Now.stored = st
    BY NowParts DEF Init
  <2>2. Has(e, {"marks", "removed"}) /\ e.removed = {}
    BY DEF Has
  <2> HIDE DEF e
  <2>3. Has(st, Exporting) /\ \A r \in Exporting : st[r] = e
    BY DEF Has
  <2> HIDE DEF st
  <2> QED
    BY <2>1, <2>2, <2>3
<1>7. Formed(Now)
  BY <1>1, <1>3, <1>4, <1>5, <1>6 DEF Formed
<1>8. Searched(Now, A) /\ Found(Now) /\ Deleting(Now, A)
  BY <1>3 DEF Searched, Found, Deleting
<1>9. Base(Now, A)
  BY <1>1, <1>3, <1>4, <1>5, <1>7, <1>8 DEF Base
<1>10. Removing(Now, A)
  BY <1>3, <1>6 DEF Removing
<1> QED
  BY <1>1, <1>8, <1>9, <1>10

-----------------------------------------------------------------------------
(* A full synchronization *)

\* The flags users change.
Shown == {"seen", "flagged"}

\* A synchronization or the retrieval of everything.
Full(c) == c.request \notin {"none", "exportUpdates", "updateFlags", "delete"}

\* The changes to export and the new messages are listed.
Lists(c) == DOMAIN c.marks = Mark /\ \E T : c.retrieve \in Seq(T)

Typed(s) ==
  /\ Formed(s) /\ Lists(s.client)
  /\ \A m \in DOMAIN s.server : s.server[m] \subseteq Shown \cup {"deleted"}
  /\ \A m \in DOMAIN s.local : s.local[m].here \subseteq Shown

\* A pending command is one of the request.
Fitting(c) ==
  /\ c.request = "none" => c.command = "none"
  /\ c.command = "KNOWN" => c.request = "exportUpdates"
  /\ c.command = "ALL" => Full(c)
  /\ c.command \in {"SEEN", "UNSEEN", "FLAGGED"} => Full(c) \/ c.request = "updateFlags"
  /\ c.command \in {"CLOSE", "EXAMINE"} => c.request = "delete"
  /\ c.command = "STORE" => c.sending[1] \in Mark \cup {Deleted}

ReadThere(s) == {m \in In(s.client.box, DOMAIN s.server) : "seen" \in s.server[m]}
UnreadThere(s) == {m \in In(s.client.box, DOMAIN s.server) : "seen" \notin s.server[m]}

\* The searches so far have found what the selected mailbox holds.
Exact(s) ==
  LET c == s.client
  IN Full(c) =>
       /\ c.command # "ALL"
       /\ c.command \in {"SELECT", "SEEN"} => c.found = NothingFound
       /\ c.command \in {"SELECT", "SEEN", "UNSEEN", "FLAGGED"} => c.conclusive = TRUE
       /\ c.command \in {"SEEN", "UNSEEN", "FLAGGED"} => c.box = c.folder
       /\ c.command \in {"UNSEEN", "FLAGGED"} => c.found.seen = ReadThere(s)
       /\ c.command = "FLAGGED" => c.found.unseen = UnreadThere(s)

\* A _stored list holds what the pending STORE names, and nothing else.
Sent(s) ==
  \A q \in Exporting, k \in Mark : s.stored[q].marks[k] # {} =>
     /\ s.client.request = q /\ s.client.command = "STORE"
     /\ s.client.sending = <<k, s.stored[q].marks[k]>>

\* The store has message m with the server's flags, but for the changes O that are
\* still to be exported, or m is among the messages W that are still to be fetched.
Settled(s, O, W, m) ==
  IF m \in DOMAIN s.local
  THEN /\ \A k \in Mark : m \in O[k] => (Marked(k) \in s.local[m].here <=> Sets(k))
       /\ \A flag \in Shown : \/ flag \in s.local[m].here <=> flag \in s.server[m]
                              \/ \E k \in Mark : Marked(k) = flag /\ m \in O[k]
  ELSE m \in W

\* The changes that the pending STORE and the next ones export.
Owed(c) == [k \in Mark |->
  IF c.command # "STORE" THEN {}
  ELSE IF c.sending[1] = k THEN c.marks[k] \cup c.sending[2] ELSE c.marks[k]]

\* The new messages that are not fetched yet.
Listed(c) == UNION {c.retrieve[i][2] : i \in 1 .. Len(c.retrieve)}
Wanted(c) == IF c.command \in {"FETCH", "PREVIEW"} THEN Listed(c) \cup c.sending[2] ELSE Listed(c)

\* The messages of the folders that the synchronization is through with are
\* settled.
Synced(s) ==
  LET c == s.client
  IN c.request = "synchronize" /\ c.command \notin {"LOGIN", "LIST"} =>
       /\ c.command \in {"FETCH", "PREVIEW"} => c.todo = {}
       /\ \A m \in DOMAIN s.server :
            \/ FolderOf[m] \in c.todo
            \/ c.command \in {"SELECT", "SEEN", "UNSEEN", "FLAGGED"} /\ FolderOf[m] = c.folder
            \/ Settled(s, Owed(c), Wanted(c), m)

\* The state is sound; b says that nothing has failed.
Sound(s, b) ==
  /\ Typed(s) /\ Fitting(s.client)
  /\ b \/ s.client.alone => Exact(s)
  /\ b => Sent(s)
  /\ s.client.alone => Synced(s)

\* Every message of the server is there, with its flags.
Agreed(s) ==
  \A m \in DOMAIN s.server :
    m \in DOMAIN s.local /\ \A flag \in Shown : flag \in s.local[m].here <=> flag \in s.server[m]

\* A synchronization that nobody has disturbed ends like that.
Ends(s, n) == s.client.request = "synchronize" /\ s.client.alone /\ n.client.request = "none" => Agreed(n)

\* A change that was to be exported, and is not any more, is the server's state.
Holds(s, n) ==
  \A m \in DOMAIN n.server \cap DOMAIN n.local, flag \in Shown :
    Pending(s.local, m, flag) /\ ~Pending(n.local, m, flag)
      => (flag \in n.local[m].here <=> flag \in n.server[m])

\* No _stored list holds anything.
Quiet(s) == \A q \in Exporting, k \in Mark : s.stored[q].marks[k] = {}

\* All folders but those still to be visited are settled, with the changes O to
\* export.
Passed(s, O) ==
  s.client.request = "synchronize" =>
    \A m \in DOMAIN s.server : FolderOf[m] \in s.client.todo \/ Settled(s, O, Listed(s.client), m)

\* The request goes on.
GoesOn(c, d) == d.request = c.request /\ d.alone = c.alone

-----------------------------------------------------------------------------
(* From folder to folder *)

\* The members of a connection without a strategy.
LEMMA IdleParts ==
  ASSUME NEW up, NEW box
  PROVE  LET c == Idle(up, box)
         IN /\ Lists(c) /\ c.request = "none" /\ c.command = "none" /\ c.marks = NoMarks /\ c.up = up
<1>1. <<>> \in Seq({}) /\ DOMAIN NoMarks = Mark
  BY DEF NoMarks
<1> QED
  BY <1>1 DEF Idle, Lists

\* The first entry of the list, and the others.
LEMMA FirstListed ==
  ASSUME NEW c, NEW T, c.retrieve \in Seq(T), c.retrieve # <<>>,
         NEW d, d.retrieve = Tail(c.retrieve)
  PROVE  /\ Tail(c.retrieve) \in Seq(T)
         /\ Listed(c) = Listed(d) \cup Head(c.retrieve)[2]
<1> DEFINE r == c.retrieve
           t == Tail(r)
<1>1. /\ t \in Seq(T) /\ Len(r) \in Nat /\ Len(r) >= 1 /\ Len(t) = Len(r) - 1
      /\ \A i \in 1 .. Len(t) : t[i] = r[i + 1]
      /\ Head(r) = r[1]
  OBVIOUS
<1> HIDE DEF r, t
<1>2. \A x : (\E i \in 1 .. Len(r) : x \in r[i][2]) <=> ((\E i \in 1 .. Len(t) : x \in t[i][2]) \/ x \in Head(r)[2])
  <2> SUFFICES ASSUME NEW x
               PROVE  (\E i \in 1 .. Len(r) : x \in r[i][2]) <=> ((\E i \in 1 .. Len(t) : x \in t[i][2]) \/ x \in Head(r)[2])
    OBVIOUS
  <2>1. ASSUME NEW i \in 1 .. Len(r), x \in r[i][2]
        PROVE  (\E j \in 1 .. Len(t) : x \in t[j][2]) \/ x \in Head(r)[2]
    <3>1. CASE i = 1
      BY <1>1, <2>1, <3>1
    <3>2. CASE i # 1
      <4>1. i - 1 \in 1 .. Len(t) /\ t[i - 1] = r[(i - 1) + 1] /\ (i - 1) + 1 = i
        BY <1>1, <3>2
      <4> QED
        BY <2>1, <4>1
    <3> QED
      BY <3>1, <3>2
  <2>2. ASSUME NEW i \in 1 .. Len(t), x \in t[i][2]
        PROVE  \E j \in 1 .. Len(r) : x \in r[j][2]
    <3>1. i + 1 \in 1 .. Len(r) /\ t[i] = r[i + 1]
      BY <1>1
    <3> QED
      BY <2>2, <3>1
  <2>3. ASSUME x \in Head(r)[2]
        PROVE  \E j \in 1 .. Len(r) : x \in r[j][2]
    <3>1. 1 \in 1 .. Len(r)
      BY <1>1
    <3> QED
      BY <1>1, <2>3, <3>1
  <2> QED
    BY <2>1, <2>2, <2>3
<1>3. Listed(c) = {x \in Listed(c) : TRUE} /\ \A x : x \in Listed(c) <=> \E i \in 1 .. Len(r) : x \in r[i][2]
  BY DEF Listed, r
<1>4. \A x : x \in Listed(d) <=> \E i \in 1 .. Len(t) : x \in t[i][2]
  BY DEF Listed, r, t
<1>5. \A x : x \in Listed(c) <=> x \in Listed(d) \cup Head(r)[2]
  BY <1>2, <1>3, <1>4
<1> QED
  BY <1>1, <1>5 DEF r, t

\* selectNextPreviewFolder and fetchNextMailPreview
LEMMA PreviewGoes ==
  ASSUME NEW s, Formed(s), Lists(s.client)
  PROVE  LET n == PreviewNext(s)
             c == s.client
             d == n.client
         IN /\ Same(s, n)
            /\ \/ c.retrieve = <<>> /\ d = Idle(c.up, c.box)
               \/ /\ d.command \in {"FETCH", "PREVIEW"} /\ GoesOn(c, d) /\ Lists(d)
                  /\ d.todo = c.todo /\ Wanted(d) = Listed(c)
<1> DEFINE next == Head(s.client.retrieve)
           t == [s EXCEPT !.client.retrieve = Tail(@), !.client.folder = next[1],
                          !.client.sending = <<0, next[2]>>]
           x == IF s.client.box = next[1] THEN "FETCH" ELSE "PREVIEW"
           n == [t EXCEPT !.client.command = x]
           c == [s.client EXCEPT !.retrieve = Tail(@), !.folder = next[1], !.sending = <<0, next[2]>>,
                                 !.command = x]
<1>1. PreviewNext(s) = IF s.client.retrieve = <<>> THEN Completed(s) ELSE n
  BY DEF PreviewNext, Send
<1>2. n = [s EXCEPT !.client = c]
  BY DEF Formed, Has
<1>3. /\ Members(c) /\ c.command = x /\ GoesOn(s.client, c) /\ c.todo = s.client.todo
      /\ c.marks = s.client.marks /\ c.retrieve = Tail(s.client.retrieve) /\ c.sending[2] = next[2]
  BY DEF Formed, Members, Has, GoesOn
<1>4. x \in {"FETCH", "PREVIEW"}
  OBVIOUS
<1> HIDE DEF n, c, x
<1>5. CASE s.client.retrieve = <<>>
  <2> DEFINE i == Idle(s.client.up, s.client.box)
  <2>1. Completed(s) = [s EXCEPT !.client = i]
    BY DEF Completed, Formed, Has
  <2> HIDE DEF i
  <2>2. Members(i)
    BY IdleClient DEF i
  <2>3. Same(s, Completed(s)) /\ Completed(s).client = i
    BY <2>1, <2>2, ClientSet
  <2> QED
    BY <1>1, <1>5, <2>3 DEF i
<1>6. CASE s.client.retrieve # <<>>
  <2>1. Same(s, n) /\ n.client = c
    BY <1>2, <1>3, ClientSet
  <2>2. PICK T : s.client.retrieve \in Seq(T)
    BY DEF Lists
  <2>3. c.retrieve \in Seq(T) /\ Listed(s.client) = Listed(c) \cup next[2]
    BY <1>3, <1>6, <2>2, FirstListed
  <2>4. Lists(c)
    BY <1>3, <2>3 DEF Lists
  <2>5. Wanted(c) = Listed(s.client)
    BY <1>3, <1>4, <2>3 DEF Wanted
  <2> QED
    BY <1>1, <1>3, <1>4, <1>6, <2>1, <2>4, <2>5
<1> QED
  BY <1>5, <1>6

\* nextFolder, and folderListCompleted when none is left.
LEMMA FolderGoes ==
  ASSUME NEW s, Formed(s), Lists(s.client)
  PROVE  LET n == ProcessNextFolder(s)
             c == s.client
             d == n.client
         IN /\ Same(s, n)
            /\ \/ /\ d.command = "SELECT" /\ GoesOn(c, d) /\ Lists(d) /\ d.retrieve = c.retrieve
                  /\ d.todo = c.todo \ {d.folder} /\ d.found = NothingFound /\ d.conclusive = TRUE
               \/ c.todo = {} /\ c.retrieve = <<>> /\ d = Idle(c.up, c.box)
               \/ /\ c.todo = {} /\ d.command \in {"FETCH", "PREVIEW"} /\ GoesOn(c, d) /\ Lists(d)
                  /\ d.todo = {} /\ Wanted(d) = Listed(c)
<1> DEFINE c == [s.client EXCEPT !.found = NothingFound, !.conclusive = TRUE, !.marks = NoMarks,
                                 !.removed = {}, !.expunge = FALSE]
           f == Min(s.client.todo)
           a == [c EXCEPT !.folder = 0]
           b == [c EXCEPT !.folder = f, !.todo = @ \ {f}, !.command = "SELECT"]
           x == [s EXCEPT !.client = a]
           y == [s EXCEPT !.client = b]
<1>1. ProcessNextFolder(s) = IF s.client.todo = {} THEN PreviewNext(x) ELSE y
  BY FolderCases
<1>2. /\ Members(c) /\ GoesOn(s.client, c) /\ c.up = s.client.up /\ c.box = s.client.box
      /\ c.found = NothingFound /\ c.conclusive = TRUE /\ c.marks = NoMarks
      /\ c.todo = s.client.todo /\ c.retrieve = s.client.retrieve
  BY DEF Formed, Members, Has, NothingFound, GoesOn
<1> HIDE DEF c, f
<1>3. Members(a) /\ GoesOn(c, a) /\ a.up = c.up /\ a.box = c.box /\ a.marks = c.marks /\ a.todo = c.todo /\ a.retrieve = c.retrieve
  BY <1>2 DEF Members, Has, GoesOn
<1>4. /\ Members(b) /\ GoesOn(c, b) /\ b.command = "SELECT" /\ b.folder = f /\ b.todo = c.todo \ {f}
      /\ b.found = c.found /\ b.conclusive = c.conclusive /\ b.marks = c.marks /\ b.retrieve = c.retrieve
  BY <1>2 DEF Members, Has, GoesOn
<1> HIDE DEF a, b
<1>5. Lists(a) /\ Lists(b) /\ Listed(a) = Listed(s.client)
  <2>1. DOMAIN NoMarks = Mark
    BY DEF NoMarks
  <2> QED
    BY <1>2, <1>3, <1>4, <2>1 DEF Lists, Listed
<1>6. Same(s, x) /\ x.client = a
  BY <1>3, ClientSet
<1>7. Same(s, y) /\ y.client = b
  BY <1>4, ClientSet
<1> HIDE DEF x, y
<1>8. CASE s.client.todo = {}
  <2> DEFINE n == PreviewNext(x)
  <2>1. /\ Same(x, n)
        /\ \/ a.retrieve = <<>> /\ n.client = Idle(a.up, a.box)
           \/ /\ n.client.command \in {"FETCH", "PREVIEW"} /\ GoesOn(a, n.client) /\ Lists(n.client)
              /\ n.client.todo = a.todo /\ Wanted(n.client) = Listed(a)
    BY <1>5, <1>6, PreviewGoes DEF Same
  <2> HIDE DEF n
  <2>2. Same(s, n)
    BY <1>6, <2>1 DEF Same
  <2>3. CASE a.retrieve = <<>> /\ n.client = Idle(a.up, a.box)
    BY <1>1, <1>2, <1>3, <1>8, <2>2, <2>3 DEF n
  <2>4. CASE /\ n.client.command \in {"FETCH", "PREVIEW"} /\ GoesOn(a, n.client) /\ Lists(n.client)
             /\ n.client.todo = a.todo /\ Wanted(n.client) = Listed(a)
    <3>1. GoesOn(s.client, n.client)
      BY <1>2, <1>3, <2>4 DEF GoesOn
    <3> QED
      BY <1>1, <1>2, <1>3, <1>5, <1>8, <2>2, <2>4, <3>1 DEF n
  <2> QED
    BY <2>1, <2>3, <2>4
<1>9. CASE s.client.todo # {}
  <2>1. GoesOn(s.client, b)
    BY <1>2, <1>4 DEF GoesOn
  <2> QED
    BY <1>1, <1>2, <1>4, <1>5, <1>7, <1>9, <2>1
<1> QED
  BY <1>8, <1>9

\* What is settled stays so while neither the store nor the server changes.
LEMMA SettledSame ==
  ASSUME NEW s, NEW n, n.local = s.local, n.server = s.server, NEW O, NEW P, \A k \in Mark : O[k] = P[k],
         NEW W, NEW V, W \subseteq V, NEW m, Settled(s, O, W, m)
  PROVE  Settled(n, P, V, m)
  BY DEF Settled

\* Nothing is owed but by STORE.
LEMMA NothingOwed ==
  ASSUME NEW c, c.command # "STORE"
  PROVE  \A k \in Mark : NoMarks[k] = {} /\ Owed(c)[k] = {}
  BY DEF Owed, NoMarks

\* With nothing to export and nothing to fetch, a message is there as it is on the
\* server.
LEMMA NothingLeft ==
  ASSUME NEW s, NEW m, Settled(s, NoMarks, {}, m)
  PROVE  m \in DOMAIN s.local /\ \A flag \in Shown : flag \in s.local[m].here <=> flag \in s.server[m]
  BY DEF Settled, NoMarks

\* Typed, from its parts.
LEMMA SameTyped ==
  ASSUME NEW s, Typed(s), NEW n, Same(s, n), Lists(n.client)
  PROVE  Typed(n)
  BY DEF Typed, Same

\* The previews of the next folder, or the end.
LEMMA PreviewedSound ==
  ASSUME NEW s, Typed(s), s.client.request # "none", NEW b \in BOOLEAN, b => Quiet(s),
         s.client.alone /\ s.client.request = "synchronize" => s.client.todo = {},
         s.client.alone => Passed(s, NoMarks),
         NEW n, Same(s, n),
         \/ s.client.retrieve = <<>> /\ n.client = Idle(s.client.up, s.client.box)
         \/ /\ n.client.command \in {"FETCH", "PREVIEW"} /\ GoesOn(s.client, n.client) /\ Lists(n.client)
            /\ n.client.todo = s.client.todo /\ Wanted(n.client) = Listed(s.client)
  PROVE  Sound(n, b) /\ Ends(s, n)
<1> DEFINE c == s.client
           d == n.client
<1>2. n.server = s.server /\ n.local = s.local /\ n.stored = s.stored
  BY DEF Same
<1>3. b => Sent(n)
  BY <1>2 DEF Quiet, Sent
<1>4. CASE c.retrieve = <<>> /\ d = Idle(c.up, c.box)
  <2>1. Lists(d) /\ d.request = "none" /\ d.command = "none"
    BY <1>4, IdleParts
  <2>2. Typed(n)
    BY <2>1, SameTyped
  <2>3. Fitting(d) /\ Exact(n) /\ Synced(n)
    BY <2>1 DEF Fitting, Exact, Synced, Full
  <2>4. Listed(c) = {}
    <3>1. Len(c.retrieve) = 0
      BY <1>4
    <3> QED
      BY <3>1 DEF Listed
  <2>5. Ends(s, n)
    <3> SUFFICES ASSUME c.request = "synchronize", c.alone, NEW m \in DOMAIN n.server
                 PROVE  m \in DOMAIN n.local /\ \A flag \in Shown : flag \in n.local[m].here <=> flag \in n.server[m]
      BY DEF Ends, Agreed
    <3>1. Settled(s, NoMarks, {}, m)
      BY <1>2, <2>4 DEF Passed
    <3> QED
      BY <1>2, <3>1, NothingLeft
  <2> QED
    BY <1>3, <2>2, <2>3, <2>5 DEF Sound
<1>5. CASE /\ d.command \in {"FETCH", "PREVIEW"} /\ GoesOn(c, d) /\ Lists(d)
           /\ d.todo = c.todo /\ Wanted(d) = Listed(c)
  <2>1. Typed(n)
    BY <1>5, SameTyped
  <2>2. Fitting(d) /\ Exact(n)
    BY <1>5 DEF Fitting, Exact, GoesOn
  <2>3. ASSUME d.alone, d.request = "synchronize", NEW m \in DOMAIN n.server
        PROVE  Settled(n, Owed(d), Wanted(d), m)
    <3>1. Settled(s, NoMarks, Listed(c), m)
      BY <1>2, <1>5, <2>3 DEF Passed, GoesOn
    <3>2. \A k \in Mark : NoMarks[k] = Owed(d)[k]
      BY <1>5, NothingOwed
    <3> QED
      BY <1>2, <1>5, <3>1, <3>2, SettledSame
  <2>4. d.alone => Synced(n)
    BY <1>5, <2>3 DEF Synced, GoesOn
  <2>5. d.request # "none"
    BY <1>5 DEF GoesOn
  <2> QED
    BY <1>3, <2>1, <2>2, <2>4, <2>5 DEF Sound, Ends
<1> QED
  BY <1>4, <1>5

\* The messages are fetched folder by folder.
LEMMA PreviewSound ==
  ASSUME NEW s, Typed(s), s.client.request # "none", NEW b \in BOOLEAN, b => Quiet(s),
         s.client.alone /\ s.client.request = "synchronize" => s.client.todo = {},
         s.client.alone => Passed(s, NoMarks)
  PROVE  LET n == PreviewNext(s)
         IN Same(s, n) /\ Sound(n, b) /\ Ends(s, n)
  BY PreviewGoes, PreviewedSound DEF Typed

\* The request goes on to the next folder, to the previews, or ends.
LEMMA FolderSound ==
  ASSUME NEW s, Typed(s), s.client.request # "none", NEW b \in BOOLEAN, b => Quiet(s),
         s.client.alone => Passed(s, NoMarks)
  PROVE  LET n == ProcessNextFolder(s)
         IN Same(s, n) /\ Sound(n, b) /\ Ends(s, n)
<1> DEFINE n == ProcessNextFolder(s)
           c == s.client
           d == n.client
<1>1. /\ Same(s, n)
      /\ \/ /\ d.command = "SELECT" /\ GoesOn(c, d) /\ Lists(d) /\ d.retrieve = c.retrieve
            /\ d.todo = c.todo \ {d.folder} /\ d.found = NothingFound /\ d.conclusive = TRUE
         \/ c.todo = {} /\ c.retrieve = <<>> /\ d = Idle(c.up, c.box)
         \/ /\ c.todo = {} /\ d.command \in {"FETCH", "PREVIEW"} /\ GoesOn(c, d) /\ Lists(d)
            /\ d.todo = {} /\ Wanted(d) = Listed(c)
  BY FolderGoes DEF Typed
<1> HIDE DEF n
<1>2. n.server = s.server /\ n.local = s.local /\ n.stored = s.stored
  BY <1>1 DEF Same
<1>3. b => Sent(n)
  BY <1>2 DEF Quiet, Sent
<1>4. CASE /\ d.command = "SELECT" /\ GoesOn(c, d) /\ Lists(d) /\ d.retrieve = c.retrieve
           /\ d.todo = c.todo \ {d.folder} /\ d.found = NothingFound /\ d.conclusive = TRUE
  <2>1. Typed(n)
    BY <1>1, <1>4, SameTyped
  <2>2. Fitting(d) /\ Exact(n)
    BY <1>4 DEF Fitting, Exact, GoesOn
  <2>3. ASSUME d.alone, d.request = "synchronize", NEW m \in DOMAIN n.server,
               FolderOf[m] \notin d.todo, FolderOf[m] # d.folder
        PROVE  Settled(n, Owed(d), Wanted(d), m)
    <3>1. Settled(s, NoMarks, Listed(c), m)
      BY <1>2, <1>4, <2>3 DEF Passed, GoesOn
    <3>2. \A k \in Mark : NoMarks[k] = Owed(d)[k]
      BY <1>4, NothingOwed
    <3>3. Wanted(d) = Listed(c)
      BY <1>4 DEF Wanted, Listed
    <3> QED
      BY <1>2, <3>1, <3>2, <3>3, SettledSame
  <2>4. d.alone => Synced(n)
    BY <1>4, <2>3 DEF Synced
  <2>5. d.request # "none"
    BY <1>4 DEF GoesOn
  <2> QED
    BY <1>1, <1>3, <2>1, <2>2, <2>4, <2>5 DEF Sound, Ends, n
<1>5. CASE /\ c.todo = {}
           /\ \/ c.retrieve = <<>> /\ d = Idle(c.up, c.box)
              \/ /\ d.command \in {"FETCH", "PREVIEW"} /\ GoesOn(c, d) /\ Lists(d)
                 /\ d.todo = {} /\ Wanted(d) = Listed(c)
  <2>1. Sound(n, b) /\ Ends(s, n)
    BY <1>1, <1>5, PreviewedSound
  <2> QED
    BY <1>1, <2>1 DEF n
<1> QED
  BY <1>1, <1>4, <1>5

-----------------------------------------------------------------------------
(* What is exported is noted *)

\* What MarkElsewhere changes.
LEMMA ElsewhereFlags ==
  ASSUME NEW l, Rows(l), NEW f, NEW marks, NEW m \in DOMAIN l, NEW flag,
         ~(flag \in MarkElsewhere(l, f, marks)[m].elsewhere <=> flag \in l[m].elsewhere)
  PROVE  \E j \in Mark : /\ m \in marks[j] /\ Marked(j) = flag
                         /\ flag \in MarkElsewhere(l, f, marks)[m].elsewhere <=> Sets(j)
<1> DEFINE on == {Marked(k) : k \in {j \in Mark : Sets(j) /\ m \in marks[j]}}
           off == {Marked(k) : k \in {j \in Mark : ~Sets(j) /\ m \in marks[j]}}
           E == (l[m].elsewhere \cup on) \ off
           n == MarkElsewhere(l, f, marks)
<1>1. n[m] = IF FolderOf[m] # f THEN l[m] ELSE [l[m] EXCEPT !.elsewhere = E]
  BY DEF MarkElsewhere
<1> HIDE DEF on, off, n
<1>2. n[m].elsewhere = l[m].elsewhere \/ n[m].elsewhere = (l[m].elsewhere \cup on) \ off
  BY <1>1 DEF Rows, Has
<1>3. flag \in n[m].elsewhere /\ flag \notin l[m].elsewhere => flag \in on
  BY <1>2
<1>4. flag \notin n[m].elsewhere /\ flag \in l[m].elsewhere => flag \in off
  BY <1>2
<1>5. (flag \in n[m].elsewhere /\ flag \notin l[m].elsewhere) \/ (flag \notin n[m].elsewhere /\ flag \in l[m].elsewhere)
  BY DEF n
<1> QED
  BY <1>3, <1>4, <1>5 DEF on, off, n

\* What the _stored lists hold has been done at the server.
Told(s) ==
  \A q \in Exporting, k \in Mark : s.stored[q].marks[k] # {} =>
    /\ q = s.client.request
    /\ \A m \in s.stored[q].marks[k] \cap DOMAIN s.server : Marked(k) \in s.server[m] <=> Sets(k)

\* To enter it as the server's state is right.
LEMMA NotedHolds ==
  ASSUME NEW s, Formed(s), s.client.request \in Exporting, Told(s),
         NEW n, n.server = s.server,
         n.local = MarkElsewhere(s.local, s.client.folder, s.stored[s.client.request].marks)
  PROVE  Holds(s, n)
<1> DEFINE marks == s.stored[s.client.request].marks
           l == MarkElsewhere(s.local, s.client.folder, marks)
<1>0. Rows(s.local)
  BY DEF Formed
<1>5. n.local = l
  OBVIOUS
<1>6. l = MarkElsewhere(s.local, s.client.folder, marks)
  OBVIOUS
<1> HIDE DEF l, marks
<1>1. DOMAIN l = DOMAIN s.local /\ \A m \in DOMAIN s.local : l[m].here = s.local[m].here
  BY <1>0, <1>6, ElsewhereRows
<1> SUFFICES ASSUME NEW m \in DOMAIN n.server \cap DOMAIN n.local, NEW flag \in Shown,
                    Pending(s.local, m, flag), ~Pending(n.local, m, flag)
             PROVE  flag \in n.local[m].here <=> flag \in n.server[m]
  BY DEF Holds
<1>2. m \in DOMAIN s.local /\ ~(flag \in l[m].elsewhere <=> flag \in s.local[m].elsewhere)
      /\ (flag \in l[m].here <=> flag \in l[m].elsewhere)
  BY <1>1, <1>5 DEF Pending
<1>3. PICK j \in Mark : m \in marks[j] /\ Marked(j) = flag /\ (flag \in l[m].elsewhere <=> Sets(j))
  BY <1>0, <1>2, <1>6, ElsewhereFlags
<1>4. flag \in s.server[m] <=> Sets(j)
  BY <1>3 DEF Told, marks
<1> QED
  BY <1>2, <1>3, <1>4, <1>5

\* What is settled stays so while the flags of the user stay.
LEMMA SettledNoted ==
  ASSUME NEW s, NEW n, Noted(s, n), NEW O, NEW P, \A k \in Mark : O[k] = P[k], NEW W, NEW m, Settled(s, O, W, m)
  PROVE  Settled(n, P, W, m)
  BY DEF Settled, Noted

\* handleUidStore: what has been stored is noted, and the request goes on to the
\* next export, folder or preview, or ends.
LEMMA StoreSound ==
  ASSUME NEW s, Typed(s), s.client.request # "none", NEW b \in BOOLEAN, b => Told(s),
         s.client.alone => Passed(s, s.client.marks)
  PROVE  LET n == HandleUidStore(s)
         IN n.server = s.server /\ Sound(n, b) /\ Ends(s, n) /\ (b => Holds(s, n))
<1> DEFINE n == HandleUidStore(s)
           r == s.client.request
<1>0. Formed(s) /\ Lists(s.client) /\ \A m \in DOMAIN s.local : s.local[m].here \subseteq Shown
  BY DEF Typed
<1>1. CASE r \notin Exporting
  <2>1. n = ProcessNextFolder(s)
    BY <1>1 DEF HandleUidStore
  <2>2. b => Quiet(s)
    BY <1>1 DEF Told, Quiet
  <2>3. Passed(s, NoMarks)
    BY <1>1 DEF Passed, Exporting
  <2>4. Same(s, n) /\ Sound(n, b) /\ Ends(s, n)
    BY <2>1, <2>2, <2>3, FolderSound
  <2> HIDE DEF n
  <2>5. Holds(s, n)
    BY <2>4 DEF Same, Holds
  <2> QED
    BY <2>4, <2>5 DEF Same, n
<1>2. CASE r \in Exporting
  <2> DEFINE l == MarkElsewhere(s.local, s.client.folder, s.stored[r].marks)
             left == {k \in Mark : s.client.marks[k] # {}}
             k == Min(left)
             st == [s.stored EXCEPT ![r].marks = NoMarks]
             st1 == [s.stored EXCEPT ![r].marks = [NoMarks EXCEPT ![k] = s.client.marks[k]]]
             c1 == [s.client EXCEPT !.marks[k] = {}, !.sending = <<k, s.client.marks[k]>>, !.command = "STORE"]
             n1 == [s EXCEPT !.local = l, !.stored = st1, !.client = c1, !.records = s.records]
             st2 == [s.stored EXCEPT ![r].marks = NoMarks, ![r].removed = @ \cup s.client.removed]
             c2 == [s.client EXCEPT !.removed = {}, !.sending = <<Deleted, s.client.removed>>, !.command = "STORE"]
             n2 == [s EXCEPT !.local = l, !.stored = st2, !.client = c2, !.records = s.records]
             c3 == [s.client EXCEPT !.command = "EXPUNGE"]
             n3 == [s EXCEPT !.local = l, !.stored = st, !.client = c3, !.records = s.records]
             st4 == [s.stored EXCEPT ![r].marks = NoMarks, ![r].removed = {}]
             n4 == [s EXCEPT !.local = l, !.stored = st4, !.client = s.client, !.records = s.records \ s.stored[r].removed]
  <2>0. /\ Has(s, {"server", "local", "records", "client", "stored", "reports"}) /\ Has(s.stored, Exporting)
        /\ Has(s.stored[r], {"marks", "removed"}) /\ Members(s.client)
        /\ \A q \in Exporting : Has(s.stored[q], {"marks", "removed"})
    BY <1>0, <1>2 DEF Formed
  <2>1. \/ left # {} /\ n = n1
        \/ left = {} /\ CanDelete /\ s.client.removed # {} /\ n = n2
        \/ left = {} /\ n = n3
        \/ left = {} /\ ~(CanDelete /\ s.client.removed # {}) /\ ~(CanDelete /\ s.client.expunge) /\ n = ProcessNextFolder(n4)
    BY <1>0, <1>2, Zenon, StoreCases
  <2>2. Rows(l) /\ DOMAIN l = DOMAIN s.local /\ \A m \in DOMAIN s.local : l[m].here = s.local[m].here
    BY <1>0, ElsewhereRows DEF Formed
  <2>3. \A j \in Mark : NoMarks[j] = {}
    BY DEF NoMarks
  <2>4. /\ Has(st, Exporting) /\ \A q \in Exporting : Has(st[q], {"marks", "removed"})
        /\ st[r].marks = NoMarks /\ \A q \in Exporting \ {r} : st[q] = s.stored[q]
    BY <1>2, <2>0 DEF Has
  <2>5. /\ Has(st2, Exporting) /\ \A q \in Exporting : Has(st2[q], {"marks", "removed"})
        /\ st2[r].marks = NoMarks /\ \A q \in Exporting \ {r} : st2[q] = s.stored[q]
    BY <1>2, <2>0 DEF Has
  <2>6. /\ Has(st4, Exporting) /\ \A q \in Exporting : Has(st4[q], {"marks", "removed"})
        /\ st4[r].marks = NoMarks /\ \A q \in Exporting \ {r} : st4[q] = s.stored[q]
    BY <1>2, <2>0 DEF Has
  <2>7. left # {} => k \in Mark
    <3>1. left \subseteq 1 .. 4
      BY DEF Mark
    <3> HIDE DEF left
    <3> QED
      BY <3>1, MinMark DEF Mark
  <2>8. k \in Mark =>
          /\ Has(st1, Exporting) /\ \A q \in Exporting : Has(st1[q], {"marks", "removed"})
          /\ \A q \in Exporting \ {r} : st1[q] = s.stored[q]
          /\ st1[r].marks[k] = s.client.marks[k] /\ \A j \in Mark \ {k} : st1[r].marks[j] = {}
    <3> HIDE DEF k
    <3> DEFINE N == [NoMarks EXCEPT ![k] = s.client.marks[k]]
    <3>1. k \in Mark => N[k] = s.client.marks[k] /\ \A j \in Mark \ {k} : N[j] = {}
      BY DEF NoMarks
    <3> HIDE DEF N
    <3>2. /\ Has(st1, Exporting) /\ \A q \in Exporting : Has(st1[q], {"marks", "removed"})
          /\ \A q \in Exporting \ {r} : st1[q] = s.stored[q]
          /\ st1[r].marks = N
      <4>1. st1 = [s.stored EXCEPT ![r].marks = N]
        BY DEF N
      <4> HIDE DEF st1
      <4> QED
        BY <1>2, <2>0, <4>1 DEF Has
    <3> QED
      BY <3>1, <3>2
  <2>9. /\ Members(c1) /\ c1.command = "STORE" /\ c1.sending[1] = k /\ c1.sending[2] = s.client.marks[k]
        /\ c1.sending = <<k, s.client.marks[k]>> /\ GoesOn(s.client, c1) /\ c1.todo = s.client.todo
        /\ c1.retrieve = s.client.retrieve /\ c1.marks = [s.client.marks EXCEPT ![k] = {}]
    <3> HIDE DEF k, left
    <3> QED
      BY <2>0 DEF Members, Has, GoesOn
  <2>10. /\ Members(c2) /\ c2.command = "STORE" /\ c2.sending[1] = Deleted /\ GoesOn(s.client, c2)
         /\ c2.marks = s.client.marks /\ c2.todo = s.client.todo /\ c2.retrieve = s.client.retrieve
    BY <2>0 DEF Members, Has, GoesOn
  <2>11. /\ Members(c3) /\ c3.command = "EXPUNGE" /\ GoesOn(s.client, c3)
         /\ c3.marks = s.client.marks /\ c3.todo = s.client.todo /\ c3.retrieve = s.client.retrieve
    BY <2>0 DEF Members, Has, GoesOn
  <2>12. /\ k \in Mark => \A j \in Mark : c1.marks[j] = IF j = k THEN {} ELSE s.client.marks[j]
         /\ DOMAIN c1.marks = Mark
    <3> HIDE DEF k, c1
    <3> QED
      BY <1>0, <2>9 DEF Lists
  <2>13. left = {} => \A j \in Mark : s.client.marks[j] = {}
    OBVIOUS
  <2> HIDE DEF l, st, st1, st2, st4, c1, c2, c3, k, left, n
  <2>14. /\ Noted(s, n2) /\ n2.client = c2 /\ n2.stored = st2 /\ n2.local = l
    <3>1. /\ Has(n2, {"server", "local", "records", "client", "stored", "reports"})
          /\ n2.client = c2 /\ n2.stored = st2 /\ n2.local = l /\ n2.server = s.server /\ n2.reports = s.reports
      BY <2>0 DEF Has
    <3> HIDE DEF n2
    <3> QED
      BY <1>0, <2>2, <2>5, <2>10, <3>1, NotedParts
  <2>15. /\ Noted(s, n3) /\ n3.client = c3 /\ n3.stored = st /\ n3.local = l
    <3>1. /\ Has(n3, {"server", "local", "records", "client", "stored", "reports"})
          /\ n3.client = c3 /\ n3.stored = st /\ n3.local = l /\ n3.server = s.server /\ n3.reports = s.reports
      BY <2>0 DEF Has
    <3> HIDE DEF n3
    <3> QED
      BY <1>0, <2>2, <2>4, <2>11, <3>1, NotedParts
  <2>16. /\ Noted(s, n4) /\ n4.client = s.client /\ n4.stored = st4 /\ n4.local = l
    <3>1. /\ Has(n4, {"server", "local", "records", "client", "stored", "reports"})
          /\ n4.client = s.client /\ n4.stored = st4 /\ n4.local = l /\ n4.server = s.server /\ n4.reports = s.reports
      BY <2>0 DEF Has
    <3> HIDE DEF n4
    <3> QED
      BY <1>0, <2>0, <2>2, <2>6, <3>1, NotedParts
  <2>17. k \in Mark => Noted(s, n1) /\ n1.client = c1 /\ n1.stored = st1 /\ n1.local = l
    <3>1. /\ Has(n1, {"server", "local", "records", "client", "stored", "reports"})
          /\ n1.client = c1 /\ n1.stored = st1 /\ n1.local = l /\ n1.server = s.server /\ n1.reports = s.reports
      BY <2>0 DEF Has
    <3> HIDE DEF n1
    <3> QED
      BY <1>0, <2>2, <2>8, <2>9, <3>1, NotedParts
  <2> HIDE DEF n1, n2, n3, n4
  <2>18. ASSUME NEW w, Noted(s, w), Lists(w.client)
         PROVE  Typed(w)
    BY <1>0, <2>18 DEF Typed, Noted
  <2>19. ASSUME NEW w, w.server = s.server, w.local = l, b
         PROVE  Holds(s, w)
    BY <1>0, <1>2, <2>19, NotedHolds DEF l
  <2>20. \A q \in Exporting \ {r}, j \in Mark : b => s.stored[q].marks[j] = {}
    BY DEF Told
  <2>21. ASSUME NEW w, Noted(s, w), w.local = l, Lists(w.client), GoesOn(s.client, w.client),
                w.client.todo = s.client.todo, w.client.retrieve = s.client.retrieve,
                w.client.command \in {"STORE", "EXPUNGE"}, b => Sent(w),
                w.client.command = "STORE" => w.client.sending[1] \in Mark \cup {Deleted},
                \A j \in Mark : s.client.marks[j] = Owed(w.client)[j]
         PROVE  w.server = s.server /\ Sound(w, b) /\ Ends(s, w) /\ (b => Holds(s, w))
    <3>1. Typed(w)
      BY <2>18, <2>21
    <3>2. Fitting(w.client) /\ Exact(w) /\ w.client.request # "none"
      BY <2>21 DEF Fitting, Exact, GoesOn
    <3>3. w.client.alone => Synced(w)
      <4> SUFFICES ASSUME w.client.alone, w.client.request = "synchronize", NEW m \in DOMAIN w.server,
                          FolderOf[m] \notin w.client.todo
                   PROVE  Settled(w, Owed(w.client), Wanted(w.client), m)
        BY <2>21 DEF Synced
      <4>1. Settled(s, s.client.marks, Listed(s.client), m)
        BY <2>21 DEF Passed, GoesOn, Noted
      <4>2. Wanted(w.client) = Listed(s.client)
        BY <2>21 DEF Wanted, Listed
      <4> QED
        BY <2>21, <4>1, <4>2, SettledNoted
    <3> QED
      BY <2>19, <2>21, <3>1, <3>2, <3>3 DEF Sound, Ends, Noted
  <2> SUFFICES n.server = s.server /\ Sound(n, b) /\ Ends(s, n) /\ (b => Holds(s, n))
    BY DEF n
  <2>22. CASE left # {} /\ n = n1
    <3>1. Lists(c1)
      BY <1>0, <2>9, <2>12 DEF Lists
    <3>2. \A j \in Mark : s.client.marks[j] = Owed(c1)[j]
      BY <2>7, <2>9, <2>12, <2>22 DEF Owed
    <3>3. b => Sent(n)
      BY <1>2, <2>7, <2>8, <2>9, <2>17, <2>20, <2>22 DEF Sent, GoesOn
    <3> QED
      BY <2>7, <2>9, <2>17, <2>21, <2>22, <3>1, <3>2, <3>3
  <2>23. CASE left = {} /\ CanDelete /\ s.client.removed # {} /\ n = n2
    <3>1. Lists(c2)
      BY <1>0, <2>10 DEF Lists
    <3>2. \A j \in Mark : s.client.marks[j] = Owed(c2)[j]
      BY <2>10 DEF Owed, Deleted, Mark
    <3>3. b => Sent(n)
      BY <2>3, <2>5, <2>14, <2>20, <2>23 DEF Sent
    <3> QED
      BY <2>10, <2>14, <2>21, <2>23, <3>1, <3>2, <3>3
  <2>24. CASE left = {} /\ n = n3
    <3>1. Lists(c3)
      BY <1>0, <2>11 DEF Lists
    <3>2. \A j \in Mark : s.client.marks[j] = Owed(c3)[j]
      BY <2>11, <2>13, <2>24 DEF Owed
    <3>3. b => Sent(n)
      BY <2>3, <2>4, <2>15, <2>20, <2>24 DEF Sent
    <3> QED
      BY <2>11, <2>15, <2>21, <2>24, <3>1, <3>2, <3>3
  <2>25. CASE left = {} /\ n = ProcessNextFolder(n4)
    <3>1. Typed(n4)
      BY <1>0, <2>16, <2>18
    <3>2. b => Quiet(n4)
      BY <2>3, <2>6, <2>16, <2>20 DEF Quiet
    <3>3. n4.client.alone => Passed(n4, NoMarks)
      <4> SUFFICES ASSUME s.client.alone, s.client.request = "synchronize", NEW m \in DOMAIN n4.server,
                          FolderOf[m] \notin s.client.todo
                   PROVE  Settled(n4, NoMarks, Listed(s.client), m)
        BY <2>16 DEF Passed
      <4>1. Settled(s, s.client.marks, Listed(s.client), m)
        BY <2>16 DEF Passed, Noted
      <4>2. \A j \in Mark : s.client.marks[j] = NoMarks[j]
        BY <2>3, <2>13, <2>25
      <4> QED
        BY <2>16, <4>1, <4>2, SettledNoted
    <3>4. Same(n4, n) /\ Sound(n, b) /\ Ends(n4, n)
      BY <2>16, <2>25, <3>1, <3>2, <3>3, FolderSound
    <3>5. n.server = s.server /\ n.local = l
      BY <2>16, <3>4 DEF Same, Noted
    <3>6. Ends(s, n)
      BY <2>16, <3>4 DEF Ends
    <3> QED
      BY <2>19, <3>4, <3>5, <3>6
  <2> QED
    BY <2>1, <2>22, <2>23, <2>24, <2>25
<1> QED
  BY <1>1, <1>2

-----------------------------------------------------------------------------
(* The results are processed *)

\* A folder is added to the list.
LEMMA OneMoreListed ==
  ASSUME NEW c, NEW T, c.retrieve \in Seq(T), NEW e,
         NEW d, d.retrieve = Append(c.retrieve, e)
  PROVE  /\ d.retrieve \in Seq(T \cup {e})
         /\ Listed(d) = Listed(c) \cup e[2]
<1> DEFINE r == c.retrieve
           t == d.retrieve
<1>0. r \in Seq(T \cup {e})
  OBVIOUS
<1>1. /\ t \in Seq(T \cup {e}) /\ Len(r) \in Nat /\ Len(t) = Len(r) + 1
      /\ \A i \in 1 .. Len(r) : t[i] = r[i]
      /\ t[Len(r) + 1] = e
  BY <1>0
<1> HIDE DEF r, t
<1>2. ASSUME NEW x
      PROVE  (\E i \in 1 .. Len(t) : x \in t[i][2]) <=> ((\E i \in 1 .. Len(r) : x \in r[i][2]) \/ x \in e[2])
  <2>1. ASSUME NEW i \in 1 .. Len(t), x \in t[i][2]
        PROVE  (\E j \in 1 .. Len(r) : x \in r[j][2]) \/ x \in e[2]
    <3>1. CASE i = Len(r) + 1
      BY <1>1, <2>1, <3>1
    <3>2. CASE i # Len(r) + 1
      <4>1. i \in 1 .. Len(r)
        BY <1>1, <3>2
      <4> QED
        BY <1>1, <2>1, <4>1
    <3> QED
      BY <3>1, <3>2
  <2>2. ASSUME NEW i \in 1 .. Len(r), x \in r[i][2]
        PROVE  \E j \in 1 .. Len(t) : x \in t[j][2]
    <3>1. i \in 1 .. Len(t)
      BY <1>1
    <3> QED
      BY <1>1, <2>2, <3>1
  <2>3. ASSUME x \in e[2]
        PROVE  \E j \in 1 .. Len(t) : x \in t[j][2]
    <3>1. Len(r) + 1 \in 1 .. Len(t)
      BY <1>1
    <3> QED
      BY <1>1, <2>3, <3>1
  <2> QED
    BY <2>1, <2>2, <2>3
<1>3. \A x : x \in Listed(d) <=> \E i \in 1 .. Len(t) : x \in t[i][2]
  BY DEF Listed, t
<1>4. \A x : x \in Listed(c) <=> \E i \in 1 .. Len(r) : x \in r[i][2]
  BY DEF Listed, r
<1>5. \A x : x \in Listed(d) <=> x \in Listed(c) \cup e[2]
  BY <1>2, <1>3, <1>4
<1> QED
  BY <1>1, <1>5 DEF t

\* The members that a search leaves alone.
Stays(c, d) ==
  /\ GoesOn(c, d) /\ d.todo = c.todo /\ d.retrieve = c.retrieve /\ d.marks = c.marks
  /\ d.folder = c.folder /\ d.box = c.box

\* What is to be exported is set, and the rest stays.
LEMMA DueGoes ==
  ASSUME NEW u, Formed(u), NEW removed, NEW expunge, NEW marks
  PROVE  LET v == Due(u, removed, expunge, marks)
         IN /\ Same(u, v) /\ v.client.marks = marks /\ GoesOn(u.client, v.client)
            /\ v.client.todo = u.client.todo /\ v.client.retrieve = u.client.retrieve
            /\ v.client.folder = u.client.folder
<1> DEFINE v == Due(u, removed, expunge, marks)
           c == [u.client EXCEPT !.removed = removed, !.expunge = expunge, !.marks = marks]
<1>1. v = [u EXCEPT !.client = c]
  BY DEF Formed, Has, Due
<1>2. /\ Members(c) /\ c.marks = marks /\ GoesOn(u.client, c) /\ c.todo = u.client.todo
      /\ c.retrieve = u.client.retrieve /\ c.folder = u.client.folder
  BY DEF Formed, Members, Has, GoesOn
<1> HIDE DEF c, v
<1>3. Same(u, v) /\ v.client = c
  BY <1>1, <1>2, ClientSet
<1> QED
  BY <1>2, <1>3 DEF v

\* A search goes on.
LEMMA WithStays ==
  ASSUME NEW s, Formed(s), NEW F, Has(F, {"seen", "unseen", "flagged"}), NEW b, NEW x
  PROVE  LET n == With(s, F, b, x)
         IN /\ Same(s, n) /\ Stays(s.client, n.client)
            /\ n.client.found = F /\ n.client.conclusive = b /\ n.client.command = x
<1> DEFINE c == [s.client EXCEPT !.found = F, !.conclusive = b, !.command = x]
           n == With(s, F, b, x)
<1>1. n = [s EXCEPT !.client = c]
  BY DEF With
<1>2. Members(c) /\ Stays(s.client, c) /\ c.found = F /\ c.conclusive = b /\ c.command = x
  BY DEF Formed, Members, Has, Stays, GoesOn
<1> HIDE DEF c, n
<1>3. Same(s, n) /\ n.client = c
  BY <1>1, <1>2, ClientSet
<1> QED
  BY <1>2, <1>3 DEF n

\* A command is sent.
LEMMA SendStays ==
  ASSUME NEW s, Formed(s), NEW x
  PROVE  LET n == Send(s, x)
         IN /\ Same(s, n) /\ Stays(s.client, n.client)
            /\ n.client.found = s.client.found /\ n.client.conclusive = s.client.conclusive
            /\ n.client.command = x
<1>1. Has(s.client.found, {"seen", "unseen", "flagged"})
  BY DEF Formed, Members
<1>2. Send(s, x) = With(s, s.client.found, s.client.conclusive, x)
  BY DEF Send, With, Formed, Members, Has
<1> QED
  BY <1>1, <1>2, WithStays

FlaggedThere(s) == {m \in In(s.client.box, DOMAIN s.server) : "flagged" \in s.server[m]}

\* The search has found what the selected mailbox holds.
Certain(s) ==
  LET c == s.client
  IN /\ c.conclusive = TRUE /\ c.box = c.folder
     /\ c.found.seen = ReadThere(s) /\ c.found.unseen = UnreadThere(s) /\ c.found.flagged = FlaggedThere(s)

\* The messages of the other folders that the synchronization is through with are
\* settled.
OthersPassed(s) ==
  s.client.request = "synchronize" =>
    \A m \in DOMAIN s.server : \/ FolderOf[m] \in s.client.todo \/ FolderOf[m] = s.client.folder
                               \/ Settled(s, NoMarks, Listed(s.client), m)

\* The list of the changes to export, for the messages of folder f.
Out(found) == [k \in Mark |->
  CASE k = 1 -> found.unseen [] k = 2 -> found.seen
    [] k = 3 -> (found.seen \cup found.unseen) \ found.flagged [] OTHER -> found.flagged]

\* A message the searches have found is settled, or its changes are listed.
LEMMA FoundSettled ==
  ASSUME NEW u, NEW v, v.local = u.local, v.server = u.server, NEW f, NEW found,
         NEW m \in DOMAIN u.local, FolderOf[m] = f, m \in found.seen \cup found.unseen,
         NEW flag \in Shown,
         ~u.local[m].removed,
         flag \in u.server[m] <=> m \in (IF flag = "seen" THEN found.seen ELSE found.flagged),
         flag \in u.local[m].elsewhere <=> flag \in u.server[m]
  PROVE  \/ flag \in v.local[m].here <=> flag \in v.server[m]
         \/ \E k \in Mark : Marked(k) = flag /\ m \in In(f, ChangedHere(u.local, k)) \cap Out(found)[k]
<1> DEFINE k == IF flag = "seen" THEN IF "seen" \in u.local[m].here THEN 1 ELSE 2
                ELSE IF "flagged" \in u.local[m].here THEN 3 ELSE 4
<1> SUFFICES ASSUME ~(flag \in u.local[m].here <=> flag \in u.local[m].elsewhere)
             PROVE  k \in Mark /\ Marked(k) = flag /\ m \in In(f, ChangedHere(u.local, k)) /\ m \in Out(found)[k]
  OBVIOUS
<1>1. flag = "seen" \/ flag = "flagged"
  BY DEF Shown
<1>2. k \in Mark /\ Marked(k) = flag /\ (Sets(k) <=> flag \in u.local[m].here)
  BY <1>1 DEF Mark, Marked, Sets, Deleted
<1>3. m \in In(f, ChangedHere(u.local, k))
  <2>1. (Marked(k) \in u.local[m].here) = Sets(k) /\ (Marked(k) \in u.local[m].elsewhere) # Sets(k)
    BY <1>2 DEF Sets
  <2> HIDE DEF k
  <2> QED
    BY <2>1 DEF In, ChangedHere
<1>4. m \in Out(found)[k]
  BY <1>1 DEF Out, Mark
<1> QED
  BY <1>2, <1>3, <1>4

\* processUidSearchResults of the full synchronization: what it does not know is
\* fetched, and what is still to be exported is listed.
LEMMA ResultsSound ==
  ASSUME NEW s, Typed(s), Full(s.client), NEW b \in BOOLEAN, b => Quiet(s),
         b \/ s.client.alone => Certain(s),
         s.client.alone => OthersPassed(s)
  PROVE  LET n == ProcessUidSearchResults(s)
         IN n.server = s.server /\ Sound(n, b) /\ Ends(s, n) /\ (b => Holds(s, n))
<1> DEFINE f == s.client.folder
           found == s.client.found
           reported == found.seen \cup found.unseen
           rows == In(f, DOMAIN s.local)
           new == reported \ rows
           list == IF new = {} THEN s.client.retrieve ELSE Append(s.client.retrieve, <<f, new>>)
           t == [s EXCEPT !.client.retrieve = list]
           u == UpdateMessagesMetaData(t, f, rows, found)
           removed == In(f, s.records) \cap reported
           expunge == (removed # {})
           marks == [k \in Mark |-> In(f, ChangedHere(u.local, k)) \cap Out(found)[k]]
           v == Due(u, removed, expunge, marks)
           c == [s.client EXCEPT !.retrieve = list]
           n == ProcessUidSearchResults(s)
<1>0. Formed(s) /\ Lists(s.client) /\ s.client.request # "none"
  BY DEF Typed, Full
<1>1. n = IF ~s.client.conclusive THEN ProcessNextFolder(t) ELSE HandleUidStore(v)
  <2> DEFINE out(k) == CASE k = 1 -> found.unseen [] k = 2 -> found.seen
                         [] k = 3 -> reported \ found.flagged [] OTHER -> found.flagged
             marked == [k \in Mark |-> In(f, ChangedHere(u.local, k)) \cap out(k)]
  <2>1. n = IF ~s.client.conclusive THEN ProcessNextFolder(t) ELSE HandleUidStore(Due(u, removed, expunge, marked))
    BY DEF ProcessUidSearchResults, Due
  <2>2. \A k \in Mark : Out(found)[k] = out(k)
    BY Zenon DEF Out
  <2> HIDE DEF out, u, found, f, removed, expunge, n, t
  <2>3. marked = marks
    BY <2>2
  <2> QED
    BY <2>1, <2>3
<1>2. /\ Same(s, t) /\ t.client = c /\ GoesOn(s.client, c) /\ c.marks = s.client.marks /\ c.todo = s.client.todo
      /\ c.retrieve = list
  <2> HIDE DEF list
  <2>1. t = [s EXCEPT !.client = c]
    BY <1>0 DEF Formed, Has
  <2>2. /\ Members(c) /\ GoesOn(s.client, c) /\ c.marks = s.client.marks /\ c.todo = s.client.todo
        /\ c.retrieve = list
    BY <1>0 DEF Formed, Members, Has, GoesOn
  <2> HIDE DEF t, c
  <2>3. Same(s, t) /\ t.client = c
    BY <1>0, <2>1, <2>2, ClientSet
  <2> QED
    BY <2>2, <2>3
<1>3. (\E T : list \in Seq(T)) /\ Listed(c) = Listed(s.client) \cup new
  <2>1. PICK T : s.client.retrieve \in Seq(T)
    BY <1>0 DEF Lists
  <2>2. CASE new = {}
    BY <1>2, <2>1, <2>2 DEF Listed
  <2>3. CASE new # {}
    <3> DEFINE e == <<f, new>>
    <3>1. e[2] = new /\ c.retrieve = Append(s.client.retrieve, e)
      BY <1>2, <2>3
    <3> HIDE DEF e, c, list
    <3>2. c.retrieve \in Seq(T \cup {e}) /\ Listed(c) = Listed(s.client) \cup e[2]
      BY <2>1, <3>1, OneMoreListed
    <3> QED
      BY <1>2, <3>1, <3>2
  <2> QED
    BY <2>2, <2>3
<1>4. Lists(c)
  BY <1>0, <1>2, <1>3 DEF Lists
<1> HIDE DEF list, c, n, t
<1> SUFFICES n.server = s.server /\ Sound(n, b) /\ Ends(s, n) /\ (b => Holds(s, n))
  BY DEF n
<1>5. CASE ~s.client.conclusive
  <2>1. ~b /\ ~s.client.alone
    BY <1>5 DEF Certain
  <2>2. Typed(t) /\ t.client.request # "none" /\ ~t.client.alone
    BY <1>0, <1>2, <1>4, <2>1, SameTyped DEF GoesOn
  <2>3. n = ProcessNextFolder(t)
    BY <1>1, <1>5
  <2>4. Same(t, n) /\ Sound(n, b)
    BY <2>1, <2>2, <2>3, FolderSound
  <2> QED
    BY <1>2, <2>1, <2>4 DEF Same, Ends
<1>6. CASE s.client.conclusive
  <2> DEFINE gone == rows \ reported
  <2>1. Formed(t) /\ t.local = s.local /\ t.server = s.server /\ t.stored = s.stored /\ t.records = s.records
    BY <1>2 DEF Same
  <2>2. /\ Formed(u) /\ u.server = s.server /\ u.client = c /\ u.stored = s.stored
        /\ DOMAIN u.local = DOMAIN s.local \ gone
        /\ \A m \in DOMAIN u.local :
             /\ u.local[m].here \subseteq s.local[m].here \cup Shown
             /\ m \notin found.seen \cup found.unseen \cup found.flagged =>
                  u.local[m].here = s.local[m].here /\ u.local[m].elsewhere = s.local[m].elsewhere
             /\ m \in found.seen \cup found.unseen /\ m \notin found.seen \cap found.unseen /\ FolderOf[m] = f =>
                  /\ ~u.local[m].removed
                  /\ "seen" \in u.local[m].elsewhere <=> m \in found.seen
                  /\ "flagged" \in u.local[m].elsewhere <=> m \in found.flagged
             /\ \A flag \in Shown :
                  \/ /\ flag \in u.local[m].here <=> flag \in s.local[m].here
                     /\ flag \in u.local[m].elsewhere <=> flag \in s.local[m].elsewhere
                  \/ flag \in u.local[m].here <=> flag \in u.local[m].elsewhere
    <3> HIDE DEF rows, found, f
    <3>1. Imported(t, u, f, rows, found)
      BY <2>1, MetaDataRows
    <3>2. gone = rows \ (found.seen \cup found.unseen)
      OBVIOUS
    <3>3. DOMAIN u.local = DOMAIN t.local \ gone
      BY <3>1, <3>2 DEF Imported
    <3> HIDE DEF u, gone
    <3>4. Formed(u) /\ u.server = t.server /\ u.client = t.client /\ u.stored = t.stored
      BY <3>1 DEF Imported
    <3>5. \A m \in DOMAIN u.local :
            /\ u.local[m].here \subseteq t.local[m].here \cup Shown
            /\ \A flag \in Shown :
                 \/ /\ flag \in u.local[m].here <=> flag \in t.local[m].here
                    /\ flag \in u.local[m].elsewhere <=> flag \in t.local[m].elsewhere
                 \/ flag \in u.local[m].here <=> flag \in u.local[m].elsewhere
      BY <3>1 DEF Imported, Shown
    <3>6. \A m \in DOMAIN u.local :
            /\ m \notin found.seen \cup found.unseen \cup found.flagged =>
                 u.local[m].here = t.local[m].here /\ u.local[m].elsewhere = t.local[m].elsewhere
            /\ m \in found.seen \cup found.unseen /\ m \notin found.seen \cap found.unseen /\ FolderOf[m] = f =>
                 /\ ~u.local[m].removed
                 /\ "seen" \in u.local[m].elsewhere <=> m \in found.seen
                 /\ "flagged" \in u.local[m].elsewhere <=> m \in found.flagged
      BY <3>1 DEF Imported
    <3>7. t.client = c
      BY <1>2
    <3> HIDE DEF t, c
    <3> QED
      BY <2>1, <3>3, <3>4, <3>5, <3>6, <3>7, Zenon
  <2>3. \A k \in Mark : marks[k] = In(f, ChangedHere(u.local, k)) \cap Out(found)[k]
    OBVIOUS
  <2>4. DOMAIN marks = Mark
    OBVIOUS
  <2> HIDE DEF u, marks, removed
  <2>5. /\ Same(u, v) /\ v.client.marks = marks /\ GoesOn(u.client, v.client)
        /\ v.client.todo = u.client.todo /\ v.client.retrieve = u.client.retrieve
    <3>1. Formed(u)
      BY <2>2
    <3> QED
      BY <3>1, DueGoes
  <2> HIDE DEF v
  <2>6. Formed(v) /\ v.server = s.server /\ v.stored = s.stored /\ v.local = u.local
    BY <2>2, <2>5 DEF Same
  <2>7. GoesOn(s.client, v.client) /\ v.client.todo = s.client.todo /\ v.client.retrieve = c.retrieve
    BY <1>2, <2>2, <2>5 DEF GoesOn
  <2>8. Listed(v.client) = Listed(s.client) \cup new
    BY <1>3, <2>7 DEF Listed
  <2>9. Lists(v.client)
    BY <1>4, <2>4, <2>5, <2>7 DEF Lists
  <2>10. \A m \in DOMAIN u.local : u.local[m].here \subseteq Shown
    BY <2>2 DEF Typed
  <2>11. Typed(v)
    BY <2>6, <2>9, <2>10 DEF Typed
  <2>12. b => Told(v)
    BY <2>6 DEF Quiet, Told
  <2>13. Certain(s) => /\ reported = In(f, DOMAIN s.server) /\ found.seen \cap found.unseen = {}
                       /\ found.flagged \subseteq reported
                       /\ \A m \in reported : \A flag \in Shown :
                            flag \in s.server[m] <=> m \in (IF flag = "seen" THEN found.seen ELSE found.flagged)
    BY DEF Certain, ReadThere, UnreadThere, FlaggedThere, Shown, In
  <2>14. \A m : m \in rows <=> m \in DOMAIN s.local /\ FolderOf[m] = f
    BY DEF In
  <2>15. \A m : m \in In(f, DOMAIN s.server) <=> m \in DOMAIN s.server /\ FolderOf[m] = f
    BY DEF In
  <2>16. \A m \in DOMAIN u.local : Certain(s) /\ m \in reported => 
           \A flag \in Shown : flag \in u.local[m].elsewhere <=> flag \in s.server[m]
    BY <2>2, <2>13, <2>15 DEF Shown
  <2>17. ASSUME v.client.alone, v.client.request = "synchronize", NEW m \in DOMAIN v.server,
                FolderOf[m] \notin v.client.todo
         PROVE  Settled(v, marks, Listed(v.client), m)
    <3>0. Certain(s) /\ OthersPassed(s) /\ m \in DOMAIN s.server
      BY <2>6, <2>7, <2>17 DEF GoesOn
    <3>1. CASE FolderOf[m] = f
      <4>1. m \in reported
        BY <2>13, <2>15, <3>0, <3>1
      <4>2. CASE m \in DOMAIN u.local
        <5>1. ~u.local[m].removed
          BY <2>2, <2>13, <3>0, <3>1, <4>1, <4>2
        <5>2. ASSUME NEW flag \in Shown
              PROVE  \/ flag \in v.local[m].here <=> flag \in v.server[m]
                     \/ \E k \in Mark : Marked(k) = flag /\ m \in marks[k]
          <6>1. /\ flag \in u.server[m] <=> m \in (IF flag = "seen" THEN found.seen ELSE found.flagged)
                /\ flag \in u.local[m].elsewhere <=> flag \in u.server[m]
            BY <2>2, <2>13, <2>16, <3>0, <4>1, <4>2
          <6>2. v.local = u.local /\ v.server = u.server
            BY <2>2, <2>6
          <6> HIDE DEF found, f
          <6>3. \/ flag \in v.local[m].here <=> flag \in v.server[m]
                \/ \E k \in Mark : Marked(k) = flag /\ m \in In(f, ChangedHere(u.local, k)) \cap Out(found)[k]
            BY <3>1, <4>1, <4>2, <5>1, <6>1, <6>2, FoundSettled
          <6> QED
            BY <2>3, <6>3
        <5>3. ASSUME NEW k \in Mark, m \in marks[k]
              PROVE  Marked(k) \in v.local[m].here <=> Sets(k)
          <6>1. m \in ChangedHere(u.local, k)
            BY <2>3, <5>3 DEF In
          <6>2. (Marked(k) \in u.local[m].here) = Sets(k)
            BY <6>1 DEF ChangedHere
          <6>3. Sets(k) \in BOOLEAN
            BY DEF Sets
          <6> QED
            BY <2>6, <6>2, <6>3
        <5> QED
          BY <2>6, <4>2, <5>2, <5>3 DEF Settled
      <4>3. CASE m \notin DOMAIN u.local
        <5>1. m \in new
          BY <2>2, <2>14, <4>1, <4>3
        <5> QED
          BY <2>6, <2>8, <4>3, <5>1 DEF Settled
      <4> QED
        BY <4>2, <4>3
    <3>2. CASE FolderOf[m] # f
      <4>1. Settled(s, NoMarks, Listed(s.client), m)
        BY <2>7, <2>17, <3>0, <3>2 DEF OthersPassed, GoesOn
      <4>2. \A k \in Mark : m \notin marks[k]
        BY <2>3, <3>2 DEF In
      <4>3. CASE m \in DOMAIN s.local
        <5>1. m \in DOMAIN u.local
          BY <2>2, <2>14, <3>2, <4>3
        <5>2. m \notin reported /\ m \notin found.flagged
          BY <2>13, <2>15, <3>0, <3>2
        <5>3. u.local[m].here = s.local[m].here
          BY <2>2, <5>1, <5>2
        <5>4. \A flag \in Shown : flag \in s.local[m].here <=> flag \in s.server[m]
          BY <4>1, <4>3 DEF Settled, NoMarks
        <5> QED
          BY <2>6, <4>2, <5>1, <5>3, <5>4 DEF Settled
      <4>4. CASE m \notin DOMAIN s.local
        <5>1. m \in Listed(s.client) /\ m \notin DOMAIN u.local
          BY <2>2, <4>1, <4>4 DEF Settled
        <5> QED
          BY <2>6, <2>8, <5>1 DEF Settled
      <4> QED
        BY <4>3, <4>4
    <3> QED
      BY <3>1, <3>2
  <2>18. v.client.alone => Passed(v, v.client.marks)
    BY <2>5, <2>17 DEF Passed
  <2>19. n = HandleUidStore(v) /\ v.client.request # "none"
    BY <1>0, <1>1, <1>6, <2>7 DEF GoesOn
  <2>20. n.server = v.server /\ Sound(n, b) /\ Ends(v, n) /\ (b => Holds(v, n))
    BY <2>11, <2>12, <2>18, <2>19, StoreSound
  <2>21. DOMAIN n.local = DOMAIN v.local /\ \A m \in DOMAIN v.local : n.local[m].here = v.local[m].here
    BY <2>6, <2>19, UidStored DEF Noted
  <2>22. ASSUME b, NEW m \in DOMAIN n.server \cap DOMAIN n.local, NEW flag \in Shown,
                Pending(s.local, m, flag), ~Pending(n.local, m, flag)
         PROVE  flag \in n.local[m].here <=> flag \in n.server[m]
    <3>1. CASE Pending(v.local, m, flag)
      BY <2>20, <2>22, <3>1 DEF Holds
    <3>2. CASE ~Pending(v.local, m, flag)
      <4>1. m \in DOMAIN u.local /\ (flag \in u.local[m].here <=> flag \in u.local[m].elsewhere)
        BY <2>6, <2>21, <3>2 DEF Pending
      <4>2. m \in DOMAIN s.local /\ ~(flag \in s.local[m].here <=> flag \in s.local[m].elsewhere)
        BY <2>22 DEF Pending
      <4>3. m \in reported
        BY <2>2, <2>13, <2>22, <4>1, <4>2
      <4>4. flag \in u.local[m].elsewhere <=> flag \in s.server[m]
        BY <2>16, <2>22, <4>1, <4>3
      <4> QED
        BY <2>6, <2>20, <2>21, <4>1, <4>4
    <3> QED
      BY <3>1, <3>2
  <2>23. b => Holds(s, n)
    BY <2>22 DEF Holds
  <2>24. Ends(s, n)
    BY <2>7, <2>20 DEF Ends, GoesOn
  <2> QED
    BY <2>6, <2>20, <2>23, <2>24
<1> QED
  BY <1>5, <1>6

\* n is sound, a synchronization has not ended too early, and no change to export is
\* lost.
Onward(s, n, b) ==
  Sound(n, b) /\ Ends(s, n) /\ (b /\ s.client.request # "updateFlags" => Holds(s, n))

\* No change is lost while the rows and the server stay.
LEMMA HoldsSame ==
  ASSUME NEW s, NEW n, n.local = s.local
  PROVE  Holds(s, n)
  BY DEF Holds

\* processUidSearchResults of exportUpdates
LEMMA ExportsSound ==
  ASSUME NEW s, Typed(s), s.client.request \notin {"none", "synchronize"}, NEW b \in BOOLEAN, b => Quiet(s), NEW R
  PROVE  LET n == ProcessExports(s, R) IN n.server = s.server /\ Onward(s, n, b)
<1> DEFINE mine == In(s.client.folder, R)
           removed == s.client.plan.removed \cap mine
           expunge == (removed # {})
           marks == [k \in Mark |-> s.client.plan.marks[k] \cap mine]
           v == Due(s, removed, expunge, marks)
           n == ProcessExports(s, R)
<1>0. Formed(s) /\ Lists(s.client)
  BY DEF Typed
<1>1. n = HandleUidStore(v)
  BY DEF ProcessExports, Due
<1>2. DOMAIN marks = Mark
  OBVIOUS
<1> HIDE DEF removed, expunge, marks, n
<1>3. /\ Same(s, v) /\ v.client.marks = marks /\ GoesOn(s.client, v.client)
      /\ v.client.todo = s.client.todo /\ v.client.retrieve = s.client.retrieve
  BY <1>0, DueGoes
<1> HIDE DEF v
<1>4. Typed(v) /\ v.client.request = s.client.request
  BY <1>0, <1>2, <1>3, SameTyped DEF Lists, GoesOn
<1>5. b => Told(v)
  BY <1>3 DEF Same, Quiet, Told
<1>6. Passed(v, v.client.marks)
  BY <1>4 DEF Passed
<1>7. n.server = v.server /\ Sound(n, b) /\ Ends(v, n) /\ (b => Holds(v, n))
  BY <1>1, <1>4, <1>5, <1>6, StoreSound
<1>8. Ends(s, n) /\ (b => Holds(s, n)) /\ n.server = s.server
  BY <1>3, <1>7 DEF Ends, Holds, Same
<1> QED
  BY <1>7, <1>8 DEF Onward, n

\* processUidSearchResults of updateMessagesFlags
LEMMA FlagsSound ==
  ASSUME NEW s, Typed(s), s.client.request = "updateFlags", NEW b \in BOOLEAN, b => Quiet(s)
  PROVE  LET n == ProcessFlags(s) IN n.server = s.server /\ Onward(s, n, b)
<1> DEFINE f == s.client.folder
           M == In(f, s.client.selected) \cap DOMAIN s.local
           u == UpdateMessagesMetaData(s, f, M, s.reports)
           n == ProcessFlags(s)
<1>0. Formed(s) /\ Lists(s.client)
  BY DEF Typed
<1>1. n = ProcessNextFolder(u)
  BY DEF ProcessFlags
<1> HIDE DEF M, f
<1>2. Imported(s, u, f, M, s.reports)
  BY <1>0, MetaDataRows
<1> HIDE DEF u, n
<1>3. /\ Formed(u) /\ u.server = s.server /\ u.client = s.client /\ u.stored = s.stored
      /\ DOMAIN u.local \subseteq DOMAIN s.local
      /\ \A m \in DOMAIN u.local : u.local[m].here \subseteq s.local[m].here \cup Shown
  BY <1>2 DEF Imported, Shown
<1>4. Typed(u)
  BY <1>0, <1>3 DEF Typed
<1>5. (b => Quiet(u)) /\ Passed(u, NoMarks) /\ u.client.request # "none"
  BY <1>3 DEF Quiet, Passed
<1>6. Same(u, n) /\ Sound(n, b)
  BY <1>1, <1>4, <1>5, FolderSound
<1>7. n.server = s.server /\ Ends(s, n)
  BY <1>3, <1>6 DEF Same, Ends
<1> QED
  BY <1>6, <1>7 DEF Onward, n

\* The next search of the folder.
LEMMA SearchOn ==
  ASSUME NEW s, Typed(s), NEW n, Same(s, n), Stays(s.client, n.client), s.client.request # "none",
         NEW b \in BOOLEAN, b => Quiet(s),
         n.client.command \in {"SEEN", "UNSEEN", "FLAGGED", "ALL", "KNOWN"}, Fitting(n.client),
         b \/ s.client.alone => Exact(n),
         s.client.alone => OthersPassed(s)
  PROVE  n.server = s.server /\ Onward(s, n, b)
<1> DEFINE c == s.client
           d == n.client
<1>1. n.server = s.server /\ n.local = s.local /\ n.stored = s.stored
  BY DEF Same
<1>2. d.request = c.request /\ d.alone = c.alone /\ d.todo = c.todo /\ d.folder = c.folder
  BY DEF Stays, GoesOn
<1>3. Lists(d)
  BY DEF Typed, Lists, Stays
<1>4. Typed(n)
  BY <1>3, SameTyped
<1>5. b => Sent(n)
  BY <1>1 DEF Quiet, Sent
<1>6. ASSUME d.alone, d.request = "synchronize", NEW m \in DOMAIN n.server,
             FolderOf[m] \notin d.todo, FolderOf[m] # d.folder
      PROVE  Settled(n, Owed(d), Wanted(d), m)
  <2>1. Settled(s, NoMarks, Listed(c), m)
    BY <1>1, <1>2, <1>6 DEF OthersPassed
  <2>2. \A k \in Mark : NoMarks[k] = Owed(d)[k]
    BY NothingOwed
  <2>3. Wanted(d) = Listed(c)
    BY DEF Wanted, Listed, Stays
  <2> QED
    BY <1>1, <2>1, <2>2, <2>3, SettledSame
<1>7. ASSUME d.alone, d.request = "synchronize"
      PROVE  d.command \in {"SEEN", "UNSEEN", "FLAGGED"}
  <2>1. Full(d) /\ Exact(n)
    BY <1>2, <1>7 DEF Full
  <2>2. d.command # "ALL"
    BY <2>1 DEF Exact
  <2>3. d.command # "KNOWN"
    BY <1>7 DEF Fitting
  <2> QED
    BY <2>2, <2>3
<1>8. d.alone => Synced(n)
  BY <1>6, <1>7 DEF Synced
<1>9. Sound(n, b)
  BY <1>2, <1>4, <1>5, <1>8 DEF Sound
<1>10. Ends(s, n) /\ Holds(s, n)
  BY <1>1, <1>2, HoldsSame DEF Ends
<1> QED
  BY <1>1, <1>9, <1>10 DEF Onward

\* folderListFolderAction
LEMMA ActionSound ==
  ASSUME NEW s, Typed(s), s.client.request \notin {"none", "delete"}, NEW b \in BOOLEAN, b => Quiet(s),
         s.client.box = s.client.folder,
         (b \/ s.client.alone) /\ Full(s.client) => s.client.found = NothingFound /\ s.client.conclusive = TRUE,
         s.client.alone => OthersPassed(s)
  PROVE  LET n == FolderAction(s) IN n.server = s.server /\ Onward(s, n, b)
<1> DEFINE n == FolderAction(s)
           c == s.client
<1>0. Formed(s)
  BY DEF Typed
<1>1. ASSUME NEW x \in {"SEEN", "UNSEEN", "KNOWN"}, n = Send(s, x),
             x = "KNOWN" <=> c.request = "exportUpdates",
             x = "UNSEEN" <=> c.request = "updateFlags"
      PROVE  n.server = s.server /\ Onward(s, n, b)
  <2>1. /\ Same(s, n) /\ Stays(c, n.client) /\ n.client.command = x
        /\ n.client.found = c.found /\ n.client.conclusive = c.conclusive
    BY <1>0, <1>1, SendStays
  <2> HIDE DEF n
  <2>2. n.client.request = c.request /\ n.client.box = c.box /\ n.client.folder = c.folder
    BY <2>1 DEF Stays, GoesOn
  <2>3. Fitting(n.client)
    BY <1>1, <2>1, <2>2 DEF Fitting, Full
  <2>4. b \/ c.alone => Exact(n)
    BY <1>1, <2>1, <2>2 DEF Exact, Full
  <2> QED
    BY <1>1, <2>1, <2>3, <2>4, SearchOn
<1>2. CASE c.request = "exportUpdates"
  <2>1. n = IF Exists(s) > 0 THEN Send(s, "KNOWN") ELSE ProcessExports(s, {})
    BY <1>2 DEF FolderAction
  <2>2. CASE Exists(s) > 0
    BY <1>1, <1>2, <2>1, <2>2
  <2>3. CASE ~(Exists(s) > 0)
    BY <1>2, <2>1, <2>3, ExportsSound
  <2> QED
    BY <2>2, <2>3
<1>3. CASE c.request = "updateFlags"
  <2>1. n = IF Exists(s) > 0 THEN Send(s, "UNSEEN") ELSE ProcessFlags(s)
    BY <1>3 DEF FolderAction
  <2>2. CASE Exists(s) > 0
    BY <1>1, <1>3, <2>1, <2>2
  <2>3. CASE ~(Exists(s) > 0)
    BY <1>3, <2>1, <2>3, FlagsSound
  <2> QED
    BY <2>2, <2>3
<1>4. CASE c.request \notin {"exportUpdates", "updateFlags"}
  <2>1. n = IF Exists(s) > 0 THEN Send(s, "SEEN") ELSE ProcessUidSearchResults(s)
    BY <1>4 DEF FolderAction
  <2>2. Full(c)
    BY <1>4 DEF Full
  <2>3. CASE Exists(s) > 0
    BY <1>1, <1>4, <2>1, <2>3
  <2>4. CASE ~(Exists(s) > 0)
    <3>1. In(c.box, DOMAIN s.server) = {}
      BY <1>0, <2>4, NothingThere
    <3>2. b \/ c.alone => Certain(s)
      BY <2>2, <3>1 DEF Certain, ReadThere, UnreadThere, FlaggedThere, NothingFound
    <3>3. n = ProcessUidSearchResults(s)
      BY <2>1, <2>4
    <3> HIDE DEF n
    <3>4. n.server = s.server /\ Sound(n, b) /\ Ends(s, n) /\ (b => Holds(s, n))
      BY <2>2, <3>2, <3>3, ResultsSound
    <3> QED
      BY <3>4 DEF Onward, n
  <2> QED
    BY <2>3, <2>4
<1> QED
  BY <1>2, <1>3, <1>4

-----------------------------------------------------------------------------
(* The searches find everything *)

\* M is the right answer to the search.
Truly(s, M) ==
  /\ s.client.command = "SEEN" => M = ReadThere(s)
  /\ s.client.command = "UNSEEN" => M = UnreadThere(s)
  /\ s.client.command = "FLAGGED" => M = FlaggedThere(s)

\* The messages that are seen and those that are not are as many as there are.
LEMMA AsMany ==
  ASSUME NEW s, Formed(s), s.client.found.seen = ReadThere(s), s.client.found.unseen = UnreadThere(s)
  PROVE  Consistent(s)
<1> DEFINE S == ReadThere(s)
           T == UnreadThere(s)
           B == In(s.client.box, DOMAIN s.server)
<1>1. IsFiniteSet(B)
  BY BoxFinite
<1>2. S \subseteq B /\ T \subseteq B /\ S \cap T = {} /\ S \cup T = B
  BY DEF ReadThere, UnreadThere
<1> HIDE DEF S, T, B
<1>3. IsFiniteSet(S) /\ IsFiniteSet(T)
  BY <1>1, <1>2, FS_Subset
<1>4. Cardinality(S) \in Nat /\ Cardinality(T) \in Nat
  BY <1>3, FS_CardinalityType
<1>5. Cardinality(S \cup T) = Cardinality(S) + Cardinality(T) - Cardinality({})
  BY <1>2, <1>3, FS_Union
<1>6. Cardinality(S) + Cardinality(T) = Cardinality(B)
  <2>1. Cardinality(S \cup T) = Cardinality(S) + Cardinality(T)
    BY <1>4, <1>5, FS_EmptySet
  <2>2. Cardinality(S \cup T) = Cardinality(B)
    BY <1>2, Zenon
  <2> QED
    BY <2>1, <2>2
<1> QED
  BY <1>6 DEF Consistent, Exists, S, T, B

\* handleUidSearch of the full synchronization
LEMMA SynchronizeSound ==
  ASSUME NEW s, Typed(s), Full(s.client), s.client.command \in {"SEEN", "UNSEEN", "FLAGGED", "ALL"},
         NEW b \in BOOLEAN, b => Quiet(s), NEW M,
         b \/ s.client.alone => Exact(s) /\ Truly(s, M),
         s.client.alone => OthersPassed(s)
  PROVE  LET n == SynchronizeSearch(s, M) IN n.server = s.server /\ Onward(s, n, b)
<1> DEFINE c == s.client
           n == SynchronizeSearch(s, M)
<1> SUFFICES n.server = s.server /\ Onward(s, n, b)
  OBVIOUS
<1>0. Formed(s) /\ c.request # "none" /\ Has(c.found, {"seen", "unseen", "flagged"})
  BY DEF Typed, Full, Formed, Members
<1>1. b \/ c.alone => c.box = c.folder /\ c.conclusive = TRUE /\ c.command # "ALL"
  BY DEF Exact
<1>2. ASSUME NEW F, Has(F, {"seen", "unseen", "flagged"}), NEW x \in {"UNSEEN", "FLAGGED", "ALL"},
             NEW w, w = With(s, F, c.conclusive, x), n = w,
             b \/ c.alone => /\ x # "ALL" /\ F.seen = ReadThere(s)
                             /\ x = "FLAGGED" => F.unseen = UnreadThere(s)
      PROVE  n.server = s.server /\ Onward(s, n, b)
  <2>1. Same(s, w) /\ Stays(c, w.client) /\ w.client.found = F /\ w.client.conclusive = c.conclusive
        /\ w.client.command = x
    BY <1>0, <1>2, WithStays
  <2>2. w.client.request = c.request /\ w.client.box = c.box /\ w.client.folder = c.folder /\ w.server = s.server
    BY <2>1 DEF Stays, GoesOn, Same
  <2>3. Fitting(w.client)
    BY <1>0, <1>2, <2>1, <2>2 DEF Fitting, Full
  <2>4. b \/ c.alone => Exact(w)
    BY <1>1, <1>2, <2>1, <2>2 DEF Exact, ReadThere, UnreadThere
  <2> HIDE DEF n
  <2>5. w.server = s.server /\ Onward(s, w, b)
    BY <1>0, <1>2, <2>1, <2>3, <2>4, SearchOn
  <2> QED
    BY <1>2, <2>5
<1>3. ASSUME NEW F, Has(F, {"seen", "unseen", "flagged"}), NEW d,
             NEW w, w = With(s, F, d, c.command), n = ProcessUidSearchResults(w),
             b \/ c.alone => /\ F.seen = ReadThere(s) /\ F.unseen = UnreadThere(s) /\ F.flagged = FlaggedThere(s)
                             /\ d = TRUE
      PROVE  n.server = s.server /\ Onward(s, n, b)
  <2>1. Same(s, w) /\ Stays(c, w.client) /\ w.client.found = F /\ w.client.conclusive = d
    BY <1>0, <1>3, WithStays
  <2>2. /\ w.client.request = c.request /\ w.client.box = c.box /\ w.client.folder = c.folder /\ w.client.alone = c.alone
        /\ w.client.todo = c.todo /\ w.client.retrieve = c.retrieve /\ w.client.marks = c.marks
        /\ w.server = s.server /\ w.local = s.local /\ w.stored = s.stored
    BY <2>1 DEF Stays, GoesOn, Same
  <2>3. Lists(w.client) /\ Listed(w.client) = Listed(c)
    BY <2>2 DEF Typed, Lists, Listed
  <2>4. Typed(w) /\ Full(w.client)
    BY <2>1, <2>2, <2>3, SameTyped DEF Full
  <2>5. b \/ w.client.alone => Certain(w)
    BY <1>1, <1>3, <2>1, <2>2 DEF Certain, ReadThere, UnreadThere, FlaggedThere
  <2>6. w.client.alone => OthersPassed(w)
    BY <2>2, <2>3 DEF OthersPassed, Settled
  <2>7. b => Quiet(w)
    BY <2>2 DEF Quiet
  <2> HIDE DEF n
  <2>8. n.server = w.server /\ Sound(n, b) /\ Ends(w, n) /\ (b => Holds(w, n))
    BY <1>3, <2>4, <2>5, <2>6, <2>7, ResultsSound
  <2>9. Ends(s, n) /\ (b => Holds(s, n))
    BY <2>2, <2>8 DEF Ends, Holds
  <2> QED
    BY <2>2, <2>8, <2>9 DEF Onward
<1>4. CASE c.command = "SEEN"
  <2> DEFINE F == [c.found EXCEPT !.seen = M]
  <2>1. n = With(s, F, c.conclusive, "UNSEEN")
    BY <1>0, <1>4 DEF SynchronizeSearch, Send, With, Formed, Members, Has
  <2>2. Has(F, {"seen", "unseen", "flagged"}) /\ F.seen = M
    BY <1>0 DEF Has
  <2> HIDE DEF F, n
  <2>3. b \/ c.alone => F.seen = ReadThere(s)
    BY <1>4, <2>2 DEF Truly
  <2> QED
    BY <1>2, <2>1, <2>2, <2>3
<1>5. CASE c.command = "UNSEEN"
  <2> DEFINE F == [c.found EXCEPT !.unseen = M]
  <2>1. n = With(s, F, c.conclusive, "FLAGGED")
    BY <1>0, <1>5 DEF SynchronizeSearch, Send, With, Formed, Members, Has
  <2>2. Has(F, {"seen", "unseen", "flagged"}) /\ F.unseen = M /\ F.seen = c.found.seen
    BY <1>0 DEF Has
  <2> HIDE DEF F, n
  <2>3. b \/ c.alone => F.seen = ReadThere(s) /\ F.unseen = UnreadThere(s)
    BY <1>5, <2>2 DEF Truly, Exact
  <2> QED
    BY <1>2, <2>1, <2>2, <2>3
<1>6. CASE c.command = "FLAGGED" /\ Consistent(s)
  <2> DEFINE F == [c.found EXCEPT !.flagged = M]
             w == With(s, F, c.conclusive, c.command)
  <2>1. n = ProcessUidSearchResults(w)
    BY <1>0, <1>6 DEF SynchronizeSearch, With, Formed, Members, Has
  <2>2. Has(F, {"seen", "unseen", "flagged"}) /\ F.unseen = c.found.unseen /\ F.seen = c.found.seen /\ F.flagged = M
    BY <1>0 DEF Has
  <2> HIDE DEF F, n, w
  <2>3. b \/ c.alone => F.seen = ReadThere(s) /\ F.unseen = UnreadThere(s) /\ F.flagged = FlaggedThere(s)
    BY <1>6, <2>2 DEF Truly, Exact
  <2>4. w = With(s, F, c.conclusive, c.command)
    BY DEF w
  <2> QED
    BY <1>1, <1>3, <2>1, <2>2, <2>3, <2>4
<1>7. CASE c.command = "FLAGGED" /\ ~Consistent(s)
  <2> DEFINE w == With(s, NothingFound, c.conclusive, "ALL")
  <2>1. n = w
    BY <1>0, <1>7 DEF SynchronizeSearch, Send, With, Formed, Members, Has
  <2>2. Has(NothingFound, {"seen", "unseen", "flagged"})
    BY DEF Has, NothingFound
  <2>3. b \/ c.alone => FALSE
    BY <1>0, <1>7, AsMany DEF Exact
  <2> HIDE DEF n, w
  <2>4. w = With(s, NothingFound, c.conclusive, "ALL")
    BY DEF w
  <2> QED
    BY <1>2, <2>1, <2>2, <2>3, <2>4
<1>8. CASE c.command = "ALL"
  <2> DEFINE F == [c.found EXCEPT !.unseen = M]
             d == Cardinality(M) = Exists(s)
             w == With(s, F, d, c.command)
  <2>1. n = ProcessUidSearchResults(w)
    <3>1. n = ProcessUidSearchResults(
                [s EXCEPT !.client.found.unseen = M, !.client.conclusive = Cardinality(M) = Exists(s)])
      BY <1>8 DEF SynchronizeSearch
    <3>2. [s EXCEPT !.client.found.unseen = M, !.client.conclusive = d] = w
      <4> HIDE DEF d
      <4> QED
        BY <1>0 DEF With, Formed, Members, Has
    <3> QED
      BY <3>1, <3>2
  <2>2. Has(F, {"seen", "unseen", "flagged"})
    BY <1>0 DEF Has
  <2>3. ~b /\ ~c.alone
    BY <1>1, <1>8
  <2> HIDE DEF F, n, w, d
  <2>4. w = With(s, F, d, c.command)
    BY DEF w
  <2> QED
    BY <1>3, <2>1, <2>2, <2>3, <2>4
<1> QED
  BY <1>4, <1>5, <1>6, <1>7, <1>8

\* handleUidSearch of updateMessagesFlags
LEMMA FlagsSearchSound ==
  ASSUME NEW s, Typed(s), s.client.request = "updateFlags", s.client.command \in {"SEEN", "UNSEEN", "FLAGGED"},
         NEW b \in BOOLEAN, b => Quiet(s), NEW M
  PROVE  LET n == FlagsSearch(s, M) IN n.server = s.server /\ Onward(s, n, b)
<1> DEFINE n == FlagsSearch(s, M)
<1> SUFFICES n.server = s.server /\ Onward(s, n, b)
  OBVIOUS
<1>1. ASSUME NEW R, NEW w, w = [s EXCEPT !.reports = R], NEW x \in {"SEEN", "FLAGGED"},
             n = Send(w, x) \/ n = ProcessFlags(w)
      PROVE  n.server = s.server /\ Onward(s, n, b)
  <2>1. /\ Has(w, {"server", "local", "records", "client", "stored", "reports"})
        /\ w.client = s.client /\ w.stored = s.stored /\ w.local = s.local /\ w.server = s.server
    BY <1>1 DEF Typed, Formed, Has
  <2>2. Formed(w)
    BY <2>1 DEF Typed, Formed
  <2>3. Typed(w) /\ (b => Quiet(w)) /\ OthersPassed(w)
    BY <2>1, <2>2 DEF Typed, Quiet, OthersPassed
  <2>4. CASE n = Send(w, x)
    <3>1. Same(w, n) /\ Stays(w.client, n.client) /\ n.client.command = x
      BY <2>2, <2>4, SendStays
    <3> HIDE DEF n
    <3>2. Fitting(n.client) /\ Exact(n)
      BY <1>1, <2>1, <3>1 DEF Fitting, Exact, Full, Stays, GoesOn
    <3>3. n.server = w.server /\ Onward(w, n, b)
      BY <1>1, <2>1, <2>3, <3>1, <3>2, SearchOn
    <3>4. Onward(s, n, b)
      BY <2>1, <3>3 DEF Onward, Ends, Holds
    <3> QED
      BY <2>1, <3>3, <3>4
  <2>5. CASE n = ProcessFlags(w)
    <3>1. n.server = w.server /\ Onward(w, n, b)
      BY <2>1, <2>3, <2>5, FlagsSound
    <3>2. Onward(s, n, b)
      BY <2>1, <3>1 DEF Onward, Ends, Holds
    <3> QED
      BY <2>1, <3>1, <3>2
  <2> QED
    BY <1>1, <2>4, <2>5
<1>2. Has(s, {"server", "local", "records", "client", "stored", "reports"})
  BY DEF Typed, Formed
<1>3. CASE s.client.command = "UNSEEN"
  <2>1. n = Send([s EXCEPT !.reports = [s.reports EXCEPT !.unseen = M]], "SEEN")
    BY <1>2, <1>3 DEF FlagsSearch, Has
  <2> HIDE DEF n
  <2> QED
    BY <1>1, <2>1
<1>4. CASE s.client.command = "SEEN"
  <2>1. n = Send([s EXCEPT !.reports = [s.reports EXCEPT !.seen = M]], "FLAGGED")
    BY <1>2, <1>4 DEF FlagsSearch, Has
  <2> HIDE DEF n
  <2> QED
    BY <1>1, <2>1
<1>5. CASE s.client.command = "FLAGGED"
  <2>1. n = ProcessFlags([s EXCEPT !.reports = [s.reports EXCEPT !.flagged = M]])
    BY <1>2, <1>5 DEF FlagsSearch, Has
  <2> HIDE DEF n
  <2> QED
    BY <1>1, <2>1
<1> QED
  BY <1>3, <1>4, <1>5

\* The answer to a search.
LEMMA SearchSound ==
  ASSUME NEW s, Typed(s), Fitting(s.client), s.client.command \in {"SEEN", "UNSEEN", "FLAGGED", "ALL", "KNOWN"},
         NEW b \in BOOLEAN, b => Quiet(s), NEW M,
         b \/ s.client.alone => Exact(s) /\ Truly(s, M),
         s.client.alone => OthersPassed(s)
  PROVE  LET n == SearchHandled(s, M) IN n.server = s.server /\ Onward(s, n, b)
<1> DEFINE n == SearchHandled(s, M)
<1>1. CASE s.client.request = "exportUpdates"
  <2>1. n = ProcessExports(s, M)
    BY <1>1 DEF SearchHandled
  <2> QED
    BY <1>1, <2>1, ExportsSound
<1>2. CASE s.client.request = "updateFlags"
  <2>1. n = FlagsSearch(s, M \cap s.client.selected)
    BY <1>2 DEF SearchHandled
  <2>2. s.client.command \in {"SEEN", "UNSEEN", "FLAGGED"}
    BY <1>2 DEF Fitting, Full
  <2> QED
    BY <1>2, <2>1, <2>2, FlagsSearchSound
<1>3. CASE s.client.request \notin {"exportUpdates", "updateFlags"}
  <2>1. n = SynchronizeSearch(s, M)
    BY <1>3 DEF SearchHandled
  <2>2. Full(s.client) /\ s.client.command \in {"SEEN", "UNSEEN", "FLAGGED", "ALL"}
    BY <1>3 DEF Fitting, Full
  <2> QED
    BY <2>1, <2>2, SynchronizeSound
<1> QED
  BY <1>1, <1>2, <1>3

-----------------------------------------------------------------------------
(* From command to command *)

\* A state that is not one of a synchronization.
LEMMA PlainSound ==
  ASSUME NEW n, Typed(n), Fitting(n.client), ~Full(n.client), NEW b \in BOOLEAN, b => Quiet(n)
  PROVE  Sound(n, b)
<1>1. Exact(n)
  BY DEF Exact
<1>2. Synced(n)
  BY DEF Synced, Full
<1>3. b => Sent(n)
  BY DEF Quiet, Sent
<1> QED
  BY <1>1, <1>2, <1>3 DEF Sound

\* No _stored list holds anything between two STORE commands.
LEMMA SentQuiet ==
  ASSUME NEW s, Sent(s), s.client.command # "STORE"
  PROVE  Quiet(s)
  BY DEF Sent, Quiet

\* What the synchronization is through with, between two commands.
LEMMA SyncedOthers ==
  ASSUME NEW s, Synced(s), s.client.command \in {"SELECT", "SEEN", "UNSEEN", "FLAGGED", "ALL", "KNOWN"}
  PROVE  OthersPassed(s)
<1> SUFFICES ASSUME s.client.request = "synchronize", NEW m \in DOMAIN s.server,
                    FolderOf[m] \notin s.client.todo, FolderOf[m] # s.client.folder
             PROVE  Settled(s, NoMarks, Listed(s.client), m)
  BY DEF OthersPassed
<1>1. Settled(s, Owed(s.client), Wanted(s.client), m)
  BY DEF Synced
<1>2. \A k \in Mark : Owed(s.client)[k] = NoMarks[k]
  BY NothingOwed
<1>3. Wanted(s.client) = Listed(s.client)
  BY DEF Wanted
<1> QED
  BY <1>1, <1>2, <1>3, SettledSame

\* The next step of a deletion.
LEMMA DeletingSound ==
  ASSUME NEW s, Typed(s), s.client.request = "delete", NEW b \in BOOLEAN, b => Quiet(s),
         NEW n, Same(s, n),
         \/ \E up, box : n.client = Idle(up, box)
         \/ /\ n.client.command \in {"STORE", "SELECT", "CLOSE"} /\ n.client.request = s.client.request
            /\ n.client.marks = s.client.marks /\ n.client.retrieve = s.client.retrieve
            /\ n.client.command = "STORE" => n.client.sending[1] = Deleted
  PROVE  Onward(s, n, b)
<1>1. Lists(n.client) /\ Fitting(n.client) /\ ~Full(n.client)
  <2>1. CASE \E up, box : n.client = Idle(up, box)
    <3>1. Lists(n.client) /\ n.client.request = "none" /\ n.client.command = "none"
      BY <2>1, IdleParts
    <3> QED
      BY <3>1 DEF Fitting, Full
  <2>2. CASE /\ n.client.command \in {"STORE", "SELECT", "CLOSE"} /\ n.client.request = s.client.request
             /\ n.client.marks = s.client.marks /\ n.client.retrieve = s.client.retrieve
             /\ n.client.command = "STORE" => n.client.sending[1] = Deleted
    BY <2>2 DEF Typed, Lists, Fitting, Full
  <2> QED
    BY <2>1, <2>2
<1>2. Typed(n) /\ (b => Quiet(n))
  BY <1>1, SameTyped DEF Quiet, Same
<1>3. Sound(n, b)
  BY <1>1, <1>2, PlainSound
<1>4. Holds(s, n) /\ Ends(s, n)
  BY HoldsSame DEF Same, Ends
<1> QED
  BY <1>3, <1>4 DEF Onward

\* The folders to visit are planned, and the first is selected.
LEMMA PlanSound ==
  ASSUME NEW s, Typed(s), s.client.request \notin {"none", "synchronize"}, NEW b \in BOOLEAN, b => Quiet(s),
         NEW c, Members(c), GoesOn(s.client, c), c.marks = s.client.marks, c.retrieve = s.client.retrieve,
         NEW t, t = [s EXCEPT !.client = c]
  PROVE  LET n == ProcessNextFolder(t) IN Same(s, n) /\ Onward(s, n, b)
<1> DEFINE n == ProcessNextFolder(t)
<1>1. Same(s, t) /\ t.client = c
  BY ClientSet DEF Typed
<1>2. Typed(t) /\ (b => Quiet(t)) /\ Passed(t, NoMarks) /\ t.client.request # "none"
  BY <1>1, SameTyped DEF Typed, Lists, Quiet, Same, Passed, GoesOn
<1>3. Same(t, n) /\ Sound(n, b)
  BY <1>2, FolderSound
<1> HIDE DEF n
<1>4. Same(s, n)
  BY <1>1, <1>3 DEF Same
<1>5. Holds(s, n) /\ Ends(s, n)
  BY <1>4, HoldsSame DEF Same, Ends
<1> QED
  BY <1>3, <1>4, <1>5 DEF Onward, n

\* handleLogin
LEMMA LoginSound ==
  ASSUME NEW s, Typed(s), s.client.request # "none", NEW b \in BOOLEAN, b => Quiet(s)
  PROVE  LET n == HandleLogin(s) IN Same(s, n) /\ Onward(s, n, b)
<1> DEFINE n == HandleLogin(s)
<1>0. Formed(s) /\ Lists(s.client)
  BY DEF Typed
<1>1. CASE s.client.request = "exportUpdates"
  <2> DEFINE marks == [k \in Mark |-> ChangedHere(s.local, k)]
             deleted == IF CanDelete THEN s.records ELSE {}
             all == deleted \cup UNION {marks[k] : k \in Mark}
             plan == [marks |-> marks, removed |-> deleted]
             todo == {FolderOf[m] : m \in all}
             c == [s.client EXCEPT !.plan = plan, !.todo = todo]
             t == [s EXCEPT !.client = c]
  <2>1. n = ProcessNextFolder([s EXCEPT !.client.plan = plan, !.client.todo = todo])
    BY <1>1 DEF HandleLogin
  <2> HIDE DEF plan, todo, n
  <2>2. [s EXCEPT !.client.plan = plan, !.client.todo = todo] = t
    BY <1>0 DEF Formed, Members, Has
  <2>3. Members(c) /\ GoesOn(s.client, c) /\ c.marks = s.client.marks /\ c.retrieve = s.client.retrieve
    BY <1>0 DEF Formed, Members, Has, GoesOn
  <2> HIDE DEF c
  <2>4. Same(s, n) /\ Onward(s, n, b)
    BY <1>1, <2>1, <2>2, <2>3, PlanSound
  <2> QED
    BY <2>4 DEF n
<1>2. CASE s.client.request = "updateFlags"
  <2> DEFINE M == s.client.selected \cap DOMAIN s.local
             todo == {FolderOf[m] : m \in M}
             c == [s.client EXCEPT !.selected = M, !.todo = todo]
             t == [s EXCEPT !.client = c]
  <2>1. n = ProcessNextFolder([s EXCEPT !.client.selected = M, !.client.todo = todo])
    BY <1>2 DEF HandleLogin
  <2> HIDE DEF M, todo, n
  <2>2. [s EXCEPT !.client.selected = M, !.client.todo = todo] = t
    BY <1>0 DEF Formed, Members, Has
  <2>3. Members(c) /\ GoesOn(s.client, c) /\ c.marks = s.client.marks /\ c.retrieve = s.client.retrieve
    BY <1>0 DEF Formed, Members, Has, GoesOn
  <2> HIDE DEF c
  <2>4. Same(s, n) /\ Onward(s, n, b)
    BY <1>2, <2>1, <2>2, <2>3, PlanSound
  <2> QED
    BY <2>4 DEF n
<1>3. CASE s.client.request = "delete"
  <2>1. n = NextSelection(s)
    BY <1>3 DEF HandleLogin
  <2>2. Selecting(s, n)
    BY <1>0, <2>1, SelectionNext
  <2> HIDE DEF n
  <2>3. Same(s, n)
    BY <2>2 DEF Selecting
  <2>4. Onward(s, n, b)
    BY <1>3, <2>2, <2>3, DeletingSound DEF Selecting
  <2> QED
    BY <2>3, <2>4 DEF n
<1>4. CASE s.client.request \notin {"exportUpdates", "updateFlags", "delete"}
  <2>1. n = Send(s, "LIST")
    BY <1>4 DEF HandleLogin
  <2>2. Same(s, n) /\ Stays(s.client, n.client) /\ n.client.command = "LIST"
    BY <1>0, <2>1, SendStays
  <2> HIDE DEF n
  <2>3. Lists(n.client) /\ n.client.request # "none"
    BY <1>0, <2>2 DEF Lists, Stays, GoesOn
  <2>4. Typed(n) /\ Fitting(n.client) /\ Exact(n) /\ Synced(n) /\ (b => Sent(n))
    BY <2>2, <2>3, SameTyped DEF Fitting, Exact, Synced, Quiet, Sent, Same
  <2>5. Holds(s, n) /\ Ends(s, n)
    BY <2>2, <2>3, HoldsSame DEF Same, Ends
  <2> QED
    BY <2>2, <2>4, <2>5 DEF Onward, Sound, n
<1> QED
  BY <1>1, <1>2, <1>3, <1>4

\* The answer to LOGIN
LEMMA LoginOn ==
  ASSUME NEW s, NEW b \in BOOLEAN, Sound(s, b), s.client.command = "LOGIN"
  PROVE  Onward(s, HandleLogin([s EXCEPT !.client.up = TRUE]), b)
<1> DEFINE c == [s.client EXCEPT !.up = TRUE]
           u == [s EXCEPT !.client = c]
           n == HandleLogin(u)
<1>0. Typed(s) /\ Formed(s) /\ Lists(s.client) /\ s.client.request # "none" /\ (b => Quiet(s))
  BY SentQuiet DEF Sound, Typed, Fitting
<1>1. [s EXCEPT !.client.up = TRUE] = u
  BY <1>0 DEF Formed, Members, Has
<1>2. Members(c) /\ GoesOn(s.client, c) /\ c.marks = s.client.marks /\ c.retrieve = s.client.retrieve
  BY <1>0 DEF Formed, Members, Has, GoesOn
<1> HIDE DEF c
<1>3. Same(s, u) /\ u.client = c
  BY <1>0, <1>2, ClientSet
<1> HIDE DEF u
<1>4. Typed(u) /\ u.client.request # "none" /\ (b => Quiet(u))
  BY <1>0, <1>2, <1>3, SameTyped DEF Lists, GoesOn, Quiet, Same
<1>5. Same(u, n) /\ Onward(u, n, b)
  BY <1>4, LoginSound
<1> HIDE DEF n
<1>6. Ends(s, n) /\ Holds(s, n)
  BY <1>2, <1>3, <1>5, HoldsSame DEF Onward, Ends, GoesOn, Same
<1> QED
  BY <1>1, <1>5, <1>6 DEF Onward, n

\* mailboxListed and handleList
LEMMA ListOn ==
  ASSUME NEW s, NEW b \in BOOLEAN, Sound(s, b), s.client.command = "LIST"
  PROVE  Onward(s, ProcessNextFolder([s EXCEPT !.client.todo = Folder]), b)
<1> DEFINE c == [s.client EXCEPT !.todo = Folder]
           u == [s EXCEPT !.client = c]
           n == ProcessNextFolder(u)
<1>0. Typed(s) /\ Formed(s) /\ Lists(s.client) /\ s.client.request # "none" /\ (b => Quiet(s))
  BY SentQuiet DEF Sound, Typed, Fitting
<1>1. [s EXCEPT !.client.todo = Folder] = u
  BY <1>0 DEF Formed, Members, Has
<1>2. Members(c) /\ GoesOn(s.client, c) /\ c.marks = s.client.marks /\ c.retrieve = s.client.retrieve /\ c.todo = Folder
  BY <1>0 DEF Formed, Members, Has, GoesOn
<1> HIDE DEF c
<1>3. Same(s, u) /\ u.client = c
  BY <1>0, <1>2, ClientSet
<1> HIDE DEF u
<1>4. Typed(u) /\ u.client.request # "none" /\ (b => Quiet(u))
  BY <1>0, <1>2, <1>3, SameTyped DEF Lists, GoesOn, Quiet, Same
<1>5. Passed(u, NoMarks)
  <2>1. \A m \in DOMAIN u.server : FolderOf[m] \in Folder
    BY <1>3 DEF Same, Formed, Folder
  <2> QED
    BY <1>2, <1>3, <2>1 DEF Passed
<1>6. Same(u, n) /\ Sound(n, b) /\ Ends(u, n)
  BY <1>4, <1>5, FolderSound
<1> HIDE DEF n
<1>7. Ends(s, n) /\ Holds(s, n)
  BY <1>2, <1>3, <1>6, HoldsSame DEF Ends, GoesOn, Same
<1> QED
  BY <1>1, <1>6, <1>7 DEF Onward, n

\* The mailbox is selected.
LEMMA SelectedStays ==
  ASSUME NEW s, Formed(s)
  PROVE  LET u == Selected(s)
         IN /\ Same(s, u) /\ GoesOn(s.client, u.client) /\ u.client.todo = s.client.todo
            /\ u.client.retrieve = s.client.retrieve /\ u.client.marks = s.client.marks
            /\ u.client.folder = s.client.folder /\ u.client.box = s.client.folder
            /\ u.client.found = s.client.found /\ u.client.conclusive = s.client.conclusive
            /\ u.client.sending = s.client.sending /\ u.client.command = s.client.command
<1> DEFINE c == [s.client EXCEPT !.box = s.client.folder]
           u == Selected(s)
<1>1. u = [s EXCEPT !.client = c]
  BY DEF Selected, Formed, Members, Has
<1>2. /\ Members(c) /\ GoesOn(s.client, c) /\ c.todo = s.client.todo
      /\ c.retrieve = s.client.retrieve /\ c.marks = s.client.marks
      /\ c.folder = s.client.folder /\ c.box = s.client.folder
      /\ c.found = s.client.found /\ c.conclusive = s.client.conclusive
      /\ c.sending = s.client.sending /\ c.command = s.client.command
  BY DEF Formed, Members, Has, GoesOn
<1> HIDE DEF c, u
<1>3. Same(s, u) /\ u.client = c
  BY <1>1, <1>2, ClientSet
<1> QED
  BY <1>2, <1>3 DEF u

\* The answer to SELECT
LEMMA SelectOn ==
  ASSUME NEW s, NEW b \in BOOLEAN, Sound(s, b), s.client.command = "SELECT"
  PROVE  Onward(s, IF s.client.request = "delete" THEN StoreSelected(Selected(s)) ELSE FolderAction(Selected(s)), b)
<1> DEFINE u == Selected(s)
           n == IF s.client.request = "delete" THEN StoreSelected(u) ELSE FolderAction(u)
<1>0. Typed(s) /\ Formed(s) /\ Lists(s.client) /\ s.client.request # "none" /\ (b => Quiet(s))
  BY SentQuiet DEF Sound, Typed, Fitting
<1>1. /\ Same(s, u) /\ GoesOn(s.client, u.client) /\ u.client.todo = s.client.todo
      /\ u.client.retrieve = s.client.retrieve /\ u.client.marks = s.client.marks
      /\ u.client.folder = s.client.folder /\ u.client.box = s.client.folder
      /\ u.client.found = s.client.found /\ u.client.conclusive = s.client.conclusive
  BY <1>0, SelectedStays
<1> HIDE DEF u
<1>2. u.client.request = s.client.request /\ u.client.alone = s.client.alone
  BY <1>1 DEF GoesOn
<1>3. Typed(u) /\ (b => Quiet(u)) /\ Formed(u)
  BY <1>0, <1>1, SameTyped DEF Lists, Quiet, Same
<1>4. CASE s.client.request = "delete"
  <2>1. n = StoreSelected(u)
    BY <1>4
  <2>2. Selecting(u, n)
    BY <1>1, <1>3, <2>1, SelectedStored
  <2> HIDE DEF n
  <2>3. Onward(u, n, b) /\ Same(u, n)
    BY <1>2, <1>3, <1>4, <2>2, DeletingSound DEF Selecting
  <2>4. Ends(s, n) /\ Holds(s, n)
    BY <1>1, <1>4, <2>3, HoldsSame DEF Ends, Same
  <2> QED
    BY <2>3, <2>4 DEF Onward, n, u
<1>5. CASE s.client.request # "delete"
  <2>1. n = FolderAction(u)
    BY <1>5
  <2>2. (b \/ u.client.alone) /\ Full(u.client) => u.client.found = NothingFound /\ u.client.conclusive = TRUE
    BY <1>1, <1>2 DEF Sound, Exact, Full
  <2>3. u.client.alone => OthersPassed(u)
    <3>1. s.client.alone => OthersPassed(s)
      BY SyncedOthers DEF Sound
    <3>2. Listed(u.client) = Listed(s.client)
      BY <1>1 DEF Listed
    <3>3. u.server = s.server /\ u.local = s.local
      BY <1>1 DEF Same
    <3> QED
      BY <1>1, <1>2, <3>1, <3>2, <3>3 DEF OthersPassed, Settled
  <2> HIDE DEF n
  <2>4. Onward(u, n, b) /\ n.server = u.server
    BY <1>0, <1>1, <1>2, <1>3, <1>5, <2>1, <2>2, <2>3, ActionSound
  <2>5. Ends(s, n) /\ (b /\ s.client.request # "updateFlags" => Holds(s, n))
    BY <1>1, <1>2, <2>4 DEF Onward, Ends, Holds, Same
  <2> QED
    BY <2>4, <2>5 DEF Onward, n, u
<1> QED
  BY <1>4, <1>5

-----------------------------------------------------------------------------
(* The answers to the other commands *)

\* The answer to the SELECT for a preview
LEMMA PreviewOn ==
  ASSUME NEW s, NEW b \in BOOLEAN, Sound(s, b), s.client.command = "PREVIEW"
  PROVE  Onward(s, Send(Selected(s), "FETCH"), b)
<1> DEFINE c == s.client
           d == [c EXCEPT !.box = c.folder, !.command = "FETCH"]
           n == Send(Selected(s), "FETCH")
<1>0. Typed(s) /\ Formed(s) /\ Lists(c) /\ c.request # "none" /\ (b => Quiet(s))
  BY SentQuiet DEF Sound, Typed, Fitting
<1>1. n = [s EXCEPT !.client = d]
  BY <1>0 DEF Selected, Send, Formed, Members, Has
<1>2. /\ Members(d) /\ GoesOn(c, d) /\ d.command = "FETCH" /\ d.todo = c.todo
      /\ d.marks = c.marks /\ d.retrieve = c.retrieve /\ d.sending = c.sending
  BY <1>0 DEF Formed, Members, Has, GoesOn
<1> HIDE DEF d, n
<1>3. Same(s, n) /\ n.client = d
  BY <1>0, <1>1, <1>2, ClientSet
<1>4. Typed(n) /\ Fitting(d) /\ Exact(n) /\ (b => Sent(n)) /\ d.request # "none"
  BY <1>0, <1>2, <1>3, SameTyped DEF Lists, Fitting, Exact, Quiet, Sent, Same, GoesOn
<1>5. d.alone => Synced(n)
  <2> SUFFICES ASSUME d.alone, d.request = "synchronize"
               PROVE  d.todo = {} /\ \A m \in DOMAIN n.server : Settled(n, Owed(d), Wanted(d), m)
    BY <1>2, <1>3 DEF Synced
  <2>1. c.todo = {} /\ \A m \in DOMAIN s.server : Settled(s, Owed(c), Wanted(c), m)
    BY <1>2 DEF Sound, Synced, GoesOn
  <2>2. Wanted(d) = Wanted(c)
    BY <1>2 DEF Wanted, Listed
  <2>3. \A k \in Mark : Owed(c)[k] = Owed(d)[k]
    BY <1>2, NothingOwed
  <2>4. n.server = s.server /\ n.local = s.local
    BY <1>3 DEF Same
  <2> QED
    BY <1>2, <2>1, <2>2, <2>3, <2>4, SettledSame
<1>6. Ends(s, n) /\ Holds(s, n)
  BY <1>3, <1>4, HoldsSame DEF Ends, Same
<1> QED
  BY <1>3, <1>4, <1>5, <1>6 DEF Onward, Sound, n

\* The answer to FETCH
LEMMA FetchOn ==
  ASSUME NEW s, NEW b \in BOOLEAN, Sound(s, b), s.client.command = "FETCH"
  PROVE  Onward(s, PreviewNext(Fetched(s, s.client.sending[2])), b)
<1> DEFINE c == s.client
           M == c.sending[2]
           u == Fetched(s, M)
           n == PreviewNext(u)
<1>0. Typed(s) /\ Formed(s) /\ Lists(c) /\ c.request # "none" /\ (b => Quiet(s))
  BY SentQuiet DEF Sound, Typed, Fitting
<1>1. /\ Formed(u) /\ u.server = s.server /\ u.client = c /\ u.stored = s.stored
      /\ DOMAIN u.local = (DOMAIN s.local \ (M \ DOMAIN s.server)) \cup (M \cap DOMAIN s.server)
      /\ \A m \in DOMAIN u.local :
           IF m \in DOMAIN s.local THEN u.local[m] = s.local[m]
           ELSE m \in M \cap DOMAIN s.server /\ u.local[m].here = s.server[m] \ {"deleted"}
  BY <1>0, FetchedParts
<1> HIDE DEF u
<1>2. Typed(u)
  <2>1. ASSUME NEW m \in DOMAIN u.local
        PROVE  u.local[m].here \subseteq Shown
    <3>1. CASE m \in DOMAIN s.local
      BY <1>0, <1>1, <3>1 DEF Typed
    <3>2. CASE m \notin DOMAIN s.local
      <4>1. m \in DOMAIN s.server /\ u.local[m].here = s.server[m] \ {"deleted"}
        BY <1>1, <3>2
      <4>2. s.server[m] \subseteq Shown \cup {"deleted"}
        BY <1>0, <4>1 DEF Typed
      <4> QED
        BY <4>1, <4>2
    <3> QED
      BY <3>1, <3>2
  <2> QED
    BY <1>0, <1>1, <2>1 DEF Typed
<1>3. ASSUME c.alone, c.request = "synchronize"
      PROVE  c.todo = {} /\ \A m \in DOMAIN u.server : Settled(u, NoMarks, Listed(c), m)
  <2>1. c.todo = {} /\ \A m \in DOMAIN s.server : Settled(s, Owed(c), Wanted(c), m)
    BY <1>3 DEF Sound, Synced
  <2>2. Wanted(c) = Listed(c) \cup M
    BY DEF Wanted
  <2>3. \A k \in Mark : Owed(c)[k] = {} /\ NoMarks[k] = {}
    BY NothingOwed
  <2>4. ASSUME NEW m \in DOMAIN u.server
        PROVE  Settled(u, NoMarks, Listed(c), m)
    <3>0. m \in DOMAIN s.server /\ u.server[m] = s.server[m] /\ Settled(s, Owed(c), Wanted(c), m)
      BY <1>1, <2>1
    <3>1. CASE m \in DOMAIN s.local
      <4>1. m \in DOMAIN u.local /\ u.local[m] = s.local[m]
        BY <1>1, <3>0, <3>1
      <4> QED
        BY <2>3, <3>0, <3>1, <4>1 DEF Settled
    <3>2. CASE m \notin DOMAIN s.local /\ m \in M
      <4>1. m \in DOMAIN u.local /\ u.local[m].here = s.server[m] \ {"deleted"}
        BY <1>1, <3>0, <3>2
      <4>2. \A flag \in Shown : flag \in u.local[m].here <=> flag \in u.server[m]
        BY <3>0, <4>1 DEF Shown
      <4> QED
        BY <2>3, <4>1, <4>2 DEF Settled
    <3>3. CASE m \notin DOMAIN s.local /\ m \notin M
      <4>1. m \notin DOMAIN u.local /\ m \in Wanted(c)
        BY <1>1, <3>0, <3>3 DEF Settled
      <4> QED
        BY <2>2, <3>3, <4>1 DEF Settled
    <3> QED
      BY <3>1, <3>2, <3>3
  <2> QED
    BY <2>1, <2>4
<1>4. /\ c.alone /\ c.request = "synchronize" => c.todo = {}
      /\ c.alone => Passed(u, NoMarks)
  BY <1>1, <1>3 DEF Passed
<1>5. b => Quiet(u)
  BY <1>0, <1>1 DEF Quiet
<1>6. Same(u, n) /\ Sound(n, b) /\ Ends(u, n)
  BY <1>0, <1>1, <1>2, <1>4, <1>5, PreviewSound
<1> HIDE DEF n
<1>7. Ends(s, n)
  BY <1>1, <1>6 DEF Ends
<1>8. Holds(s, n)
  <2>1. n.local = u.local
    BY <1>6 DEF Same
  <2> QED
    BY <1>1, <2>1 DEF Holds, Pending
<1> QED
  BY <1>6, <1>7, <1>8 DEF Onward, n, u

\* The answer to EXPUNGE
LEMMA ExpungeOn ==
  ASSUME NEW s, NEW b \in BOOLEAN, Sound(s, b), s.client.command = "EXPUNGE"
  PROVE  Onward(s, ProcessNextFolder(Execute(s)), b)
<1> DEFINE c == s.client
           u == Execute(s)
           n == ProcessNextFolder(u)
<1>0. Typed(s) /\ Formed(s) /\ Lists(c) /\ c.request # "none" /\ (b => Quiet(s))
  BY SentQuiet DEF Sound, Typed, Fitting
<1>1. /\ Formed(u) /\ u.client = c /\ u.local = s.local /\ u.stored = s.stored
      /\ DOMAIN u.server \subseteq DOMAIN s.server
      /\ \A m \in DOMAIN u.server : u.server[m] = s.server[m]
  BY <1>0, Executed
<1> HIDE DEF u
<1>2. Typed(u) /\ (b => Quiet(u))
  BY <1>0, <1>1 DEF Typed, Quiet
<1>3. c.alone => Passed(u, NoMarks)
  <2> SUFFICES ASSUME c.alone, c.request = "synchronize", NEW m \in DOMAIN u.server, FolderOf[m] \notin c.todo
               PROVE  Settled(u, NoMarks, Listed(c), m)
    BY <1>1 DEF Passed
  <2>1. Settled(s, Owed(c), Wanted(c), m)
    BY <1>1 DEF Sound, Synced
  <2>2. Wanted(c) = Listed(c)
    BY DEF Wanted
  <2>3. \A k \in Mark : Owed(c)[k] = {} /\ NoMarks[k] = {}
    BY NothingOwed
  <2> QED
    BY <1>1, <2>1, <2>2, <2>3 DEF Settled
<1>4. Same(u, n) /\ Sound(n, b) /\ Ends(u, n)
  BY <1>0, <1>1, <1>2, <1>3, FolderSound
<1> HIDE DEF n
<1>5. Ends(s, n) /\ Holds(s, n)
  BY <1>1, <1>4, HoldsSame DEF Ends, Same
<1> QED
  BY <1>4, <1>5 DEF Onward, n, u

\* The answer to CLOSE
LEMMA CloseOn ==
  ASSUME NEW s, NEW b \in BOOLEAN, Sound(s, b), s.client.command = "CLOSE"
  PROVE  Onward(s, HandleClose(Execute(s)), b)
<1> DEFINE c == s.client
           u == Execute(s)
           l == Without(u.local, c.list)
           n == HandleClose(u)
<1>0. Typed(s) /\ Formed(s) /\ Lists(c) /\ c.request = "delete" /\ (b => Quiet(s))
  BY SentQuiet DEF Sound, Typed, Fitting
<1>1. /\ Formed(u) /\ u.client = c /\ u.local = s.local /\ u.stored = s.stored
      /\ DOMAIN u.server \subseteq DOMAIN s.server
      /\ \A m \in DOMAIN u.server : u.server[m] = s.server[m]
  BY <1>0, Executed
<1> HIDE DEF u
<1>2. /\ Formed(n) /\ n.server = u.server /\ n.stored = u.stored /\ n.local = l
      /\ n.client.command = "EXAMINE" /\ n.client.request = c.request
      /\ n.client.marks = c.marks /\ n.client.retrieve = c.retrieve
  BY <1>1, Closed
<1>3. DOMAIN l \subseteq DOMAIN s.local /\ \A m \in DOMAIN l : l[m] = s.local[m]
  BY <1>1 DEF Without
<1> HIDE DEF l, n
<1>4. Typed(n)
  BY <1>0, <1>1, <1>2, <1>3 DEF Typed, Lists
<1>5. Fitting(n.client) /\ ~Full(n.client)
  BY <1>0, <1>2 DEF Fitting, Full
<1>6. b => Quiet(n)
  BY <1>0, <1>1, <1>2 DEF Quiet
<1>7. Sound(n, b)
  BY <1>4, <1>5, <1>6, PlainSound
<1>8. Ends(s, n) /\ Holds(s, n)
  BY <1>0, <1>2, <1>3 DEF Ends, Holds, Pending
<1> QED
  BY <1>7, <1>8 DEF Onward, n, u

\* The answer to EXAMINE
LEMMA ExamineOn ==
  ASSUME NEW s, NEW b \in BOOLEAN, Sound(s, b), s.client.command = "EXAMINE"
  PROVE  Onward(s, SelectOrEnd([s EXCEPT !.client.last = 0]), b)
<1> DEFINE c == [s.client EXCEPT !.last = 0]
           u == [s EXCEPT !.client = c]
           n == SelectOrEnd(u)
<1>0. Typed(s) /\ Formed(s) /\ Lists(s.client) /\ s.client.request = "delete" /\ (b => Quiet(s))
  BY SentQuiet DEF Sound, Typed, Fitting
<1>1. [s EXCEPT !.client.last = 0] = u
  BY <1>0 DEF Formed, Members, Has
<1>2. Members(c) /\ c.request = s.client.request /\ c.marks = s.client.marks /\ c.retrieve = s.client.retrieve
  BY <1>0 DEF Formed, Members, Has
<1> HIDE DEF c
<1>3. Same(s, u) /\ u.client = c
  BY <1>0, <1>2, ClientSet
<1> HIDE DEF u
<1>4. Selecting(u, n)
  BY <1>3, SelectedOrEnded DEF Same
<1> HIDE DEF n
<1>5. Same(s, n)
  BY <1>3, <1>4 DEF Same, Selecting
<1>6. \/ \E up, box : n.client = Idle(up, box)
      \/ /\ n.client.command \in {"STORE", "SELECT", "CLOSE"} /\ n.client.request = s.client.request
         /\ n.client.marks = s.client.marks /\ n.client.retrieve = s.client.retrieve
         /\ n.client.command = "STORE" => n.client.sending[1] = Deleted
  BY <1>2, <1>3, <1>4 DEF Selecting
<1>7. Onward(s, n, b)
  BY <1>0, <1>5, <1>6, DeletingSound
<1> QED
  BY <1>1, <1>7 DEF n

\* handleUidStore, of a deletion too
LEMMA StoredSound ==
  ASSUME NEW s, Typed(s), s.client.request # "none", NEW b \in BOOLEAN, b => Told(s),
         s.client.alone => Passed(s, s.client.marks)
  PROVE  LET n == StoreHandled(s) IN n.server = s.server /\ Sound(n, b) /\ Ends(s, n) /\ (b => Holds(s, n))
<1> DEFINE n == StoreHandled(s)
<1>1. CASE s.client.request = "delete"
  <2>1. n = DeletionStored(s)
    BY <1>1 DEF StoreHandled
  <2>2. b => Quiet(s)
    BY <1>1 DEF Told, Quiet, Exporting
  <2>3. /\ Same(s, n)
        /\ \/ \E up, box : n.client = Idle(up, box)
           \/ /\ n.client.command \in {"STORE", "SELECT", "CLOSE"} /\ n.client.request = s.client.request
              /\ n.client.marks = s.client.marks /\ n.client.retrieve = s.client.retrieve
              /\ n.client.command = "STORE" => n.client.sending[1] = Deleted
    BY <2>1, DeletionNext DEF Typed
  <2> HIDE DEF n
  <2>4. Onward(s, n, b)
    BY <1>1, <2>2, <2>3, DeletingSound
  <2> QED
    BY <1>1, <2>3, <2>4 DEF Onward, Same, n
<1>2. CASE s.client.request # "delete"
  BY <1>2, StoreSound DEF StoreHandled
<1> QED
  BY <1>1, <1>2

\* The answer to STORE
LEMMA StoreOn ==
  ASSUME NEW s, NEW b \in BOOLEAN, Sound(s, b), s.client.command = "STORE"
  PROVE  Onward(s, StoreHandled(Execute(s)), b)
<1> DEFINE c == s.client
           k == c.sending[1]
           M == c.sending[2]
           u == Execute(s)
           n == StoreHandled(u)
<1>0. Typed(s) /\ Formed(s) /\ Lists(c) /\ c.request # "none" /\ k \in Mark \cup {Deleted}
  BY DEF Sound, Typed, Fitting
<1>1. /\ Formed(u) /\ u.client = c /\ u.local = s.local /\ u.stored = s.stored
      /\ DOMAIN u.server \subseteq DOMAIN s.server
      /\ \A m \in DOMAIN u.server :
           /\ m \notin M => u.server[m] = s.server[m]
           /\ m \in M => /\ Marked(k) \in u.server[m] <=> Sets(k)
                         /\ \A x : x # Marked(k) => (x \in u.server[m] <=> x \in s.server[m])
  BY <1>0, Executed
<1>2. Marked(k) \in Shown \cup {"deleted"}
  BY DEF Marked, Shown
<1> HIDE DEF u
<1>3. Typed(u)
  <2>1. ASSUME NEW m \in DOMAIN u.server
        PROVE  u.server[m] \subseteq Shown \cup {"deleted"}
    <3>1. s.server[m] \subseteq Shown \cup {"deleted"}
      BY <1>0, <1>1 DEF Typed
    <3>2. \A x : x \in u.server[m] => x \in s.server[m] \/ x = Marked(k)
      BY <1>1
    <3> QED
      BY <1>2, <3>1, <3>2
  <2> QED
    BY <1>0, <1>1, <2>1 DEF Typed
<1>4. b => Told(u)
  <2> SUFFICES ASSUME b, NEW q \in Exporting, NEW j \in Mark, u.stored[q].marks[j] # {}
               PROVE  /\ q = c.request
                      /\ \A m \in u.stored[q].marks[j] \cap DOMAIN u.server : Marked(j) \in u.server[m] <=> Sets(j)
    BY <1>1 DEF Told
  <2>1. q = c.request /\ c.sending = <<j, u.stored[q].marks[j]>>
    BY <1>1 DEF Sound, Sent
  <2>2. k = j /\ M = u.stored[q].marks[j]
    BY <2>1
  <2> QED
    BY <1>1, <2>1, <2>2
<1>5. c.alone => Passed(u, c.marks)
  <2> SUFFICES ASSUME c.alone, c.request = "synchronize", NEW m \in DOMAIN u.server, FolderOf[m] \notin c.todo
               PROVE  Settled(u, c.marks, Listed(c), m)
    BY <1>1 DEF Passed
  <2>1. Settled(s, Owed(c), Listed(c), m)
    BY <1>1 DEF Sound, Synced, Wanted
  <2>2. \A j \in Mark : Owed(c)[j] = IF k = j THEN c.marks[j] \cup M ELSE c.marks[j]
    BY DEF Owed
  <2>3. CASE m \notin DOMAIN s.local
    BY <1>1, <2>1, <2>3 DEF Settled
  <2>4. CASE m \in DOMAIN s.local
    <3>1. ASSUME NEW j \in Mark, m \in c.marks[j]
          PROVE  Marked(j) \in u.local[m].here <=> Sets(j)
      <4>1. m \in Owed(c)[j]
        BY <2>2, <3>1
      <4>2. Marked(j) \in s.local[m].here <=> Sets(j)
        BY <2>1, <2>4, <4>1 DEF Settled
      <4> QED
        BY <1>1, <4>2
    <3>2. ASSUME NEW flag \in Shown, ~\E j \in Mark : Marked(j) = flag /\ m \in c.marks[j]
          PROVE  flag \in u.local[m].here <=> flag \in u.server[m]
      <4>1. CASE m \in M /\ flag = Marked(k)
        <5>1. k \in Mark
          BY <1>0, <4>1 DEF Marked, Deleted, Shown
        <5>2. m \in Owed(c)[k]
          BY <2>2, <4>1, <5>1
        <5>3. Marked(k) \in s.local[m].here <=> Sets(k)
          BY <2>1, <2>4, <5>1, <5>2 DEF Settled
        <5> QED
          BY <1>1, <4>1, <5>3
      <4>2. CASE ~(m \in M /\ flag = Marked(k))
        <5>1. flag \in u.server[m] <=> flag \in s.server[m]
          BY <1>1, <4>2
        <5>2. ~\E j \in Mark : Marked(j) = flag /\ m \in Owed(c)[j]
          BY <2>2, <3>2, <4>2
        <5>3. flag \in s.local[m].here <=> flag \in s.server[m]
          BY <2>1, <2>4, <5>2 DEF Settled
        <5> QED
          BY <1>1, <5>1, <5>3
      <4> QED
        BY <4>1, <4>2
    <3> QED
      BY <1>1, <2>4, <3>1, <3>2 DEF Settled
  <2> QED
    BY <2>3, <2>4
<1>6. n.server = u.server /\ Sound(n, b) /\ Ends(u, n) /\ (b => Holds(u, n))
  BY <1>0, <1>1, <1>3, <1>4, <1>5, StoredSound
<1> HIDE DEF n
<1>7. Ends(s, n) /\ (b => Holds(s, n))
  BY <1>1, <1>6 DEF Ends, Holds
<1> QED
  BY <1>6, <1>7 DEF Onward, n, u

\* The answer to a search
LEMMA SearchedOn ==
  ASSUME NEW s, NEW b \in BOOLEAN, Sound(s, b),
         s.client.command \in {"SEEN", "UNSEEN", "FLAGGED", "ALL", "KNOWN"}, NEW M, Truly(s, M)
  PROVE  Onward(s, SearchHandled(s, M), b)
<1>1. /\ Typed(s) /\ Fitting(s.client) /\ (b => Quiet(s)) /\ (b \/ s.client.alone => Exact(s))
      /\ s.client.alone => OthersPassed(s)
  BY SentQuiet, SyncedOthers DEF Sound
<1> QED
  BY <1>1, SearchSound

-----------------------------------------------------------------------------
(* Every step is sound *)

\* The history has its components.
Counted == Has(history, {"arrived", "faults", "clean"}) /\ history.clean \in BOOLEAN /\ history.faults \in Nat

\* What every step keeps, whatever fails and whoever acts.
Progress ==
  /\ Counted' /\ Sound(Now', history'.clean)
  /\ Handles /\ history'.clean /\ client.request # "updateFlags" => Holds(Now, Now')
  /\ history' = history => Ends(Now, Now')

\* A handler's step.
LEMMA OnwardStep ==
  ASSUME Counted, NEW n, Onward(Now, n, history.clean), Become(n), history' = history
  PROVE  Progress
<1>1. Now' = n
  BY Became DEF Onward, Sound, Typed
<1>2. Counted'
  BY DEF Counted
<1> QED
  BY <1>1, <1>2, NowParts DEF Onward, Progress

\* A failure is counted.
LEMMA FailedCounts ==
  ASSUME Counted, history' = [history EXCEPT !.faults = @ + 1, !.clean = FALSE]
  PROVE  Counted' /\ history'.clean = FALSE /\ history' # history
<1>1. /\ Has(history', {"arrived", "faults", "clean"})
      /\ history'.clean = FALSE /\ history'.faults = history.faults + 1
  BY DEF Counted, Has
<1>2. history.faults \in Nat
  BY DEF Counted
<1>3. history'.faults \in Nat /\ history'.faults # history.faults
  BY <1>1, <1>2
<1>4. history' # history
  BY <1>3
<1> QED
  BY <1>1, <1>3, <1>4 DEF Counted

\* A step that fails.
LEMMA FailedStep ==
  ASSUME Counted, history' = [history EXCEPT !.faults = @ + 1, !.clean = FALSE], Sound(Now', FALSE)
  PROVE  Progress
  BY FailedCounts DEF Progress

\* A connection without a strategy.
LEMMA NothingBegun ==
  Lists(Disconnected) /\ Disconnected.request = "none" /\ Disconnected.command = "none"
<1>1. \A up, box : Lists(Idle(up, box))
  BY IdleParts
<1>2. Lists(Idle(FALSE, 0))
  BY <1>1, Zenon
<1> QED
  BY <1>2, IdleClient DEF Disconnected

\* A state without a strategy.
LEMMA IdleSound ==
  ASSUME NEW s, Typed(s), NEW n, Formed(n), n.client = Disconnected, n.local = s.local,
         DOMAIN n.server \subseteq DOMAIN s.server,
         \A m \in DOMAIN n.server : n.server[m] \subseteq Shown \cup {"deleted"},
         NEW b \in BOOLEAN, b => Quiet(n)
  PROVE  Sound(n, b)
<1>1. Lists(n.client) /\ n.client.request = "none" /\ n.client.command = "none"
  BY NothingBegun
<1>2. Typed(n) /\ Fitting(n.client) /\ ~Full(n.client)
  BY <1>1 DEF Typed, Fitting, Full
<1> QED
  BY <1>2, PlainSound

\* The server's action leaves no other flags.
LEMMA ExecutedFlags ==
  ASSUME NEW s, Typed(s)
  PROVE  LET n == Execute(s) IN \A m \in DOMAIN n.server : n.server[m] \subseteq Shown \cup {"deleted"}
<1> DEFINE n == Execute(s)
           k == s.client.sending[1]
<1> SUFFICES ASSUME NEW m \in DOMAIN n.server
             PROVE  n.server[m] \subseteq Shown \cup {"deleted"}
  OBVIOUS
<1>1. m \in DOMAIN s.server /\ \A x : x \in n.server[m] => x \in s.server[m] \/ x = Marked(k)
  <2>1. s.client.command \notin {"STORE", "EXPUNGE", "CLOSE"} => n = s
    BY Executed DEF Typed
  <2>2. /\ DOMAIN n.server \subseteq DOMAIN s.server
        /\ s.client.command \in {"EXPUNGE", "CLOSE"} => n.server[m] = s.server[m]
        /\ s.client.command = "STORE" =>
             /\ m \notin s.client.sending[2] => n.server[m] = s.server[m]
             /\ m \in s.client.sending[2] => \A x : x # Marked(k) => (x \in n.server[m] <=> x \in s.server[m])
    BY Executed DEF Typed
  <2> HIDE DEF n
  <2> QED
    BY <2>1, <2>2
<1>2. Marked(k) \in Shown \cup {"deleted"}
  BY DEF Marked, Shown
<1>3. s.server[m] \subseteq Shown \cup {"deleted"}
  BY <1>1 DEF Typed
<1> QED
  BY <1>1, <1>2, <1>3

\* The answers of the server.
LEMMA AnswerSound ==
  ASSUME Counted, Sound(Now, history.clean), Answer
  PROVE  Progress
<1>0. /\ Formed(Now) /\ Now.client = client /\ Now.server = server /\ history.clean \in BOOLEAN
      /\ client.command \notin {"STORE", "EXPUNGE", "CLOSE"} => Execute(Now) = Now
  <2>1. Formed(Now) /\ Now.client = client /\ Now.server = server
    BY NowParts DEF Sound, Typed
  <2> QED
    BY <2>1, Executed DEF Counted
<1>1. CASE LoginDone
  <2> DEFINE n == HandleLogin([Now EXCEPT !.client.up = TRUE])
  <2>1. client.command = "LOGIN" /\ history' = history
    BY <1>1 DEF LoginDone, On
  <2>2. Become(n)
    BY <1>0, <1>1, <2>1 DEF LoginDone, On
  <2>3. Onward(Now, n, history.clean)
    BY <1>0, <2>1, LoginOn
  <2> HIDE DEF n
  <2> QED
    BY <2>1, <2>2, <2>3, OnwardStep
<1>2. CASE ListDone
  <2> DEFINE n == ProcessNextFolder([Now EXCEPT !.client.todo = Folder])
  <2>1. client.command = "LIST" /\ history' = history
    BY <1>2 DEF ListDone, On
  <2>2. Become(n)
    BY <1>0, <1>2, <2>1 DEF ListDone, On
  <2>3. Onward(Now, n, history.clean)
    BY <1>0, <2>1, ListOn
  <2> HIDE DEF n
  <2> QED
    BY <2>1, <2>2, <2>3, OnwardStep
<1>3. CASE SelectDone
  <2> DEFINE n == IF Now.client.request = "delete" THEN StoreSelected(Selected(Now)) ELSE FolderAction(Selected(Now))
  <2>1. client.command = "SELECT" /\ history' = history
    BY <1>3 DEF SelectDone, On
  <2>2. Become(n)
    BY <1>0, <1>3, <2>1 DEF SelectDone, On
  <2>3. Onward(Now, n, history.clean)
    BY <1>0, <2>1, SelectOn
  <2> HIDE DEF n
  <2> QED
    BY <2>1, <2>2, <2>3, OnwardStep
<1>4. CASE PreviewDone
  <2> DEFINE n == Send(Selected(Now), "FETCH")
  <2>1. client.command = "PREVIEW" /\ history' = history
    BY <1>4 DEF PreviewDone, On
  <2>2. Become(n)
    BY <1>0, <1>4, <2>1 DEF PreviewDone, On
  <2>3. Onward(Now, n, history.clean)
    BY <1>0, <2>1, PreviewOn
  <2> HIDE DEF n
  <2> QED
    BY <2>1, <2>2, <2>3, OnwardStep
<1>5. CASE FetchDone
  <2> DEFINE n == PreviewNext(Fetched(Now, Now.client.sending[2]))
  <2>1. client.command = "FETCH" /\ history' = history
    BY <1>5 DEF FetchDone, On
  <2>2. Become(n)
    BY <1>0, <1>5, <2>1 DEF FetchDone, On
  <2>3. Onward(Now, n, history.clean)
    BY <1>0, <2>1, FetchOn
  <2> HIDE DEF n
  <2> QED
    BY <2>1, <2>2, <2>3, OnwardStep
<1>6. CASE ExpungeDone
  <2> DEFINE n == ProcessNextFolder(Execute(Now))
  <2>1. client.command = "EXPUNGE" /\ history' = history /\ Become(n)
    BY <1>6 DEF ExpungeDone, On
  <2>2. Onward(Now, n, history.clean)
    BY <1>0, <2>1, ExpungeOn
  <2> HIDE DEF n
  <2> QED
    BY <2>1, <2>2, OnwardStep
<1>7. CASE CloseDone
  <2> DEFINE n == HandleClose(Execute(Now))
  <2>1. client.command = "CLOSE" /\ history' = history /\ Become(n)
    BY <1>7 DEF CloseDone, On
  <2>2. Onward(Now, n, history.clean)
    BY <1>0, <2>1, CloseOn
  <2> HIDE DEF n
  <2> QED
    BY <2>1, <2>2, OnwardStep
<1>8. CASE ExamineDone
  <2> DEFINE n == SelectOrEnd([Now EXCEPT !.client.last = 0])
  <2>1. client.command = "EXAMINE" /\ history' = history
    BY <1>8 DEF ExamineDone, On
  <2>2. Become(n)
    BY <1>0, <1>8, <2>1 DEF ExamineDone, On
  <2>3. Onward(Now, n, history.clean)
    BY <1>0, <2>1, ExamineOn
  <2> HIDE DEF n
  <2> QED
    BY <2>1, <2>2, <2>3, OnwardStep
<1>9. CASE StoreDone
  <2> DEFINE n == StoreHandled(Execute(Now))
  <2>1. client.command = "STORE" /\ history' = history /\ Become(n)
    BY <1>9 DEF StoreDone, On
  <2>2. Onward(Now, n, history.clean)
    BY <1>0, <2>1, StoreOn
  <2> HIDE DEF n
  <2> QED
    BY <2>1, <2>2, OnwardStep
<1>10. CASE SearchDone
  <2> DEFINE n == SearchHandled(Now, Matches)
  <2>1. client.command \in {"SEEN", "UNSEEN", "FLAGGED", "ALL", "KNOWN"} /\ history' = history /\ Become(n)
    BY <1>10 DEF SearchDone, Searching
  <2>2. Truly(Now, Matches)
    BY <1>0 DEF Truly, Matches, ReadThere, UnreadThere, FlaggedThere
  <2>3. Onward(Now, n, history.clean)
    BY <1>0, <2>1, <2>2, SearchedOn
  <2> HIDE DEF n
  <2> QED
    BY <2>1, <2>3, OnwardStep
<1> QED
  BY <1>1, <1>2, <1>3, <1>4, <1>5, <1>6, <1>7, <1>8, <1>9, <1>10 DEF Answer

\* A STORE is refused, or a search answered in part.
LEMMA FaultySound ==
  ASSUME Counted, Sound(Now, history.clean), StoreRefused \/ \E m \in Mail : SearchPartial(m)
  PROVE  Progress
<1> DEFINE c == [Now.client EXCEPT !.alone = FALSE]
           u == [Now EXCEPT !.client = c]
<1>0. Typed(Now) /\ Formed(Now) /\ Now.client = client /\ Fitting(client)
  BY NowParts DEF Sound, Typed
<1>1. [Now EXCEPT !.client.alone = FALSE] = u
  BY <1>0 DEF Formed, Members, Has
<1>2. /\ Members(c) /\ c.alone = FALSE /\ c.request = client.request /\ c.command = client.command
      /\ c.sending = client.sending /\ c.marks = client.marks /\ c.retrieve = client.retrieve
  BY <1>0 DEF Formed, Members, Has
<1> HIDE DEF c
<1>3. Same(Now, u) /\ u.client = c
  BY <1>0, <1>2, ClientSet
<1> HIDE DEF u
<1>4. Typed(u) /\ Fitting(u.client)
  <2>1. Typed(u)
    BY <1>0, <1>2, <1>3, SameTyped DEF Typed, Lists
  <2>2. Fitting(u.client)
    BY <1>0, <1>2, <1>3 DEF Fitting, Full
  <2> QED
    BY <2>1, <2>2
<1>5. CASE StoreRefused
  <2> DEFINE n == StoreHandled(u)
  <2>1. /\ client.command = "STORE" /\ Become(n)
        /\ history' = [history EXCEPT !.faults = @ + 1, !.clean = FALSE]
    BY <1>1, <1>5 DEF StoreRefused
  <2>2. u.client.request # "none"
    BY <1>0, <1>2, <1>3, <2>1 DEF Fitting
  <2>3. Sound(n, FALSE)
    BY <1>2, <1>3, <1>4, <2>2, StoredSound
  <2> HIDE DEF n
  <2>4. Now' = n
    BY <2>1, <2>3, Became DEF Sound, Typed
  <2> QED
    BY <2>1, <2>3, <2>4, FailedStep
<1>6. ASSUME NEW m \in Mail, SearchPartial(m)
      PROVE  Progress
  <2> DEFINE M == Matches \ {m}
             n == SearchHandled(u, M)
  <2>1. /\ client.command \in {"SEEN", "UNSEEN", "FLAGGED", "ALL", "KNOWN"} /\ Become(n)
        /\ history' = [history EXCEPT !.faults = @ + 1, !.clean = FALSE]
    BY <1>1, <1>6 DEF SearchPartial, Searching
  <2> HIDE DEF M
  <2>2. Onward(u, n, FALSE)
    BY <1>0, <1>2, <1>3, <1>4, <2>1, SearchSound
  <2> HIDE DEF n
  <2>3. Now' = n
    BY <2>1, <2>2, Became DEF Onward, Sound, Typed
  <2> QED
    BY <2>1, <2>2, <2>3, FailedStep DEF Onward
<1> QED
  BY <1>5, <1>6

\* The connection is given up or lost, or the daemon ends.
LEMMA EndSound ==
  ASSUME Counted, Sound(Now, history.clean), Logout \/ Crash \/ \E done \in BOOLEAN : Lose(done)
  PROVE  Progress
<1>0. Typed(Now) /\ Formed(Now) /\ Fitting(Now.client) /\ Members(Disconnected)
  BY IdleClient DEF Sound, Typed, Disconnected
<1>1. CASE Logout
  <2> DEFINE n == [Now EXCEPT !.client = Disconnected]
  <2>1. Now.client.request = "none" /\ history' = history /\ Now' = n
    BY <1>1 DEF Logout, Now
  <2>2. Same(Now, n) /\ n.client = Disconnected
    BY <1>0, ClientSet
  <2> HIDE DEF n
  <2>3. history.clean => Quiet(n)
    <3>1. Now.client.command # "STORE"
      BY <1>0, <2>1 DEF Fitting
    <3>2. history.clean => Quiet(Now)
      BY <3>1, SentQuiet DEF Sound
    <3> QED
      BY <2>2, <3>2 DEF Quiet, Same
  <2>4. Sound(n, history.clean)
    BY <1>0, <2>2, <2>3, IdleSound DEF Same, Typed, Counted
  <2>5. Holds(Now, n) /\ Ends(Now, n)
    BY <2>1, <2>2, HoldsSame DEF Same, Ends
  <2> QED
    BY <2>1, <2>4, <2>5 DEF Counted, Progress
<1>2. CASE Crash
  <2> DEFINE st == [r \in Exporting |-> [marks |-> NoMarks, removed |-> {}]]
             n == Now'
  <2>0. n = Now'
    OBVIOUS
  <2>1. /\ n.server = Now.server /\ n.local = Now.local /\ n.records = Now.records
        /\ n.client = Disconnected /\ n.stored = st
        /\ history' = [history EXCEPT !.faults = @ + 1, !.clean = FALSE]
    BY <1>2, NowParts, NextParts DEF Crash
  <2>2. Has(n, {"server", "local", "records", "client", "stored", "reports"})
    BY DEF Now, Has
  <2>3. Has(st, Exporting) /\ \A r \in Exporting : Has(st[r], {"marks", "removed"})
    BY DEF Has
  <2> HIDE DEF n, st
  <2>4. Formed(n)
    BY <1>0, <2>1, <2>2, <2>3 DEF Formed
  <2>5. Sound(n, FALSE)
    BY <1>0, <2>1, <2>4, IdleSound DEF Typed
  <2> QED
    BY <2>0, <2>1, <2>5, FailedStep
<1>3. ASSUME NEW done \in BOOLEAN, Lose(done)
      PROVE  Progress
  <2> DEFINE x == IF done THEN Execute(Now) ELSE Now
             n == [x EXCEPT !.client = Disconnected]
  <2>1. Become(n) /\ history' = [history EXCEPT !.faults = @ + 1, !.clean = FALSE]
    BY <1>3 DEF Lose
  <2>2. /\ Formed(x) /\ x.local = Now.local /\ DOMAIN x.server \subseteq DOMAIN Now.server
    BY <1>0, Executed
  <2>3. \A m \in DOMAIN x.server : x.server[m] \subseteq Shown \cup {"deleted"}
    BY <1>0, ExecutedFlags DEF Typed
  <2> HIDE DEF x
  <2>4. Same(x, n) /\ n.client = Disconnected
    BY <1>0, <2>2, ClientSet
  <2> HIDE DEF n
  <2>5. Now' = n
    BY <2>1, <2>4, Became DEF Same
  <2>6. Sound(n, FALSE)
    BY <1>0, <2>2, <2>3, <2>4, IdleSound DEF Same
  <2> QED
    BY <2>1, <2>5, <2>6, FailedStep
<1> QED
  BY <1>1, <1>2, <1>3

\* A request is made.
LEMMA StartSound ==
  ASSUME Counted, Sound(Now, history.clean), NEW r \in Requests, NEW M \in SUBSET Mail, Start(r, M)
  PROVE  Progress
<1> DEFINE c == [Now.client EXCEPT !.request = r, !.selected = M]
           s == [Now EXCEPT !.client = c]
           n == IF client.up THEN HandleLogin(s) ELSE Send(s, "LOGIN")
           b == history.clean
<1>0. /\ Typed(Now) /\ Formed(Now) /\ Now.client = client /\ Fitting(client) /\ b \in BOOLEAN
      /\ client.request = "none" /\ client.command = "none"
  <2>1. client.request = "none" /\ Now.client = client
    BY NowParts DEF Start
  <2> QED
    BY <2>1 DEF Sound, Typed, Fitting, Counted
<1>1. [Now EXCEPT !.client.request = r, !.client.selected = M] = s
  BY <1>0 DEF Formed, Members, Has
<1>2. Become(n) /\ history' = history
  BY <1>1 DEF Start
<1>3. /\ Members(c) /\ c.request = r /\ c.command = "none" /\ c.marks = client.marks
      /\ c.retrieve = client.retrieve
  BY <1>0 DEF Formed, Members, Has
<1>4. r # "none"
  BY ImapAssumption DEF Kinds
<1> HIDE DEF c
<1>5. Same(Now, s) /\ s.client = c
  BY <1>0, <1>3, ClientSet
<1> HIDE DEF s
<1>6. Typed(s) /\ (b => Quiet(s)) /\ Formed(s)
  <2>1. b => Quiet(Now)
    BY <1>0, SentQuiet DEF Sound
  <2> QED
    BY <1>0, <1>3, <1>5, <2>1, SameTyped DEF Typed, Lists, Quiet, Same
<1>7. Same(s, n) /\ Onward(s, n, b)
  <2>1. CASE client.up
    BY <1>0, <1>3, <1>4, <1>5, <1>6, <2>1, LoginSound
  <2>2. CASE ~client.up
    <3> DEFINE w == Send(s, "LOGIN")
    <3>1. Same(s, w) /\ Stays(s.client, w.client) /\ w.client.command = "LOGIN"
      BY <1>6, SendStays
    <3> HIDE DEF w
    <3>2. Lists(w.client) /\ w.client.request # "none"
      BY <1>3, <1>4, <1>5, <1>6, <3>1 DEF Typed, Lists, Stays, GoesOn
    <3>3. Typed(w) /\ Fitting(w.client) /\ Exact(w) /\ Synced(w) /\ (b => Sent(w))
      BY <1>6, <3>1, <3>2, SameTyped DEF Fitting, Exact, Synced, Quiet, Sent, Same
    <3>4. Holds(s, w) /\ Ends(s, w)
      BY <3>1, <3>2, HoldsSame DEF Same, Ends
    <3>5. Onward(s, w, b)
      BY <3>3, <3>4 DEF Onward, Sound
    <3> QED
      BY <2>2, <3>1, <3>5 DEF w
  <2> QED
    BY <2>1, <2>2
<1> HIDE DEF n
<1>8. Ends(Now, n) /\ Holds(Now, n)
  BY <1>0, <1>5, <1>7, HoldsSame DEF Ends, Same
<1>9. Onward(Now, n, b)
  BY <1>7, <1>8 DEF Onward
<1> QED
  BY <1>2, <1>9, OnwardStep

\* Somebody else acts: the user, or, without a request or at the cost of a clean
\* history, another client.
LEMMA DisturbedSound ==
  ASSUME NEW s, NEW b \in BOOLEAN, Sound(s, b), NEW n, Typed(n), SameMembers(s.client, n.client),
         n.stored = s.stored, n.client.alone <=> s.client.request = "none",
         NEW e \in BOOLEAN, e => b /\ (n.server = s.server \/ s.client.request = "none")
  PROVE  Sound(n, e)
<1>1. /\ n.client.request = s.client.request /\ n.client.command = s.client.command
      /\ n.client.sending = s.client.sending /\ n.client.found = s.client.found
      /\ n.client.conclusive = s.client.conclusive /\ n.client.box = s.client.box
      /\ n.client.folder = s.client.folder
  BY DEF SameMembers
<1>2. Fitting(n.client)
  BY <1>1 DEF Sound, Fitting, Full
<1>3. s.client.request = "none" => Exact(n) /\ Synced(n)
  BY <1>1 DEF Exact, Synced, Full
<1>4. e /\ s.client.request # "none" => Exact(n)
  BY <1>1 DEF Sound, Exact, Full, ReadThere, UnreadThere
<1>5. e => Sent(n)
  BY <1>1 DEF Sound, Sent
<1> QED
  BY <1>2, <1>3, <1>4, <1>5 DEF Sound

\* The user marks or removes a message.
LEMMA UserSound ==
  ASSUME Counted, Sound(Now, history.clean), User
  PROVE  Progress
<1> DEFINE n == Now'
<1>0. /\ n = Now' /\ Now.client = client /\ Now.local = local /\ Now.server = server /\ Now.stored = stored
      /\ n.client = client' /\ n.local = local' /\ n.server = server' /\ n.stored = stored'
  BY NowParts, NextParts
<1>1. /\ history' = history /\ server' = server /\ stored' = stored /\ Formed(n)
      /\ SameMembers(client, client') /\ ~Handles /\ (client'.alone <=> client.request = "none")
      /\ DOMAIN local' \subseteq DOMAIN local
      /\ \A m \in DOMAIN local' : local'[m].here \subseteq local[m].here \cup Flags
  BY <1>0, UserParts DEF Sound, Typed
<1> HIDE DEF n
<1>2. Typed(n)
  <2>1. Flags \subseteq Shown
    BY ImapAssumption DEF Shown
  <2>2. \A m \in DOMAIN local' : local'[m].here \subseteq Shown
    <3>1. \A m \in DOMAIN local : local[m].here \subseteq Shown
      BY <1>0 DEF Sound, Typed
    <3> QED
      BY <1>1, <2>1, <3>1
  <2> QED
    BY <1>0, <1>1, <2>2 DEF Sound, Typed, Lists, SameMembers
<1>3. Sound(n, history.clean)
  BY <1>0, <1>1, <1>2, DisturbedSound DEF Counted
<1>4. Ends(Now, n)
  BY <1>0, <1>1 DEF Ends, SameMembers
<1> QED
  BY <1>0, <1>1, <1>3, <1>4 DEF Counted, Progress

\* Another client leaves the mails t on the server.
LEMMA OthersSound ==
  ASSUME Counted, Sound(Now, history.clean), NEW kind, NEW t, OthersAct(kind, t),
         Has(t, DOMAIN t), DOMAIN t \in SUBSET Mail, \A m \in DOMAIN t : t[m] \subseteq Shown \cup {"deleted"}
  PROVE  Progress
<1> DEFINE n == Now'
<1>0. /\ n = Now' /\ Now.client = client /\ Now.local = local /\ Now.server = server /\ Now.stored = stored
      /\ n.client = client' /\ n.local = local' /\ n.server = server' /\ n.stored = stored'
  BY NowParts, NextParts
<1>1. client' = Disturbed /\ server' = t /\ stored' = stored /\ local' = local
  BY DEF OthersAct
<1>2. /\ Has(history', {"arrived", "faults", "clean"}) /\ history'.faults = history.faults
      /\ history'.clean = (history.clean /\ client.request = "none")
  BY DEF OthersAct, Counted, Has
<1>3. /\ Members(client') /\ SameMembers(client, client') /\ ~Handles
      /\ client'.alone <=> client.request = "none"
  BY <1>0, <1>1, DisturbedParts DEF Sound, Typed, Formed
<1>4. Has(n, {"server", "local", "records", "client", "stored", "reports"})
  BY DEF Now, Has
<1> HIDE DEF n
<1>5. Typed(n)
  <2>1. Formed(n)
    BY <1>0, <1>1, <1>3, <1>4 DEF Sound, Typed, Formed
  <2> QED
    BY <1>0, <1>1, <1>3, <2>1 DEF Sound, Typed, Lists, SameMembers
<1>6. Counted'
  BY <1>2 DEF Counted
<1>7. Sound(n, history'.clean)
  BY <1>0, <1>1, <1>2, <1>3, <1>5, DisturbedSound DEF Counted
<1>8. Ends(Now, n)
  BY <1>0, <1>3 DEF Ends, SameMembers
<1> QED
  BY <1>0, <1>3, <1>6, <1>7, <1>8 DEF Progress

\* Other clients deliver, mark and remove messages.
LEMMA OtherClientsSound ==
  ASSUME Counted, Sound(Now, history.clean), OtherClients
  PROVE  Progress
<1>0. /\ Has(server, DOMAIN server) /\ DOMAIN server \in SUBSET Mail
      /\ \A m \in DOMAIN server : server[m] \subseteq Shown \cup {"deleted"}
  BY NowParts DEF Sound, Typed, Formed
<1>1. ASSUME NEW m \in Mail, Arrives(m)
      PROVE  Progress
  <2> DEFINE t == [n \in DOMAIN server \cup {m} |-> IF n = m THEN {} ELSE server[n]]
  <2>1. OthersAct("arrive", t)
    BY <1>1 DEF Arrives
  <2>2. /\ Has(t, DOMAIN t) /\ DOMAIN t = DOMAIN server \cup {m} /\ t[m] = {}
        /\ \A n \in DOMAIN server : n # m => t[n] = server[n]
    BY DEF Has
  <2> HIDE DEF t
  <2>3. \A n \in DOMAIN t : t[n] \subseteq Shown \cup {"deleted"}
    BY <1>0, <2>2
  <2> QED
    BY <1>0, <2>1, <2>2, <2>3, OthersSound
<1>2. ASSUME NEW m \in DOMAIN server, NEW flag \in Flags \cup {"deleted"}, OthersMark(m, flag)
      PROVE  Progress
  <2> DEFINE F == Toggle(server[m], flag)
             t == [server EXCEPT ![m] = F]
             kind == IF flag = "deleted" THEN "delete" ELSE IF flag \in server[m] THEN "clear" ELSE "set"
  <2>1. OthersAct(kind, t)
    BY <1>2 DEF OthersMark
  <2>2. F \subseteq Shown \cup {"deleted"}
    <3>1. flag \in Shown \cup {"deleted"}
      BY ImapAssumption DEF Shown
    <3> QED
      BY <1>0, <3>1 DEF Toggle
  <2> HIDE DEF F, kind
  <2>3. Has(t, DOMAIN t) /\ DOMAIN t = DOMAIN server /\ t[m] = F /\ \A n \in DOMAIN server : n # m => t[n] = server[n]
    BY <1>0 DEF Has
  <2> HIDE DEF t
  <2>4. \A n \in DOMAIN t : t[n] \subseteq Shown \cup {"deleted"}
    BY <1>0, <2>2, <2>3
  <2> QED
    BY <1>0, <2>1, <2>3, <2>4, OthersSound
<1>3. ASSUME NEW m \in DOMAIN server, OthersRemove(m)
      PROVE  Progress
  <2> DEFINE t == Without(server, {m})
  <2>1. OthersAct("remove", t)
    BY <1>3 DEF OthersRemove
  <2>2. /\ Has(t, DOMAIN t) /\ DOMAIN t = DOMAIN server \ {m}
        /\ \A n \in DOMAIN server \ {m} : t[n] = server[n]
    BY DEF Has, Without
  <2> HIDE DEF t
  <2>3. \A n \in DOMAIN t : t[n] \subseteq Shown \cup {"deleted"}
    BY <1>0, <2>2
  <2> QED
    BY <1>0, <2>1, <2>2, <2>3, OthersSound
<1> QED
  BY <1>1, <1>2, <1>3 DEF OtherClients

\* Every step
LEMMA StepSound ==
  ASSUME Counted, Sound(Now, history.clean), [Next]_vars
  PROVE  Progress
<1>1. CASE UNCHANGED vars
  <2>1. Now' = Now /\ history' = history /\ client' = client
    BY <1>1 DEF vars, Now
  <2>2. ~Handles /\ Counted'
    BY <2>1 DEF Handles, Counted
  <2>3. Ends(Now, Now')
    <3>1. Ends(Now, Now)
      BY DEF Ends
    <3> QED
      BY <2>1, <3>1
  <2> QED
    BY <2>1, <2>2, <2>3 DEF Progress
<1>2. ASSUME NEW r \in Requests, NEW M \in SUBSET Mail, Start(r, M)
      PROVE  Progress
  BY <1>2, StartSound
<1>3. CASE Answer
  BY <1>3, AnswerSound
<1>4. CASE StoreRefused \/ \E m \in Mail : SearchPartial(m)
  BY <1>4, FaultySound
<1>5. CASE Logout \/ Crash \/ \E done \in BOOLEAN : Lose(done)
  BY <1>5, EndSound
<1>6. CASE User
  BY <1>6, UserSound
<1>7. CASE OtherClients
  BY <1>7, OtherClientsSound
<1> QED
  BY <1>1, <1>2, <1>3, <1>4, <1>5, <1>6, <1>7 DEF Next

\* What holds at the start.
LEMMA SoundAtFirst ==
  ASSUME Init
  PROVE  Counted /\ Sound(Now, history.clean)
<1>1. Counted
  BY DEF Init, Counted, Has
<1>2. Formed(Now)
  BY AtFirst DEF Base
<1>3. Now.server = [m \in Initial |-> {}] /\ Now.local = <<>> /\ Now.client = Disconnected
  BY NowParts DEF Init
<1>4. Lists(Now.client) /\ Now.client.request = "none" /\ Now.client.command = "none"
  BY <1>3, NothingBegun
<1>5. Typed(Now)
  BY <1>2, <1>3, <1>4 DEF Typed
<1>6. Quiet(Now)
  BY NowParts DEF Init, Quiet, NoMarks
<1> QED
  BY <1>1, <1>4, <1>5, <1>6, PlainSound DEF Counted, Fitting, Full

-----------------------------------------------------------------------------
(* The theorems *)

\* The inductive invariants.
Kept == Has(history, {"arrived", "faults", "clean"}) /\ Base(Now, history.arrived)
KeptAndFound == Kept /\ Found(Now) /\ Deleting(Now, history.arrived)
KeptAndRemoved == KeptAndFound /\ Removing(Now, history.arrived)
KeptSound == Counted /\ Sound(Now, history.clean)

\* Whatever fails, and whatever other clients deliver, read, remove or mark as
\* deleted, a message that the user has read is marked unread only if the server
\* had it as read: NowUnread, of what the searches for seen and unseen messages
\* report.  A client that marks messages as unread between the two searches, and
\* the check of flags, whose search results outlive its runs, are left out.
THEOREM ReadStaysRead ==
  ASSUME "updateFlags" \notin Requests, "clear" \notin Others
  PROVE  Spec => UnreadWasReadElsewhere
<1>1. Init => Kept
  BY AtFirst DEF Kept
<1>2. Kept /\ [Next]_vars => Kept'
  <2> SUFFICES ASSUME Kept, [Next]_vars PROVE Kept'
    OBVIOUS
  <2>1. Keeping
    BY StepKeeps DEF Kept
  <2> QED
    BY <2>1 DEF Keeping, Kept
<1>3. Kept /\ [Next]_vars =>
        [Handles => \A m \in DOMAIN local \cap DOMAIN local' :
           "seen" \in local[m].here \ local'[m].here => "seen" \in local[m].elsewhere]_vars
  <2> SUFFICES ASSUME Kept, [Next]_vars, Handles
               PROVE  \A m \in DOMAIN local \cap DOMAIN local' :
                        "seen" \in local[m].here \ local'[m].here => "seen" \in local[m].elsewhere
    OBVIOUS
  <2>1. Keeping
    BY StepKeeps DEF Kept
  <2> QED
    BY <2>1 DEF Keeping, KeptRead
<1> QED
  BY <1>1, <1>2, <1>3, PTL DEF Spec, UnreadWasReadElsewhere

\* No step of a strategy takes a message from the store that is on the server.
\* The messages that are purged were in none of the searches, which account for
\* every message of the mailbox, and what a deletion takes away has been marked
\* and expunged.  Nobody else removes messages or marks them as unread, and where
\* messages are deleted no STORE is refused and nobody takes back a mark.
THEOREM LiveStays ==
  ASSUME "updateFlags" \notin Requests, "clear" \notin Others, "remove" \notin Others,
         "delete" \in Requests => "refusal" \notin Faults /\ "delete" \notin Others
  PROVE  Spec => LiveKept
<1>0. Firm
  BY DEF Firm
<1>1. Init => KeptAndFound
  BY AtFirst DEF KeptAndFound, Kept
<1>2. KeptAndFound /\ [Next]_vars => KeptAndFound'
  <2> SUFFICES ASSUME KeptAndFound, [Next]_vars PROVE KeptAndFound'
    OBVIOUS
  <2>1. Keeping
    BY StepKeeps DEF KeptAndFound, Kept
  <2> QED
    BY <1>0, <2>1 DEF Keeping, KeptAndFound, Kept
<1>3. KeptAndFound /\ [Next]_vars =>
        [Handles => \A m \in DOMAIN local \ DOMAIN local' : m \notin DOMAIN server']_vars
  <2> SUFFICES ASSUME KeptAndFound, [Next]_vars, Handles
               PROVE  \A m \in DOMAIN local \ DOMAIN local' : m \notin DOMAIN server'
    OBVIOUS
  <2>1. Keeping
    BY StepKeeps DEF KeptAndFound, Kept
  <2>2. KeptLive(Now, Now')
    BY <1>0, <2>1 DEF Keeping, KeptAndFound
  <2> QED
    BY <2>2, NowParts, NextParts DEF KeptLive
<1> QED
  BY <1>1, <1>2, <1>3, PTL DEF Spec, LiveKept

\* No step of a strategy drops the removal record of a message that is on the
\* server: handleUidStore drops the records of what it has marked when EXPUNGE
\* has removed it, and the purge those of messages that are not there.  Answers
\* may be incomplete and the daemon may end at any time; the connection stays and
\* no STORE is refused.
THEOREM RecordsStay ==
  ASSUME "updateFlags" \notin Requests, Others \subseteq {"arrive", "set"},
         Faults \subseteq {"partial", "crash"}
  PROVE  Spec => RecordKept
<1>0. Firm /\ Sturdy /\ "clear" \notin Others /\ "remove" \notin Others
  BY DEF Firm, Sturdy
<1>1. Init => KeptAndRemoved
  BY AtFirst DEF KeptAndRemoved, KeptAndFound, Kept
<1>2. KeptAndRemoved /\ [Next]_vars => KeptAndRemoved'
  <2> SUFFICES ASSUME KeptAndRemoved, [Next]_vars PROVE KeptAndRemoved'
    OBVIOUS
  <2>1. Keeping
    BY <1>0, StepKeeps DEF KeptAndRemoved, KeptAndFound, Kept
  <2> QED
    BY <1>0, <2>1 DEF Keeping, KeptAndRemoved, KeptAndFound, Kept
<1>3. KeptAndRemoved /\ [Next]_vars =>
        [Handles => \A m \in records \ records' : m \notin DOMAIN server']_vars
  <2> SUFFICES ASSUME KeptAndRemoved, [Next]_vars, Handles
               PROVE  \A m \in records \ records' : m \notin DOMAIN server'
    OBVIOUS
  <2>1. Keeping
    BY <1>0, StepKeeps DEF KeptAndRemoved, KeptAndFound, Kept
  <2>2. KeptRecords(Now, Now')
    BY <1>0, <2>1 DEF Keeping, KeptAndRemoved, KeptAndFound
  <2> QED
    BY <2>2, NowParts, NextParts DEF KeptRecords
<1> QED
  BY <1>1, <1>2, <1>3, PTL DEF Spec, RecordKept

\* As long as nothing has failed and other clients act between requests only, no
\* change of the user is taken for exported that the server does not have:
\* handleUidStore enters as the server's state what the STORE before named, which
\* the _stored lists hold then and at no other time, and updateMessagesMetaData
\* what the searches report.  The user may act at any time.  The steps of the
\* check of flags, whose search results outlive its runs, are excepted.
THEOREM PendingStays == Spec => PendingKept
<1>1. Init => KeptSound
  BY SoundAtFirst DEF KeptSound
<1>2. KeptSound /\ [Next]_vars => KeptSound'
  BY StepSound DEF KeptSound, Progress
<1>3. KeptSound /\ [Next]_vars =>
        [Handles /\ history'.clean /\ client.request # "updateFlags"
         => \A m \in DOMAIN server' \cap DOMAIN local', flag \in Flags :
              Pending(local, m, flag) /\ ~Pending(local', m, flag)
                => (flag \in local'[m].here) = (flag \in server'[m])]_vars
  <2> SUFFICES ASSUME KeptSound, [Next]_vars, Handles, history'.clean, client.request # "updateFlags",
                      NEW m \in DOMAIN server' \cap DOMAIN local', NEW flag \in Flags,
                      Pending(local, m, flag), ~Pending(local', m, flag)
               PROVE  (flag \in local'[m].here) = (flag \in server'[m])
    OBVIOUS
  <2>1. Holds(Now, Now')
    BY StepSound DEF KeptSound, Progress
  <2>2. flag \in Shown
    BY ImapAssumption DEF Shown
  <2> QED
    BY <2>1, <2>2, NowParts, NextParts DEF Holds
<1> QED
  BY <1>1, <1>2, <1>3, PTL DEF Spec, PendingKept

\* A full synchronization that nobody disturbs ends when the store holds every
\* message of the server, with its flags.  A failure, a refusal or the end of the
\* daemon before the request, and what it left in the _stored lists, do no harm:
\* what the searches find is compared with what is known of the server, each
\* difference is imported or exported, and every new message is fetched.
THEOREM SynchronizationCompletes == Spec => SynchronizationAgrees
<1>1. Init => KeptSound
  BY SoundAtFirst DEF KeptSound
<1>2. KeptSound /\ [Next]_vars => KeptSound'
  BY StepSound DEF KeptSound, Progress
<1>3. KeptSound /\ [Next]_vars =>
        [/\ client.request = "synchronize" /\ client.alone
         /\ client' = Idle(TRUE, client'.box) /\ history' = history
         => \A m \in DOMAIN server' : m \in DOMAIN local' /\ local'[m].here = server'[m] \ {"deleted"}]_vars
  <2> SUFFICES ASSUME KeptSound, [Next]_vars, client.request = "synchronize", client.alone,
                      client' = Idle(TRUE, client'.box), history' = history, NEW m \in DOMAIN server'
               PROVE  m \in DOMAIN local' /\ local'[m].here = server'[m] \ {"deleted"}
    OBVIOUS
  <2>1. Ends(Now, Now') /\ Sound(Now', history'.clean)
    BY StepSound DEF KeptSound, Progress
  <2>2. client'.request = "none"
    <3>1. \A up, box : Idle(up, box).request = "none"
      BY IdleClient
    <3> QED
      BY <3>1, Zenon
  <2>3. Agreed(Now')
    BY <2>1, <2>2, NowParts, NextParts DEF Ends
  <2>4. m \in DOMAIN local' /\ \A flag \in Shown : flag \in local'[m].here <=> flag \in server'[m]
    BY <2>3, NextParts DEF Agreed
  <2>5. local'[m].here \subseteq Shown /\ server'[m] \subseteq Shown \cup {"deleted"}
    BY <2>1, <2>4, NextParts DEF Sound, Typed
  <2>6. "deleted" \notin Shown
    BY DEF Shown
  <2> QED
    BY <2>4, <2>5, <2>6
<1> QED
  BY <1>1, <1>2, <1>3, PTL DEF Spec, SynchronizationAgrees

=============================================================================
