--------------------------- MODULE PopClientProofs ---------------------------
(***************************************************************************)
(* What TLAPS proves of PopClient.                                         *)
(*                                                                         *)
(*   ListingStaysCurrent  a session that works through a listing uses only *)
(*       positions that it has read itself;                                *)
(*   MarksOnlyHeld  with current positions only what has been asked for,   *)
(*       or has been fetched, is marked for deletion;                      *)
(*   DeletionDone, RetrievalDone  an operation on a selection that is      *)
(*       reported as successful has done what it was asked to do.          *)
(*                                                                         *)
(* The first follows from Session; the others from Sound, which says how   *)
(* far the operation under way has come with each message of its           *)
(* selection, at every status that nextAction can be in.                   *)
(***************************************************************************)
EXTENDS PopClient, FiniteSetTheorems, SequenceTheorems, WellFoundedInduction, TLAPS

\* r is a record (or a function) on D.
On(r, D) == r = [x \in D |-> r[x]]

\* The lines of a session with the messages in drop.
LineOf(drop) == [kind : {"+OK", "-ERR", ".", "item"}, uid : drop \cup {0}]

\* A state has its components, and what is on its way to the client concerns
\* messages that the session has.
Formed(s) ==
  /\ On(s, {"client", "source", "link", "mailbox", "store", "handler", "account"})
  /\ On(s.client, {"status", "running", "selected", "deleting", "testing", "pendingDeletes", "timer",
                   "limit", "numbers", "newUids", "obsolete", "selection", "existing", "left", "uid"})
  /\ On(s.client.numbers, Uid)
  /\ On(s.link, {"state", "wire", "drop", "marked"})
  /\ s.link.drop \in SUBSET Uid
  /\ s.link.wire \in Seq(LineOf(s.link.drop))
  /\ s.link.state = "opening" => s.link.drop = {}
  /\ On(s.handler, {"request", "available", "posted", "told", "success"})
  /\ s.mailbox \in SUBSET Uid

\* A test of the connection never reaches the listing.
Tested(s) ==
  s.client.testing => s.client.status \in {"Init", "CapabilityTest", "Capabilities", "Auth", "Done",
                                           "Quit", "Exit"}

\* The positions are current from the opening of a connection to its end.
Positions(s) ==
  InUse(s) /\ ~s.client.selected /\ ~s.client.testing /\ s.client.status \notin {"Done", "Quit", "Exit"}
    => Current(s)

\* No operation on a selection is under way.
Free(s) ==
  ~(InUse(s) /\ s.client.selected /\ ~s.client.testing /\ s.client.status \notin {"Quit", "Exit"})

\* An operation on a selection is one that the daemon waits for, and no other
\* completion is in the event queue.
Requested(s) == Free(s) \/ (s.handler.request # "none" /\ ~s.handler.posted)

\* The inductive invariant.
Session(s) == Formed(s) /\ Tested(s) /\ Positions(s) /\ Requested(s)

PopInv == Session(Now) /\ history.arrived \in 0 .. MaxUid /\ On(history, {"arrived", "requests", "crashes", "asked"})

-----------------------------------------------------------------------------
(* The lines of the server *)

\* The positions of a listing are numbered from one, and no two messages have
\* the same.
LEMMA RankOne ==
  ASSUME NEW drop \in SUBSET Uid
  PROVE  /\ IsFiniteSet(drop) /\ Cardinality(drop) \in Nat
         /\ \A u \in drop : Rank(u, drop) \in 1 .. Cardinality(drop)
         /\ \A u \in drop, v \in drop : Rank(u, drop) = Rank(v, drop) => u = v
<1> DEFINE C == Cardinality(drop)
           Below(u) == {v \in drop : v <= u}
<1>1. IsFiniteSet(drop) /\ drop \in SUBSET Nat /\ C \in Nat
  <2>1. drop \in SUBSET Nat /\ MaxUid \in Nat /\ \A u \in drop : u <= MaxUid
    BY PopAssumption DEF Uid
  <2>2. IsFiniteSet(drop)
    BY <2>1, FS_BoundedSetOfNaturals
  <2> QED
    BY <2>1, <2>2, FS_CardinalityType
<1>2. ASSUME NEW u \in drop
      PROVE  IsFiniteSet(Below(u)) /\ Cardinality(Below(u)) \in 1 .. C
  <2>1. Below(u) \in SUBSET drop /\ u \in Below(u)
    BY <1>1
  <2>2. IsFiniteSet(Below(u)) /\ Cardinality(Below(u)) <= C
    BY <1>1, <2>1, FS_Subset
  <2>3. Cardinality(Below(u)) \in Nat
    BY <2>2, FS_CardinalityType
  <2>4. Cardinality(Below(u)) # 0
    <3> DEFINE B == Below(u)
    <3>1. B # {} /\ IsFiniteSet(B)
      BY <2>1, <2>2
    <3> HIDE DEF B
    <3>2. Cardinality(B) # 0
      BY <3>1, FS_EmptySet, Zenon
    <3> QED
      BY <3>2 DEF B
  <2> QED
    BY <1>1, <2>2, <2>3, <2>4
<1>3. ASSUME NEW u \in drop, NEW v \in drop, u < v
      PROVE  Cardinality(Below(u)) # Cardinality(Below(v))
  <2>0. u \in Nat /\ v \in Nat /\ v <= v /\ ~(v <= u) /\ \A w \in drop : w <= u => w <= v
    <3>1. \A w \in drop : w \in Nat
      BY <1>1
    <3> QED
      BY <1>3, <3>1
  <2>1. Below(u) \in SUBSET Below(v) /\ v \in Below(v) /\ v \notin Below(u)
    BY <2>0
  <2> QED
    BY <1>2, <2>1, FS_Subset
<1>4. ASSUME NEW u \in drop, NEW v \in drop, Rank(u, drop) = Rank(v, drop)
      PROVE  u = v
  <2>1. Cardinality(Below(u)) = Cardinality(Below(v))
    BY <1>4 DEF Rank
  <2>2. u < v \/ v < u \/ u = v
    BY <1>1
  <2> QED
    BY <1>3, <2>1, <2>2
<1> QED
  BY <1>1, <1>2, <1>4 DEF Rank

\* Every position of a listing belongs to a message.
LEMMA RankOnto ==
  ASSUME NEW drop \in SUBSET Uid, NEW k \in 1 .. Cardinality(drop)
  PROVE  \E u \in drop : Rank(u, drop) = k
<1> DEFINE C == Cardinality(drop)
           f == [u \in drop |-> Rank(u, drop)]
<1>1. IsFiniteSet(drop) /\ C \in Nat
  BY RankOne
<1>2. f \in Injection(drop, 1 .. C)
  BY RankOne DEF Injection, IsInjective
<1>3. IsFiniteSet(1 .. C) /\ Cardinality(1 .. C) = C
  <2>1. 1 \in Int /\ C \in Int
    BY <1>1
  <2>2. IsFiniteSet(1 .. C) /\ Cardinality(1 .. C) = IF 1 > C THEN 0 ELSE C - 1 + 1
    BY <2>1, FS_Interval
  <2> QED
    BY <1>1, <2>2
<1>4. f \in Surjection(drop, 1 .. C)
  BY <1>1, <1>2, <1>3, FS_Injection
<1> QED
  BY <1>4 DEF Surjection

\* What the server answers concerns messages of the session.
LEMMA AnswerLines ==
  ASSUME NEW l, l.drop \in SUBSET Uid, NEW command, NEW arg, NEW answer \in Answers(command, arg, l)
  PROVE  answer \in Seq(LineOf(l.drop))
<1> DEFINE L == LineOf(l.drop)
<1>1. Ok \in L /\ Err \in L /\ End \in L /\ \A u \in l.drop : Line("item", u) \in L
  BY DEF Ok, Err, End, Line, LineOf
<1>2. Listing(l.drop) \in Seq(L)
  <2>1. Cardinality(l.drop) \in Nat
    <3>1. l.drop \in SUBSET Nat /\ MaxUid \in Nat /\ \A u \in l.drop : u <= MaxUid
      BY PopAssumption DEF Uid
    <3> QED
      BY <3>1, FS_BoundedSetOfNaturals, FS_CardinalityType
  <2>2. ASSUME NEW k \in 1 .. Cardinality(l.drop)
        PROVE  Line("item", InOrder(l.drop)[k]) \in L
    <3>1. InOrder(l.drop)[k] \in l.drop
      BY RankOnto DEF InOrder
    <3> QED
      BY <1>1, <3>1
  <2>3. Listing(l.drop) \in [1 .. Cardinality(l.drop) -> L]
    BY <2>2 DEF Listing
  <2> QED
    BY <2>1, <2>3
<1> HIDE DEF L
<1>4. <<Ok>> \in Seq(L) /\ <<Err>> \in Seq(L) /\ <<End>> \in Seq(L) /\ <<Ok, End>> \in Seq(L)
  BY <1>1
<1>5. <<Ok>> \o Listing(l.drop) \o <<End>> \in Seq(L)
  BY <1>2, <1>4
<1>6. answer \in {<<Ok>>, <<Err>>, <<Ok, End>>, <<Ok>> \o Listing(l.drop) \o <<End>>}
  BY DEF Answers
<1>7. answer \in Seq(L)
  BY <1>4, <1>5, <1>6, Zenon
<1> QED
  BY <1>7 DEF L

-----------------------------------------------------------------------------
(* The handlers *)

\* n differs from s in nothing that the invariant is about.
Alike(s, n) ==
  /\ Formed(n) /\ n.link = s.link
  /\ n.client.status = s.client.status /\ n.client.selected = s.client.selected
  /\ n.client.testing = s.client.testing /\ n.client.numbers = s.client.numbers
  /\ n.handler.request = s.handler.request /\ n.handler.posted = s.handler.posted

\* messageProcessed
LEMMA ProcessedAlike ==
  ASSUME NEW s, Formed(s), NEW uids
  PROVE  Alike(s, MessageProcessed(s, uids))
  BY DEF MessageProcessed, Alike, Formed, On

\* messageFlush: whatever it makes of the store.
LEMMA FlushAlike ==
  ASSUME NEW s, Formed(s)
  PROVE  Alike(s, Flush(s)) /\ Alike(s, FlushPending(s))
<1> DEFINE b       == s.store.buffer
           refused == DOMAIN b \ (Additions(s) \cup Updates(s))
           whole   == {b[k].uid : k \in {j \in DOMAIN b : b[j].what = "whole"}}
           local   == Write(Write(s.store.local, b, Additions(s)), b, Updates(s))
           n == [s EXCEPT !.store.local = local,
                          !.store.refused = @ \cup {b[k].uid : k \in refused},
                          !.store.buffer = <<>>, !.store.timer = TRUE]
<1>2. Flush(s) = MessageProcessed(n, whole)
  BY DEF Flush
<1> HIDE DEF local, refused
<1>1. Alike(s, n)
  BY DEF Alike, Formed, On
<1> HIDE DEF n, whole
<1>3. Alike(s, Flush(s))
  BY <1>1, <1>2, ProcessedAlike DEF Alike
<1>4. Alike(s, s)
  BY DEF Alike
<1> QED
  BY <1>3, <1>4 DEF FlushPending

\* RemoveLocal
LEMMA RemoveAlike ==
  ASSUME NEW s, Formed(s), NEW uids
  PROVE  Alike(s, RemoveLocal(s, uids))
<1> DEFINE Miss(item) == [item EXCEPT !.lost = @ \/ (~item.add /\ item.uid \in uids)]
           local  == [u \in Uid |-> IF u \in uids THEN "none" ELSE s.store.local[u]]
           buffer == [k \in DOMAIN s.store.buffer |-> Miss(s.store.buffer[k])]
           there == s.client.existing \ uids
           n == RemoveLocal(s, uids)
<1>1. n = [s EXCEPT !.store.local = local, !.store.buffer = buffer, !.client.existing = there]
  BY DEF RemoveLocal
<1> HIDE DEF local, buffer, there, n
<1>2. /\ On(n, {"client", "source", "link", "mailbox", "store", "handler", "account"})
      /\ n.client = [s.client EXCEPT !.existing = there] /\ n.link = s.link
      /\ n.handler = s.handler /\ n.mailbox = s.mailbox
  BY <1>1 DEF Formed, On
<1>3. /\ On(n.client, {"status", "running", "selected", "deleting", "testing", "pendingDeletes", "timer",
                       "limit", "numbers", "newUids", "obsolete", "selection", "existing", "left", "uid"})
      /\ n.client.status = s.client.status /\ n.client.selected = s.client.selected
      /\ n.client.testing = s.client.testing /\ n.client.numbers = s.client.numbers
  BY <1>2 DEF Formed, On
<1>4. Alike(s, n)
  BY <1>2, <1>3 DEF Alike, Formed
<1> QED
  BY <1>4 DEF n

\* createMail
LEMMA CreateAlike ==
  ASSUME NEW s, Formed(s), NEW full
  PROVE  Alike(s, CreateMail(s, full))
<1> DEFINE u      == s.client.uid
           update == u \in s.client.existing
           item   == [uid |-> u, add |-> ~update, lost |-> FALSE,
                      what |-> IF Whole(s.client, u) THEN "whole" ELSE "header"]
           a == IF update THEN s ELSE RemoveLocal(s, {u})
           b == [a EXCEPT !.store.buffer = Append(@, item), !.store.refused = @ \ {u}]
<1>1. Alike(s, a)
  <2>1. Alike(s, s)
    BY DEF Alike
  <2> QED
    BY <2>1, RemoveAlike
<1>3. CreateMail(s, full) = IF full \/ ~s.store.timer THEN Flush(b) ELSE b
  BY DEF CreateMail
<1> HIDE DEF a, item
<1>2. Alike(s, b)
  BY <1>1 DEF Alike, Formed, On
<1> HIDE DEF b
<1>4. Alike(b, Flush(b))
  BY <1>2, FlushAlike DEF Alike
<1> QED
  BY <1>2, <1>3, <1>4 DEF Alike

\* closeConnection
LEMMA CloseFormed ==
  ASSUME NEW s, Formed(s), NEW arrives
  PROVE  LET n == CloseConnection(s, arrives)
         IN /\ Formed(n) /\ n.link = NoSession /\ ~InUse(n)
            /\ n.client.selected = s.client.selected /\ n.client.testing = s.client.testing
            /\ n.client.status \in {s.client.status, "Exit"}
            /\ n.handler = s.handler
<1> DEFINE n == CloseConnection(s, arrives)
           q == IF s.link.state = "up" /\ s.client.status # "Exit" THEN Quit(s, arrives) ELSE s
<1>1. Formed(q) /\ q.client = s.client /\ q.handler = s.handler
  <2>1. Formed(Quit(s, arrives)) /\ Quit(s, arrives).client = s.client /\ Quit(s, arrives).handler = s.handler
    BY DEF Quit, Formed, On
  <2> QED
    BY <2>1
<1> HIDE DEF q
<1>2. n = [q EXCEPT !.client.timer = FALSE,
                    !.client.status = IF s.link.state = "up" THEN "Exit" ELSE @,
                    !.link = NoSession]
  BY DEF CloseConnection, q
<1>3. /\ On(NoSession, {"state", "wire", "drop", "marked"}) /\ NoSession.drop = {} /\ NoSession.wire = <<>>
      /\ NoSession.state = "none"
  BY DEF NoSession, On
<1> HIDE DEF n
<1>4. On(n, {"client", "source", "link", "mailbox", "store", "handler", "account"})
  BY <1>1, <1>2 DEF Formed, On
<1>5. n.link = NoSession /\ n.handler = q.handler /\ n.mailbox = q.mailbox
  BY <1>1, <1>2 DEF Formed, On
<1>6. n.client = [q.client EXCEPT !.timer = FALSE, !.status = IF s.link.state = "up" THEN "Exit" ELSE @]
  BY <1>1, <1>2 DEF Formed, On
<1>7. On(n.client, {"status", "running", "selected", "deleting", "testing", "pendingDeletes", "timer",
                    "limit", "numbers", "newUids", "obsolete", "selection", "existing", "left", "uid"})
  BY <1>1, <1>6 DEF Formed, On
<1>8. /\ n.client.selected = s.client.selected /\ n.client.testing = s.client.testing
      /\ n.client.status \in {s.client.status, "Exit"} /\ n.client.numbers = s.client.numbers
  BY <1>1, <1>6 DEF Formed, On
<1>9. <<>> \in Seq(LineOf({}))
  OBVIOUS
<1>10. Formed(n)
  BY <1>1, <1>3, <1>4, <1>5, <1>7, <1>8, <1>9 DEF Formed
<1>11. ~InUse(n)
  BY <1>3, <1>5 DEF InUse
<1> QED
  BY <1>1, <1>5, <1>8, <1>10, <1>11 DEF n

\* QMailTransport::open
LEMMA OpenFormed ==
  ASSUME NEW s, Formed(s)
  PROVE  /\ Formed(Open(s)) /\ Open(s).client = [s.client EXCEPT !.status = "Init"]
         /\ Open(s).handler = s.handler
<1> DEFINE n == Open(s)
           l == IF InUse(s) THEN s.link ELSE [NoSession EXCEPT !.state = "opening"]
<1>1. /\ On(l, {"state", "wire", "drop", "marked"}) /\ l.drop \in SUBSET Uid
      /\ l.wire \in Seq(LineOf(l.drop)) /\ (l.state = "opening" => l.drop = {})
  <2>1. CASE InUse(s)
    BY <2>1 DEF Formed
  <2>2. CASE ~InUse(s)
    <3>1. On(l, {"state", "wire", "drop", "marked"}) /\ l.drop = {} /\ l.wire = <<>>
      BY <2>2 DEF NoSession, On
    <3>2. <<>> \in Seq(LineOf({}))
      OBVIOUS
    <3> HIDE DEF l
    <3> QED
      BY <3>1, <3>2
  <2> QED
    BY <2>1, <2>2
<1>2. n = [s EXCEPT !.client.status = "Init", !.link = l]
  BY DEF Open
<1> HIDE DEF n, l
<1>3. /\ On(n, {"client", "source", "link", "mailbox", "store", "handler", "account"})
      /\ n.client = [s.client EXCEPT !.status = "Init"] /\ n.link = l
      /\ n.handler = s.handler /\ n.mailbox = s.mailbox
  BY <1>2 DEF Formed, On
<1>4. /\ On(n.client, {"status", "running", "selected", "deleting", "testing", "pendingDeletes", "timer",
                       "limit", "numbers", "newUids", "obsolete", "selection", "existing", "left", "uid"})
      /\ n.client.numbers = s.client.numbers
  BY <1>3 DEF Formed, On
<1>5. Formed(n)
  BY <1>1, <1>3, <1>4 DEF Formed
<1> QED
  BY <1>3, <1>5 DEF n

\* Without a connection there is little to show.
LEMMA IdleSession ==
  ASSUME NEW s, Formed(s), Tested(s), ~InUse(s)
  PROVE  Session(s)
  BY DEF Session, Positions, Requested, Free

\* operationFailed
LEMMA FailedSession ==
  ASSUME NEW s, Formed(s), Tested(s)
  PROVE  /\ Session(OperationFailed(s)) /\ ~InUse(OperationFailed(s))
         /\ OperationFailed(s).handler.posted = s.handler.posted
         /\ OperationFailed(s).client.selected = s.client.selected
<1> DEFINE l == IF InUse(s) THEN NoSession ELSE s.link
           a == [s EXCEPT !.link = l, !.client.running = FALSE]
           b == RetrievalTerminated(a)
           n == [b EXCEPT !.handler.request = "none", !.handler.success = FALSE]
<1>1. On(l, {"state", "wire", "drop", "marked"}) /\ l.drop \in SUBSET Uid /\ l.wire \in Seq(LineOf(l.drop))
      /\ l.state \notin {"opening", "up"}
  <2>1. CASE InUse(s)
    <3>1. On(l, {"state", "wire", "drop", "marked"}) /\ l.drop = {} /\ l.wire = <<>> /\ l.state = "none"
      BY <2>1 DEF NoSession, On
    <3>2. <<>> \in Seq(LineOf({}))
      OBVIOUS
    <3> HIDE DEF l
    <3> QED
      BY <3>1, <3>2
  <2>2. CASE ~InUse(s)
    BY <2>2 DEF Formed, InUse
  <2> QED
    BY <2>1, <2>2
<1>2. OperationFailed(s) = n
  BY DEF OperationFailed, ErrorOccurred
<1> HIDE DEF l
<1>3. /\ On(a, {"client", "source", "link", "mailbox", "store", "handler", "account"})
      /\ a.client = [s.client EXCEPT !.running = FALSE] /\ a.link = l
      /\ a.handler = s.handler /\ a.mailbox = s.mailbox
  BY DEF Formed, On
<1> HIDE DEF a
<1>4. /\ On(a.client, {"status", "running", "selected", "deleting", "testing", "pendingDeletes", "timer",
                       "limit", "numbers", "newUids", "obsolete", "selection", "existing", "left", "uid"})
      /\ a.client.numbers = s.client.numbers /\ a.client.status = s.client.status
      /\ a.client.testing = s.client.testing /\ a.client.selected = s.client.selected
  BY <1>3 DEF Formed, On
<1>5. Formed(a)
  BY <1>1, <1>3, <1>4 DEF Formed
<1>6. Formed(b) /\ b.client = a.client /\ b.link = a.link /\ b.handler.posted = a.handler.posted
  BY <1>5 DEF RetrievalTerminated, Formed, On
<1> HIDE DEF b
<1>7. Formed(n) /\ n.client = b.client /\ n.link = b.link /\ n.handler.posted = b.handler.posted
  BY <1>6 DEF Formed, On
<1> HIDE DEF n
<1>8. Tested(n) /\ ~InUse(n)
  BY <1>1, <1>3, <1>4, <1>6, <1>7 DEF Tested, InUse
<1> QED
  BY <1>2, <1>3, <1>4, <1>6, <1>7, <1>8, IdleSession

\* newConnection
LEMMA ConnectionMade ==
  ASSUME NEW s, Formed(s), NEW arrives
  PROVE  LET n == NewConnection(s, arrives)
         IN /\ Formed(n) /\ Tested(n) /\ Positions(n)
            /\ n.client.selected = s.client.selected /\ n.handler.posted = s.handler.posted
            /\ InUse(n) => n.handler.request = s.handler.request
<1> DEFINE n == NewConnection(s, arrives)
           c == s.client
           reuse == s.link.state = "up" /\ c.selected
           a == IF s.link.state = "up" /\ ~c.selected THEN CloseConnection(s, arrives)
                ELSE IF reuse THEN [s EXCEPT !.client.timer = FALSE] ELSE s
           d == [a.client EXCEPT !.testing = FALSE, !.pendingDeletes = FALSE]
           b == [a EXCEPT !.client = ClearLists(d)]
           x == [a EXCEPT !.client.testing = FALSE, !.client.pendingDeletes = FALSE, !.client.status = "Exit"]
           y == IF c.deleting THEN DeleteSelection(b.client) ELSE b.client
           z == [b EXCEPT !.client = [y EXCEPT !.status = "RequestMessage", !.running = TRUE]]
<1>1. /\ Formed(a) /\ a.client.selected = s.client.selected
      /\ a.handler = s.handler
  <2>1. LET e == [s EXCEPT !.client.timer = FALSE]
        IN Formed(e) /\ e.client.selected = s.client.selected /\ e.handler = s.handler
    BY DEF Formed, On
  <2>2. LET e == CloseConnection(s, arrives)
        IN Formed(e) /\ e.client.selected = s.client.selected /\ e.handler = s.handler
    BY CloseFormed
  <2> QED
    BY <2>1, <2>2
<1>2. n = IF ~s.account.configured THEN OperationFailed(x) ELSE IF reuse THEN z ELSE Open(b)
  BY DEF NewConnection
<1> HIDE DEF a
<1>3. /\ Formed(x) /\ x.client.testing = FALSE /\ x.client.selected = a.client.selected
      /\ x.handler = a.handler
  BY <1>1 DEF Formed, On
<1> HIDE DEF x
<1>4. CASE ~s.account.configured
  <2>1. Tested(x)
    BY <1>3 DEF Tested
  <2>2. /\ Session(n) /\ ~InUse(n) /\ n.handler.posted = x.handler.posted
        /\ n.client.selected = x.client.selected
    BY <1>2, <1>3, <1>4, <2>1, FailedSession
  <2> QED
    BY <1>1, <1>3, <2>2 DEF Session
<1>5. /\ On(d, {"status", "running", "selected", "deleting", "testing", "pendingDeletes", "timer",
                "limit", "numbers", "newUids", "obsolete", "selection", "existing", "left", "uid"})
      /\ d.testing = FALSE /\ d.selected = a.client.selected /\ d.numbers = a.client.numbers
  BY <1>1 DEF Formed, On
<1> HIDE DEF d
<1> DEFINE e == ClearLists(d)
<1>6. /\ On(e, {"status", "running", "selected", "deleting", "testing", "pendingDeletes", "timer",
                "limit", "numbers", "newUids", "obsolete", "selection", "existing", "left", "uid"})
      /\ e.testing = FALSE /\ e.selected = d.selected
      /\ e.selected \/ e.numbers = NoUids
      /\ e.numbers \in {d.numbers, NoUids}
  <2>1. CASE d.selected
    BY <1>5, <2>1 DEF ClearLists
  <2>2. CASE ~d.selected
    BY <1>5, <2>2 DEF ClearLists, On
  <2> QED
    BY <2>1, <2>2
<1> HIDE DEF e
<1>7. On(NoUids, Uid) /\ \A u \in Uid : NoUids[u] = 0
  BY DEF NoUids, On
<1>8. /\ Formed(b) /\ b.client = e /\ b.link = a.link /\ b.handler = a.handler
  <2>1. /\ On(b, {"client", "source", "link", "mailbox", "store", "handler", "account"})
        /\ b.client = e /\ b.link = a.link /\ b.handler = a.handler /\ b.mailbox = a.mailbox
    BY <1>1 DEF Formed, On, e
  <2>2. On(e.numbers, Uid)
    BY <1>1, <1>5, <1>6, <1>7 DEF Formed
  <2> HIDE DEF b
  <2> QED
    BY <1>1, <1>6, <2>1, <2>2 DEF Formed
<1> HIDE DEF b
<1>9. CASE s.account.configured /\ reuse
  <2>1. /\ On(y, {"status", "running", "selected", "deleting", "testing", "pendingDeletes", "timer",
                  "limit", "numbers", "newUids", "obsolete", "selection", "existing", "left", "uid"})
        /\ y.testing = FALSE /\ y.selected = e.selected /\ y.numbers = e.numbers
    BY <1>6, <1>8 DEF DeleteSelection, On
  <2> HIDE DEF y
  <2> DEFINE w == [y EXCEPT !.status = "RequestMessage", !.running = TRUE]
  <2>2. /\ On(w, {"status", "running", "selected", "deleting", "testing", "pendingDeletes", "timer",
                  "limit", "numbers", "newUids", "obsolete", "selection", "existing", "left", "uid"})
        /\ w.testing = FALSE /\ w.selected = e.selected /\ w.numbers = e.numbers
    BY <2>1 DEF On
  <2> HIDE DEF w
  <2>3. Formed(z) /\ z.client = w /\ z.handler = b.handler
    <3>1. /\ On(z, {"client", "source", "link", "mailbox", "store", "handler", "account"})
          /\ z.client = w /\ z.link = b.link /\ z.handler = b.handler /\ z.mailbox = b.mailbox
      BY <1>8 DEF Formed, On, w
    <3> HIDE DEF z
    <3> QED
      BY <1>8, <2>2, <3>1 DEF Formed
  <2>4. n = z
    BY <1>2, <1>9
  <2> HIDE DEF n, z
  <2>5. n.client.selected /\ ~n.client.testing
    BY <1>1, <1>5, <1>6, <1>9, <2>2, <2>3, <2>4
  <2>6. Tested(n) /\ Positions(n)
    BY <2>5 DEF Tested, Positions
  <2> QED
    BY <1>1, <1>5, <1>6, <1>8, <2>2, <2>3, <2>4, <2>6 DEF n
<1>10. CASE s.account.configured /\ ~reuse
  <2>1. n = Open(b)
    BY <1>2, <1>10
  <2> HIDE DEF n
  <2>2. Formed(n) /\ n.client = [e EXCEPT !.status = "Init"] /\ n.handler = b.handler
    BY <1>8, <2>1, OpenFormed
  <2>3. n.client.testing = FALSE /\ n.client.selected = e.selected /\ n.client.numbers = e.numbers
    BY <1>6, <2>2 DEF On
  <2>4. Tested(n) /\ Positions(n)
    BY <1>6, <1>7, <2>3 DEF Tested, Positions, Current
  <2> QED
    BY <1>1, <1>5, <1>6, <1>8, <2>2, <2>3, <2>4 DEF n
<1> QED
  BY <1>4, <1>9, <1>10

\* setOperation
LEMMA OperationSet ==
  ASSUME NEW s, Formed(s), NEW limit
  PROVE  LET n == SetOperation(s, limit)
         IN Formed(n) /\ ~n.client.selected /\ n.handler = s.handler /\ n.link = s.link
            /\ n.client.testing = s.client.testing /\ n.client.status = s.client.status
            /\ n.client.numbers = s.client.numbers
  BY DEF SetOperation, Formed, On

\* setSelectedMails
LEMMA MailsSelected ==
  ASSUME NEW s, Formed(s), NEW uids
  PROVE  LET n == SetSelectedMails(s, uids)
         IN Formed(n) /\ n.handler = s.handler
  BY DEF SetSelectedMails, Formed, On

\* retrieveAll: nothing is left of an earlier session.
LEMMA AllRetrieved ==
  ASSUME NEW s, Formed(s), NEW arrives
  PROVE  Session(RetrieveAll(s, arrives)) /\ ~RetrieveAll(s, arrives).client.selected
<1> DEFINE a == SetOperation(s, "none")
           b == NewConnection(a, arrives)
           n == [b EXCEPT !.source.unavailable = TRUE]
<1>1. Formed(a) /\ ~a.client.selected
  BY OperationSet
<1> HIDE DEF a
<1>2. Formed(b) /\ Tested(b) /\ Positions(b) /\ ~b.client.selected
  BY <1>1, ConnectionMade
<1> HIDE DEF b
<1>3. Formed(n) /\ n.client = b.client /\ n.link = b.link
  BY <1>2 DEF Formed, On
<1>4. RetrieveAll(s, arrives) = n
  BY DEF RetrieveAll, a, b
<1> HIDE DEF n
<1>5. Tested(n) /\ Positions(n) /\ Free(n)
  BY <1>2, <1>3 DEF Tested, Positions, Free, InUse, Current
<1> QED
  BY <1>2, <1>3, <1>4, <1>5 DEF Session, Requested

\* queueMailCheck
LEMMA CheckQueued ==
  ASSUME NEW s, Formed(s), NEW arrives
  PROVE  LET n == QueueMailCheck(s, arrives)
         IN Alike(s, n) \/ (Session(n) /\ ~n.client.selected)
<1> DEFINE n == QueueMailCheck(s, arrives)
           a == [s EXCEPT !.source.queued = TRUE]
           b == [s EXCEPT !.source.queued = FALSE, !.source.checking = TRUE, !.handler.available = FALSE]
<1>1. n = IF s.source.unavailable THEN a ELSE RetrieveAll(b, arrives)
  BY DEF QueueMailCheck
<1>2. Alike(s, a)
  BY DEF Alike, Formed, On
<1>3. Formed(b)
  BY DEF Formed, On
<1> HIDE DEF a, b
<1>4. Session(RetrieveAll(b, arrives)) /\ ~RetrieveAll(b, arrives).client.selected
  BY <1>3, AllRetrieved
<1> QED
  BY <1>1, <1>2, <1>4

\* A state that is alike is as good.
LEMMA AlikeSession ==
  ASSUME NEW s, NEW n, Session(s), Alike(s, n)
  PROVE  Session(n)
<1>1. /\ n.link = s.link /\ n.client.status = s.client.status /\ n.client.selected = s.client.selected
      /\ n.client.testing = s.client.testing /\ n.client.numbers = s.client.numbers
      /\ n.handler.request = s.handler.request /\ n.handler.posted = s.handler.posted
  BY DEF Alike
<1>2. Formed(n) /\ Tested(n)
  BY <1>1 DEF Alike, Session, Tested
<1>3. (InUse(n) <=> InUse(s)) /\ (Current(n) <=> Current(s))
  BY <1>1 DEF InUse, Current
<1>4. Positions(n)
  BY <1>1, <1>3 DEF Session, Positions
<1>5. Requested(n)
  BY <1>1, <1>3 DEF Session, Requested, Free
<1> QED
  BY <1>2, <1>4, <1>5 DEF Session

\* retrievalCompleted, of the source.
LEMMA CompletionReported ==
  ASSUME NEW s, Formed(s), NEW arrives
  PROVE  LET n == RetrievalCompleted(s, arrives)
         IN /\ Formed(n)
            /\ Tested(s) /\ Positions(s) /\ Free(s) => Session(n)
            /\ InUse(n) /\ ~InUse(s) => ~n.client.selected
<1> DEFINE n == RetrievalCompleted(s, arrives)
           a == [s EXCEPT !.source.unavailable = FALSE, !.source.checking = FALSE,
                          !.source.deleting = FALSE,
                          !.handler.request = "none", !.handler.success = TRUE,
                          !.handler.available = @ \/ s.source.checking]
<1>1. n = IF s.source.queued THEN QueueMailCheck(a, arrives) ELSE a
  BY DEF RetrievalCompleted
<1>2. Formed(a) /\ a.client = s.client /\ a.link = s.link
  BY DEF Formed, On
<1> HIDE DEF a, n
<1>3. Tested(s) /\ Positions(s) /\ Free(s) => Session(a)
  BY <1>2 DEF Session, Tested, Positions, Requested, Free, InUse, Current
<1>4. Alike(a, n) \/ (Session(n) /\ ~n.client.selected)
  <2>1. Alike(a, a)
    BY <1>2 DEF Alike
  <2> QED
    BY <1>1, <1>2, <2>1, CheckQueued
<1>5. CASE Alike(a, n)
  <2>1. Formed(n) /\ (InUse(n) <=> InUse(s))
    BY <1>2, <1>5 DEF Alike, InUse
  <2> QED
    BY <1>3, <1>5, <2>1, AlikeSession DEF n
<1>6. CASE Session(n) /\ ~n.client.selected
  BY <1>6 DEF Session, n
<1> QED
  BY <1>4, <1>5, <1>6

\* retrieveOperationCompleted, of the client.
LEMMA OperationCompleted ==
  ASSUME NEW s, Formed(s), NEW arrives
  PROVE  LET n == RetrieveOperationCompleted(s, arrives)
         IN /\ Formed(n)
            /\ Tested(s) /\ ~InUse(s) => Session(n)
<1> DEFINE n == RetrieveOperationCompleted(s, arrives)
           f == FlushPending(s)
           a == IF s.client.selected THEN f ELSE [f EXCEPT !.account.synchronized = @ + 1]
           b == RetrievalCompleted(a, arrives)
           c == [b EXCEPT !.client.timer = TRUE, !.client.selected = FALSE]
<1>1. n = IF b.link.state = "none" THEN b ELSE c
  BY DEF RetrieveOperationCompleted
<1>2. Alike(s, f)
  BY FlushAlike
<1> HIDE DEF f
<1>3. Alike(s, a)
  <2>1. Alike(s, [f EXCEPT !.account.synchronized = @ + 1])
    BY <1>2 DEF Alike, Formed, On
  <2> QED
    BY <1>2, <2>1
<1> HIDE DEF a
<1>4. /\ Formed(b)
      /\ Tested(a) /\ Positions(a) /\ Free(a) => Session(b)
      /\ InUse(b) /\ ~InUse(a) => ~b.client.selected
  BY <1>3, CompletionReported DEF Alike
<1> HIDE DEF b
<1>5. /\ Formed(c) /\ c.link = b.link /\ c.handler = b.handler /\ c.client.selected = FALSE
      /\ c.client.testing = b.client.testing /\ c.client.status = b.client.status
      /\ c.client.numbers = b.client.numbers
  BY <1>4 DEF Formed, On
<1> HIDE DEF c
<1>6. ASSUME Tested(s), ~InUse(s) PROVE Session(b) /\ Session(c)
  <2>1. Tested(a) /\ ~InUse(a)
    BY <1>3, <1>6 DEF Alike, Tested, InUse
  <2>2. Positions(a) /\ Free(a)
    BY <2>1 DEF Positions, Free
  <2>3. Session(b) /\ (InUse(b) => ~b.client.selected)
    BY <1>4, <2>1, <2>2
  <2>4. Tested(c) /\ Positions(c) /\ Free(c)
    BY <1>5, <2>3 DEF Session, Tested, Positions, Free, InUse, Current
  <2> QED
    BY <1>5, <2>3, <2>4 DEF Session, Requested
<1> QED
  BY <1>1, <1>4, <1>5, <1>6

-----------------------------------------------------------------------------
(* The steps *)

\* The next state is s.
LEMMA BecomeSession ==
  ASSUME NEW s, Session(s), Become(s)
  PROVE  Session(Now)'
<1>1. On(s, {"client", "source", "link", "mailbox", "store", "handler", "account"})
  BY DEF Session, Formed
<1>2. [client |-> client', source |-> source', link |-> link', mailbox |-> mailbox',
       store |-> store', handler |-> handler', account |-> account'] = s
  BY <1>1 DEF Become, On
<1>3. Now' = s
  BY <1>2 DEF Now
<1> QED
  BY <1>3

\* The fields of the present state.
LEMMA NowFields ==
  /\ Now.client = client /\ Now.source = source /\ Now.link = link /\ Now.mailbox = mailbox
  /\ Now.store = store /\ Now.handler = handler /\ Now.account = account
  BY DEF Now

\* n is s with another status, and further on in the same session.
Carried(s, n) ==
  /\ Formed(n)
  /\ n.client.selected = s.client.selected /\ n.client.testing = s.client.testing
  /\ n.client.numbers = s.client.numbers
  /\ n.link.state = s.link.state /\ n.link.drop = s.link.drop
  /\ n.handler.request = s.handler.request /\ n.handler.posted = s.handler.posted

\* The session goes on.
LEMMA CarriedSession ==
  ASSUME NEW s, NEW n, Session(s), Carried(s, n),
         s.client.status \in {"Done", "Quit", "Exit"} => n.client.status \in {"Quit", "Exit"},
         ~s.client.testing \/ n.client.status \in {"CapabilityTest", "Capabilities", "Auth", "Done", "Quit", "Exit"}
  PROVE  Session(n)
<1>1. Tested(n)
  BY DEF Carried, Tested
<1>2. Positions(n)
  BY DEF Session, Carried, Positions, InUse, Current
<1>3. Requested(n)
  BY DEF Session, Carried, Requested, Free, InUse
<1> QED
  BY <1>1, <1>2, <1>3 DEF Session, Carried

\* nextAction goes on with another case, or waits for a line.
LEMMA StatusCarried ==
  ASSUME NEW s, Formed(s), NEW st
  PROVE  /\ LET n == [s EXCEPT !.client.status = st]
            IN Carried(s, n) /\ n.client.status = st
         /\ LET n == [s EXCEPT !.client.status = st, !.client.running = FALSE]
            IN Carried(s, n) /\ n.client.status = st
         /\ LET n == [s EXCEPT !.client.running = TRUE]
            IN Carried(s, n) /\ n.client.status = s.client.status
  BY DEF Carried, Formed, On

\* A command is sent, and the server has answered it.
LEMMA SendCarried ==
  ASSUME NEW s, Formed(s), NEW st, NEW command, NEW arg, Send(s, st, command, arg)
  PROVE  \E n : Carried(s, n) /\ n.client.status = st /\ Become(n)
<1>1. PICK answer \in Answers(command, arg, s.link) :
        Become([s EXCEPT !.client.status = st, !.client.running = FALSE,
                         !.link.wire = @ \o answer,
                         !.link.marked = Marked(command, arg, answer, s.link)])
  BY DEF Send
<1> DEFINE n == [s EXCEPT !.client.status = st, !.client.running = FALSE,
                          !.link.wire = @ \o answer,
                          !.link.marked = Marked(command, arg, answer, s.link)]
<1>2. s.link.drop \in SUBSET Uid /\ s.link.wire \in Seq(LineOf(s.link.drop))
  BY DEF Formed
<1>3. answer \in Seq(LineOf(s.link.drop))
  BY <1>2, AnswerLines
<1>4. s.link.wire \o answer \in Seq(LineOf(s.link.drop))
  BY <1>2, <1>3
<1> DEFINE w == s.link.wire \o answer
           l == [s.link EXCEPT !.wire = w, !.marked = Marked(command, arg, answer, s.link)]
<1>5. n = [s EXCEPT !.client.status = st, !.client.running = FALSE, !.link = l]
  BY DEF Formed, On
<1> HIDE DEF w
<1>6. On(l, {"state", "wire", "drop", "marked"}) /\ l.wire = w /\ l.drop = s.link.drop /\ l.state = s.link.state
  BY DEF Formed, On
<1> HIDE DEF n, l
<1>7. Carried(s, n) /\ n.client.status = st
  BY <1>2, <1>4, <1>5, <1>6 DEF Carried, Formed, On, w
<1> QED
  BY <1>1, <1>7 DEF n

\* What is alike, or differs in lists that the invariant does not mention.
LEMMA AlikeCarried ==
  ASSUME NEW s, NEW a, NEW n, Carried(s, a), Alike(a, n)
  PROVE  Carried(s, n)
  BY DEF Carried, Alike

\* uidlIntegrityCheck
LEMMA CheckCarried ==
  ASSUME NEW s, Formed(s)
  PROVE  Carried(s, UidlIntegrityCheck(s))
<1> DEFINE c      == s.client
           listed == {u \in Uid : c.numbers[u] # 0}
           fresh  == {u \in listed \ s.store.records : s.store.local[u] = "none"}
           dead   == IF CanDelete THEN listed \cap s.store.records ELSE {}
           a == [s EXCEPT !.client = DeleteSelection(c)]
           b == [s EXCEPT !.client.newUids = @ \o Reverse(InOrder(fresh)),
                          !.client.obsolete = Reverse(InOrder(dead)),
                          !.store.records = @ \cap listed]
<1>1. Carried(s, s)
  BY DEF Carried
<1>2. Carried(s, a)
  BY DEF Carried, Formed, On, DeleteSelection
<1>3. Carried(s, b)
  <2> DEFINE p == s.client.newUids \o Reverse(InOrder(fresh))
             q == Reverse(InOrder(dead))
  <2>1. b = [s EXCEPT !.client.newUids = p, !.client.obsolete = q, !.store.records = @ \cap listed]
    BY DEF Formed, On
  <2> HIDE DEF b, p, q
  <2> QED
    BY <2>1 DEF Carried, Formed, On
<1>4. UidlIntegrityCheck(s) = IF c.deleting THEN a ELSE IF c.selected THEN s
                              ELSE MessageProcessed(b, s.store.records \ listed)
  BY DEF UidlIntegrityCheck
<1> HIDE DEF a, b, listed
<1>5. Carried(s, MessageProcessed(b, s.store.records \ listed))
  BY <1>3, ProcessedAlike, AlikeCarried DEF Carried
<1> QED
  BY <1>1, <1>2, <1>4, <1>5

\* A step of nextAction.
LEMMA NextActionSession ==
  ASSUME Session(Now), NextAction
  PROVE  Session(Now)'
<1>0. Formed(Now) /\ Tested(Now) /\ Carried(Now, Now)
  BY DEF Session, Carried
<1>1. ASSUME NEW s, Carried(Now, s), NEW st,
             client.status \in {"Done", "Quit", "Exit"} => st \in {"Quit", "Exit"},
             ~client.testing \/ st \in {"CapabilityTest", "Capabilities", "Auth", "Done", "Quit", "Exit"},
             GoOn(s, st) \/ Await(s, st) \/ \E command, arg : Send(s, st, command, arg)
      PROVE  Session(Now)'
  <2>1. \E n : Carried(s, n) /\ n.client.status = st /\ Become(n)
    <3>1. Formed(s)
      BY <1>1 DEF Carried
    <3>2. CASE GoOn(s, st)
      BY <3>1, <3>2, StatusCarried DEF GoOn
    <3>3. CASE Await(s, st)
      BY <3>1, <3>3, StatusCarried DEF Await
    <3>4. CASE \E command, arg : Send(s, st, command, arg)
      BY <3>1, <3>4, SendCarried
    <3> QED
      BY <1>1, <3>2, <3>3, <3>4
  <2>2. PICK n : Carried(s, n) /\ n.client.status = st /\ Become(n)
    BY <2>1
  <2>3. Carried(Now, n)
    BY <1>1, <2>2 DEF Carried
  <2>4. Session(n)
    BY <1>1, <2>2, <2>3, CarriedSession, NowFields
  <2> QED
    BY <2>2, <2>4, BecomeSession
<1>2. client.testing => client.status \in {"Init", "CapabilityTest", "Capabilities", "Auth", "Done", "Quit", "Exit"}
  BY <1>0, NowFields DEF Tested
<1>3. CASE Greeted
  BY <1>0, <1>1, <1>3 DEF Greeted, Running
<1>4. CASE CapabilitiesFollow
  BY <1>0, <1>1, <1>4 DEF CapabilitiesFollow, Running
<1>5. CASE LogIn
  BY <1>0, <1>1, <1>5 DEF LogIn, Running
<1>6. CASE LoggedIn
  BY <1>0, <1>1, <1>6 DEF LoggedIn, Running
<1>7. CASE DataFollows
  BY <1>0, <1>1, <1>2, <1>7 DEF DataFollows, Running
<1>8. CASE Listed
  <2>1. Carried(Now, UidlIntegrityCheck(Now))
    BY <1>0, CheckCarried
  <2> QED
    BY <1>1, <1>2, <1>8, <2>1 DEF Listed, Running
<1>9. CASE SizesKnown
  BY <1>0, <1>1, <1>2, <1>9 DEF SizesKnown, Running
<1>10. ASSUME NEW s, Carried(Now, s), client.status = "RequestMessage",
              NothingToFetch(s) \/ \E u : Fetch(s, u)
       PROVE  Session(Now)'
  <2>1. ASSUME NEW u, Fetch(s, u) PROVE Session(Now)'
    <3> DEFINE c == [s EXCEPT !.client.uid = u]
    <3>1. Carried(s, c)
      BY <1>10 DEF Carried, Formed, On
    <3> HIDE DEF c
    <3>2. Carried(Now, c)
      BY <1>10, <3>1 DEF Carried
    <3>3. \/ Send(c, "Retr", "RETR", s.client.numbers[u])
          \/ Send(c, "Top", "TOP", s.client.numbers[u])
      BY <2>1 DEF Fetch, c
    <3> QED
      BY <1>1, <1>2, <1>10, <3>2, <3>3
  <2>2. CASE NothingToFetch(s)
    BY <1>1, <1>2, <1>10, <2>2 DEF NothingToFetch
  <2> QED
    BY <1>10, <2>1, <2>2
<1>11. CASE RequestNew
  <2> DEFINE s == [Now EXCEPT !.client.newUids = Tail(@)]
  <2>1. Carried(Now, s)
    BY <1>0 DEF Carried, Formed, On
  <2>2. client.status = "RequestMessage" /\ (NothingToFetch(Now) \/ Fetch(s, Head(client.newUids)))
    BY <1>11 DEF RequestNew, Running
  <2> HIDE DEF s
  <2> QED
    BY <1>0, <1>10, <2>1, <2>2
<1>12. CASE RequestSelected
  <2> DEFINE there == {u \in client.left : client.numbers[u] # 0}
             gone  == {u \in client.left : \A v \in there : u < v}
             a == [Now EXCEPT !.client.left = @ \ gone,
                              !.store.removed = @ \cup (gone \cap client.existing)]
             s == MessageProcessed(a, gone)
             b == [s EXCEPT !.client.left = @ \ {Min(there)}]
  <2>1. client.status = "RequestMessage" /\ (NothingToFetch(s) \/ Fetch(b, Min(there)))
    BY <1>12 DEF RequestSelected, Running
  <2>2. Carried(Now, a)
    BY <1>0 DEF Carried, Formed, On
  <2> HIDE DEF a, there, gone
  <2>3. Carried(Now, s)
    BY <2>2, ProcessedAlike, AlikeCarried DEF Carried
  <2> HIDE DEF s
  <2>4. Carried(Now, b)
    BY <2>3 DEF Carried, Formed, On
  <2> HIDE DEF b
  <2> QED
    BY <1>10, <2>1, <2>3, <2>4
<1>13. CASE Fetched
  BY <1>0, <1>1, <1>2, <1>13 DEF Fetched, Running
<1>14. CASE DeleteMessage
  <2> DEFINE there == {k \in DOMAIN client.obsolete : client.numbers[client.obsolete[k]] # 0}
             n     == IF there = {} THEN Len(client.obsolete) ELSE Min(there)
             u     == client.obsolete[n]
             taken == {client.obsolete[k] : k \in 1 .. n}
             gone  == {v \in taken : client.numbers[v] = 0}
             a == [Now EXCEPT !.client.obsolete = SubSeq(@, n + 1, Len(@)), !.store.records = @ \ taken]
             s == IF client.deleting THEN RemoveLocal(a, gone) ELSE a
             b == [s EXCEPT !.client.uid = u, !.client.pendingDeletes = TRUE]
  <2>1. /\ client.status = "DeleteMessage"
        /\ GoOn(s, "Done") \/ Send(b, "Dele", "DELE", client.numbers[u])
    BY <1>14 DEF DeleteMessage, Running
  <2> HIDE DEF there, n, u, taken, gone
  <2>2. Carried(Now, a)
    BY <1>0 DEF Carried, Formed, On
  <2> HIDE DEF a
  <2>3. Carried(Now, s)
    BY <2>2, RemoveAlike, AlikeCarried DEF Carried
  <2> HIDE DEF s
  <2>4. Carried(Now, b)
    BY <2>3 DEF Carried, Formed, On
  <2> HIDE DEF b
  <2> QED
    BY <1>1, <1>2, <2>1, <2>3, <2>4
<1>15. CASE Deleted
  <2> DEFINE a == MessageProcessed(Now, {client.uid})
             b == RemoveLocal(a, {client.uid})
  <2>1. client.status = "Dele" /\ (GoOn(b, "DeleteMessage") \/ GoOn(Now, "DeleteMessage"))
    BY <1>15 DEF Deleted, Running
  <2>2. Carried(Now, a)
    BY <1>0, ProcessedAlike, AlikeCarried DEF Carried
  <2> HIDE DEF a
  <2>3. Carried(Now, b)
    BY <2>2, RemoveAlike, AlikeCarried DEF Carried
  <2> HIDE DEF b
  <2> QED
    BY <1>0, <1>1, <1>2, <2>1, <2>3
<1>16. CASE Finish
  <2>1. CASE GoOn(Now, "Quit")
    BY <1>0, <1>1, <2>1
  <2>2. ASSUME NEW arrives \in BOOLEAN, Await(RetrieveOperationCompleted(Now, arrives), "Quit")
        PROVE  Session(Now)'
    <3> DEFINE s == RetrieveOperationCompleted(Now, arrives)
               n == [s EXCEPT !.client.status = "Quit", !.client.running = FALSE]
    <3>1. Formed(s)
      BY <1>0, OperationCompleted
    <3>2. Become(n)
      BY <2>2 DEF Await
    <3> HIDE DEF s
    <3>3. Carried(s, n) /\ n.client.status = "Quit"
      BY <3>1, StatusCarried
    <3> HIDE DEF n
    <3>4. Session(n)
      BY <3>3 DEF Carried, Session, Tested, Positions, Requested, Free
    <3> QED
      BY <3>2, <3>4, BecomeSession
  <2> QED
    BY <1>16, <2>1, <2>2 DEF Finish
<1>17. CASE LogOut
  <2>1. Carried(Now, Quit(Now, TRUE))
    BY <1>0 DEF Quit, Carried, Formed, On
  <2> QED
    BY <1>0, <1>1, <1>17, <2>1 DEF LogOut, Running
<1> QED
  BY <1>3, <1>4, <1>5, <1>6, <1>7, <1>8, <1>9, <1>11, <1>12, <1>13, <1>14, <1>15, <1>16, <1>17 DEF NextAction

\* What is left of the lines when the first has been read.
LEMMA FirstLine ==
  ASSUME NEW S, NEW w \in Seq(S), w # <<>>
  PROVE  Head(w) \in S /\ Tail(w) \in Seq(S)
<1>1. Len(w) \in Nat /\ Len(w) # 0 /\ w \in [1 .. Len(w) -> S]
  OBVIOUS
<1> QED
  BY <1>1

\* Only the client's progress changes: a response has been read.
LEMMA ReadCarried ==
  ASSUME Session(Now), link.wire # <<>>
  PROVE  /\ Carried(Now, Read) /\ Read.client = client
         /\ Response \in LineOf(link.drop)
<1> DEFINE l == [link EXCEPT !.wire = Tail(@)]
<1>1. /\ Formed(Now) /\ link.wire \in Seq(LineOf(link.drop)) /\ link.drop \in SUBSET Uid
      /\ On(link, {"state", "wire", "drop", "marked"})
      /\ link.state = "opening" => link.drop = {}
  BY NowFields DEF Session, Formed
<1>2. Tail(link.wire) \in Seq(LineOf(link.drop)) /\ Head(link.wire) \in LineOf(link.drop)
  BY <1>1, FirstLine
<1>3. /\ On(l, {"state", "wire", "drop", "marked"}) /\ l.drop = link.drop /\ l.state = link.state
      /\ l.wire = Tail(link.wire)
  BY <1>1 DEF On
<1>4. Read = [Now EXCEPT !.link = l]
  BY NowFields DEF Read, Now
<1> HIDE DEF l
<1>5. /\ On(Read, {"client", "source", "link", "mailbox", "store", "handler", "account"})
      /\ Read.client = client /\ Read.link = l /\ Read.mailbox = mailbox /\ Read.handler = handler
  BY <1>4 DEF Now, On
<1>6. Formed(Read)
  BY <1>1, <1>2, <1>3, <1>5, NowFields DEF Formed
<1> QED
  BY <1>2, <1>3, <1>5, <1>6, NowFields DEF Carried, Response

\* A step of processResponse.
LEMMA ProcessResponseSession ==
  ASSUME Session(Now), ProcessResponse
  PROVE  Session(Now)'
<1>1. Waiting({"Init", "Quit"}) \/ Waiting({"CapabilityTest"}) \/ Waiting({"Capabilities", "SizeList"})
      \/ Waiting({"Auth", "Uidl", "List", "Retr", "Top", "DeleAfterRetr", "Dele"})
      \/ Waiting({"UidList"}) \/ Waiting({"MessageDataRetr", "MessageDataTop"}) \/ Waiting({"Exit"})
  BY DEF ProcessResponse, ReceivePlain, ReceiveCapability, ReceiveList, ReceiveAnswer, ReceiveUid, ReceiveMessage, ReceiveGoodbye
<1>2. /\ link.wire # <<>> /\ link.state = "up" /\ Tested(Now)
      /\ client.status # "Done"
  BY <1>1 DEF Waiting, Session
<1>3. /\ Carried(Now, Read) /\ Read.client = client /\ Response \in LineOf(link.drop)
      /\ Formed(Read) /\ Session(Read)
  <2>1. Carried(Now, Read) /\ Read.client = client /\ Response \in LineOf(link.drop)
    BY <1>2, ReadCarried
  <2> QED
    BY <2>1, NowFields DEF Carried, Session, Tested, Positions, Requested, Free, InUse, Current
<1>4. ASSUME NEW s, Session(s), Proceed(s)
      PROVE  Session(Now)'
  <2> DEFINE n == [s EXCEPT !.client.running = TRUE]
  <2>1. Carried(s, n) /\ n.client.status = s.client.status
    BY <1>4, StatusCarried DEF Session
  <2>2. Become(n)
    BY <1>4 DEF Proceed
  <2> HIDE DEF n
  <2>3. Session(n)
    BY <1>4, <2>1 DEF Carried, Session, Tested, Positions, Requested, Free, InUse, Current
  <2> QED
    BY <2>2, <2>3, BecomeSession
<1>5. ASSUME Become(OperationFailed(Read))
      PROVE  Session(Now)'
  BY <1>3, <1>5, FailedSession, BecomeSession DEF Session
<1>6. CASE ReceivePlain
  BY <1>3, <1>4, <1>6 DEF ReceivePlain
<1>11. CASE ReceiveCapability
  <2> DEFINE s == [Read EXCEPT !.client.status = "Capabilities"]
  <2>1. client.status = "CapabilityTest" /\ (Proceed(s) \/ Proceed(Read))
    BY <1>11 DEF ReceiveCapability, Waiting
  <2>2. Carried(Read, s) /\ s.client.status = "Capabilities"
    BY <1>3, StatusCarried
  <2> HIDE DEF s
  <2>3. Session(s)
    BY <1>3, <2>1, <2>2, CarriedSession
  <2> QED
    BY <1>3, <1>4, <2>1, <2>3
<1>12. CASE ReceiveList
  BY <1>3, <1>4, <1>12, BecomeSession DEF ReceiveList
<1>7. CASE ReceiveAnswer
  BY <1>3, <1>4, <1>5, <1>7 DEF ReceiveAnswer
<1>8. CASE ReceiveUid
  <2> DEFINE r == Rank(Response.uid, link.drop)
             m == [client.numbers EXCEPT ![Response.uid] = r]
             n == [Read EXCEPT !.client.numbers[Response.uid] = r]
  <2>1. Proceed(Read) \/ Become(Read) \/ Become(n)
    BY <1>8 DEF ReceiveUid
  <2>2. n = [Read EXCEPT !.client.numbers = m]
    BY <1>3 DEF Formed, On
  <2>3. On(m, Uid)
    BY <1>3 DEF Formed, On
  <2>4. \A u \in Uid : m[u] = client.numbers[u] \/ (u = Response.uid /\ m[u] = r)
    BY <1>3 DEF Formed, On
  <2>5. \A u \in Uid : u = Response.uid => u \in link.drop
    <3>1. Response.uid \in link.drop \cup {0}
      BY <1>3 DEF LineOf
    <3>2. 0 \notin Uid
      BY DEF Uid
    <3> QED
      BY <3>1, <3>2
  <2> HIDE DEF m, n, r
  <2>6. /\ Formed(n) /\ n.client.numbers = m /\ n.link = Read.link /\ n.handler = Read.handler
        /\ n.client.status = client.status /\ n.client.selected = client.selected
        /\ n.client.testing = client.testing
    <3>1. /\ On(n, {"client", "source", "link", "mailbox", "store", "handler", "account"})
          /\ n.client = [client EXCEPT !.numbers = m] /\ n.link = Read.link
          /\ n.handler = Read.handler /\ n.mailbox = Read.mailbox
      BY <1>3, <2>2 DEF Formed, On
    <3>2. /\ On(n.client, {"status", "running", "selected", "deleting", "testing", "pendingDeletes", "timer",
                           "limit", "numbers", "newUids", "obsolete", "selection", "existing", "left", "uid"})
          /\ n.client.numbers = m /\ n.client.status = client.status
          /\ n.client.selected = client.selected /\ n.client.testing = client.testing
      BY <1>3, <3>1 DEF Formed, On
    <3> QED
      BY <1>3, <2>3, <3>1, <3>2 DEF Formed
  <2>7. Read.link.drop = link.drop
    BY <1>3, NowFields DEF Carried
  <2>8. Current(Read) => Current(n)
    BY <1>3, <2>4, <2>5, <2>6, <2>7 DEF Current, r
  <2>9. Tested(n) /\ Positions(n) /\ Requested(n)
    BY <1>3, <2>6, <2>8 DEF Session, Tested, Positions, Requested, Free, InUse
  <2> QED
    BY <1>3, <1>4, <2>1, <2>6, <2>9, BecomeSession DEF Session
<1>9. CASE ReceiveMessage
  <2>1. ASSUME NEW full \in BOOLEAN, Proceed(CreateMail(Read, full))
        PROVE  Session(Now)'
    <3>1. Session(CreateMail(Read, full))
      BY <1>3, CreateAlike, AlikeSession
    <3> QED
      BY <1>4, <2>1, <3>1
  <2> QED
    BY <1>3, <1>5, <1>9, <2>1, BecomeSession DEF ReceiveMessage
<1>10. CASE ReceiveGoodbye
  <2> DEFINE a == CloseConnection(Read, FALSE)
             n == RetrieveOperationCompleted(a, FALSE)
  <2>1. Become(n) /\ client.status = "Exit"
    BY <1>10 DEF ReceiveGoodbye, Waiting
  <2>2. /\ Formed(a) /\ ~InUse(a) /\ a.client.testing = client.testing
        /\ a.client.status \in {client.status, "Exit"}
    BY <1>3, CloseFormed
  <2>3. Tested(a)
    BY <2>1, <2>2 DEF Tested
  <2> HIDE DEF a
  <2>4. Session(n)
    BY <2>2, <2>3, OperationCompleted
  <2> QED
    BY <2>1, <2>4, BecomeSession
<1> QED
  BY <1>6, <1>7, <1>8, <1>9, <1>10, <1>11, <1>12 DEF ProcessResponse

-----------------------------------------------------------------------------
(* Requests, timers, the transport, and the world around *)

\* Busy changes only the source, Post and Asked only the daemon's request.
LEMMA RequestFields ==
  ASSUME NEW s, Formed(s), NEW request
  PROVE  /\ Alike(s, [s EXCEPT !.source.unavailable = TRUE])
         /\ LET n == [s EXCEPT !.handler.posted = TRUE]
            IN Formed(n) /\ n.client = s.client /\ n.link = s.link
         /\ LET n == [s EXCEPT !.handler.posted = FALSE]
            IN Formed(n) /\ n.client = s.client /\ n.link = s.link
         /\ LET n == Asked(s, request)
            IN /\ Formed(n) /\ n.client = s.client /\ n.link = s.link
               /\ n.handler.request = request /\ n.handler.posted = s.handler.posted
  BY DEF Asked, Alike, Formed, On

\* A state in which no selection is worked on.
LEMMA FreeSession ==
  ASSUME NEW s, NEW n, Session(s), Free(s), Formed(n), n.client = s.client, n.link = s.link
  PROVE  Session(n) /\ Free(n)
  BY DEF Session, Tested, Positions, Requested, Free, InUse, Current

\* testConnection
LEMMA TestSession ==
  ASSUME NEW s, Formed(s), NEW arrives
  PROVE  Session(TestConnection(s, arrives))
<1> DEFINE b == [s EXCEPT !.client.testing = TRUE, !.client.pendingDeletes = FALSE]
           a == CloseConnection(b, arrives)
           x == [a EXCEPT !.client.status = "Exit"]
           n == TestConnection(s, arrives)
<1>1. n = IF s.account.configured THEN Open(a) ELSE OperationFailed(x)
  BY DEF TestConnection
<1>2. Formed(b) /\ b.client.testing = TRUE
  BY DEF Formed, On
<1> HIDE DEF b
<1>3. Formed(a) /\ a.client.testing = TRUE
  BY <1>2, CloseFormed
<1> HIDE DEF a
<1>6. Formed(a)
  BY <1>3
<1>4. Session(OperationFailed(x))
  <2>1. Carried(a, x) /\ x.client.status = "Exit"
    BY <1>6, StatusCarried, ZenonT(30)
  <2> HIDE DEF x
  <2> QED
    BY <2>1, FailedSession DEF Carried, Tested
<1> HIDE DEF x
<1>5. Session(Open(a))
  <2> DEFINE o == Open(a)
  <2>1. Formed(o) /\ o.client = [a.client EXCEPT !.status = "Init"]
    BY <1>6, OpenFormed
  <2> HIDE DEF o
  <2>2. o.client.status = "Init" /\ o.client.testing = a.client.testing
    <3>1. On(a.client, {"status", "running", "selected", "deleting", "testing", "pendingDeletes", "timer",
                        "limit", "numbers", "newUids", "obsolete", "selection", "existing", "left", "uid"})
      BY <1>6 DEF Formed
    <3> QED
      BY <2>1, <3>1 DEF On
  <2>3. Session(o)
    BY <1>3, <2>1, <2>2 DEF Session, Tested, Positions, Requested, Free
  <2> QED
    BY <2>3 DEF o
<1> QED
  BY <1>1, <1>4, <1>5

\* cancelOperation: the connection is gone.
LEMMA CancelSession ==
  ASSUME Session(Now), CancelOperation
  PROVE  Session(Now)'
<1> DEFINE a == OperationFailed(Now)
           b == CloseConnection(a, FALSE)
           n == RetrievalTerminated(b)
<1>1. Become(n)
  BY DEF CancelOperation
<1>2. Formed(a) /\ Tested(a)
  BY FailedSession DEF Session
<1> HIDE DEF a
<1>3. Formed(b) /\ ~InUse(b) /\ b.client.testing = a.client.testing /\ b.client.status \in {a.client.status, "Exit"}
  BY <1>2, CloseFormed
<1> HIDE DEF b
<1>4. Formed(n) /\ n.client = b.client /\ n.link = b.link
  BY <1>3 DEF RetrievalTerminated, Formed, On
<1> HIDE DEF n
<1>5. Tested(n) /\ ~InUse(n)
  BY <1>2, <1>3, <1>4 DEF Tested, InUse
<1> QED
  BY <1>1, <1>4, <1>5, IdleSession, BecomeSession

\* The requests of the daemon.
LEMMA RequestSession ==
  ASSUME Session(Now), Request
  PROVE  Session(Now)'
<1>1. CASE CancelRequest
  BY <1>1, CancelSession DEF CancelRequest
<1>2. ASSUME Idle
      PROVE  Free(Now) /\ ~handler.posted
  BY <1>2, NowFields DEF Idle, Session, Requested
<1>3. ASSUME NEW request, Idle
      PROVE  LET s == Asked(Now, request)
             IN /\ Session(s) /\ Free(s) /\ s.handler.request = request /\ ~s.handler.posted
  <2>1. LET s == Asked(Now, request)
        IN /\ Formed(s) /\ s.client = Now.client /\ s.link = Now.link
           /\ s.handler.request = request /\ s.handler.posted = Now.handler.posted
    BY RequestFields DEF Session
  <2> QED
    BY <1>2, <1>3, <2>1, FreeSession, NowFields
<1>4. ASSUME NEW s, Session(s), Busy(s)
      PROVE  Session(Now)'
  <2> DEFINE n == [s EXCEPT !.source.unavailable = TRUE]
  <2>1. Alike(s, n)
    BY <1>4, RequestFields DEF Session
  <2>2. Become(n)
    BY <1>4 DEF Busy
  <2> HIDE DEF n
  <2> QED
    BY <1>4, <2>1, <2>2, AlikeSession, BecomeSession
<1>5. ASSUME NEW s, Session(s), Free(s), Post(s)
      PROVE  Session(Now)'
  <2> DEFINE n == [s EXCEPT !.handler.posted = TRUE]
  <2>1. Formed(n) /\ n.client = s.client /\ n.link = s.link
    BY <1>5, RequestFields DEF Session
  <2>2. Become(n)
    BY <1>5 DEF Post
  <2> HIDE DEF n
  <2> QED
    BY <1>5, <2>1, <2>2, FreeSession, BecomeSession
<1>6. CASE RetrieveFolderList
  <2> DEFINE s == Asked(Now, "folders")
             a == [s EXCEPT !.store.inbox = TRUE]
  <2>1. Idle /\ (Post(s) \/ \E arrives \in BOOLEAN : Busy(TestConnection(a, arrives)))
    BY <1>6 DEF RetrieveFolderList
  <2>2. Session(s) /\ Free(s)
    BY <1>3, <2>1
  <2> HIDE DEF s
  <2>3. Formed(a)
    BY <2>2 DEF Session, Formed, On
  <2> HIDE DEF a
  <2> QED
    BY <1>4, <1>5, <2>1, <2>2, <2>3, TestSession
<1>7. CASE RetrieveMessageList
  <2> DEFINE a == Asked(Now, "list")
             s == SetOperation(a, "auto")
  <2>1. Idle /\ (Post(s) \/ \E arrives \in BOOLEAN : Busy(NewConnection(s, arrives)))
    BY <1>7 DEF RetrieveMessageList
  <2>2. Session(a) /\ Free(a)
    BY <1>3, <2>1
  <2> HIDE DEF a
  <2>3. /\ Formed(s) /\ ~s.client.selected /\ s.link = a.link /\ s.client.testing = a.client.testing
        /\ s.client.status = a.client.status /\ s.client.numbers = a.client.numbers
    BY <2>2, OperationSet DEF Session
  <2> HIDE DEF s
  <2>4. CASE Post(s)
    <3>1. Tested(s)
      BY <2>2, <2>3 DEF Session, Tested
    <3>2. Free(s)
      BY <2>3 DEF Free
    <3>3. Positions(s)
      <4>1. ASSUME InUse(s), ~s.client.testing, s.client.status \notin {"Done", "Quit", "Exit"}
            PROVE  Current(s)
        <5>1. InUse(a) /\ ~a.client.testing /\ a.client.status \notin {"Done", "Quit", "Exit"}
          BY <2>3, <4>1 DEF InUse
        <5>2. ~a.client.selected
          BY <2>2, <5>1 DEF Free
        <5>3. Current(a)
          BY <2>2, <5>1, <5>2 DEF Session, Positions
        <5> QED
          BY <2>3, <5>3 DEF Current
      <4> QED
        BY <4>1 DEF Positions
    <3>4. Session(s)
      BY <2>3, <3>1, <3>2, <3>3 DEF Session, Requested
    <3> QED
      BY <1>5, <2>4, <3>2, <3>4
  <2>5. ASSUME NEW arrives \in BOOLEAN, Busy(NewConnection(s, arrives))
        PROVE  Session(Now)'
    <3> DEFINE n == NewConnection(s, arrives)
    <3>1. Formed(n) /\ Tested(n) /\ Positions(n) /\ n.client.selected = s.client.selected
      BY <2>3, ConnectionMade
    <3> HIDE DEF n
    <3>2. Session(n)
      BY <2>3, <3>1 DEF Session, Requested, Free
    <3> QED
      BY <1>4, <2>5, <3>2 DEF n
  <2> QED
    BY <2>1, <2>4, <2>5
<1>8. CASE Synchronize
  <2>1. Idle /\ \E arrives \in BOOLEAN : Become(RetrieveAll(Asked(Now, "synchronize"), arrives))
    BY <1>8 DEF Synchronize
  <2>2. Formed(Asked(Now, "synchronize"))
    BY <1>3, <2>1 DEF Session
  <2> QED
    BY <2>1, <2>2, AllRetrieved, BecomeSession
<1>9. CASE ExportUpdates
  BY <1>3, <1>5, <1>9 DEF ExportUpdates
<1>10. ASSUME NEW s, Formed(s), s.handler.request # "none", ~s.handler.posted, NEW arrives,
              Busy(NewConnection(s, arrives))
       PROVE  Session(Now)'
  <2> DEFINE n == NewConnection(s, arrives)
  <2>1. /\ Formed(n) /\ Tested(n) /\ Positions(n) /\ n.handler.posted = s.handler.posted
        /\ InUse(n) => n.handler.request = s.handler.request
    BY <1>10, ConnectionMade
  <2> HIDE DEF n
  <2>2. Session(n)
    BY <1>10, <2>1 DEF Session, Requested, Free
  <2> QED
    BY <1>4, <1>10, <2>2 DEF n
<1>11. ASSUME NEW uids, NEW limit, RetrieveMessages(uids, limit)
       PROVE  Session(Now)'
  <2> DEFINE a == Asked(Now, "retrieve")
             b == SetOperation(a, limit)
             s == SetSelectedMails(b, uids)
  <2>1. Idle /\ \E arrives \in BOOLEAN : Busy(NewConnection(s, arrives))
    BY <1>11 DEF RetrieveMessages
  <2>2. Formed(a) /\ a.handler.request = "retrieve" /\ ~a.handler.posted
    BY <1>3, <2>1 DEF Session
  <2> HIDE DEF a
  <2>3. Formed(b) /\ b.handler = a.handler
    BY <2>2, OperationSet
  <2> HIDE DEF b
  <2>4. Formed(s) /\ s.handler = b.handler
    BY <2>3, MailsSelected
  <2> HIDE DEF s
  <2> QED
    BY <1>10, <2>1, <2>2, <2>3, <2>4
<1>12. ASSUME NEW uids, DeleteMessages(uids)
       PROVE  Session(Now)'
  <2> DEFINE a == Asked(Now, "delete")
             b == [a EXCEPT !.source.deleting = TRUE, !.client.deleting = TRUE]
             s == SetSelectedMails(b, uids)
  <2>1. Idle /\ \E arrives \in BOOLEAN : Busy(NewConnection(s, arrives))
    BY <1>12 DEF DeleteMessages
  <2>2. Formed(a) /\ a.handler.request = "delete" /\ ~a.handler.posted
    BY <1>3, <2>1 DEF Session
  <2> HIDE DEF a
  <2>3. Formed(b) /\ b.handler = a.handler
    BY <2>2 DEF Formed, On
  <2> HIDE DEF b
  <2>4. Formed(s) /\ s.handler = b.handler
    BY <2>3, MailsSelected
  <2> HIDE DEF s
  <2> QED
    BY <1>10, <2>1, <2>2, <2>3, <2>4
<1> QED
  BY <1>1, <1>6, <1>7, <1>8, <1>9, <1>11, <1>12 DEF Request

\* The state of a daemon that has just been started.
LEMMA NewSession ==
  ASSUME NEW n, On(n, {"client", "source", "link", "mailbox", "store", "handler", "account"}),
         n.client = NewClient, n.link = NoSession, n.mailbox \in SUBSET Uid,
         On(n.handler, {"request", "available", "posted", "told", "success"})
  PROVE  Session(n)
<1>1. /\ On(NewClient, {"status", "running", "selected", "deleting", "testing", "pendingDeletes", "timer",
                        "limit", "numbers", "newUids", "obsolete", "selection", "existing", "left", "uid"})
      /\ NewClient.numbers = NoUids /\ NewClient.testing = FALSE
  BY DEF NewClient, On
<1>2. On(NoUids, Uid)
  BY DEF NoUids, On
<1>3. /\ On(NoSession, {"state", "wire", "drop", "marked"}) /\ NoSession.drop = {} /\ NoSession.wire = <<>>
      /\ NoSession.state = "none"
  BY DEF NoSession, On
<1>4. <<>> \in Seq(LineOf({}))
  OBVIOUS
<1>5. Formed(n)
  <2>1. n.link.drop \in SUBSET Uid /\ n.link.wire \in Seq(LineOf(n.link.drop))
    BY <1>3, <1>4
  <2> QED
    BY <1>1, <1>2, <1>3, <2>1 DEF Formed
<1>6. Tested(n) /\ ~InUse(n)
  BY <1>1, <1>3 DEF Tested, InUse
<1> QED
  BY <1>5, <1>6, IdleSession

\* Timers, the transport, and the world around.
LEMMA OtherSession ==
  ASSUME PopInv,
         \/ Posted \/ MailCheckDue \/ ConnectionInactive \/ MessageTimeout
         \/ LinkUp \/ LinkFails \/ AccountsUpdated \/ Arrives \/ Crash
         \/ \E u \in Uid : UserRemoves(u) \/ OthersRemove(u)
  PROVE  Session(Now)'
<1>1. Session(Now) /\ Formed(Now) /\ Tested(Now)
  BY DEF PopInv, Session
<1>2. ASSUME NEW n, Alike(Now, n), Become(n)
      PROVE  Session(Now)'
  BY <1>1, <1>2, AlikeSession, BecomeSession
<1>3. CASE Posted
  <2> DEFINE s == [Now EXCEPT !.handler.posted = FALSE]
  <2>1. handler.posted /\ \E arrives \in BOOLEAN : Become(RetrievalCompleted(s, arrives))
    BY <1>3 DEF Posted
  <2>2. Free(Now)
    BY <1>1, <2>1, NowFields DEF Session, Requested
  <2>3. Formed(s) /\ s.client = Now.client /\ s.link = Now.link
    BY <1>1, RequestFields
  <2> HIDE DEF s
  <2>4. Session(s) /\ Free(s)
    BY <1>1, <2>2, <2>3, FreeSession
  <2>5. \A arrives : Session(RetrievalCompleted(s, arrives))
    BY <2>4, CompletionReported DEF Session
  <2> QED
    BY <2>1, <2>5, BecomeSession
<1>4. CASE MailCheckDue
  <2>1. PICK arrives \in BOOLEAN : Become(QueueMailCheck(Now, arrives))
    BY <1>4 DEF MailCheckDue
  <2>2. Session(QueueMailCheck(Now, arrives))
    BY <1>1, CheckQueued, AlikeSession
  <2> QED
    BY <2>1, <2>2, BecomeSession
<1>5. CASE ConnectionInactive
  <2>1. PICK arrives \in BOOLEAN : Become(CloseConnection(Now, arrives))
    BY <1>5 DEF ConnectionInactive
  <2> DEFINE n == CloseConnection(Now, arrives)
  <2>2. Formed(n) /\ ~InUse(n) /\ n.client.testing = Now.client.testing /\ n.client.status \in {Now.client.status, "Exit"}
    BY <1>1, CloseFormed
  <2> HIDE DEF n
  <2>3. Tested(n)
    BY <1>1, <2>2 DEF Tested
  <2> QED
    BY <2>1, <2>2, <2>3, IdleSession, BecomeSession DEF n
<1>6. CASE MessageTimeout
  <2>1. Become(Flush(Now)) \/ Become([Now EXCEPT !.store.timer = FALSE])
    BY <1>6 DEF MessageTimeout
  <2>2. Alike(Now, [Now EXCEPT !.store.timer = FALSE])
    BY <1>1 DEF Alike, Formed, On
  <2> QED
    BY <1>1, <1>2, <2>1, <2>2, FlushAlike
<1>7. CASE LinkUp
  <2> DEFINE l == [state |-> "up", wire |-> <<Ok>>, drop |-> mailbox, marked |-> {}]
             n == [Now EXCEPT !.link = l]
  <2>1. Become(n) /\ link.state = "opening"
    BY <1>7 DEF LinkUp
  <2>2. mailbox \in SUBSET Uid /\ link.drop = {}
    BY <1>1, <2>1, NowFields DEF Formed
  <2>3. <<Ok>> \in Seq(LineOf(mailbox))
    <3>1. Ok \in LineOf(mailbox)
      BY DEF Ok, Line, LineOf
    <3> QED
      BY <3>1
  <2>4. On(l, {"state", "wire", "drop", "marked"}) /\ l.wire = <<Ok>> /\ l.drop = mailbox /\ l.state = "up"
    BY DEF On
  <2> HIDE DEF l
  <2>5. /\ On(n, {"client", "source", "link", "mailbox", "store", "handler", "account"})
        /\ n.client = Now.client /\ n.link = l /\ n.mailbox = Now.mailbox /\ n.handler = Now.handler
    BY DEF Now, On
  <2> HIDE DEF n
  <2>6. Formed(n)
    <3>1. l.drop \in SUBSET Uid /\ l.wire \in Seq(LineOf(l.drop))
      BY <2>2, <2>3, <2>4
    <3> QED
      BY <1>1, <2>4, <2>5, <3>1 DEF Formed
  <2>7. Current(Now) => Current(n)
    BY <2>2, <2>5, NowFields DEF Current
  <2>8. InUse(Now)
    BY <2>1, NowFields DEF InUse
  <2>9. Tested(n) /\ Positions(n) /\ Requested(n)
    BY <1>1, <2>5, <2>7, <2>8 DEF Session, Tested, Positions, Requested, Free
  <2> QED
    BY <2>1, <2>6, <2>9, BecomeSession DEF Session
<1>8. CASE LinkFails
  <2> DEFINE l == [NoSession EXCEPT !.state = "idle"]
             n == [Now EXCEPT !.link = l]
  <2>1. Become(OperationFailed(n))
    BY <1>8 DEF LinkFails
  <2>2. On(l, {"state", "wire", "drop", "marked"}) /\ l.wire = <<>> /\ l.drop = {} /\ l.state = "idle"
    BY DEF On, NoSession
  <2>3. <<>> \in Seq(LineOf({}))
    OBVIOUS
  <2> HIDE DEF l
  <2>4. /\ On(n, {"client", "source", "link", "mailbox", "store", "handler", "account"})
        /\ n.client = Now.client /\ n.link = l /\ n.mailbox = Now.mailbox /\ n.handler = Now.handler
    BY DEF Now, On
  <2> HIDE DEF n
  <2>5. Formed(n)
    <3>1. l.drop \in SUBSET Uid /\ l.wire \in Seq(LineOf(l.drop))
      BY <2>2, <2>3
    <3> QED
      BY <1>1, <2>2, <2>4, <3>1 DEF Formed
  <2>6. Tested(n)
    BY <1>1, <2>4 DEF Tested
  <2> QED
    BY <2>1, <2>5, <2>6, FailedSession, BecomeSession
<1>9. CASE AccountsUpdated
  <2>1. ASSUME NEW c \in Configurations, Become([Now EXCEPT !.account.configured = c])
        PROVE  Session(Now)'
    <3>1. Alike(Now, [Now EXCEPT !.account.configured = c])
      BY <1>1 DEF Alike, Formed, On
    <3> QED
      BY <1>2, <2>1, <3>1
  <2> QED
    BY <1>1, <1>9, <2>1, CancelSession DEF AccountsUpdated
<1>10. ASSUME NEW m \in SUBSET Uid, Become([Now EXCEPT !.mailbox = m])
       PROVE  Session(Now)'
  <2>1. Alike(Now, [Now EXCEPT !.mailbox = m])
    BY <1>1 DEF Alike, Formed, On
  <2> QED
    BY <1>2, <1>10, <2>1
<1>11. mailbox \in SUBSET Uid
  BY <1>1, NowFields DEF Formed
<1>12. CASE Arrives
  <2>1. history.arrived + 1 \in Uid
    BY <1>12, PopAssumption DEF Arrives, PopInv, Uid
  <2>2. Become([Now EXCEPT !.mailbox = mailbox \cup {history.arrived + 1}])
    BY <1>12, NowFields DEF Arrives
  <2> QED
    BY <1>10, <1>11, <2>1, <2>2
<1>13. ASSUME NEW u \in Uid, OthersRemove(u)
       PROVE  Session(Now)'
  <2>1. Become([Now EXCEPT !.mailbox = mailbox \ {u}])
    BY <1>13, NowFields DEF OthersRemove
  <2> QED
    BY <1>10, <1>11, <2>1
<1>14. ASSUME NEW u \in Uid, UserRemoves(u)
       PROVE  Session(Now)'
  <2> DEFINE a == RemoveLocal(Now, {u})
             n == [a EXCEPT !.store.records = @ \cup {u}]
  <2>1. Become(n)
    BY <1>14 DEF UserRemoves
  <2>2. Alike(Now, a)
    BY <1>1, RemoveAlike
  <2> HIDE DEF a
  <2>3. Alike(Now, n)
    BY <2>2 DEF Alike, Formed, On
  <2> HIDE DEF n
  <2> QED
    BY <1>2, <2>1, <2>3
<1>15. CASE Crash
  <2> DEFINE h == [NewHandler EXCEPT !.told = handler.told]
             n == [Now EXCEPT !.client = NewClient, !.source = NewSource, !.link = NoSession,
                              !.handler = h, !.store.buffer = <<>>, !.store.timer = FALSE]
  <2>1. Become(n)
    BY <1>15 DEF Crash
  <2>2. On(h, {"request", "available", "posted", "told", "success"})
    BY DEF NewHandler, On
  <2> HIDE DEF h
  <2>3. /\ On(n, {"client", "source", "link", "mailbox", "store", "handler", "account"})
        /\ n.client = NewClient /\ n.link = NoSession /\ n.mailbox = Now.mailbox /\ n.handler = h
    BY DEF Now, On
  <2> HIDE DEF n
  <2>4. Session(n)
    BY <1>1, <2>2, <2>3, NewSession DEF Formed
  <2> QED
    BY <2>1, <2>4, BecomeSession
<1> QED
  BY <1>3, <1>4, <1>5, <1>6, <1>7, <1>8, <1>9, <1>12, <1>13, <1>14, <1>15

\* What is in the history is counted and recorded.
LEMMA HistoryKept ==
  ASSUME PopInv, [Next]_vars
  PROVE  history'.arrived \in 0 .. MaxUid /\ On(history', {"arrived", "requests", "crashes", "asked"})
<1>1. /\ history.arrived \in 0 .. MaxUid /\ MaxUid \in Nat
      /\ On(history, {"arrived", "requests", "crashes", "asked"})
  BY PopAssumption DEF PopInv
<1>2. CASE UNCHANGED history
  BY <1>1, <1>2
<1>3. ASSUME NEW h, h = [history EXCEPT !.requests = @ + 1] \/ h = [history EXCEPT !.crashes = @ + 1]
                    \/ \E U : \/ h = [history EXCEPT !.asked = @ \cup U]
                              \/ h = [history EXCEPT !.requests = @ + 1, !.asked = @ \cup U]
      PROVE  h.arrived = history.arrived /\ On(h, {"arrived", "requests", "crashes", "asked"})
  BY <1>1, <1>3 DEF On
<1>4. CASE Arrives
  <2>1. history' = [history EXCEPT !.arrived = @ + 1] /\ history.arrived < MaxUid
    BY <1>4 DEF Arrives
  <2>2. history'.arrived = history.arrived + 1 /\ On(history', {"arrived", "requests", "crashes", "asked"})
    BY <1>1, <2>1 DEF On
  <2> QED
    BY <1>1, <2>1, <2>2
<1>5. \/ UNCHANGED history \/ Arrives
      \/ history' = [history EXCEPT !.requests = @ + 1] \/ history' = [history EXCEPT !.crashes = @ + 1]
      \/ \E U : \/ history' = [history EXCEPT !.asked = @ \cup U]
                \/ history' = [history EXCEPT !.requests = @ + 1, !.asked = @ \cup U]
  <2>1. CASE Request
    BY <2>1 DEF Request, RetrieveFolderList, RetrieveMessageList, Synchronize, ExportUpdates, DeleteMessages,
                RetrieveMessages, CancelRequest, Count
  <2>2. CASE UNCHANGED vars \/ UNCHANGED history
    BY <2>2 DEF vars
  <2>3. CASE \/ Posted \/ MailCheckDue \/ ConnectionInactive \/ MessageTimeout
             \/ LinkUp \/ LinkFails \/ AccountsUpdated \/ Crash
    BY <2>3 DEF Posted, MailCheckDue, ConnectionInactive, MessageTimeout, LinkUp, LinkFails, AccountsUpdated,
                Crash, Count, Quiet
  <2>4. CASE \E u \in Uid : UserRemoves(u) \/ OthersRemove(u)
    BY <2>4 DEF UserRemoves, OthersRemove
  <2> QED
    BY <2>1, <2>2, <2>3, <2>4 DEF Next
<1>6. UNCHANGED history \/ Arrives
      \/ (history'.arrived = history.arrived /\ On(history', {"arrived", "requests", "crashes", "asked"}))
  BY <1>3, <1>5
<1> QED
  BY <1>1, <1>2, <1>4, <1>6

\* The inductive invariant holds.
LEMMA PopInvKept == Spec => []PopInv
<1>1. Init => PopInv
  <2> SUFFICES ASSUME Init PROVE PopInv
    OBVIOUS
  <2>1. mailbox \in SUBSET Uid
    BY PopAssumption DEF Init, Uid
  <2>2. On(Now, {"client", "source", "link", "mailbox", "store", "handler", "account"})
    BY DEF Now, On
  <2>3. On(NewHandler, {"request", "available", "posted", "told", "success"})
    BY DEF NewHandler, On
  <2>4. Session(Now)
    BY <2>1, <2>2, <2>3, NewSession, NowFields DEF Init
  <2>5. history.arrived \in 0 .. MaxUid /\ On(history, {"arrived", "requests", "crashes", "asked"})
    BY PopAssumption DEF Init, On
  <2> QED
    BY <2>4, <2>5 DEF PopInv
<1>2. PopInv /\ [Next]_vars => PopInv'
  <2> SUFFICES ASSUME PopInv, [Next]_vars PROVE PopInv'
    OBVIOUS
  <2>1. Session(Now)
    BY DEF PopInv
  <2>2. CASE UNCHANGED vars
    <3>1. Now' = Now
      BY <2>2 DEF vars, Now
    <3>2. Session(Now)'
      BY <2>1, <3>1
    <3> QED
      BY <3>2, HistoryKept DEF PopInv
  <2>3. CASE Next
    <3>1. Session(Now)'
      BY <2>1, <2>3, NextActionSession, ProcessResponseSession, RequestSession, OtherSession DEF Next
    <3> QED
      BY <3>1, HistoryKept DEF PopInv
  <2> QED
    BY <2>2, <2>3
<1> QED
  BY <1>1, <1>2, PTL DEF Spec

\* A session that works through a listing uses only positions that it has read
\* itself: newConnection clears them, retrieveMessageList leaves them when no
\* selection is worked on, and a test of the connection never gets as far,
\* whatever the server answers, whatever breaks a session off, and however
\* requests, mail checks, cancellations and crashes follow each other.
THEOREM ListingStaysCurrent == Spec => []ListingCurrent
<1>1. PopInv => ListingCurrent
  <2> SUFFICES ASSUME PopInv, link.state = "up", ~client.selected,
                      client.status \in {"RequestMessage", "Retr", "Top", "MessageDataRetr", "MessageDataTop",
                                         "DeleAfterRetr", "DeleteMessage", "Dele"}
               PROVE  Current(Now)
    BY DEF ListingCurrent
  <2>1. Tested(Now) /\ Positions(Now)
    BY DEF PopInv, Session
  <2>2. InUse(Now) /\ ~client.testing
    BY <2>1, NowFields DEF Tested, InUse
  <2> QED
    BY <2>1, <2>2, NowFields DEF Positions
<1> QED
  BY <1>1, PopInvKept, PTL

-----------------------------------------------------------------------------
(* Sets of numbers *)

\* A set of natural numbers has a least element.
LEMMA LeastNatural ==
  ASSUME NEW T, T \subseteq Nat, T # {}
  PROVE  \E n \in T : \A k \in T : n <= k
<1> DEFINE R == {ss \in Nat \X Nat : ss[1] < ss[2]}
<1>1. IsWellFoundedOn(R, Nat)
  BY NatLessThanWellFounded DEF OpToRel
<1>2. \A k, n \in Nat : k < n => <<k, n>> \in R
  OBVIOUS
<1> HIDE DEF R
<1>3. PICK n \in T : \A k \in T : <<k, n>> \notin R
  <2>1. \A U : U \subseteq Nat /\ U # {} => \E n \in U : \A k \in U : ~(<<k, n>> \in R)
    BY <1>1, WFMin, Zenon
  <2> QED
    BY <2>1
<1>4. \A k \in T : ~(k < n)
  BY <1>2, <1>3
<1> QED
  BY <1>4

\* The first and the last of some positions.
LEMMA Ends ==
  ASSUME NEW N \in Nat, NEW T, T \subseteq 1 .. N, T # {}
  PROVE  /\ Min(T) \in T /\ \A k \in T : Min(T) <= k
         /\ Max(T) \in T /\ \A k \in T : Max(T) >= k
<1>1. \E n \in T : \A k \in T : n <= k
  <2>1. T \subseteq Nat
    OBVIOUS
  <2> QED
    BY <2>1, LeastNatural
<1>2. \E n \in T : \A k \in T : n >= k
  <2> DEFINE U == {N - k : k \in T}
  <2>1. U \subseteq Nat /\ U # {}
    <3>1. \A k \in T : N - k \in Nat
      OBVIOUS
    <3> QED
      BY <3>1
  <2>2. PICK n \in U : \A k \in U : n <= k
    BY <2>1, LeastNatural
  <2>3. PICK m \in T : n = N - m
    BY <2>2
  <2>4. \A k \in T : m >= k
    <3> TAKE k \in T
    <3>1. N - m <= N - k /\ k \in 1 .. N /\ m \in 1 .. N
      BY <2>2, <2>3
    <3> QED
      BY <3>1
  <2> QED
    BY <2>4
<1> QED
  BY <1>1, <1>2 DEF Min, Max

-----------------------------------------------------------------------------
(* The store and the buffer before it *)

\* What may be in the buffer.
Item == [uid : Uid, add : BOOLEAN, lost : BOOLEAN, what : {"header", "whole"}]

\* No two rows of a message: what is to be added is not there, what is to be
\* updated is, unless the update has lost its message.
Agrees(t, item) == IF item.add THEN t.local[item.uid] = "none"
                   ELSE item.lost \/ t.local[item.uid] # "none"

\* The tables and the buffer agree.
StoreTyped(t) ==
  /\ On(t, {"local", "records", "removed", "refused", "buffer", "timer", "inbox"})
  /\ t.local \in [Uid -> {"none", "header", "whole"}]
  /\ t.buffer \in Seq(Item)
  /\ \A k \in DOMAIN t.buffer : Agrees(t, t.buffer[k])

\* No addition of message u is in the buffer; nor is the message in the store.
Unadded(t, u) == \A k \in DOMAIN t.buffer : t.buffer[k].uid = u => ~t.buffer[k].add
Absent(t, u) == t.local[u] = "none" /\ Unadded(t, u)

\* The last item of the buffer for its message, with all of it.
LastWhole(t, k) ==
  /\ k \in DOMAIN t.buffer /\ t.buffer[k].what = "whole"
  /\ \A j \in DOMAIN t.buffer : t.buffer[j].uid = t.buffer[k].uid => j <= k

\* The message will be there as a whole, if at all.
Complete(t, u) ==
  \/ u \in t.removed \cup t.refused
  \/ /\ t.local[u] \in {"none", "whole"}
     /\ \A k \in DOMAIN t.buffer : t.buffer[k].uid = u => ~t.buffer[k].add /\ t.buffer[k].lost
  \/ \E k \in DOMAIN t.buffer : LastWhole(t, k) /\ t.buffer[k].uid = u

\* What RemoveLocal makes of the store.
Cleared(t, uids) ==
  LET Miss(item) == [item EXCEPT !.lost = @ \/ (~item.add /\ item.uid \in uids)]
  IN [t EXCEPT !.local = [u \in Uid |-> IF u \in uids THEN "none" ELSE @[u]],
               !.buffer = [k \in DOMAIN @ |-> Miss(@[k])]]

\* RemoveLocal keeps the store in order: what was absent or complete stays so.
LEMMA ClearedStore ==
  ASSUME NEW t, StoreTyped(t), NEW uids
  PROVE  LET r == Cleared(t, uids)
         IN /\ StoreTyped(r) /\ r.records = t.records /\ r.removed = t.removed /\ r.refused = t.refused
            /\ \A u \in Uid : /\ u \in uids => r.local[u] = "none"
                              /\ u \notin uids => r.local[u] = t.local[u]
                              /\ Unadded(t, u) => Unadded(r, u)
                              /\ Absent(t, u) => Absent(r, u)
                              /\ Complete(t, u) => Complete(r, u)
            /\ \A k \in DOMAIN r.buffer : ~r.buffer[k].add /\ r.buffer[k].uid \in uids => r.buffer[k].lost
            /\ Len(r.buffer) = Len(t.buffer) /\ \A k \in DOMAIN r.buffer : r.buffer[k].uid = t.buffer[k].uid
<1> DEFINE r == Cleared(t, uids)
           b == t.buffer
           Miss(item) == [item EXCEPT !.lost = @ \/ (~item.add /\ item.uid \in uids)]
           c == [k \in DOMAIN b |-> Miss(b[k])]
           l == [u \in Uid |-> IF u \in uids THEN "none" ELSE t.local[u]]
<1>1. r = [t EXCEPT !.local = l, !.buffer = c]
  BY DEF Cleared
<1> HIDE DEF r, l, c
<1>2. /\ On(r, {"local", "records", "removed", "refused", "buffer", "timer", "inbox"})
      /\ r.local = l /\ r.buffer = c /\ r.records = t.records /\ r.removed = t.removed /\ r.refused = t.refused
  BY <1>1 DEF StoreTyped, On
<1>3. l \in [Uid -> {"none", "header", "whole"}] /\ \A u \in Uid : l[u] = IF u \in uids THEN "none" ELSE t.local[u]
  BY DEF StoreTyped, l
<1>4. /\ DOMAIN b = 1 .. Len(b) /\ Len(b) \in Nat
      /\ \A k \in DOMAIN b : b[k] \in Item
  BY DEF StoreTyped
<1>5. /\ DOMAIN c = DOMAIN b
      /\ \A k \in DOMAIN b : /\ c[k] \in Item /\ c[k].uid = b[k].uid /\ c[k].add = b[k].add /\ c[k].what = b[k].what
                             /\ c[k].lost <=> b[k].lost \/ (~b[k].add /\ b[k].uid \in uids)
  BY <1>4 DEF c, Item
<1>6. c \in Seq(Item) /\ Len(c) = Len(b)
  <2>1. c \in [1 .. Len(b) -> Item]
    BY <1>4, <1>5 DEF c
  <2> QED
    BY <1>4, <2>1
<1>7. \A k \in DOMAIN c : Agrees(r, c[k])
  BY <1>2, <1>3, <1>4, <1>5 DEF StoreTyped, Agrees, Item
<1>8. StoreTyped(r)
  BY <1>2, <1>3, <1>6, <1>7 DEF StoreTyped
<1>9. ASSUME NEW u \in Uid
      PROVE  /\ Unadded(t, u) => Unadded(r, u)
             /\ Absent(t, u) => Absent(r, u)
             /\ Complete(t, u) => Complete(r, u)
  <2>1. Unadded(t, u) => Unadded(r, u)
    BY <1>2, <1>5 DEF Unadded
  <2>2. Absent(t, u) => Absent(r, u)
    BY <1>2, <1>3, <2>1 DEF Absent
  <2>3. \A k \in DOMAIN b : LastWhole(t, k) => LastWhole(r, k)
    BY <1>2, <1>5 DEF LastWhole
  <2>4. Complete(t, u) => Complete(r, u)
    BY <1>2, <1>3, <1>5, <2>3 DEF Complete
  <2> QED
    BY <2>1, <2>2, <2>4
<1> QED
  BY <1>2, <1>3, <1>5, <1>6, <1>8, <1>9 DEF r

\* What there is in the store has no addition in the buffer.
LEMMA PresentUnadded ==
  ASSUME NEW t, StoreTyped(t), NEW u \in Uid, t.local[u] # "none"
  PROVE  Unadded(t, u)
  BY DEF StoreTyped, Unadded, Agrees

\* What is not there, nor to be added, is complete.
LEMMA AbsentComplete ==
  ASSUME NEW t, StoreTyped(t), NEW u \in Uid, Absent(t, u)
  PROVE  Complete(t, u)
  BY DEF StoreTyped, Absent, Unadded, Complete, Agrees

\* The items ks of a buffer are written.
LEMMA Written ==
  ASSUME NEW local \in [Uid -> {"none", "header", "whole"}], NEW b \in Seq(Item), NEW ks, ks \subseteq DOMAIN b
  PROVE  LET r == Write(local, b, ks)
         IN /\ r \in [Uid -> {"none", "header", "whole"}]
            /\ \A u \in Uid : \/ r[u] = local[u] /\ \A k \in ks : b[k].uid # u
                              \/ \E k \in ks : /\ b[k].uid = u /\ r[u] = b[k].what
                                               /\ \A j \in ks : b[j].uid = u => j <= k
<1> DEFINE r == Write(local, b, ks)
<1>0. Len(b) \in Nat /\ DOMAIN b = 1 .. Len(b) /\ \A k \in DOMAIN b : b[k] \in Item
  OBVIOUS
<1>1. ASSUME NEW u \in Uid
      PROVE  /\ r[u] \in {"none", "header", "whole"}
             /\ \/ r[u] = local[u] /\ \A k \in ks : b[k].uid # u
                \/ \E k \in ks : /\ b[k].uid = u /\ r[u] = b[k].what
                                 /\ \A j \in ks : b[j].uid = u => j <= k
  <2> DEFINE mine == {k \in ks : b[k].uid = u}
  <2>1. r[u] = IF mine = {} THEN local[u] ELSE b[Max(mine)].what
    BY DEF Write
  <2>2. CASE mine = {}
    BY <2>1, <2>2
  <2>3. CASE mine # {}
    <3>1. mine \subseteq 1 .. Len(b)
      BY <1>0
    <3>2. Max(mine) \in mine /\ \A k \in mine : Max(mine) >= k
      BY <1>0, <2>3, <3>1, Ends
    <3>3. r[u] = b[Max(mine)].what /\ b[Max(mine)] \in Item
      BY <1>0, <2>1, <2>3, <3>1, <3>2
    <3> QED
      BY <3>1, <3>2, <3>3 DEF Item
  <2> QED
    BY <2>2, <2>3
<1>2. r \in [Uid -> {"none", "header", "whole"}]
  BY <1>1 DEF Write
<1> QED
  BY <1>1, <1>2

\* The store r is t with what the buffer held.
Emptied(t, r) ==
  /\ StoreTyped(r)
  /\ \A u \in Uid : /\ Absent(t, u) => Absent(r, u)
                    /\ t.local[u] # "none" => r.local[u] # "none"
                    /\ Complete(t, u) => Complete(r, u)
  /\ \A k \in DOMAIN t.buffer :
       LastWhole(t, k) => t.buffer[k].uid \in r.refused \/ r.local[t.buffer[k].uid] = "whole"

\* What a flush makes of the store.
LEMMA FlushStore ==
  ASSUME NEW s, StoreTyped(s.store), NEW r, On(r, {"local", "records", "removed", "refused", "buffer", "timer", "inbox"}),
         r.local = Write(Write(s.store.local, s.store.buffer, Additions(s)), s.store.buffer, Updates(s)),
         r.refused = s.store.refused \cup
           {s.store.buffer[k].uid : k \in DOMAIN s.store.buffer \ (Additions(s) \cup Updates(s))},
         r.removed = s.store.removed, r.buffer = <<>>
  PROVE  Emptied(s.store, r)
<1> DEFINE t == s.store
           b == t.buffer
           A == Additions(s)
           U == Updates(s)
           l == Write(t.local, b, A)
           m == Write(l, b, U)
<1>0. /\ DOMAIN b = 1 .. Len(b) /\ Len(b) \in Nat /\ b \in Seq(Item)
      /\ \A k \in DOMAIN b : b[k] \in Item
      /\ t.local \in [Uid -> {"none", "header", "whole"}]
      /\ \A k \in DOMAIN b : Agrees(t, b[k])
  BY DEF StoreTyped
<1>1. A \subseteq DOMAIN b /\ \A k \in A : b[k].add
  BY DEF Additions
<1>2. U \subseteq DOMAIN b /\ \A k \in U : ~b[k].add /\ ~b[k].lost
  BY DEF Updates
<1>3. \A k \in A, j \in A : b[j].uid = b[k].uid => j = k
  BY DEF Additions
<1>4. (\E k \in DOMAIN b : ~b[k].add /\ b[k].lost) => U = {}
  BY DEF Updates
<1> HIDE DEF A, U
<1>5. /\ l \in [Uid -> {"none", "header", "whole"}]
      /\ \A u \in Uid : \/ l[u] = t.local[u] /\ \A k \in A : b[k].uid # u
                        \/ \E k \in A : /\ b[k].uid = u /\ l[u] = b[k].what
                                        /\ \A j \in A : b[j].uid = u => j <= k
  <2> DEFINE v == t.local
             c == t.buffer
  <2>1. v \in [Uid -> {"none", "header", "whole"}] /\ c \in Seq(Item) /\ A \subseteq DOMAIN c
    BY <1>0, <1>1
  <2> HIDE DEF v, c
  <2>2. LET x == Write(v, c, A)
        IN /\ x \in [Uid -> {"none", "header", "whole"}]
           /\ \A u \in Uid : \/ x[u] = v[u] /\ \A k \in A : c[k].uid # u
                             \/ \E k \in A : /\ c[k].uid = u /\ x[u] = c[k].what
                                             /\ \A j \in A : c[j].uid = u => j <= k
    BY <2>1, Written
  <2> QED
    BY <2>2 DEF v, c
<1> HIDE DEF l
<1>6. /\ m \in [Uid -> {"none", "header", "whole"}]
      /\ \A u \in Uid : \/ m[u] = l[u] /\ \A k \in U : b[k].uid # u
                        \/ \E k \in U : /\ b[k].uid = u /\ m[u] = b[k].what
                                        /\ \A j \in U : b[j].uid = u => j <= k
  BY <1>0, <1>2, <1>5, Written
<1> HIDE DEF m
<1>7. r.local = m /\ r.refused = t.refused \cup {b[k].uid : k \in DOMAIN b \ (A \cup U)}
  BY DEF A, U, l, m
<1>8. StoreTyped(r)
  <2>1. <<>> \in Seq(Item) /\ DOMAIN <<>> = {}
    OBVIOUS
  <2>2. r.buffer \in Seq(Item) /\ DOMAIN r.buffer = {}
    BY <2>1
  <2>3. r.local \in [Uid -> {"none", "header", "whole"}]
    BY <1>6, <1>7
  <2> QED
    BY <2>2, <2>3 DEF StoreTyped
<1>9. ASSUME NEW u \in Uid, Unadded(t, u)
      PROVE  l[u] = t.local[u]
  BY <1>1, <1>5, <1>9 DEF Unadded
<1>10. ASSUME NEW u \in Uid, t.local[u] = "none"
       PROVE  m[u] = l[u]
  <2>1. \A k \in U : b[k].uid # u
    BY <1>0, <1>2, <1>10 DEF Agrees
  <2> QED
    BY <1>6, <2>1
<1>11. ASSUME NEW u \in Uid, Absent(t, u)
       PROVE  Absent(r, u)
  BY <1>7, <1>9, <1>10, <1>11 DEF Absent, Unadded
<1>12. ASSUME NEW u \in Uid, t.local[u] # "none"
       PROVE  r.local[u] # "none"
  <2>1. l[u] # "none"
    BY <1>9, <1>12, PresentUnadded
  <2>2. \A k \in U : b[k].what # "none"
    BY <1>0, <1>2 DEF Item
  <2> QED
    BY <1>6, <1>7, <2>1, <2>2
<1>13. ASSUME NEW k \in DOMAIN b, LastWhole(t, k)
       PROVE  b[k].uid \in r.refused \/ r.local[b[k].uid] = "whole"
  <2> DEFINE u == b[k].uid
  <2>0. u \in Uid /\ b[k].what = "whole" /\ \A j \in DOMAIN b : b[j].uid = u => j <= k
    BY <1>0, <1>13 DEF LastWhole, Item
  <2>1. CASE k \notin A \cup U
    BY <1>7, <2>1
  <2>2. CASE k \in U
    <3>1. PICK j \in U : b[j].uid = u /\ m[u] = b[j].what /\ \A i \in U : b[i].uid = u => i <= j
      BY <1>6, <2>0, <2>2
    <3>2. j <= k /\ k <= j /\ j \in Nat /\ k \in Nat
      BY <1>0, <1>2, <2>0, <2>2, <3>1
    <3>3. j = k
      BY <3>2
    <3> QED
      BY <1>7, <2>0, <3>1, <3>3
  <2>3. CASE k \in A
    <3>1. l[u] = "whole"
      BY <1>3, <1>5, <2>0, <2>3
    <3>2. t.local[u] = "none"
      BY <1>0, <1>1, <2>3 DEF Agrees
    <3> QED
      BY <1>7, <1>10, <2>0, <3>1, <3>2
  <2> QED
    BY <2>1, <2>2, <2>3
<1>14. ASSUME NEW u \in Uid, Complete(t, u)
       PROVE  Complete(r, u)
  <2>1. CASE u \in t.removed \cup t.refused
    BY <1>7, <2>1 DEF Complete
  <2>2. CASE /\ t.local[u] \in {"none", "whole"}
             /\ \A k \in DOMAIN b : b[k].uid = u => ~b[k].add /\ b[k].lost
    <3>1. Unadded(t, u)
      BY <2>2 DEF Unadded
    <3>2. l[u] = t.local[u]
      BY <1>9, <3>1
    <3>3. m[u] = l[u]
      BY <1>2, <1>6, <2>2
    <3> QED
      BY <1>7, <2>2, <3>2, <3>3 DEF Complete
  <2>3. CASE \E k \in DOMAIN b : LastWhole(t, k) /\ b[k].uid = u
    <3>1. u \in r.refused \/ r.local[u] = "whole"
      BY <1>13, <2>3
    <3> QED
      BY <3>1 DEF Complete
  <2> QED
    BY <1>14, <2>1, <2>2, <2>3 DEF Complete
<1> QED
  BY <1>8, <1>11, <1>12, <1>13, <1>14 DEF Emptied

\* An item is appended to the buffer.
LEMMA AppendStore ==
  ASSUME NEW t, StoreTyped(t), NEW item \in Item, Agrees(t, item)
  PROVE  LET r == [t EXCEPT !.buffer = Append(@, item), !.refused = @ \ {item.uid}]
         IN /\ StoreTyped(r) /\ r.records = t.records /\ r.local = t.local
            /\ \A v \in Uid \ {item.uid} : Complete(t, v) => Complete(r, v)
            /\ \A v \in Uid \ {item.uid} : Absent(t, v) => Absent(r, v)
            /\ item.what = "whole" =>
                 LET k == Len(r.buffer) IN k \in DOMAIN r.buffer /\ LastWhole(r, k) /\ r.buffer[k] = item
<1> DEFINE b == t.buffer
           c == Append(b, item)
           r == [t EXCEPT !.buffer = Append(@, item), !.refused = @ \ {item.uid}]
<1>0. b \in Seq(Item) /\ DOMAIN b = 1 .. Len(b) /\ Len(b) \in Nat /\ t.local \in [Uid -> {"none", "header", "whole"}]
  BY DEF StoreTyped
<1>1. /\ c \in Seq(Item) /\ Len(c) = Len(b) + 1 /\ DOMAIN c = 1 .. (Len(b) + 1)
      /\ \A k \in DOMAIN b : c[k] = b[k]
      /\ c[Len(b) + 1] = item
  BY <1>0
<1>2. \A k \in DOMAIN c : k \in DOMAIN b \/ k = Len(b) + 1
  BY <1>0, <1>1
<1>3. DOMAIN b \subseteq DOMAIN c
  BY <1>0, <1>1
<1> HIDE DEF c
<1>4. /\ On(r, {"local", "records", "removed", "refused", "buffer", "timer", "inbox"})
      /\ r.local = t.local /\ r.records = t.records /\ r.removed = t.removed
      /\ r.buffer = c /\ r.refused = t.refused \ {item.uid}
  BY DEF StoreTyped, On, c
<1> HIDE DEF r
<1>5. \A k \in DOMAIN c : Agrees(r, c[k])
  BY <1>1, <1>2, <1>4 DEF StoreTyped, Agrees
<1>6. StoreTyped(r)
  BY <1>0, <1>1, <1>4, <1>5 DEF StoreTyped
<1>7. ASSUME NEW v \in Uid \ {item.uid}, Complete(t, v)
      PROVE  Complete(r, v)
  <2>1. \A k \in DOMAIN b : LastWhole(t, k) /\ b[k].uid = v => LastWhole(r, k)
    BY <1>1, <1>2, <1>3, <1>4 DEF LastWhole
  <2> QED
    BY <1>1, <1>2, <1>3, <1>4, <1>7, <2>1 DEF Complete
<1>8. ASSUME NEW v \in Uid \ {item.uid}, Absent(t, v)
      PROVE  Absent(r, v)
  BY <1>1, <1>2, <1>4, <1>8 DEF Absent, Unadded
<1>9. Len(c) \in DOMAIN c /\ (item.what = "whole" => LastWhole(r, Len(c)) /\ c[Len(c)] = item)
  BY <1>0, <1>1, <1>4 DEF LastWhole
<1> QED
  BY <1>4, <1>6, <1>7, <1>8, <1>9 DEF r

-----------------------------------------------------------------------------
(* The handlers, with all that they leave *)

\* The lists of the client are lists of messages.
ClientTyped(c) ==
  /\ c.obsolete \in Seq(Uid) /\ c.newUids \in Seq(Uid)
  /\ c.selection \in SUBSET Uid /\ c.existing \in SUBSET Uid /\ c.left \in SUBSET Uid

\* The selected messages with a known row have one.
Typed(s) ==
  /\ Formed(s) /\ ClientTyped(s.client) /\ StoreTyped(s.store)
  /\ On(s.source, {"deleting", "unavailable", "queued", "checking"})
  /\ \A u \in s.client.existing : s.store.local[u] # "none"

\* What an operation leaves to the daemon as it was.
SameRequest(s, n) ==
  /\ n.handler.request = s.handler.request /\ n.handler.posted = s.handler.posted
  /\ n.handler.success = s.handler.success

\* n has the client, the source and the link of s.
Beside(s, n) == n.client = s.client /\ n.source = s.source /\ n.link = s.link /\ SameRequest(s, n)

\* messageProcessed tells the daemon, and changes nothing else.
LEMMA ProcessedFields ==
  ASSUME NEW s, Typed(s), NEW uids
  PROVE  LET n == MessageProcessed(s, uids) IN Typed(n) /\ Beside(s, n) /\ n.store = s.store
<1> DEFINE n == MessageProcessed(s, uids)
<1>1. Beside(s, n) /\ n.store = s.store
  BY DEF Typed, MessageProcessed, Beside, SameRequest, Formed, On
<1>2. Formed(n)
  BY ProcessedAlike DEF Typed, Alike
<1> QED
  BY <1>1, <1>2 DEF Typed, Beside

\* n is s without the messages in uids.
Without(s, uids, n) ==
  /\ Typed(n) /\ n.source = s.source /\ n.link = s.link /\ SameRequest(s, n)
  /\ n.client = [s.client EXCEPT !.existing = s.client.existing \ uids]
  /\ n.client.existing = s.client.existing \ uids
  /\ n.store = Cleared(s.store, uids)

\* RemoveLocal takes the messages from the store and from the known rows.
LEMMA RemoveFields ==
  ASSUME NEW s, Typed(s), NEW uids
  PROVE  Without(s, uids, RemoveLocal(s, uids))
<1> DEFINE n == RemoveLocal(s, uids)
           t == Cleared(s.store, uids)
           there == s.client.existing \ uids
<1>1. On(s.store, {"local", "records", "removed", "refused", "buffer", "timer", "inbox"}) /\ Formed(s)
  BY DEF Typed, StoreTyped
<1>2. n = [s EXCEPT !.store = t, !.client.existing = there]
  BY <1>1 DEF RemoveLocal, Cleared, On, Formed
<1> HIDE DEF t, there, n
<1>3. /\ n.client = [s.client EXCEPT !.existing = there] /\ n.source = s.source /\ n.link = s.link
      /\ n.handler = s.handler /\ n.store = t
  BY <1>1, <1>2 DEF Formed, On
<1>4. /\ n.client.existing = there /\ n.client.obsolete = s.client.obsolete /\ n.client.newUids = s.client.newUids
      /\ n.client.selection = s.client.selection /\ n.client.left = s.client.left
  BY <1>1, <1>3 DEF Formed, On
<1>5. StoreTyped(t) /\ \A u \in Uid \ uids : t.local[u] = s.store.local[u]
  BY ClearedStore DEF Typed, t
<1>6. Formed(n)
  BY <1>1, RemoveAlike DEF Alike, n
<1>7. ClientTyped(n.client)
  BY <1>4 DEF Typed, ClientTyped, there
<1>8. \A u \in n.client.existing : n.store.local[u] # "none"
  BY <1>3, <1>4, <1>5 DEF Typed, ClientTyped, there
<1>9. Typed(n)
  BY <1>3, <1>5, <1>6, <1>7, <1>8 DEF Typed
<1> QED
  BY <1>3, <1>4, <1>9 DEF SameRequest, n, t, there, Without

\* What a flush leaves.
Flushed(s, n) ==
  /\ Typed(n) /\ Beside(s, n) /\ n.store.buffer = <<>> /\ n.store.records = s.store.records
  /\ \A u \in Uid : /\ Absent(s.store, u) => Absent(n.store, u)
                    /\ Complete(s.store, u) => Complete(n.store, u)
  /\ \A k \in DOMAIN s.store.buffer :
       LastWhole(s.store, k) => s.store.buffer[k].uid \in n.store.refused \/ n.store.local[s.store.buffer[k].uid] = "whole"

\* A flush empties the buffer; what was absent or complete stays so.
LEMMA FlushFields ==
  ASSUME NEW s, Typed(s)
  PROVE  Flushed(s, Flush(s)) /\ Flushed(s, FlushPending(s))
<1> DEFINE b       == s.store.buffer
           refused == s.store.refused \cup {b[k].uid : k \in DOMAIN b \ (Additions(s) \cup Updates(s))}
           whole   == {b[k].uid : k \in {j \in DOMAIN b : b[j].what = "whole"}}
           local   == Write(Write(s.store.local, b, Additions(s)), b, Updates(s))
           n == [s EXCEPT !.store.local = local, !.store.refused = refused,
                          !.store.buffer = <<>>, !.store.timer = TRUE]
           r == n.store
<1>1. Flush(s) = MessageProcessed(n, whole)
  <2>1. [s EXCEPT !.store.local = local,
                  !.store.refused = @ \cup {b[k].uid : k \in DOMAIN b \ (Additions(s) \cup Updates(s))},
                  !.store.buffer = <<>>, !.store.timer = TRUE] = n
    <3>1. /\ On(s, {"client", "source", "link", "mailbox", "store", "handler", "account"})
          /\ On(s.store, {"local", "records", "removed", "refused", "buffer", "timer", "inbox"})
      BY DEF Typed, Formed, StoreTyped
    <3> QED
      BY <3>1 DEF On
  <2> QED
    BY <2>1 DEF Flush
<1>2. On(s.store, {"local", "records", "removed", "refused", "buffer", "timer", "inbox"}) /\ Formed(s)
  BY DEF Typed, StoreTyped
<1> HIDE DEF local, refused
<1>3. /\ n.client = s.client /\ n.source = s.source /\ n.link = s.link /\ n.handler = s.handler
      /\ n.mailbox = s.mailbox
      /\ On(n, {"client", "source", "link", "mailbox", "store", "handler", "account"})
      /\ On(r, {"local", "records", "removed", "refused", "buffer", "timer", "inbox"})
      /\ r.local = local /\ r.refused = refused /\ r.removed = s.store.removed /\ r.buffer = <<>>
      /\ r.records = s.store.records
  BY <1>2 DEF Formed, On
<1> HIDE DEF n
<1>4. /\ StoreTyped(r)
      /\ \A u \in Uid : /\ Absent(s.store, u) => Absent(r, u)
                        /\ s.store.local[u] # "none" => r.local[u] # "none"
                        /\ Complete(s.store, u) => Complete(r, u)
      /\ \A k \in DOMAIN b : LastWhole(s.store, k) => b[k].uid \in r.refused \/ r.local[b[k].uid] = "whole"
  <2>1. StoreTyped(s.store)
    BY DEF Typed
  <2>2. /\ r.local = Write(Write(s.store.local, s.store.buffer, Additions(s)), s.store.buffer, Updates(s))
        /\ r.refused = s.store.refused \cup
             {s.store.buffer[k].uid : k \in DOMAIN s.store.buffer \ (Additions(s) \cup Updates(s))}
    BY <1>3 DEF local, refused
  <2> HIDE DEF r
  <2>3. Emptied(s.store, r)
    BY <1>3, <2>1, <2>2, FlushStore
  <2> QED
    BY <2>3 DEF Emptied
<1>5. Formed(n)
  BY <1>2, <1>3 DEF Formed
<1>6. Typed(n)
  BY <1>3, <1>4, <1>5 DEF Typed, ClientTyped
<1> DEFINE m == MessageProcessed(n, whole)
<1>7. Typed(m) /\ Beside(n, m) /\ m.store = r
  BY <1>6, ProcessedFields
<1> HIDE DEF m, r, whole
<1>8. Beside(s, m)
  BY <1>3, <1>7 DEF Beside, SameRequest
<1>9. Flushed(s, m)
  BY <1>3, <1>4, <1>7, <1>8 DEF Flushed, r
<1>10. CASE s.store.buffer = <<>>
  BY <1>1, <1>9, <1>10 DEF Flushed, FlushPending, Beside, SameRequest, m, LastWhole
<1>11. CASE s.store.buffer # <<>>
  BY <1>1, <1>9, <1>11 DEF FlushPending, m
<1> QED
  BY <1>10, <1>11, <1>1, <1>9 DEF m

\* Message u is held as a whole, in the store or in the buffer.
HeldIn(t, u) ==
  \/ t.local[u] = "whole"
  \/ \E k \in DOMAIN t.buffer : LET item == t.buffer[k] IN item.uid = u /\ item.what = "whole" /\ ~item.lost

\* createMail: afterwards the message is held, or the store has refused it.
LEMMA CreateFields ==
  ASSUME NEW s, Typed(s), s.client.uid \in Uid, NEW full
  PROVE  LET n == CreateMail(s, full)
             u == s.client.uid
         IN /\ Typed(n) /\ n.source = s.source /\ n.link = s.link /\ SameRequest(s, n)
            /\ \E there : n.client = [s.client EXCEPT !.existing = there] /\ s.client.existing \ {u} \subseteq there
            /\ n.store.records = s.store.records
            /\ \A v \in Uid \ {u} : /\ Absent(s.store, v) => Absent(n.store, v)
                                    /\ Complete(s.store, v) => Complete(n.store, v)
            /\ Whole(s.client, u) => /\ Complete(n.store, u)
                                     /\ HeldIn(n.store, u) \/ u \in n.store.refused
<1> DEFINE u      == s.client.uid
           update == u \in s.client.existing
           item   == [uid |-> u, add |-> ~update, lost |-> FALSE,
                      what |-> IF Whole(s.client, u) THEN "whole" ELSE "header"]
           a == IF update THEN s ELSE RemoveLocal(s, {u})
           t == [a.store EXCEPT !.buffer = Append(@, item), !.refused = @ \ {item.uid}]
           b == [a EXCEPT !.store = t]
           n == CreateMail(s, full)
<1>1. n = IF full \/ ~s.store.timer THEN Flush(b) ELSE b
  <2>1. On(a, {"client", "source", "link", "mailbox", "store", "handler", "account"})
        /\ On(a.store, {"local", "records", "removed", "refused", "buffer", "timer", "inbox"})
    <3>1. Typed(a)
      BY RemoveFields DEF Without
    <3> QED
      BY <3>1 DEF Typed, Formed, StoreTyped
  <2>2. n = IF full \/ ~s.store.timer
            THEN Flush([a EXCEPT !.store.buffer = Append(@, item), !.store.refused = @ \ {u}])
            ELSE [a EXCEPT !.store.buffer = Append(@, item), !.store.refused = @ \ {u}]
    BY DEF CreateMail
  <2>3. item.uid = u
    OBVIOUS
  <2> HIDE DEF a, item, n
  <2>4. [a EXCEPT !.store.buffer = Append(@, item), !.store.refused = @ \ {u}] = b
    BY <2>1, <2>3 DEF On
  <2> HIDE DEF b
  <2> QED
    BY <2>2, <2>4
<1>2. item \in Item /\ item.uid = u /\ item.add = ~update /\ ~item.lost
      /\ (Whole(s.client, u) => item.what = "whole")
  BY DEF Item
<1> HIDE DEF item, n
<1>3. /\ Typed(a) /\ a.source = s.source /\ a.link = s.link /\ SameRequest(s, a)
      /\ \E there : /\ a.client = [s.client EXCEPT !.existing = there] /\ s.client.existing \ {u} \subseteq there
                    /\ a.client.existing = there
      /\ a.store.records = s.store.records
      /\ \A v \in Uid \ {u} : /\ Absent(s.store, v) => Absent(a.store, v)
                              /\ Complete(s.store, v) => Complete(a.store, v)
      /\ IF update THEN a.store.local[u] # "none" ELSE a.store.local[u] = "none"
  <2>1. CASE update
    <3>1. s.client = [s.client EXCEPT !.existing = s.client.existing]
      BY DEF Typed, Formed, On
    <3>2. s.store.local[u] # "none" /\ SameRequest(s, s)
      BY <2>1 DEF Typed, SameRequest
    <3> QED
      BY <2>1, <3>1, <3>2
  <2>2. CASE ~update
    <3>1. a = RemoveLocal(s, {u})
      BY <2>2
    <3> HIDE DEF a, update
    <3>2. /\ Typed(a) /\ a.source = s.source /\ a.link = s.link /\ SameRequest(s, a)
          /\ a.client = [s.client EXCEPT !.existing = s.client.existing \ {u}]
          /\ a.client.existing = s.client.existing \ {u}
          /\ a.store = Cleared(s.store, {u})
      BY <3>1, RemoveFields DEF Without
    <3>3. LET r == Cleared(s.store, {u})
          IN /\ r.records = s.store.records /\ r.local[u] = "none"
             /\ \A v \in Uid : /\ Absent(s.store, v) => Absent(r, v)
                               /\ Complete(s.store, v) => Complete(r, v)
      <4> DEFINE v == s.store
                 r == Cleared(v, {u})
      <4>1. StoreTyped(v) /\ u \in Uid /\ u \in {u}
        BY DEF Typed
      <4> HIDE DEF v, u
      <4>2. /\ r.records = v.records /\ (\A w \in Uid : w \in {u} => r.local[w] = "none")
            /\ \A w \in Uid : (Absent(v, w) => Absent(r, w)) /\ (Complete(v, w) => Complete(r, w))
        BY <4>1, ClearedStore
      <4> QED
        BY <4>1, <4>2 DEF v, u
    <3> QED
      BY <2>2, <3>2, <3>3
  <2> QED
    BY <2>1, <2>2
<1> HIDE DEF a
<1>4. Agrees(a.store, item)
  BY <1>2, <1>3 DEF Agrees
<1>5. /\ StoreTyped(t) /\ t.records = a.store.records /\ t.local = a.store.local
      /\ \A v \in Uid \ {u} : Complete(a.store, v) => Complete(t, v)
      /\ \A v \in Uid \ {u} : Absent(a.store, v) => Absent(t, v)
      /\ item.what = "whole" =>
           LET k == Len(t.buffer) IN k \in DOMAIN t.buffer /\ LastWhole(t, k) /\ t.buffer[k] = item
  <2> DEFINE v == a.store
             r == [v EXCEPT !.buffer = Append(@, item), !.refused = @ \ {item.uid}]
  <2>1. StoreTyped(v) /\ item \in Item /\ Agrees(v, item)
    BY <1>2, <1>3, <1>4 DEF Typed
  <2> HIDE DEF v
  <2>2. /\ StoreTyped(r) /\ r.records = v.records /\ r.local = v.local
        /\ \A w \in Uid \ {item.uid} : Complete(v, w) => Complete(r, w)
        /\ \A w \in Uid \ {item.uid} : Absent(v, w) => Absent(r, w)
        /\ item.what = "whole" =>
             LET k == Len(r.buffer) IN k \in DOMAIN r.buffer /\ LastWhole(r, k) /\ r.buffer[k] = item
    BY <2>1, AppendStore
  <2>3. r = t
    BY DEF v
  <2> HIDE DEF r
  <2> QED
    BY <1>2, <2>2, <2>3 DEF v
<1> HIDE DEF t
<1>6. /\ b.client = a.client /\ b.source = a.source /\ b.link = a.link /\ b.handler = a.handler
      /\ b.mailbox = a.mailbox /\ b.store = t
      /\ On(b, {"client", "source", "link", "mailbox", "store", "handler", "account"})
  BY <1>3 DEF Typed, Formed, On
<1> HIDE DEF b
<1>7. Formed(b)
  BY <1>3, <1>6 DEF Typed, Formed
<1>8. Typed(b) /\ Beside(a, b)
  BY <1>3, <1>5, <1>6, <1>7 DEF Typed, Beside, SameRequest
<1>9. CASE n = b
  <2>1. ASSUME Whole(s.client, u)
        PROVE  Complete(t, u) /\ HeldIn(t, u)
    <3>1. LET k == Len(t.buffer) IN k \in DOMAIN t.buffer /\ LastWhole(t, k) /\ t.buffer[k] = item /\ item.what = "whole"
      BY <1>2, <1>5, <2>1
    <3> QED
      BY <1>2, <3>1 DEF Complete, HeldIn
  <2> QED
    BY <1>3, <1>5, <1>6, <1>8, <1>9, <2>1 DEF Beside, SameRequest, n
<1>10. CASE n = Flush(b)
  <2>1. Flushed(b, n)
    BY <1>8, <1>10, FlushFields
  <2>2. ASSUME Whole(s.client, u)
        PROVE  Complete(n.store, u) /\ (HeldIn(n.store, u) \/ u \in n.store.refused)
    <3>1. LET k == Len(t.buffer) IN k \in DOMAIN t.buffer /\ LastWhole(t, k) /\ t.buffer[k].uid = u
      BY <1>2, <1>5, <2>2
    <3>2. u \in n.store.refused \/ n.store.local[u] = "whole"
      BY <1>6, <2>1, <3>1 DEF Flushed
    <3>3. Complete(t, u)
      BY <3>1 DEF Complete
    <3> QED
      BY <1>6, <2>1, <3>2, <3>3 DEF Flushed, HeldIn
  <2> QED
    BY <1>3, <1>5, <1>6, <1>8, <2>1, <2>2 DEF Flushed, Beside, SameRequest, n
<1> QED
  BY <1>1, <1>9, <1>10

-----------------------------------------------------------------------------
(* The invariant of an operation: how far it has come with each message *)

\* The message can be written when it comes: it has its row, or has never been
\* there.
Ready(s, u) == u \in s.client.existing \/ Absent(s.store, u)

\* What is to be removed from the server, somebody has asked for.
Asking(s, asked) ==
  /\ s.store.records \subseteq asked
  /\ \A k \in DOMAIN s.client.obsolete : s.client.obsolete[k] \in asked
  /\ s.client.deleting => s.client.selection \subseteq asked

\* No mail check begins during an operation on a selection, and no completion
\* but its own is on its way.
Locked(s) == s.handler.request \in {"delete", "retrieve"} => s.source.unavailable /\ ~s.handler.posted

\* Whole messages of any size are fetched for a selection only.
AllSelected(s) ==
  s.client.limit = "all" /\ ~s.client.testing /\ s.client.status \notin {"Quit", "Exit"} => s.client.selected

\* The message that is being fetched.
Fetching(s) ==
  s.client.status \in {"Retr", "Top", "MessageDataRetr", "MessageDataTop"} =>
    /\ s.client.uid \in Uid
    /\ s.client.status \in {"Retr", "MessageDataRetr"} => Whole(s.client, s.client.uid)

\* The message that has been fetched.
Received(s) ==
  s.client.running /\ s.client.status = "MessageDataRetr" =>
    HeldIn(s.store, s.client.uid) \/ s.client.uid \in s.store.refused

Before == {"Init", "CapabilityTest", "Capabilities", "Auth", "Uidl", "UidList"}

InList(u, q) == \E k \in DOMAIN q : q[k] = u

\* How far deleteMessages has come with message u.
DeletedOrListed(s, u) ==
  \/ Absent(s.store, u)
  \/ InList(u, s.client.obsolete)
  \/ s.client.status = "Dele" /\ u = s.client.uid

Deleting(s) ==
  s.handler.request = "delete" =>
    /\ s.client.selected /\ s.client.deleting /\ ~s.client.testing
    /\ \A u \in s.client.selection : Unadded(s.store, u)
    /\ \/ s.client.status \in Before
       \/ /\ s.client.status \in {"RequestMessage", "DeleteMessage", "Dele"} /\ s.client.left = {}
          /\ \A u \in s.client.selection : DeletedOrListed(s, u)
       \/ /\ s.client.status \in {"Done", "Quit", "Exit"}
          /\ \A u \in s.client.selection : Absent(s.store, u)

\* How far retrieveMessages has come with message u.
LeftOrComplete(s, u) ==
  \/ u \in s.client.left /\ Ready(s, u)
  \/ Complete(s.store, u)
  \/ /\ u = s.client.uid /\ Ready(s, u)
     /\ s.client.status = "Retr" \/ (s.client.status = "MessageDataRetr" /\ ~s.client.running)

Retrieving(s) ==
  s.handler.request = "retrieve" /\ s.client.limit = "all" =>
    /\ s.client.selected /\ ~s.client.deleting /\ ~s.client.testing
    /\ \/ /\ s.client.status \in Before \cup {"List", "SizeList"} /\ s.client.left = s.client.selection
          /\ \A u \in s.client.selection : Ready(s, u)
       \/ /\ s.client.status \in {"RequestMessage", "Retr", "MessageDataRetr", "DeleAfterRetr"}
          /\ \A u \in s.client.selection : LeftOrComplete(s, u)
       \/ /\ s.client.status \in {"DeleteMessage", "Dele", "Done", "Quit", "Exit"}
          /\ \A u \in s.client.selection : Complete(s.store, u)

Part(s) == AllSelected(s) /\ Fetching(s) /\ Received(s) /\ Deleting(s) /\ Retrieving(s)

\* The inductive invariant.
Sound(s, asked) ==
  /\ Typed(s) /\ Asking(s, asked) /\ Locked(s)
  /\ s.client.running => s.link.state = "up"
  /\ InUse(s) => Part(s)

-----------------------------------------------------------------------------
(* The session goes on *)

\* n is s in another status.
Moved(s, n, st) ==
  /\ Typed(n) /\ n.store = s.store /\ n.source = s.source /\ SameRequest(s, n) /\ n.link.state = s.link.state
  /\ n.link.drop = s.link.drop
  /\ n.client.status = st /\ n.client.selected = s.client.selected /\ n.client.deleting = s.client.deleting
  /\ n.client.testing = s.client.testing /\ n.client.limit = s.client.limit
  /\ n.client.selection = s.client.selection /\ n.client.existing = s.client.existing
  /\ n.client.left = s.client.left /\ n.client.obsolete = s.client.obsolete /\ n.client.uid = s.client.uid

\* What Send, GoOn, Await and Proceed make of the session.
LEMMA MovedFields ==
  ASSUME NEW s, Typed(s), NEW st, NEW n,
         On(n, {"client", "source", "link", "mailbox", "store", "handler", "account"}),
         n.client = [s.client EXCEPT !.status = st, !.running = n.client.running],
         n.source = s.source, n.mailbox = s.mailbox, n.store = s.store, n.handler = s.handler,
         On(n.link, {"state", "wire", "drop", "marked"}),
         n.link.state = s.link.state, n.link.drop = s.link.drop, n.link.wire \in Seq(LineOf(s.link.drop))
  PROVE  Moved(s, n, st)
<1> DEFINE c == n.client
<1>1. Formed(s) /\ ClientTyped(s.client)
  BY DEF Typed
<1>2. /\ On(c, {"status", "running", "selected", "deleting", "testing", "pendingDeletes", "timer",
                "limit", "numbers", "newUids", "obsolete", "selection", "existing", "left", "uid"})
      /\ c.status = st /\ c.selected = s.client.selected /\ c.deleting = s.client.deleting
      /\ c.testing = s.client.testing /\ c.limit = s.client.limit
      /\ c.selection = s.client.selection /\ c.existing = s.client.existing /\ c.newUids = s.client.newUids
      /\ c.left = s.client.left /\ c.obsolete = s.client.obsolete /\ c.uid = s.client.uid
      /\ c.numbers = s.client.numbers
  BY <1>1 DEF Formed, On
<1>3. Formed(n)
  BY <1>1, <1>2 DEF Formed
<1>4. Typed(n)
  BY <1>2, <1>3 DEF Typed, ClientTyped
<1>5. SameRequest(s, n)
  BY DEF SameRequest
<1> QED
  BY <1>2, <1>4, <1>5 DEF Moved

\* What comes of a command, and of going on or waiting.
Sent(s, st, command, arg) ==
  \E n : /\ Become(n) /\ Moved(s, n, st) /\ n.client.running = FALSE
         /\ \/ n.link.marked = s.link.marked
            \/ command = "DELE" /\ n.link.marked = s.link.marked \cup At(arg, s.link.drop)
Gone(s, st, running) ==
  \E n : Become(n) /\ Moved(s, n, st) /\ n.client.running = running /\ n.link = s.link

\* A command is sent.
LEMMA SendFields ==
  ASSUME NEW s, Typed(s), NEW st, NEW command, NEW arg, Send(s, st, command, arg)
  PROVE  Sent(s, st, command, arg)
<1>1. PICK answer \in Answers(command, arg, s.link) :
        Become([s EXCEPT !.client.status = st, !.client.running = FALSE,
                         !.link.wire = @ \o answer,
                         !.link.marked = Marked(command, arg, answer, s.link)])
  BY DEF Send
<1> DEFINE n == [s EXCEPT !.client.status = st, !.client.running = FALSE,
                          !.link.wire = @ \o answer,
                          !.link.marked = Marked(command, arg, answer, s.link)]
           w == s.link.wire \o answer
           marked == Marked(command, arg, answer, s.link)
           l == [s.link EXCEPT !.wire = w, !.marked = marked]
           c == [s.client EXCEPT !.status = st, !.running = FALSE]
<1>0. Formed(s)
  BY DEF Typed
<1>2. n = [s EXCEPT !.client = c, !.link = l]
  BY <1>0 DEF Formed, On
<1>3. w \in Seq(LineOf(s.link.drop))
  <2>1. s.link.drop \in SUBSET Uid /\ s.link.wire \in Seq(LineOf(s.link.drop))
    BY <1>0 DEF Formed
  <2>2. answer \in Seq(LineOf(s.link.drop))
    BY <2>1, AnswerLines
  <2> QED
    BY <2>1, <2>2
<1> HIDE DEF n, w, marked
<1>4. /\ On(l, {"state", "wire", "drop", "marked"}) /\ l.wire = w /\ l.drop = s.link.drop /\ l.state = s.link.state
      /\ l.marked = marked
  BY <1>0 DEF Formed, On
<1>5. c.running = FALSE /\ c = [s.client EXCEPT !.status = st, !.running = c.running]
  BY <1>0 DEF Formed, On
<1> HIDE DEF l, c
<1>6. /\ On(n, {"client", "source", "link", "mailbox", "store", "handler", "account"})
      /\ n.client = c /\ n.source = s.source /\ n.link = l /\ n.mailbox = s.mailbox /\ n.store = s.store
      /\ n.handler = s.handler
  BY <1>0, <1>2 DEF Formed, On
<1>7. Moved(s, n, st)
  BY <1>3, <1>4, <1>5, <1>6, MovedFields
<1>8. \/ n.link.marked = s.link.marked
      \/ command = "DELE" /\ n.link.marked = s.link.marked \cup At(arg, s.link.drop)
  BY <1>4, <1>6 DEF Marked, marked
<1> QED
  BY <1>1, <1>5, <1>6, <1>7, <1>8 DEF n, Sent

\* nextAction goes on, or waits; a response lets it go on.
LEMMA GoFields ==
  ASSUME NEW s, Typed(s), NEW st
  PROVE  /\ GoOn(s, st) => Gone(s, st, s.client.running)
         /\ Await(s, st) => Gone(s, st, FALSE)
         /\ Proceed(s) => Gone(s, s.client.status, TRUE)
<1>0. Formed(s)
  BY DEF Typed
<1>1. On(s.link, {"state", "wire", "drop", "marked"}) /\ s.link.wire \in Seq(LineOf(s.link.drop))
  BY <1>0 DEF Formed
<1>2. ASSUME NEW n, NEW t, On(n, {"client", "source", "link", "mailbox", "store", "handler", "account"}),
             n.client = [s.client EXCEPT !.status = t, !.running = n.client.running],
             n.source = s.source, n.link = s.link, n.mailbox = s.mailbox, n.store = s.store, n.handler = s.handler
      PROVE  Moved(s, n, t)
  BY <1>1, <1>2, MovedFields
<1>3. ASSUME GoOn(s, st)
      PROVE  Gone(s, st, s.client.running)
  <2> DEFINE n == [s EXCEPT !.client.status = st]
  <2>1. Become(n)
    BY <1>3 DEF GoOn
  <2>2. /\ On(n, {"client", "source", "link", "mailbox", "store", "handler", "account"})
        /\ n.client = [s.client EXCEPT !.status = st, !.running = n.client.running]
        /\ n.source = s.source /\ n.link = s.link /\ n.mailbox = s.mailbox /\ n.store = s.store /\ n.handler = s.handler
        /\ n.client.running = s.client.running
    BY <1>0 DEF Formed, On
  <2> HIDE DEF n
  <2> QED
    BY <1>2, <2>1, <2>2 DEF Gone
<1>4. ASSUME Await(s, st)
      PROVE  Gone(s, st, FALSE)
  <2> DEFINE n == [s EXCEPT !.client.status = st, !.client.running = FALSE]
  <2>1. Become(n)
    BY <1>4 DEF Await
  <2>2. /\ On(n, {"client", "source", "link", "mailbox", "store", "handler", "account"})
        /\ n.client = [s.client EXCEPT !.status = st, !.running = n.client.running]
        /\ n.source = s.source /\ n.link = s.link /\ n.mailbox = s.mailbox /\ n.store = s.store /\ n.handler = s.handler
        /\ n.client.running = FALSE
    BY <1>0 DEF Formed, On
  <2> HIDE DEF n
  <2> QED
    BY <1>2, <2>1, <2>2 DEF Gone
<1>5. ASSUME Proceed(s)
      PROVE  Gone(s, s.client.status, TRUE)
  <2> DEFINE n == [s EXCEPT !.client.running = TRUE]
  <2>1. Become(n)
    BY <1>5 DEF Proceed
  <2>2. /\ On(n, {"client", "source", "link", "mailbox", "store", "handler", "account"})
        /\ n.client = [s.client EXCEPT !.status = s.client.status, !.running = n.client.running]
        /\ n.source = s.source /\ n.link = s.link /\ n.mailbox = s.mailbox /\ n.store = s.store /\ n.handler = s.handler
        /\ n.client.running = TRUE
    BY <1>0 DEF Formed, On
  <2> HIDE DEF n
  <2> QED
    BY <1>2, <2>1, <2>2 DEF Gone
<1> QED
  BY <1>3, <1>4, <1>5

\* The next state is the one that a step becomes.
LEMMA BecomeNow ==
  ASSUME NEW n, Typed(n), Become(n)
  PROVE  Now' = n
<1>1. On(n, {"client", "source", "link", "mailbox", "store", "handler", "account"})
  BY DEF Typed, Formed
<1>2. [client |-> client', source |-> source', link |-> link', mailbox |-> mailbox',
       store |-> store', handler |-> handler', account |-> account'] = n
  BY <1>1 DEF Become, On
<1> QED
  BY <1>2 DEF Now

-----------------------------------------------------------------------------
(* Connections *)

\* d is c as far as the operation under way is concerned.
SameTask(c, d) ==
  /\ d.selected = c.selected /\ d.deleting = c.deleting /\ d.testing = c.testing /\ d.limit = c.limit
  /\ d.selection = c.selection /\ d.existing = c.existing /\ d.left = c.left /\ d.obsolete = c.obsolete
  /\ d.uid = c.uid /\ d.newUids = c.newUids /\ d.numbers = c.numbers

\* closeConnection leaves the operation, the store and the daemon as they are.
LEMMA CloseFields ==
  ASSUME NEW s, Typed(s), NEW arrives
  PROVE  LET n == CloseConnection(s, arrives)
         IN /\ Typed(n) /\ n.link = NoSession /\ n.store = s.store /\ n.source = s.source /\ n.handler = s.handler
            /\ SameTask(s.client, n.client) /\ n.client.running = s.client.running /\ n.account = s.account
            /\ n.link.marked = {} /\ ~InUse(n)
<1> DEFINE n == CloseConnection(s, arrives)
           q == IF s.link.state = "up" /\ s.client.status # "Exit" THEN Quit(s, arrives) ELSE s
           st == IF s.link.state = "up" THEN "Exit" ELSE s.client.status
<1>0. Formed(s) /\ ClientTyped(s.client)
  BY DEF Typed
<1>1. /\ On(q, {"client", "source", "link", "mailbox", "store", "handler", "account"})
      /\ q.client = s.client /\ q.handler = s.handler /\ q.store = s.store /\ q.source = s.source
      /\ q.account = s.account
  <2>1. LET p == Quit(s, arrives)
        IN /\ On(p, {"client", "source", "link", "mailbox", "store", "handler", "account"})
           /\ p.client = s.client /\ p.handler = s.handler /\ p.store = s.store /\ p.source = s.source
           /\ p.account = s.account
    BY <1>0 DEF Quit, Formed, On
  <2> QED
    BY <1>0, <2>1 DEF Formed
<1> HIDE DEF q
<1>2. n = [q EXCEPT !.client.timer = FALSE,
                    !.client.status = IF s.link.state = "up" THEN "Exit" ELSE @,
                    !.link = NoSession]
  BY DEF CloseConnection, q
<1> DEFINE c == [s.client EXCEPT !.timer = FALSE, !.status = st]
<1>3. n = [q EXCEPT !.client = c, !.link = NoSession]
  BY <1>0, <1>1, <1>2 DEF On
<1> HIDE DEF st
<1>4. SameTask(s.client, c) /\ c.running = s.client.running
  BY <1>0 DEF SameTask, Formed, On
<1> HIDE DEF n, c
<1>5. /\ n.client = c /\ n.link = NoSession /\ n.store = s.store /\ n.source = s.source /\ n.handler = s.handler
      /\ n.account = s.account
  BY <1>1, <1>3 DEF On
<1>6. Formed(n)
  BY <1>0, CloseFormed DEF n
<1>7. Typed(n)
  BY <1>0, <1>4, <1>5, <1>6 DEF Typed, ClientTyped, SameTask
<1>8. NoSession.marked = {} /\ NoSession.state = "none"
  BY DEF NoSession
<1> QED
  BY <1>4, <1>5, <1>7, <1>8 DEF n, InUse

\* retrievalTerminated changes only what the source and the daemon know.
LEMMA TerminatedFields ==
  ASSUME NEW s, Typed(s)
  PROVE  LET n == RetrievalTerminated(s)
         IN /\ Typed(n) /\ n.client = s.client /\ n.link = s.link /\ n.store = s.store /\ SameRequest(s, n)
            /\ n.account = s.account
<1> DEFINE n == RetrievalTerminated(s)
<1>0. Formed(s) /\ On(s.source, {"deleting", "unavailable", "queued", "checking"})
  BY DEF Typed
<1>1. /\ On(n, {"client", "source", "link", "mailbox", "store", "handler", "account"})
      /\ n.client = s.client /\ n.link = s.link /\ n.store = s.store /\ n.mailbox = s.mailbox
      /\ On(n.source, {"deleting", "unavailable", "queued", "checking"})
      /\ On(n.handler, {"request", "available", "posted", "told", "success"})
      /\ SameRequest(s, n) /\ n.account = s.account
  BY <1>0 DEF RetrievalTerminated, SameRequest, Formed, On
<1> HIDE DEF n
<1>2. Formed(n)
  BY <1>0, <1>1 DEF Formed
<1>3. Typed(n)
  BY <1>1, <1>2 DEF Typed
<1> QED
  BY <1>1, <1>3 DEF n

\* operationFailed ends the session and the request, without success.
LEMMA FailFields ==
  ASSUME NEW s, Typed(s)
  PROVE  LET n == OperationFailed(s)
         IN /\ Typed(n) /\ n.store = s.store /\ SameTask(s.client, n.client) /\ n.client.running = FALSE
            /\ n.handler.request = "none" /\ n.handler.success = FALSE /\ n.handler.posted = s.handler.posted
            /\ ~InUse(n) /\ n.link.marked \subseteq s.link.marked
<1> DEFINE n == OperationFailed(s)
           l == IF InUse(s) THEN NoSession ELSE s.link
           a == [s EXCEPT !.link = l, !.client.running = FALSE]
           b == RetrievalTerminated(a)
           c == [s.client EXCEPT !.running = FALSE]
<1>0. Formed(s) /\ ClientTyped(s.client)
  BY DEF Typed
<1>1. n = [b EXCEPT !.handler.request = "none", !.handler.success = FALSE]
  BY DEF OperationFailed, ErrorOccurred
<1>2. SameTask(s.client, c) /\ c.running = FALSE /\ c.status = s.client.status
      /\ On(c, {"status", "running", "selected", "deleting", "testing", "pendingDeletes", "timer",
                "limit", "numbers", "newUids", "obsolete", "selection", "existing", "left", "uid"})
  BY <1>0 DEF SameTask, Formed, On
<1>3. /\ On(l, {"state", "wire", "drop", "marked"}) /\ l.drop \in SUBSET Uid /\ l.wire \in Seq(LineOf(l.drop))
      /\ (l.state = "opening" => l.drop = {}) /\ l.state \notin {"opening", "up"} /\ l.marked \subseteq s.link.marked
  <2>1. CASE InUse(s)
    <3>1. On(l, {"state", "wire", "drop", "marked"}) /\ l.drop = {} /\ l.wire = <<>> /\ l.state = "none" /\ l.marked = {}
      BY <2>1 DEF NoSession, On
    <3>2. <<>> \in Seq(LineOf({}))
      OBVIOUS
    <3> HIDE DEF l
    <3> QED
      BY <3>1, <3>2
  <2>2. CASE ~InUse(s)
    BY <1>0, <2>2 DEF Formed, InUse
  <2> QED
    BY <2>1, <2>2
<1> HIDE DEF n, l, c
<1>4. /\ On(a, {"client", "source", "link", "mailbox", "store", "handler", "account"})
      /\ a.client = c /\ a.link = l /\ a.store = s.store /\ a.source = s.source /\ a.mailbox = s.mailbox
      /\ a.handler = s.handler
  BY <1>0 DEF Formed, On, c
<1> HIDE DEF a, b
<1>5. Formed(a)
  BY <1>0, <1>2, <1>3, <1>4 DEF Formed, SameTask
<1>6. Typed(a)
  BY <1>0, <1>2, <1>4, <1>5 DEF Typed, ClientTyped, SameTask
<1>7. Typed(b) /\ b.client = c /\ b.link = l /\ b.store = s.store /\ b.handler.posted = s.handler.posted
  BY <1>4, <1>6, TerminatedFields DEF SameRequest, b
<1>8. /\ On(n, {"client", "source", "link", "mailbox", "store", "handler", "account"})
      /\ n.client = c /\ n.link = l /\ n.store = s.store /\ n.mailbox = b.mailbox /\ n.source = b.source
      /\ On(n.handler, {"request", "available", "posted", "told", "success"})
      /\ n.handler.request = "none" /\ n.handler.success = FALSE /\ n.handler.posted = s.handler.posted
  BY <1>1, <1>7 DEF Typed, Formed, On
<1>9. Formed(n)
  BY <1>7, <1>8 DEF Typed, Formed
<1>10. Typed(n) /\ ~InUse(n)
  BY <1>3, <1>7, <1>8, <1>9 DEF Typed, InUse
<1> QED
  BY <1>2, <1>3, <1>8, <1>10 DEF n

\* The positions of one message, and of none.
LEMMA OneThere ==
  ASSUME NEW drop \in SUBSET Uid
  PROVE  /\ At(0, drop) = {}
         /\ \A u \in drop : At(Rank(u, drop), drop) = {u}
  BY RankOne DEF At

\* The messages of a set, each once.
LEMMA Ordered ==
  ASSUME NEW S \in SUBSET Uid
  PROVE  /\ InOrder(S) \in Seq(S) /\ \A u \in S : InList(u, InOrder(S))
         /\ Reverse(InOrder(S)) \in Seq(S)
<1> DEFINE C == Cardinality(S)
           q == InOrder(S)
<1>1. C \in Nat /\ \A u \in S : Rank(u, S) \in 1 .. C
  BY RankOne
<1>2. q = [k \in 1 .. C |-> CHOOSE u \in S : Rank(u, S) = k]
  BY DEF InOrder
<1>3. ASSUME NEW k \in 1 .. C
      PROVE  q[k] \in S /\ Rank(q[k], S) = k
  BY <1>2, RankOnto
<1>4. q \in [1 .. C -> S]
  BY <1>2, <1>3
<1>5. q \in Seq(S) /\ Len(q) = C
  BY <1>1, <1>4
<1>6. \A u \in S : InList(u, q)
  <2> TAKE u \in S
  <2>1. Rank(u, S) \in 1 .. C /\ q[Rank(u, S)] \in S /\ Rank(q[Rank(u, S)], S) = Rank(u, S)
    BY <1>1, <1>3
  <2>2. q[Rank(u, S)] = u
    BY <2>1, RankOne
  <2> QED
    BY <1>4, <2>1, <2>2 DEF InList
<1> HIDE DEF q
<1>7. Reverse(q) \in Seq(S)
  <2>1. Reverse(q) = [i \in 1 .. C |-> q[(C - i) + 1]]
    BY <1>5 DEF Reverse
  <2>2. \A i \in 1 .. C : (C - i) + 1 \in 1 .. C
    BY <1>1
  <2>3. Reverse(q) \in [1 .. C -> S]
    BY <1>4, <2>1, <2>2
  <2> QED
    BY <1>1, <2>3
<1> QED
  BY <1>5, <1>6, <1>7 DEF q

\* QMailTransport::open begins a session, or stays with the one there is.
LEMMA OpenFields ==
  ASSUME NEW s, Typed(s)
  PROVE  LET n == Open(s)
         IN /\ Typed(n) /\ n.store = s.store /\ n.source = s.source /\ n.handler = s.handler
            /\ SameTask(s.client, n.client) /\ n.client.running = s.client.running /\ n.client.status = "Init"
            /\ n.link.marked \subseteq s.link.marked
<1> DEFINE n == Open(s)
           l == IF InUse(s) THEN s.link ELSE [NoSession EXCEPT !.state = "opening"]
<1>0. Formed(s) /\ ClientTyped(s.client)
  BY DEF Typed
<1>1. Formed(n) /\ n.client = [s.client EXCEPT !.status = "Init"] /\ n.handler = s.handler
  BY <1>0, OpenFormed
<1>2. n = [s EXCEPT !.client.status = "Init", !.link = l]
  BY DEF Open
<1>3. l.marked \subseteq s.link.marked
  <2>1. CASE InUse(s)
    BY <2>1
  <2>2. CASE ~InUse(s)
    <3>1. l.marked = {}
      BY <2>2 DEF NoSession
    <3> QED
      BY <3>1
  <2> QED
    BY <2>1, <2>2
<1> HIDE DEF n, l
<1>4. n.store = s.store /\ n.source = s.source /\ n.link = l
  BY <1>0, <1>2 DEF Formed, On
<1>5. SameTask(s.client, n.client) /\ n.client.running = s.client.running /\ n.client.status = "Init"
  BY <1>0, <1>1 DEF SameTask, Formed, On
<1>6. Typed(n)
  BY <1>0, <1>1, <1>4, <1>5 DEF Typed, ClientTyped, SameTask
<1> QED
  BY <1>1, <1>3, <1>4, <1>5, <1>6 DEF n

\* setOperation gives up the selection.
LEMMA OperationFields ==
  ASSUME NEW s, Typed(s), NEW limit
  PROVE  LET n == SetOperation(s, limit)
         IN /\ Typed(n) /\ n.source = s.source /\ n.handler = s.handler /\ n.link = s.link
            /\ n.client.selected = FALSE /\ n.client.deleting = FALSE /\ n.client.limit = limit
            /\ n.client.testing = s.client.testing /\ n.client.status = s.client.status
            /\ n.client.running = s.client.running /\ n.client.uid = s.client.uid
            /\ n.client.obsolete = s.client.obsolete
            /\ n.store.local = s.store.local /\ n.store.buffer = s.store.buffer /\ n.store.records = s.store.records
            /\ n.store.refused = s.store.refused /\ n.store.removed = s.store.removed
<1> DEFINE n == SetOperation(s, limit)
           c == [s.client EXCEPT !.selected = FALSE, !.deleting = FALSE, !.limit = limit]
           t == [s.store EXCEPT !.inbox = TRUE]
<1>0. Formed(s) /\ ClientTyped(s.client)
      /\ On(s.store, {"local", "records", "removed", "refused", "buffer", "timer", "inbox"})
  BY DEF Typed, StoreTyped
<1>1. n = [s EXCEPT !.client = c, !.store = t]
  BY <1>0 DEF SetOperation, Formed, On
<1>2. /\ c.selected = FALSE /\ c.deleting = FALSE /\ c.limit = limit /\ c.testing = s.client.testing
      /\ c.status = s.client.status /\ c.running = s.client.running /\ c.uid = s.client.uid
      /\ c.obsolete = s.client.obsolete /\ c.newUids = s.client.newUids
      /\ c.selection = s.client.selection /\ c.existing = s.client.existing /\ c.left = s.client.left
  BY <1>0 DEF Formed, On
<1>3. /\ On(t, {"local", "records", "removed", "refused", "buffer", "timer", "inbox"})
      /\ t.local = s.store.local /\ t.buffer = s.store.buffer /\ t.records = s.store.records
      /\ t.refused = s.store.refused /\ t.removed = s.store.removed
  BY <1>0 DEF On
<1>4. StoreTyped(t)
  BY <1>3 DEF Typed, StoreTyped, Agrees
<1> HIDE DEF n, c, t
<1>5. n.client = c /\ n.store = t /\ n.source = s.source /\ n.handler = s.handler /\ n.link = s.link
  BY <1>0, <1>1 DEF Formed, On
<1>6. Formed(n)
  BY <1>0, OperationSet DEF n
<1>7. Typed(n)
  BY <1>0, <1>2, <1>3, <1>4, <1>5, <1>6 DEF Typed, ClientTyped
<1> QED
  BY <1>2, <1>3, <1>5, <1>7 DEF n

\* setSelectedMails takes a selection of messages that are there.
LEMMA SelectionFields ==
  ASSUME NEW s, Typed(s), NEW uids \in SUBSET Uid, \A u \in uids : s.store.local[u] # "none"
  PROVE  LET n == SetSelectedMails(s, uids)
         IN /\ Typed(n) /\ n.source = s.source /\ n.handler = s.handler /\ n.link = s.link /\ n.store = s.store
            /\ n.client.selected = TRUE /\ n.client.deleting = s.client.deleting /\ n.client.limit = s.client.limit
            /\ n.client.selection = uids /\ n.client.existing = uids /\ n.client.left = uids
            /\ n.client.running = s.client.running /\ n.client.obsolete = s.client.obsolete
<1> DEFINE n == SetSelectedMails(s, uids)
           c == [s.client EXCEPT !.selected = TRUE, !.selection = uids, !.existing = uids, !.left = uids]
<1>0. Formed(s) /\ ClientTyped(s.client)
  BY DEF Typed
<1>1. n = [s EXCEPT !.client = c]
  BY <1>0 DEF SetSelectedMails, Formed, On
<1>2. /\ c.selected = TRUE /\ c.deleting = s.client.deleting /\ c.limit = s.client.limit
      /\ c.selection = uids /\ c.existing = uids /\ c.left = uids
      /\ c.running = s.client.running /\ c.obsolete = s.client.obsolete /\ c.newUids = s.client.newUids
  BY <1>0 DEF Formed, On
<1> HIDE DEF n, c
<1>3. n.client = c /\ n.store = s.store /\ n.source = s.source /\ n.handler = s.handler /\ n.link = s.link
  BY <1>0, <1>1 DEF Formed, On
<1>4. Formed(n)
  BY <1>0, MailsSelected DEF n
<1>5. Typed(n)
  BY <1>0, <1>2, <1>3, <1>4 DEF Typed, ClientTyped
<1> QED
  BY <1>2, <1>3, <1>5 DEF n

\* What newConnection relies on, when the operation begins.
Wished(s) ==
  /\ s.client.limit = "all" => s.client.selected
  /\ s.handler.request = "delete" =>
       s.client.selected /\ s.client.deleting /\ \A u \in s.client.selection : Unadded(s.store, u)
  /\ s.handler.request = "retrieve" /\ s.client.limit = "all" =>
       /\ s.client.selected /\ ~s.client.deleting /\ s.client.left = s.client.selection
       /\ \A u \in s.client.selection : Ready(s, u)

\* What newConnection leaves.
Begun(s, n, asked) ==
  /\ Typed(n) /\ Asking(n, asked) /\ n.store = s.store
  /\ InUse(n) => Part(n)
  /\ n.client.running => s.client.running \/ n.link.state = "up"
  /\ n.handler.posted = s.handler.posted
  /\ \/ n.handler.request = s.handler.request /\ n.handler.success = s.handler.success
     \/ n.handler.request = "none" /\ n.handler.success = FALSE
  /\ n.link.marked \subseteq s.link.marked

\* newConnection begins the session, or the next part of it, as the request wishes.
LEMMA ConnectionBegun ==
  ASSUME NEW s, NEW asked, Typed(s), Asking(s, asked), Wished(s), NEW arrives
  PROVE  Begun(s, NewConnection(s, arrives), asked)
<1> DEFINE n == NewConnection(s, arrives)
           c == s.client
           reuse == s.link.state = "up" /\ c.selected
           a == IF s.link.state = "up" /\ ~c.selected THEN CloseConnection(s, arrives)
                ELSE IF reuse THEN [s EXCEPT !.client.timer = FALSE] ELSE s
           d == [a.client EXCEPT !.testing = FALSE, !.pendingDeletes = FALSE]
           e == ClearLists(d)
           b == [a EXCEPT !.client = e]
           x == [a EXCEPT !.client.testing = FALSE, !.client.pendingDeletes = FALSE, !.client.status = "Exit"]
           y == IF c.deleting THEN DeleteSelection(b.client) ELSE b.client
           z == [b EXCEPT !.client = [y EXCEPT !.status = "RequestMessage", !.running = TRUE]]
<1>0. Formed(s) /\ ClientTyped(s.client)
  BY DEF Typed
<1>1. /\ Typed(a) /\ SameTask(s.client, a.client) /\ a.store = s.store /\ a.handler = s.handler
      /\ a.client.running = s.client.running /\ a.link.marked \subseteq s.link.marked
      /\ reuse => a.link = s.link
  <2>1. LET g == [s EXCEPT !.client.timer = FALSE]
        IN /\ Typed(g) /\ SameTask(s.client, g.client) /\ g.store = s.store /\ g.handler = s.handler
           /\ g.client.running = s.client.running /\ g.link = s.link
    <3> DEFINE g == [s EXCEPT !.client.timer = FALSE]
    <3>1. /\ Formed(g) /\ SameTask(s.client, g.client) /\ g.store = s.store /\ g.handler = s.handler
          /\ g.client.running = s.client.running /\ g.link = s.link /\ g.source = s.source
      BY <1>0 DEF SameTask, Formed, On
    <3> HIDE DEF g
    <3>2. Typed(g)
      BY <1>0, <3>1 DEF Typed, ClientTyped, SameTask
    <3> QED
      BY <3>1, <3>2 DEF g
  <2>2. SameTask(s.client, s.client)
    BY DEF SameTask
  <2> QED
    BY <2>1, <2>2, CloseFields
<1>2. n = IF ~s.account.configured THEN OperationFailed(x) ELSE IF reuse THEN z ELSE Open(b)
  BY DEF NewConnection
<1> HIDE DEF a, n
<1>3. CASE ~s.account.configured
  <2> DEFINE w == [a.client EXCEPT !.testing = FALSE, !.pendingDeletes = FALSE, !.status = "Exit"]
  <2>0. Formed(a) /\ ClientTyped(a.client)
    BY <1>1 DEF Typed
  <2>1. x = [a EXCEPT !.client = w]
    BY <2>0 DEF Formed, On
  <2>2. /\ On(w, {"status", "running", "selected", "deleting", "testing", "pendingDeletes", "timer",
                  "limit", "numbers", "newUids", "obsolete", "selection", "existing", "left", "uid"})
        /\ w.deleting = a.client.deleting /\ w.obsolete = a.client.obsolete /\ w.newUids = a.client.newUids
        /\ w.selection = a.client.selection /\ w.existing = a.client.existing /\ w.left = a.client.left
        /\ w.numbers = a.client.numbers
    BY <2>0 DEF Formed, On
  <2> HIDE DEF x, w
  <2>3. /\ On(x, {"client", "source", "link", "mailbox", "store", "handler", "account"})
        /\ x.client = w /\ x.link = a.link /\ x.store = a.store /\ x.source = a.source /\ x.handler = a.handler
        /\ x.mailbox = a.mailbox
    BY <2>0, <2>1 DEF Formed, On
  <2>4. Formed(x)
    BY <2>0, <2>2, <2>3 DEF Formed
  <2>5. Typed(x)
    BY <1>1, <2>2, <2>3, <2>4 DEF Typed, ClientTyped
  <2>6. /\ Typed(n) /\ n.store = x.store /\ SameTask(x.client, n.client) /\ n.client.running = FALSE
        /\ n.handler.request = "none" /\ n.handler.success = FALSE /\ n.handler.posted = x.handler.posted
        /\ ~InUse(n) /\ n.link.marked \subseteq x.link.marked
    BY <1>2, <1>3, <2>5, FailFields
  <2>7. Asking(n, asked)
    BY <1>1, <2>2, <2>3, <2>6 DEF Asking, SameTask
  <2> QED
    BY <1>1, <2>3, <2>6, <2>7 DEF Begun, n
<1>4. /\ On(d, {"status", "running", "selected", "deleting", "testing", "pendingDeletes", "timer",
                "limit", "numbers", "newUids", "obsolete", "selection", "existing", "left", "uid"})
      /\ d.testing = FALSE /\ d.selected = c.selected /\ d.deleting = c.deleting /\ d.limit = c.limit
      /\ d.selection = c.selection /\ d.existing = c.existing /\ d.left = c.left /\ d.obsolete = c.obsolete
      /\ d.newUids = c.newUids /\ d.numbers = c.numbers /\ d.uid = c.uid /\ d.running = c.running
  BY <1>1 DEF Typed, Formed, On, SameTask
<1> HIDE DEF d
<1>5. /\ On(e, {"status", "running", "selected", "deleting", "testing", "pendingDeletes", "timer",
                "limit", "numbers", "newUids", "obsolete", "selection", "existing", "left", "uid"})
      /\ e.testing = FALSE /\ e.selected = c.selected /\ e.deleting = c.deleting /\ e.limit = c.limit
      /\ e.selection = c.selection /\ e.existing = c.existing /\ e.left = c.left
      /\ e.obsolete \in {c.obsolete, <<>>} /\ e.newUids \in {c.newUids, <<>>} /\ e.numbers \in {c.numbers, NoUids}
      /\ e.uid = c.uid /\ e.running = c.running
  <2>1. CASE d.selected
    BY <1>4, <2>1 DEF ClearLists
  <2>2. CASE ~d.selected
    BY <1>4, <2>2 DEF ClearLists, On
  <2> QED
    BY <2>1, <2>2
<1> HIDE DEF e
<1>6. /\ Typed(b) /\ b.client = e /\ b.link = a.link /\ b.handler = s.handler /\ b.store = s.store
      /\ b.source = a.source
  <2>1. /\ On(b, {"client", "source", "link", "mailbox", "store", "handler", "account"})
        /\ b.client = e /\ b.link = a.link /\ b.handler = a.handler /\ b.store = a.store /\ b.mailbox = a.mailbox
        /\ b.source = a.source
    BY <1>1 DEF Typed, Formed, On
  <2> HIDE DEF b
  <2>2. On(e.numbers, Uid)
    BY <1>0, <1>5 DEF Formed, NoUids, On
  <2>3. Formed(b)
    BY <1>1, <1>5, <2>1, <2>2 DEF Typed, Formed
  <2>4. ClientTyped(e)
    <3>1. <<>> \in Seq(Uid)
      OBVIOUS
    <3> QED
      BY <1>0, <1>5, <3>1 DEF ClientTyped
  <2>5. Typed(b)
    BY <1>1, <1>5, <2>1, <2>3, <2>4 DEF Typed, SameTask
  <2> QED
    BY <1>1, <2>1, <2>5
<1> HIDE DEF b
<1>7. Asking(b, asked)
  BY <1>5, <1>6 DEF Asking
<1>8. CASE s.account.configured /\ ~reuse
  <2>1. /\ Typed(n) /\ n.store = b.store /\ n.handler = b.handler
        /\ SameTask(b.client, n.client) /\ n.client.running = b.client.running /\ n.client.status = "Init"
        /\ n.link.marked \subseteq b.link.marked
    BY <1>2, <1>6, <1>8, OpenFields
  <2>2. Asking(n, asked)
    BY <1>6, <1>7, <2>1 DEF Asking, SameTask
  <2>3. AllSelected(n) /\ Fetching(n) /\ Received(n)
    BY <1>5, <1>6, <2>1 DEF Wished, AllSelected, Fetching, Received, SameTask
  <2>4. Deleting(n)
    BY <1>5, <1>6, <2>1 DEF Wished, Deleting, SameTask, Before
  <2>5. Retrieving(n)
    BY <1>5, <1>6, <2>1 DEF Wished, Retrieving, SameTask, Before, Ready
  <2> QED
    BY <1>1, <1>5, <1>6, <2>1, <2>2, <2>3, <2>4, <2>5 DEF Begun, Part, n
<1>9. CASE s.account.configured /\ reuse
  <2>1. /\ On(y, {"status", "running", "selected", "deleting", "testing", "pendingDeletes", "timer",
                  "limit", "numbers", "newUids", "obsolete", "selection", "existing", "left", "uid"})
        /\ y.testing = FALSE /\ y.selected = e.selected /\ y.deleting = e.deleting /\ y.limit = e.limit
        /\ y.numbers = e.numbers /\ y.selection = e.selection /\ y.existing = e.existing
        /\ IF c.deleting THEN y.newUids = <<>> /\ y.obsolete = InOrder(e.selection) /\ y.left = {}
           ELSE y.newUids = e.newUids /\ y.obsolete = e.obsolete /\ y.left = e.left
    <3>1. CASE c.deleting
      BY <1>5, <1>6, <3>1 DEF DeleteSelection, On
    <3>2. CASE ~c.deleting
      BY <1>5, <1>6, <3>2
    <3> QED
      BY <3>1, <3>2
  <2> HIDE DEF y
  <2> DEFINE w == [y EXCEPT !.status = "RequestMessage", !.running = TRUE]
  <2>2. /\ On(w, {"status", "running", "selected", "deleting", "testing", "pendingDeletes", "timer",
                  "limit", "numbers", "newUids", "obsolete", "selection", "existing", "left", "uid"})
        /\ w.testing = FALSE /\ w.selected = e.selected /\ w.deleting = e.deleting /\ w.limit = e.limit
        /\ w.numbers = e.numbers /\ w.selection = e.selection /\ w.existing = e.existing
        /\ IF c.deleting THEN w.newUids = <<>> /\ w.obsolete = InOrder(e.selection) /\ w.left = {}
           ELSE w.newUids = e.newUids /\ w.obsolete = e.obsolete /\ w.left = e.left
        /\ w.status = "RequestMessage" /\ w.running = TRUE
    BY <2>1 DEF On
  <2> HIDE DEF w
  <2>3. /\ On(z, {"client", "source", "link", "mailbox", "store", "handler", "account"})
        /\ z.client = w /\ z.link = b.link /\ z.handler = b.handler /\ z.mailbox = b.mailbox /\ z.store = b.store
        /\ z.source = b.source
    BY <1>6 DEF Typed, Formed, On, w
  <2> HIDE DEF z
  <2>4. n = z
    BY <1>2, <1>9
  <2>5. e.selection \in SUBSET Uid
    BY <1>0, <1>5 DEF ClientTyped
  <2>6. InOrder(e.selection) \in Seq(e.selection) /\ \A u \in e.selection : InList(u, InOrder(e.selection))
    BY <2>5, Ordered
  <2>7. InOrder(e.selection) \in Seq(Uid) /\ <<>> \in Seq(Uid)
    BY <2>5, <2>6
  <2>8. Typed(z)
    <3>1. Formed(z)
      BY <1>6, <2>2, <2>3 DEF Typed, Formed
    <3>2. ClientTyped(w)
      BY <1>6, <2>2, <2>7 DEF Typed, ClientTyped
    <3> QED
      BY <1>6, <2>2, <2>3, <3>1, <3>2 DEF Typed
  <2>9. \A k \in DOMAIN InOrder(e.selection) : InOrder(e.selection)[k] \in e.selection
    BY <2>6
  <2>10. Asking(z, asked)
    <3>1. CASE c.deleting
      BY <1>5, <1>6, <1>7, <2>2, <2>3, <2>9, <3>1 DEF Asking
    <3>2. CASE ~c.deleting
      BY <1>5, <1>6, <1>7, <2>2, <2>3, <3>2 DEF Asking
    <3> QED
      BY <3>1, <3>2
  <2>11. AllSelected(z) /\ Fetching(z) /\ Received(z)
    BY <1>5, <1>9, <2>2, <2>3 DEF AllSelected, Fetching, Received
  <2>12. Deleting(z)
    BY <1>5, <1>6, <2>2, <2>3, <2>6 DEF Wished, Deleting, DeletedOrListed
  <2>13. Retrieving(z)
    <3>1. z.client.status = "RequestMessage"
      BY <2>2, <2>3
    <3>2. ASSUME z.handler.request = "retrieve", z.client.limit = "all"
          PROVE  /\ z.client.selected /\ ~z.client.deleting /\ ~z.client.testing
                 /\ \A u \in z.client.selection : LeftOrComplete(z, u)
      <4>1. /\ s.client.selected /\ ~s.client.deleting /\ s.client.left = s.client.selection
            /\ \A u \in s.client.selection : Ready(s, u)
        BY <1>5, <1>6, <2>2, <2>3, <3>2 DEF Wished
      <4>2. /\ z.client.left = s.client.left /\ z.client.selection = s.client.selection
            /\ z.client.existing = s.client.existing /\ z.store = s.store
            /\ z.client.selected = s.client.selected /\ z.client.deleting = s.client.deleting /\ ~z.client.testing
        BY <1>5, <1>6, <2>2, <2>3, <4>1
      <4>3. \A u \in z.client.selection : u \in z.client.left /\ Ready(z, u)
        BY <4>1, <4>2 DEF Ready
      <4> QED
        BY <4>1, <4>2, <4>3 DEF LeftOrComplete
    <3> QED
      BY <3>1, <3>2 DEF Retrieving
  <2>14. z.link.state = "up" /\ z.link.marked \subseteq s.link.marked
    BY <1>1, <1>6, <1>9, <2>3
  <2> QED
    BY <1>1, <1>6, <2>3, <2>4, <2>8, <2>10, <2>11, <2>12, <2>13, <2>14 DEF Begun, Part, n
<1> QED
  BY <1>3, <1>8, <1>9

-----------------------------------------------------------------------------
(* Completions and mail checks *)

\* Only what the source and the daemon know has changed.
LEMMA ReportFields ==
  ASSUME NEW s, Typed(s), NEW n,
         On(n, {"client", "source", "link", "mailbox", "store", "handler", "account"}),
         n.client = s.client, n.link = s.link, n.mailbox = s.mailbox, n.store = s.store,
         On(n.source, {"deleting", "unavailable", "queued", "checking"}),
         On(n.handler, {"request", "available", "posted", "told", "success"})
  PROVE  Typed(n)
<1>1. Formed(n)
  BY DEF Typed, Formed
<1> QED
  BY <1>1 DEF Typed

\* The messages are as they were; only the folder may be new.
SameMessages(t, r) ==
  /\ r.local = t.local /\ r.buffer = t.buffer /\ r.records = t.records
  /\ r.refused = t.refused /\ r.removed = t.removed

\* What a mail check leaves that may have begun.
Checked(s, n, asked) ==
  /\ Typed(n) /\ Asking(n, asked) /\ SameMessages(s.store, n.store)
  /\ n.handler.posted = s.handler.posted
  /\ \/ n.handler.request = s.handler.request /\ n.handler.success = s.handler.success
     \/ n.handler.request = "none" /\ n.handler.success = FALSE
  /\ n.link.marked \subseteq s.link.marked
  /\ n.link = s.link \/ n.client.selected = FALSE
  /\ Sound(s, asked) /\ ~s.client.running => Sound(n, asked)

\* retrieveAll, when no request works on a selection.
LEMMA AllBegun ==
  ASSUME NEW s, NEW asked, Typed(s), Asking(s, asked), s.handler.request \notin {"delete", "retrieve"}, NEW arrives
  PROVE  Checked(s, RetrieveAll(s, arrives), asked)
<1> DEFINE a == SetOperation(s, "none")
           b == NewConnection(a, arrives)
           n == [b EXCEPT !.source.unavailable = TRUE]
<1>1. /\ Typed(a) /\ a.handler = s.handler /\ a.link = s.link /\ a.client.running = s.client.running
      /\ a.client.selected = FALSE /\ a.client.deleting = FALSE /\ a.client.limit = "none"
      /\ a.client.obsolete = s.client.obsolete /\ SameMessages(s.store, a.store)
  <2> DEFINE limit == "none"
             m == SetOperation(s, limit)
  <2> HIDE DEF limit
  <2>0. /\ Typed(m) /\ m.source = s.source /\ m.handler = s.handler /\ m.link = s.link
        /\ m.client.selected = FALSE /\ m.client.deleting = FALSE /\ m.client.limit = limit
        /\ m.client.testing = s.client.testing /\ m.client.status = s.client.status
        /\ m.client.running = s.client.running /\ m.client.uid = s.client.uid
        /\ m.client.obsolete = s.client.obsolete
        /\ m.store.local = s.store.local /\ m.store.buffer = s.store.buffer /\ m.store.records = s.store.records
        /\ m.store.refused = s.store.refused /\ m.store.removed = s.store.removed
    BY OperationFields
  <2>1. /\ Typed(m) /\ m.handler = s.handler /\ m.link = s.link /\ m.client.running = s.client.running
        /\ m.client.selected = FALSE /\ m.client.deleting = FALSE /\ m.client.limit = limit
        /\ m.client.obsolete = s.client.obsolete /\ SameMessages(s.store, m.store)
    BY <2>0 DEF SameMessages
  <2>2. a = m /\ limit = "none"
    BY DEF limit
  <2> HIDE DEF a, m
  <2> QED
    BY <2>1, <2>2
<1>2. RetrieveAll(s, arrives) = n
  BY DEF RetrieveAll
<1> HIDE DEF a
<1>3. Asking(a, asked) /\ Wished(a)
  BY <1>1 DEF Asking, Wished, SameMessages
<1>4. Begun(a, b, asked)
  BY <1>1, <1>3, ConnectionBegun
<1>5. b.client.selected = FALSE
  BY <1>1, ConnectionMade DEF Typed
<1> HIDE DEF b
<1>6. /\ On(n, {"client", "source", "link", "mailbox", "store", "handler", "account"})
      /\ n.client = b.client /\ n.link = b.link /\ n.mailbox = b.mailbox /\ n.store = b.store
      /\ On(n.source, {"deleting", "unavailable", "queued", "checking"})
      /\ n.handler = b.handler /\ On(n.handler, {"request", "available", "posted", "told", "success"})
  BY <1>4 DEF Begun, Typed, Formed, On
<1> HIDE DEF n
<1>7. Typed(n)
  BY <1>4, <1>6, ReportFields DEF Begun
<1>8. Asking(n, asked) /\ (InUse(n) => Part(n))
  BY <1>4, <1>6 DEF Begun, Asking, InUse, Part, AllSelected, Fetching, Received, Deleting, Retrieving,
                   DeletedOrListed, LeftOrComplete, Ready
<1>9. Sound(s, asked) /\ ~s.client.running => Sound(n, asked)
  BY <1>1, <1>4, <1>6, <1>7, <1>8 DEF Begun, Sound, Locked
<1> QED
  BY <1>1, <1>2, <1>4, <1>5, <1>6, <1>7, <1>8, <1>9 DEF Begun, Checked, SameMessages

\* queueMailCheck: no mail check begins while a request works on a selection.
LEMMA CheckBegun ==
  ASSUME NEW s, NEW asked, Typed(s), Asking(s, asked), Locked(s), NEW arrives
  PROVE  Checked(s, QueueMailCheck(s, arrives), asked)
<1> DEFINE a == [s EXCEPT !.source.queued = TRUE]
           b == [s EXCEPT !.source.queued = FALSE, !.source.checking = TRUE, !.handler.available = FALSE]
<1>1. QueueMailCheck(s, arrives) = IF s.source.unavailable THEN a ELSE RetrieveAll(b, arrives)
  BY DEF QueueMailCheck
<1>2. ASSUME NEW n, n \in {a, b}
      PROVE  /\ Typed(n) /\ n.client = s.client /\ n.link = s.link /\ n.store = s.store /\ SameRequest(s, n)
             /\ n.source.unavailable = s.source.unavailable
  <2>1. /\ On(n, {"client", "source", "link", "mailbox", "store", "handler", "account"})
        /\ n.client = s.client /\ n.link = s.link /\ n.mailbox = s.mailbox /\ n.store = s.store
        /\ On(n.source, {"deleting", "unavailable", "queued", "checking"})
        /\ On(n.handler, {"request", "available", "posted", "told", "success"})
        /\ SameRequest(s, n) /\ n.source.unavailable = s.source.unavailable
    <3>1. CASE n = a
      BY <3>1 DEF Typed, Formed, On, SameRequest
    <3>2. CASE n = b
      BY <3>2 DEF Typed, Formed, On, SameRequest
    <3> QED
      BY <1>2, <3>1, <3>2
  <2>2. Typed(n)
    BY <2>1, ReportFields
  <2> QED
    BY <2>1, <2>2
<1> HIDE DEF a, b
<1>3. ASSUME NEW n, n \in {a, b}
      PROVE  Asking(n, asked) /\ (Sound(s, asked) => Sound(n, asked))
  BY <1>2, <1>3 DEF SameRequest, Asking, Sound, Locked, InUse, Part, AllSelected, Fetching, Received, Deleting,
                    Retrieving, DeletedOrListed, LeftOrComplete, Ready
<1>4. CASE s.source.unavailable
  BY <1>1, <1>2, <1>3, <1>4 DEF Checked, SameRequest, SameMessages
<1>5. CASE ~s.source.unavailable
  <2>1. b.handler.request \notin {"delete", "retrieve"}
    BY <1>2, <1>5 DEF Locked, SameRequest
  <2>2. Checked(b, RetrieveAll(b, arrives), asked)
    BY <1>2, <1>3, <2>1, AllBegun
  <2> QED
    BY <1>1, <1>2, <1>3, <1>5, <2>2 DEF Checked, SameRequest
<1> QED
  BY <1>4, <1>5

\* retrievalCompleted, of the source: the request is ended, and a mail check may begin.
LEMMA CompletionFields ==
  ASSUME NEW s, NEW asked, Typed(s), Asking(s, asked), NEW arrives
  PROVE  LET n == RetrievalCompleted(s, arrives)
         IN /\ Typed(n) /\ Asking(n, asked) /\ SameMessages(s.store, n.store)
            /\ n.handler.request = "none" /\ n.link.marked \subseteq s.link.marked
            /\ n.link = s.link \/ n.client.selected = FALSE
            /\ Sound(s, asked) /\ ~s.client.running => Sound(n, asked)
<1> DEFINE n == RetrievalCompleted(s, arrives)
           a == [s EXCEPT !.source.unavailable = FALSE, !.source.checking = FALSE,
                          !.source.deleting = FALSE,
                          !.handler.request = "none", !.handler.success = TRUE,
                          !.handler.available = @ \/ s.source.checking]
<1>1. n = IF s.source.queued THEN QueueMailCheck(a, arrives) ELSE a
  BY DEF RetrievalCompleted
<1>0. /\ On(s, {"client", "source", "link", "mailbox", "store", "handler", "account"})
      /\ On(s.source, {"deleting", "unavailable", "queued", "checking"})
      /\ On(s.handler, {"request", "available", "posted", "told", "success"})
  BY DEF Typed, Formed
<1>2. /\ On(a, {"client", "source", "link", "mailbox", "store", "handler", "account"})
      /\ a.client = s.client /\ a.link = s.link /\ a.mailbox = s.mailbox /\ a.store = s.store
      /\ On(a.source, {"deleting", "unavailable", "queued", "checking"})
      /\ On(a.handler, {"request", "available", "posted", "told", "success"})
      /\ a.handler.request = "none"
  <2> HIDE DEF n
  <2> DEFINE o == [s.source EXCEPT !.unavailable = FALSE, !.checking = FALSE, !.deleting = FALSE]
             h == [s.handler EXCEPT !.request = "none", !.success = TRUE, !.available = @ \/ s.source.checking]
  <2>1. On(o, {"deleting", "unavailable", "queued", "checking"})
    BY <1>0 DEF On
  <2>2. On(h, {"request", "available", "posted", "told", "success"}) /\ h.request = "none"
    BY <1>0 DEF On
  <2>3. a = [s EXCEPT !.source = o, !.handler = h]
    BY <1>0 DEF On
  <2> HIDE DEF a, o, h
  <2>4. /\ On(a, {"client", "source", "link", "mailbox", "store", "handler", "account"})
        /\ a.client = s.client /\ a.link = s.link /\ a.mailbox = s.mailbox /\ a.store = s.store
        /\ a.source = o /\ a.handler = h
    BY <1>0, <2>3 DEF On
  <2> QED
    BY <2>1, <2>2, <2>4
<1> HIDE DEF a, n
<1>3. Typed(a)
  BY <1>2, ReportFields
<1>4. Asking(a, asked) /\ Locked(a)
  BY <1>2 DEF Asking, Locked
<1>5. Sound(s, asked) => Sound(a, asked)
  BY <1>2, <1>3, <1>4 DEF Sound, InUse, Part, AllSelected, Fetching, Received, Deleting, Retrieving
<1>6. Checked(a, QueueMailCheck(a, arrives), asked)
  BY <1>3, <1>4, CheckBegun
<1> QED
  BY <1>1, <1>2, <1>3, <1>4, <1>5, <1>6 DEF Checked, SameMessages, n

\* What a completion says of the messages.
Settled(t, r) ==
  \A u \in Uid : /\ Absent(t, u) => r.local[u] = "none"
                 /\ Complete(t, u) => u \in r.removed \cup r.refused \/ r.local[u] \in {"none", "whole"}

\* retrieveOperationCompleted, of the client: the buffer is flushed first.
LEMMA OperationEnds ==
  ASSUME NEW s, NEW asked, Typed(s), Asking(s, asked), NEW arrives
  PROVE  LET n == RetrieveOperationCompleted(s, arrives)
         IN /\ Typed(n) /\ Asking(n, asked) /\ Settled(s.store, n.store)
            /\ n.handler.request = "none" /\ n.link.marked \subseteq s.link.marked
            /\ Sound(s, asked) /\ ~s.client.running /\ ~InUse(s) => Sound(n, asked)
<1> DEFINE n == RetrieveOperationCompleted(s, arrives)
           f == FlushPending(s)
           g == [f EXCEPT !.account.synchronized = @ + 1]
           a == IF s.client.selected THEN f ELSE g
           b == RetrievalCompleted(a, arrives)
           c == [b EXCEPT !.client.timer = TRUE, !.client.selected = FALSE]
<1>1. n = IF b.link.state = "none" THEN b ELSE c
  BY DEF RetrieveOperationCompleted
<1>2. Flushed(s, f)
  BY FlushFields
<1> HIDE DEF f
<1>3. Typed(a) /\ Beside(s, a) /\ a.store = f.store
  <2>1. /\ On(g, {"client", "source", "link", "mailbox", "store", "handler", "account"})
        /\ g.client = f.client /\ g.link = f.link /\ g.mailbox = f.mailbox /\ g.store = f.store
        /\ g.source = f.source /\ g.handler = f.handler
    BY <1>2 DEF Flushed, Typed, Formed, On
  <2> HIDE DEF g
  <2>2. On(f.source, {"deleting", "unavailable", "queued", "checking"})
        /\ On(f.handler, {"request", "available", "posted", "told", "success"})
    BY <1>2 DEF Flushed, Typed, Formed
  <2>3. Typed(g)
    BY <1>2, <2>1, <2>2, ReportFields DEF Flushed
  <2> QED
    BY <1>2, <2>1, <2>3 DEF Flushed, Beside, SameRequest
<1> HIDE DEF a
<1>4. Asking(a, asked)
  BY <1>2, <1>3 DEF Flushed, Beside, Asking
<1>5. Sound(s, asked) /\ ~InUse(s) => Sound(a, asked)
  BY <1>3, <1>4 DEF Beside, SameRequest, Sound, Locked, InUse
<1>6. /\ Typed(b) /\ Asking(b, asked) /\ SameMessages(a.store, b.store)
      /\ b.handler.request = "none" /\ b.link.marked \subseteq a.link.marked
      /\ b.link = a.link \/ b.client.selected = FALSE
      /\ Sound(a, asked) /\ ~a.client.running => Sound(b, asked)
  BY <1>3, <1>4, CompletionFields
<1> HIDE DEF b, n
<1>7. Settled(s.store, b.store)
  <2>1. ASSUME NEW u \in Uid, Absent(s.store, u)
        PROVE  b.store.local[u] = "none"
    BY <1>2, <1>3, <1>6, <2>1 DEF Flushed, Absent, SameMessages
  <2>2. ASSUME NEW u \in Uid, Complete(s.store, u)
        PROVE  u \in b.store.removed \cup b.store.refused \/ b.store.local[u] \in {"none", "whole"}
    <3>1. Complete(f.store, u) /\ f.store.buffer = <<>>
      BY <1>2, <2>2 DEF Flushed
    <3>2. ~ \E k \in DOMAIN f.store.buffer : LastWhole(f.store, k) /\ f.store.buffer[k].uid = u
      BY <3>1
    <3> QED
      BY <1>3, <1>6, <3>1, <3>2 DEF Complete, SameMessages
  <2> QED
    BY <2>1, <2>2 DEF Settled
<1> DEFINE e == [b.client EXCEPT !.timer = TRUE, !.selected = FALSE]
<1>8. /\ On(e, {"status", "running", "selected", "deleting", "testing", "pendingDeletes", "timer",
                "limit", "numbers", "newUids", "obsolete", "selection", "existing", "left", "uid"})
      /\ e.selected = FALSE /\ e.deleting = b.client.deleting /\ e.testing = b.client.testing
      /\ e.limit = b.client.limit /\ e.status = b.client.status /\ e.running = b.client.running
      /\ e.obsolete = b.client.obsolete /\ e.newUids = b.client.newUids /\ e.numbers = b.client.numbers
      /\ e.selection = b.client.selection /\ e.existing = b.client.existing /\ e.left = b.client.left
      /\ e.uid = b.client.uid
  BY <1>6 DEF Typed, Formed, On
<1>9. /\ On(c, {"client", "source", "link", "mailbox", "store", "handler", "account"})
      /\ c.client = e /\ c.link = b.link /\ c.mailbox = b.mailbox /\ c.store = b.store
      /\ c.source = b.source /\ c.handler = b.handler
  BY <1>6 DEF Typed, Formed, On
<1> HIDE DEF c, e
<1>10. Typed(c) /\ Asking(c, asked)
  <2>1. Formed(c)
    BY <1>6, <1>8, <1>9 DEF Typed, Formed
  <2>2. Typed(c)
    BY <1>6, <1>8, <1>9, <2>1 DEF Typed, ClientTyped
  <2> QED
    BY <1>6, <1>8, <1>9, <2>2 DEF Asking
<1>11. ASSUME Sound(s, asked), ~s.client.running, ~InUse(s)
       PROVE  Sound(b, asked) /\ Sound(c, asked)
  <2>1. Sound(b, asked)
    BY <1>3, <1>5, <1>6, <1>11 DEF Beside
  <2>2. InUse(c) => b.client.selected = FALSE /\ Part(b)
    BY <1>3, <1>6, <1>9, <1>11, <2>1 DEF Beside, InUse, Sound
  <2>3. InUse(c) => Part(c)
    BY <1>6, <1>8, <1>9, <2>2 DEF Part, AllSelected, Fetching, Received, Deleting, Retrieving, Whole
  <2> QED
    BY <1>6, <1>8, <1>9, <1>10, <2>1, <2>3 DEF Sound, Locked
<1> QED
  BY <1>1, <1>3, <1>6, <1>7, <1>9, <1>10, <1>11 DEF Beside, n

-----------------------------------------------------------------------------
(* Every step of nextAction is a sound one *)

\* Only what has been asked for or fetched is marked for deletion, when the
\* positions are those of the session.
Justified(s, n, asked) ==
  Current(s) => \A u \in n.link.marked \ s.link.marked : u \in asked \/ HeldIn(s.store, u) \/ u \in s.store.refused

\* An operation that succeeds has done what it was asked to do.
Served(s, n) ==
  n.handler.request = "none" /\ n.handler.success =>
    /\ s.handler.request = "delete" => \A u \in s.client.selection : n.store.local[u] = "none"
    /\ s.handler.request = "retrieve" /\ s.client.limit = "all" =>
         \A u \in s.client.selection :
           u \in n.store.removed \cup n.store.refused \/ n.store.local[u] \in {"none", "whole"}

Proper(s, n, asked) == Justified(s, n, asked) /\ Served(s, n)

\* A step that marks nothing and ends no operation.
LEMMA QuietProper ==
  ASSUME NEW s, NEW n, NEW asked, n.link.marked \subseteq s.link.marked,
         \/ n.handler.request = s.handler.request
         \/ n.handler.success = FALSE
         \/ s.handler.request \notin {"delete", "retrieve"}
  PROVE  Proper(s, n, asked)
  BY DEF Proper, Justified, Served

\* The statuses that follow each other when nothing else changes.
Follows(c, st) ==
  \/ c.status = "Init" /\ st = "CapabilityTest"
  \/ c.status = "CapabilityTest" /\ st = "Capabilities"
  \/ c.status = "Capabilities" /\ st = "Auth"
  \/ c.status = "Auth" /\ st = "Done" /\ c.testing
  \/ c.status = "Auth" /\ st = "Uidl"
  \/ c.status = "Uidl" /\ st = "UidList"
  \/ c.status = "List" /\ st = "SizeList"
  \/ c.status = "SizeList" /\ st = "RequestMessage"
  \/ c.status = "Retr" /\ st = "MessageDataRetr"
  \/ c.status = "Top" /\ st = "MessageDataTop"
  \/ c.status = "MessageDataRetr" /\ st \in {"DeleAfterRetr", "RequestMessage"} /\ c.running
  \/ c.status \in {"MessageDataTop", "DeleAfterRetr"} /\ st = "RequestMessage"
  \/ c.status = "Done" /\ st = "Quit"
  \/ c.status = "Quit" /\ st = "Exit"

\* The invariant of a request when only the status goes on.
LEMMA FollowsPart ==
  ASSUME NEW s, Part(s), NEW st, Follows(s.client, st), NEW n, Moved(s, n, st),
         n.client.running = FALSE \/ st # "MessageDataRetr"
  PROVE  Part(n)
<1>1. AllSelected(n)
  BY DEF Part, AllSelected, Moved, Follows
<1>2. Fetching(n)
  BY DEF Part, Fetching, Moved, Follows, Whole
<1>3. Received(n)
  BY DEF Received, Moved
<1>4. Deleting(n)
  <2> SUFFICES ASSUME n.handler.request = "delete"
               PROVE  Deleting(n)
    BY DEF Deleting
  <2>1. /\ s.client.selected /\ s.client.deleting /\ ~s.client.testing
        /\ \A u \in s.client.selection : Unadded(s.store, u)
    BY DEF Part, Deleting, Moved, SameRequest
  <2>2. CASE s.client.status \in Before
    <3>1. st \in Before
      BY <2>1, <2>2 DEF Follows, Before
    <3> QED
      BY <2>1, <3>1 DEF Deleting, Moved
  <2>3. CASE s.client.status \notin Before
    <3>1. s.client.status \in {"Done", "Quit"} /\ st \in {"Quit", "Exit"}
      BY <2>3 DEF Part, Deleting, Moved, SameRequest, Follows
    <3>2. \A u \in s.client.selection : Absent(s.store, u)
      BY <2>3, <3>1 DEF Part, Deleting, Moved, SameRequest
    <3> QED
      BY <2>1, <3>1, <3>2 DEF Deleting, Moved
  <2> QED
    BY <2>2, <2>3
<1>5. Retrieving(n)
  <2> SUFFICES ASSUME n.handler.request = "retrieve", n.client.limit = "all"
               PROVE  Retrieving(n)
    BY DEF Retrieving
  <2>0. s.handler.request = "retrieve" /\ s.client.limit = "all"
    BY DEF Moved, SameRequest
  <2>1. s.client.selected /\ ~s.client.deleting /\ ~s.client.testing
    BY <2>0 DEF Part, Retrieving
  <2>2. CASE s.client.status \in Before \cup {"List", "SizeList"}
    <3>1. /\ s.client.left = s.client.selection /\ \A u \in s.client.selection : Ready(s, u)
      BY <2>0, <2>2 DEF Part, Retrieving, Before
    <3>2. CASE st = "RequestMessage"
      BY <2>1, <3>1, <3>2 DEF Retrieving, LeftOrComplete, Ready, Moved
    <3>3. CASE st # "RequestMessage"
      <4>1. st \in Before \cup {"List", "SizeList"}
        BY <2>1, <2>2, <3>3 DEF Follows, Before
      <4> QED
        BY <2>1, <3>1, <4>1 DEF Retrieving, Ready, Moved
    <3> QED
      BY <3>2, <3>3
  <2>3. CASE s.client.status \in {"Retr", "MessageDataRetr", "DeleAfterRetr"}
    <3>1. \A u \in s.client.selection : LeftOrComplete(s, u)
      BY <2>0, <2>3 DEF Part, Retrieving, Before
    <3>2. st \in {"RequestMessage", "MessageDataRetr", "DeleAfterRetr"}
      BY <2>3 DEF Follows
    <3>3. \A u \in s.client.selection : LeftOrComplete(n, u)
      BY <2>3, <3>1 DEF LeftOrComplete, Ready, Moved, Follows
    <3> QED
      BY <2>1, <3>2, <3>3 DEF Retrieving, Moved
  <2>4. CASE s.client.status \in {"Done", "Quit"}
    <3>1. \A u \in s.client.selection : Complete(s.store, u)
      BY <2>0, <2>4 DEF Part, Retrieving, Before
    <3>2. st \in {"Quit", "Exit"}
      BY <2>4 DEF Follows
    <3> QED
      BY <2>1, <3>1, <3>2 DEF Retrieving, Moved
  <2> QED
    BY <2>0, <2>2, <2>3, <2>4 DEF Part, Retrieving, Follows
<1> QED
  BY <1>1, <1>2, <1>3, <1>4, <1>5 DEF Part

\* The session goes on: what the invariant says besides.
LEMMA MovedSound ==
  ASSUME NEW s, NEW asked, Asking(s, asked), Locked(s), s.link.state = "up", NEW st, NEW n, Moved(s, n, st), Part(n)
  PROVE  Sound(n, asked)
  BY DEF Sound, Asking, Locked, Moved, SameRequest

\* Only the client has changed.
LEMMA ClientChanged ==
  ASSUME NEW s, Typed(s), NEW c,
         On(c, {"status", "running", "selected", "deleting", "testing", "pendingDeletes", "timer",
                "limit", "numbers", "newUids", "obsolete", "selection", "existing", "left", "uid"}),
         c.numbers = s.client.numbers, ClientTyped(c), c.existing \subseteq s.client.existing,
         NEW n, n = [s EXCEPT !.client = c]
  PROVE  /\ Typed(n) /\ n.client = c /\ n.source = s.source /\ n.link = s.link /\ n.mailbox = s.mailbox
         /\ n.store = s.store /\ n.handler = s.handler
<1>1. /\ On(n, {"client", "source", "link", "mailbox", "store", "handler", "account"})
      /\ n.client = c /\ n.source = s.source /\ n.link = s.link /\ n.mailbox = s.mailbox
      /\ n.store = s.store /\ n.handler = s.handler
  BY DEF Typed, Formed, On
<1>2. Formed(n)
  BY <1>1 DEF Typed, Formed
<1> QED
  BY <1>1, <1>2 DEF Typed

\* Only what is recorded of the messages has changed.
LEMMA StoreChanged ==
  ASSUME NEW s, Typed(s), NEW t,
         On(t, {"local", "records", "removed", "refused", "buffer", "timer", "inbox"}),
         t.local = s.store.local, t.buffer = s.store.buffer,
         NEW n, n = [s EXCEPT !.store = t]
  PROVE  /\ Typed(n) /\ n.client = s.client /\ n.source = s.source /\ n.link = s.link /\ n.mailbox = s.mailbox
         /\ n.store = t /\ n.handler = s.handler
<1>1. /\ On(n, {"client", "source", "link", "mailbox", "store", "handler", "account"})
      /\ n.client = s.client /\ n.source = s.source /\ n.link = s.link /\ n.mailbox = s.mailbox
      /\ n.store = t /\ n.handler = s.handler
  BY DEF Typed, Formed, On
<1>2. Formed(n)
  BY <1>1 DEF Typed, Formed
<1>3. StoreTyped(t)
  BY DEF Typed, StoreTyped, Agrees
<1> QED
  BY <1>1, <1>2, <1>3 DEF Typed

\* The presence of messages, when only the records change.
LEMMA SamePresence ==
  ASSUME NEW t, NEW r, r.local = t.local, r.buffer = t.buffer, NEW u
  PROVE  /\ Unadded(r, u) <=> Unadded(t, u)
         /\ Absent(r, u) <=> Absent(t, u)
         /\ t.removed \subseteq r.removed /\ r.refused = t.refused /\ Complete(t, u) => Complete(r, u)
         /\ r.refused = t.refused => (HeldIn(r, u) <=> HeldIn(t, u))
<1>1. \A k : LastWhole(r, k) <=> LastWhole(t, k)
  BY DEF LastWhole
<1>2. Unadded(r, u) <=> Unadded(t, u)
  BY DEF Unadded
<1>3. Absent(r, u) <=> Absent(t, u)
  BY <1>2 DEF Absent
<1>4. t.removed \subseteq r.removed /\ r.refused = t.refused /\ Complete(t, u) => Complete(r, u)
  BY <1>1 DEF Complete
<1>5. HeldIn(r, u) <=> HeldIn(t, u)
  BY DEF HeldIn
<1> QED
  BY <1>2, <1>3, <1>4, <1>5

\* uidlIntegrityCheck: only what has been asked for is to be deleted.
LEMMA CheckFields ==
  ASSUME NEW s, NEW asked, Typed(s), Asking(s, asked)
  PROVE  LET n == UidlIntegrityCheck(s)
         IN /\ Typed(n) /\ Asking(n, asked) /\ n.link = s.link /\ n.source = s.source /\ SameRequest(s, n)
            /\ n.client.status = s.client.status /\ n.client.running = s.client.running
            /\ n.client.selected = s.client.selected /\ n.client.deleting = s.client.deleting
            /\ n.client.testing = s.client.testing /\ n.client.limit = s.client.limit
            /\ n.client.selection = s.client.selection /\ n.client.existing = s.client.existing
            /\ n.store.local = s.store.local /\ n.store.buffer = s.store.buffer
            /\ n.store.removed = s.store.removed /\ n.store.refused = s.store.refused
            /\ s.client.deleting =>
                 /\ n.client.left = {} /\ n.client.newUids = <<>>
                 /\ \A u \in s.client.selection : InList(u, n.client.obsolete)
            /\ ~s.client.deleting => n.client.left = s.client.left
<1> DEFINE c      == s.client
           listed == {u \in Uid : c.numbers[u] # 0}
           fresh  == {u \in listed \ s.store.records : s.store.local[u] = "none"}
           dead   == IF CanDelete THEN listed \cap s.store.records ELSE {}
           a == [s EXCEPT !.client = DeleteSelection(c)]
           p == c.newUids \o Reverse(InOrder(fresh))
           q == Reverse(InOrder(dead))
           d == [c EXCEPT !.newUids = p, !.obsolete = q]
           t == [s.store EXCEPT !.records = @ \cap listed]
           b == [s EXCEPT !.client = d]
           e == [b EXCEPT !.store = t]
           n == UidlIntegrityCheck(s)
<1>0. Formed(s) /\ ClientTyped(s.client)
      /\ On(s.store, {"local", "records", "removed", "refused", "buffer", "timer", "inbox"})
  BY DEF Typed, StoreTyped
<1>1. n = IF c.deleting THEN a ELSE IF c.selected THEN s ELSE MessageProcessed(e, s.store.records \ listed)
  <2>1. e = [s EXCEPT !.client.newUids = @ \o Reverse(InOrder(fresh)),
                      !.client.obsolete = Reverse(InOrder(dead)),
                      !.store.records = @ \cap listed]
    <3> HIDE DEF fresh, dead, listed
    <3> QED
      BY <1>0 DEF Formed, On
  <2> HIDE DEF e
  <2> QED
    BY <2>1 DEF UidlIntegrityCheck
<1>2. CASE c.deleting
  <2> DEFINE w == DeleteSelection(c)
  <2>1. InOrder(c.selection) \in Seq(c.selection) /\ \A u \in c.selection : InList(u, InOrder(c.selection))
    BY <1>0, Ordered DEF ClientTyped
  <2>2. InOrder(c.selection) \in Seq(Uid) /\ <<>> \in Seq(Uid)
    BY <1>0, <2>1 DEF ClientTyped
  <2>3. /\ On(w, {"status", "running", "selected", "deleting", "testing", "pendingDeletes", "timer",
                  "limit", "numbers", "newUids", "obsolete", "selection", "existing", "left", "uid"})
        /\ w.status = c.status /\ w.running = c.running /\ w.selected = c.selected /\ w.deleting = c.deleting
        /\ w.testing = c.testing /\ w.limit = c.limit /\ w.numbers = c.numbers
        /\ w.newUids = <<>> /\ w.obsolete = InOrder(c.selection) /\ w.left = {}
        /\ w.selection = c.selection /\ w.existing = c.existing
    BY <1>0 DEF DeleteSelection, Formed, On
  <2> HIDE DEF n, w
  <2>4. n = [s EXCEPT !.client = w]
    BY <1>1, <1>2 DEF w
  <2>5. ClientTyped(w)
    BY <1>0, <2>2, <2>3 DEF ClientTyped
  <2>6. /\ Typed(n) /\ n.client = w /\ n.source = s.source /\ n.link = s.link
        /\ n.store = s.store /\ n.handler = s.handler
    BY <2>3, <2>4, <2>5, ClientChanged
  <2>7. \A k \in DOMAIN InOrder(c.selection) : InOrder(c.selection)[k] \in c.selection
    BY <2>1
  <2>8. Asking(n, asked)
    BY <1>2, <2>3, <2>6, <2>7 DEF Asking
  <2> QED
    BY <1>2, <2>1, <2>3, <2>6, <2>8 DEF SameRequest, n
<1>3. CASE ~c.deleting /\ c.selected
  <2> HIDE DEF n
  <2>1. n = s
    BY <1>1, <1>3
  <2> QED
    BY <1>3, <2>1 DEF SameRequest, n
<1>4. CASE ~c.deleting /\ ~c.selected
  <2> DEFINE m == MessageProcessed(e, s.store.records \ listed)
  <2>0. n = m
    BY <1>1, <1>4
  <2>1. listed \in SUBSET Uid /\ fresh \in SUBSET Uid /\ dead \in SUBSET Uid /\ dead \subseteq s.store.records
    OBVIOUS
  <2>2. Reverse(InOrder(fresh)) \in Seq(fresh) /\ Reverse(InOrder(dead)) \in Seq(dead)
    BY <2>1, Ordered
  <2>3. p \in Seq(Uid) /\ q \in Seq(Uid) /\ \A k \in DOMAIN q : q[k] \in s.store.records
    <3>1. Reverse(InOrder(fresh)) \in Seq(Uid) /\ Reverse(InOrder(dead)) \in Seq(Uid)
      BY <2>1, <2>2
    <3>2. \A k \in DOMAIN q : q[k] \in dead
      BY <2>2
    <3> DEFINE x == c.newUids
               y == Reverse(InOrder(fresh))
    <3>3. x \in Seq(Uid) /\ y \in Seq(Uid) /\ p = x \o y
      BY <1>0, <3>1 DEF ClientTyped
    <3>4. dead \subseteq s.store.records /\ q \in Seq(Uid)
      BY <2>1, <3>1
    <3> HIDE DEF x, y, p, q, dead
    <3>5. p \in Seq(Uid)
      BY <3>3
    <3> QED
      BY <3>2, <3>4, <3>5
  <2> HIDE DEF n, m, p, q, listed
  <2>4. /\ On(d, {"status", "running", "selected", "deleting", "testing", "pendingDeletes", "timer",
                  "limit", "numbers", "newUids", "obsolete", "selection", "existing", "left", "uid"})
        /\ d.status = c.status /\ d.running = c.running /\ d.selected = c.selected /\ d.deleting = c.deleting
        /\ d.testing = c.testing /\ d.limit = c.limit /\ d.numbers = c.numbers
        /\ d.newUids = p /\ d.obsolete = q /\ d.left = c.left
        /\ d.selection = c.selection /\ d.existing = c.existing
    BY <1>0 DEF Formed, On
  <2>5. /\ On(t, {"local", "records", "removed", "refused", "buffer", "timer", "inbox"})
        /\ t.local = s.store.local /\ t.buffer = s.store.buffer /\ t.records = s.store.records \cap listed
        /\ t.removed = s.store.removed /\ t.refused = s.store.refused
    BY <1>0 DEF On
  <2> HIDE DEF d, t
  <2>6. ClientTyped(d)
    BY <1>0, <2>3, <2>4 DEF ClientTyped
  <2>7. /\ Typed(b) /\ b.client = d /\ b.source = s.source /\ b.link = s.link
        /\ b.store = s.store /\ b.handler = s.handler
    BY <2>4, <2>6, ClientChanged
  <2> HIDE DEF b
  <2>8. /\ Typed(e) /\ e.client = d /\ e.source = s.source /\ e.link = s.link
        /\ e.store = t /\ e.handler = s.handler
    BY <2>5, <2>7, StoreChanged
  <2> HIDE DEF e
  <2>9. Typed(m) /\ Beside(e, m) /\ m.store = t
    BY <2>8, ProcessedFields DEF m
  <2>10. Asking(m, asked)
    BY <1>4, <2>3, <2>4, <2>5, <2>8, <2>9 DEF Asking, Beside
  <2> QED
    BY <1>4, <2>0, <2>4, <2>5, <2>8, <2>9, <2>10 DEF Beside, SameRequest, n
<1> QED
  BY <1>2, <1>3, <1>4

\* The next state is sound, and the step to it does nothing wrong.
Taken(asked) == \E n : Become(n) /\ Sound(n, asked) /\ Proper(Now, n, asked)

\* RETR or TOP has been sent for message u.
Asks(s, n, u) ==
  /\ Typed(n) /\ n.store = s.store /\ n.source = s.source /\ SameRequest(s, n)
  /\ n.link.state = s.link.state /\ n.link.marked = s.link.marked
  /\ n.client.status = IF Whole(s.client, u) THEN "Retr" ELSE "Top"
  /\ n.client.running = FALSE /\ n.client.uid = u
  /\ n.client.selected = s.client.selected /\ n.client.deleting = s.client.deleting
  /\ n.client.testing = s.client.testing /\ n.client.limit = s.client.limit
  /\ n.client.selection = s.client.selection /\ n.client.existing = s.client.existing
  /\ n.client.left = s.client.left /\ n.client.obsolete = s.client.obsolete

\* Fetch asks for the message, by RETR or by TOP.
LEMMA FetchFields ==
  ASSUME NEW s, Typed(s), NEW u \in Uid, Fetch(s, u)
  PROVE  \E n : Become(n) /\ Asks(s, n, u)
<1> DEFINE d == [s.client EXCEPT !.uid = u]
           c == [s EXCEPT !.client.uid = u]
           st == IF Whole(s.client, u) THEN "Retr" ELSE "Top"
           command == IF Whole(s.client, u) THEN "RETR" ELSE "TOP"
<1>0. Formed(s) /\ ClientTyped(s.client)
  BY DEF Typed
<1>1. c = [s EXCEPT !.client = d]
  BY <1>0 DEF Formed, On
<1>2. /\ On(d, {"status", "running", "selected", "deleting", "testing", "pendingDeletes", "timer",
                "limit", "numbers", "newUids", "obsolete", "selection", "existing", "left", "uid"})
      /\ SameTask([s.client EXCEPT !.uid = u], d) /\ d.uid = u
      /\ d.selected = s.client.selected /\ d.deleting = s.client.deleting
      /\ d.testing = s.client.testing /\ d.limit = s.client.limit /\ d.numbers = s.client.numbers
      /\ d.selection = s.client.selection /\ d.existing = s.client.existing /\ d.newUids = s.client.newUids
      /\ d.left = s.client.left /\ d.obsolete = s.client.obsolete
  BY <1>0 DEF SameTask, Formed, On
<1>3. Send(c, st, command, s.client.numbers[u]) /\ command # "DELE"
  BY DEF Fetch
<1> HIDE DEF c, d, st, command
<1>4. ClientTyped(d)
  BY <1>0, <1>2 DEF ClientTyped
<1>5. /\ Typed(c) /\ c.client = d /\ c.source = s.source /\ c.link = s.link
      /\ c.store = s.store /\ c.handler = s.handler
  BY <1>1, <1>2, <1>4, ClientChanged
<1>7. Sent(c, st, command, s.client.numbers[u])
  BY <1>3, <1>5, SendFields
<1>6. PICK n : Become(n) /\ Moved(c, n, st) /\ n.client.running = FALSE /\ n.link.marked = c.link.marked
  BY <1>3, <1>7 DEF Sent
<1> QED
  BY <1>2, <1>5, <1>6 DEF Moved, SameRequest, Asks, st

\* What is left of a list when its first n elements have been taken.
LEMMA Rest ==
  ASSUME NEW S, NEW q \in Seq(S), NEW n \in 0 .. Len(q)
  PROVE  LET r == SubSeq(q, n + 1, Len(q))
         IN /\ r \in Seq(S)
            /\ \A k \in DOMAIN r : \E j \in DOMAIN q : r[k] = q[j]
            /\ \A j \in DOMAIN q : j \in 1 .. n \/ InList(q[j], r)
            /\ n = Len(q) => r = <<>>
<1> DEFINE r == SubSeq(q, n + 1, Len(q))
<1>1. Len(q) \in Nat /\ DOMAIN q = 1 .. Len(q) /\ n \in Nat /\ n <= Len(q) /\ \A k \in 1 .. Len(q) : q[k] \in S
  OBVIOUS
<1>2. n + 1 \in 1 .. Len(q) + 1 /\ Len(q) \in (n + 1) - 1 .. Len(q)
  BY <1>1
<1>3. /\ r \in Seq(S) /\ Len(r) = Len(q) - (n + 1) + 1
      /\ \A k \in 1 .. Len(q) - (n + 1) + 1 : r[k] = q[(n + 1) + k - 1]
  BY <1>2, SubSeqProperties
<1> HIDE DEF r
<1>7. DOMAIN r = 1 .. (Len(q) - n) /\ Len(r) = Len(q) - n
  BY <1>1, <1>3
<1>4. \A k \in DOMAIN r : n + k \in DOMAIN q /\ r[k] = q[n + k]
  <2> TAKE k \in DOMAIN r
  <2>1. (n + 1) + k - 1 = n + k /\ k \in 1 .. Len(q) - (n + 1) + 1 /\ n + k \in DOMAIN q
    BY <1>1, <1>7
  <2> QED
    BY <1>3, <2>1
<1>5. ASSUME NEW j \in DOMAIN q, j \notin 1 .. n
      PROVE  InList(q[j], r)
  <2>1. j - n \in DOMAIN r /\ n + (j - n) = j
    BY <1>1, <1>7, <1>5
  <2>2. r[j - n] = q[j]
    BY <1>4, <2>1
  <2> QED
    BY <2>1, <2>2 DEF InList
<1>6. n = Len(q) => r = <<>>
  <2>1. n = Len(q) => Len(r) = 0
    BY <1>1, <1>7
  <2> QED
    BY <1>3, <2>1
<1> QED
  BY <1>3, <1>4, <1>5, <1>6 DEF r

\* RequestMessage in a listing takes the next new message, or goes on.
LEMMA NewRequested ==
  ASSUME NEW asked, Sound(Now, asked), RequestNew
  PROVE  Taken(asked)
<1>1. client.running /\ client.status = "RequestMessage" /\ ~client.selected
  BY DEF RequestNew, Running
<1>2. Typed(Now) /\ Asking(Now, asked) /\ Locked(Now) /\ link.state = "up" /\ Part(Now)
  BY <1>1, NowFields DEF Sound, InUse
<1>3. handler.request # "delete" /\ ~(handler.request = "retrieve" /\ client.limit = "all")
  BY <1>1, <1>2, NowFields DEF Part, Deleting, Retrieving
<1>4. client.limit = "all" => client.testing
  BY <1>1, <1>2, NowFields DEF Part, AllSelected
<1>5. CASE client.newUids = <<>>
  <2>1. \E st \in {"DeleteMessage", "Done"} : GoOn(Now, st)
    BY <1>5, <1>1, NowFields DEF RequestNew, NothingToFetch
  <2>0. PICK st \in {"DeleteMessage", "Done"} : GoOn(Now, st)
    BY <2>1
  <2>6. Gone(Now, st, Now.client.running)
    BY <1>2, <2>0, GoFields
  <2>2. PICK n : Become(n) /\ Moved(Now, n, st) /\ n.client.running = Now.client.running /\ n.link = Now.link
    BY <2>6 DEF Gone
  <2>3. Part(n)
    BY <1>3, <1>4, <2>2, NowFields DEF Moved, SameRequest, Part, AllSelected, Fetching, Received, Deleting, Retrieving
  <2>4. Sound(n, asked)
    BY <1>2, <2>2, <2>3, MovedSound, NowFields
  <2>5. Proper(Now, n, asked)
    BY <2>2, QuietProper DEF Moved, SameRequest
  <2> QED
    BY <2>2, <2>4, <2>5 DEF Taken
<1>6. CASE client.newUids # <<>>
  <2> DEFINE u == Head(client.newUids)
             d == [client EXCEPT !.newUids = Tail(@)]
             s == [Now EXCEPT !.client.newUids = Tail(@)]
  <2>0. Formed(Now) /\ ClientTyped(client)
    BY <1>2, NowFields DEF Typed
  <2>1. u \in Uid /\ Tail(client.newUids) \in Seq(Uid)
    BY <1>6, <2>0, FirstLine DEF ClientTyped
  <2>2. Fetch(s, u)
    BY <1>1, <1>6 DEF RequestNew
  <2>3. s = [Now EXCEPT !.client = d]
    BY <2>0, NowFields DEF Formed, On
  <2>4. /\ On(d, {"status", "running", "selected", "deleting", "testing", "pendingDeletes", "timer",
                  "limit", "numbers", "newUids", "obsolete", "selection", "existing", "left", "uid"})
        /\ d.newUids = Tail(client.newUids) /\ d.limit = client.limit /\ d.numbers = client.numbers
        /\ d.selected = client.selected /\ d.deleting = client.deleting /\ d.testing = client.testing
        /\ d.selection = client.selection /\ d.existing = client.existing
        /\ d.left = client.left /\ d.obsolete = client.obsolete
    BY <2>0, NowFields DEF Formed, On
  <2> HIDE DEF s, d, u
  <2>5. ClientTyped(d)
    BY <2>0, <2>1, <2>4 DEF ClientTyped
  <2>6. /\ Typed(s) /\ s.client = d /\ s.source = Now.source /\ s.link = Now.link
        /\ s.store = Now.store /\ s.handler = Now.handler
    BY <1>2, <2>3, <2>4, <2>5, ClientChanged, NowFields
  <2>7. PICK n : Become(n) /\ Asks(s, n, u)
    BY <2>1, <2>2, <2>6, FetchFields
  <2>8. AllSelected(n) /\ Received(n)
    BY <1>4, <2>4, <2>6, <2>7 DEF AllSelected, Received, Asks
  <2>9. Fetching(n)
    BY <2>1, <2>4, <2>6, <2>7 DEF Fetching, Whole, Asks
  <2>10. Deleting(n) /\ Retrieving(n)
    BY <1>3, <2>4, <2>6, <2>7, NowFields DEF Deleting, Retrieving, SameRequest, Asks
  <2>11. Asking(n, asked) /\ Locked(n)
    BY <1>2, <2>4, <2>6, <2>7, NowFields DEF Asking, Locked, SameRequest, Asks
  <2>12. Sound(n, asked)
    BY <2>7, <2>8, <2>9, <2>10, <2>11 DEF Sound, Part, Asks
  <2>13. Proper(Now, n, asked)
    BY <2>6, <2>7, QuietProper DEF SameRequest, Asks
  <2> QED
    BY <2>7, <2>12, <2>13 DEF Taken
<1> QED
  BY <1>5, <1>6

\* Those of the selection that have no position are passed by.
Passed(s, gone, n) ==
  /\ Typed(n) /\ n.source = s.source /\ n.link = s.link /\ SameRequest(s, n)
  /\ n.client = [s.client EXCEPT !.left = s.client.left \ gone]
  /\ n.client.left = s.client.left \ gone
  /\ n.store.local = s.store.local /\ n.store.buffer = s.store.buffer /\ n.store.records = s.store.records
  /\ n.store.refused = s.store.refused
  /\ n.store.removed = s.store.removed \cup (gone \cap s.client.existing)

\* Those of a selection that the server has not listed are passed by.
LEMMA PassedBy ==
  ASSUME NEW s, Typed(s), NEW gone, gone \subseteq s.client.left, NEW n,
         n = MessageProcessed([s EXCEPT !.client.left = @ \ gone,
                                        !.store.removed = @ \cup (gone \cap s.client.existing)], gone)
  PROVE  Passed(s, gone, n)
<1> DEFINE left == s.client.left \ gone
           removed == s.store.removed \cup (gone \cap s.client.existing)
           d == [s.client EXCEPT !.left = left]
           t == [s.store EXCEPT !.removed = removed]
           a == [s EXCEPT !.client = d]
           b == [a EXCEPT !.store = t]
<1>0. Formed(s) /\ ClientTyped(s.client)
      /\ On(s.store, {"local", "records", "removed", "refused", "buffer", "timer", "inbox"})
  BY DEF Typed, StoreTyped
<1>1. b = [s EXCEPT !.client.left = @ \ gone, !.store.removed = @ \cup (gone \cap s.client.existing)]
  BY <1>0 DEF Formed, On
<1>2. /\ On(d, {"status", "running", "selected", "deleting", "testing", "pendingDeletes", "timer",
                "limit", "numbers", "newUids", "obsolete", "selection", "existing", "left", "uid"})
      /\ d.newUids = s.client.newUids /\ d.numbers = s.client.numbers /\ d.left = left
      /\ d.selection = s.client.selection /\ d.existing = s.client.existing /\ d.obsolete = s.client.obsolete
  BY <1>0 DEF Formed, On
<1>3. /\ On(t, {"local", "records", "removed", "refused", "buffer", "timer", "inbox"})
      /\ t.local = s.store.local /\ t.buffer = s.store.buffer /\ t.records = s.store.records
      /\ t.refused = s.store.refused /\ t.removed = removed
  BY <1>0 DEF On
<1> HIDE DEF a, b, t, removed
<1>4. ClientTyped(d)
  BY <1>0, <1>2 DEF ClientTyped
<1> HIDE DEF left, d
<1>5. /\ Typed(a) /\ a.client = d /\ a.source = s.source /\ a.link = s.link /\ a.store = s.store /\ a.handler = s.handler
  BY <1>2, <1>4, ClientChanged DEF a
<1>6. /\ Typed(b) /\ b.client = d /\ b.source = s.source /\ b.link = s.link /\ b.store = t /\ b.handler = s.handler
  BY <1>3, <1>5, StoreChanged DEF b
<1>7. n = MessageProcessed(b, gone)
  BY <1>1
<1>8. Typed(n) /\ Beside(b, n) /\ n.store = t
  BY <1>6, <1>7, ProcessedFields
<1> QED
  BY <1>2, <1>3, <1>6, <1>8 DEF Beside, SameRequest, d, left, removed, Passed

\* RequestMessage on a selection takes the next listed, and passes by those before it.
LEMMA SelectedRequested ==
  ASSUME NEW asked, Sound(Now, asked), RequestSelected
  PROVE  Taken(asked)
<1> DEFINE there == {u \in client.left : client.numbers[u] # 0}
           gone  == {u \in client.left : \A v \in there : u < v}
           s == MessageProcessed([Now EXCEPT !.client.left = @ \ gone,
                                             !.store.removed = @ \cup (gone \cap client.existing)], gone)
           e == [s EXCEPT !.client.left = @ \ {Min(there)}]
<1>1. client.running /\ client.status = "RequestMessage" /\ client.selected
  BY DEF RequestSelected, Running
<1>2. Typed(Now) /\ Asking(Now, asked) /\ Locked(Now) /\ link.state = "up" /\ Part(Now)
  BY <1>1, NowFields DEF Sound, InUse
<1>3. IF there = {} THEN NothingToFetch(s) ELSE Fetch(e, Min(there))
  BY DEF RequestSelected
<1>4. gone \subseteq client.left /\ there \subseteq client.left /\ client.left \in SUBSET Uid
  BY <1>2, NowFields DEF Typed, ClientTyped
<1>5. there = {} => gone = client.left
  OBVIOUS
<1> HIDE DEF there, gone
<1>6. /\ Typed(s) /\ s.source = source /\ s.link = link /\ SameRequest(Now, s)
      /\ s.client = [client EXCEPT !.left = client.left \ gone]
      /\ s.client.left = client.left \ gone
      /\ s.store.local = store.local /\ s.store.buffer = store.buffer /\ s.store.records = store.records
      /\ s.store.refused = store.refused
      /\ s.store.removed = store.removed \cup (gone \cap client.existing)
  <2> DEFINE w == Now
             r == MessageProcessed([w EXCEPT !.client.left = @ \ gone,
                                             !.store.removed = @ \cup (gone \cap w.client.existing)], gone)
  <2>1. Typed(w) /\ gone \subseteq w.client.left
    BY <1>2, <1>4, NowFields
  <2>2. r = s
    BY NowFields
  <2> HIDE DEF w, r, s
  <2>3. Passed(w, gone, r)
    BY <2>1, PassedBy DEF r
  <2> QED
    BY <2>2, <2>3, NowFields DEF w, Passed
<1> HIDE DEF s
<1>7. /\ s.client.status = client.status /\ s.client.running = client.running /\ s.client.selected = client.selected
      /\ s.client.deleting = client.deleting /\ s.client.testing = client.testing /\ s.client.limit = client.limit
      /\ s.client.selection = client.selection /\ s.client.existing = client.existing
      /\ s.client.obsolete = client.obsolete /\ s.client.newUids = client.newUids /\ s.client.numbers = client.numbers
  BY <1>2, <1>6, NowFields DEF Typed, Formed, On
<1>8. Asking(s, asked) /\ Locked(s)
  BY <1>2, <1>6, <1>7, NowFields DEF Asking, Locked, SameRequest
<1>9. ASSUME NEW u, Complete(store, u)
      PROVE  Complete(s.store, u)
  BY <1>6, <1>9, SamePresence
<1>10. ASSUME NEW u \in gone, Ready(Now, u)
       PROVE  Complete(s.store, u)
  <2>1. CASE u \in client.existing
    BY <1>6, <2>1 DEF Complete
  <2>2. CASE Absent(store, u)
    <3>1. u \in Uid /\ StoreTyped(store)
      BY <1>2, <1>4, NowFields DEF Typed
    <3>2. Complete(store, u)
      BY <2>2, <3>1, AbsentComplete
    <3> QED
      BY <1>9, <3>2
  <2> QED
    BY <1>10, <2>1, <2>2, NowFields DEF Ready
<1>11. ASSUME NEW u
       PROVE  /\ Absent(s.store, u) <=> Absent(store, u)
              /\ Unadded(s.store, u) <=> Unadded(store, u)
              /\ Ready(s, u) <=> Ready(Now, u)
  <2>1. (Absent(s.store, u) <=> Absent(store, u)) /\ (Unadded(s.store, u) <=> Unadded(store, u))
    BY <1>6, SamePresence
  <2> QED
    BY <1>7, <2>1, NowFields DEF Ready
<1>12. handler.request = "delete" =>
         /\ client.selected /\ client.deleting /\ ~client.testing /\ client.left = {}
         /\ \A u \in client.selection : Unadded(store, u) /\ (Absent(store, u) \/ InList(u, client.obsolete))
  BY <1>1, <1>2, NowFields DEF Part, Deleting, DeletedOrListed, Before
<1>13. handler.request = "retrieve" /\ client.limit = "all" =>
         /\ client.selected /\ ~client.deleting /\ ~client.testing
         /\ \A u \in client.selection : (u \in client.left /\ Ready(Now, u)) \/ Complete(store, u)
  BY <1>1, <1>2, NowFields DEF Part, Retrieving, LeftOrComplete, Before
<1>14. CASE there = {}
  <2> DEFINE st == IF s.client.obsolete # <<>> THEN "DeleteMessage" ELSE "Done"
  <2>1. GoOn(s, st) /\ st \in {"DeleteMessage", "Done"}
    BY <1>3, <1>14 DEF NothingToFetch
  <2>0. st = "Done" => client.obsolete = <<>>
    BY <1>7
  <2> HIDE DEF st
  <2>2. Gone(s, st, s.client.running)
    BY <1>6, <2>1, GoFields
  <2>3. PICK n : Become(n) /\ Moved(s, n, st) /\ n.link = s.link
    BY <2>2 DEF Gone
  <2>4. AllSelected(n) /\ Fetching(n) /\ Received(n)
    BY <1>1, <1>7, <2>1, <2>3 DEF Moved, AllSelected, Fetching, Received
  <2>5. Deleting(n)
    <3> SUFFICES ASSUME handler.request = "delete"
                 PROVE  Deleting(n)
      BY <1>6, <2>3, NowFields DEF Deleting, Moved, SameRequest
    <3>1. /\ n.client.selected /\ n.client.deleting /\ ~n.client.testing /\ n.client.left = {}
          /\ n.client.selection = client.selection /\ n.client.obsolete = client.obsolete /\ n.store = s.store
          /\ n.client.status = st
      BY <1>6, <1>7, <1>12, <2>3 DEF Moved
    <3>2. \A u \in client.selection : Unadded(s.store, u) /\ (Absent(s.store, u) \/ InList(u, client.obsolete))
      BY <1>11, <1>12
    <3>3. CASE st = "Done"
      <4>1. \A u \in client.selection : Absent(s.store, u)
        BY <2>0, <3>2, <3>3 DEF InList
      <4> QED
        BY <3>1, <3>2, <3>3, <4>1 DEF Deleting
    <3>4. CASE st = "DeleteMessage"
      BY <3>1, <3>2, <3>4 DEF Deleting, DeletedOrListed
    <3> QED
      BY <2>1, <3>3, <3>4
  <2>6. Retrieving(n)
    <3> SUFFICES ASSUME handler.request = "retrieve", client.limit = "all"
                 PROVE  Retrieving(n)
      BY <1>6, <1>7, <2>3, NowFields DEF Retrieving, Moved, SameRequest
    <3>1. \A u \in client.selection : Complete(s.store, u)
      BY <1>5, <1>9, <1>10, <1>13, <1>14
    <3> QED
      BY <1>7, <1>13, <2>1, <2>3, <3>1 DEF Retrieving, Moved
  <2>7. Part(n)
    BY <2>4, <2>5, <2>6 DEF Part
  <2>8. Sound(n, asked)
    BY <1>2, <1>6, <1>8, <2>3, <2>7, MovedSound
  <2>9. Proper(Now, n, asked)
    <3>1. n.link.marked \subseteq Now.link.marked /\ n.handler.request = Now.handler.request
      BY <1>6, <2>3, NowFields DEF Moved, SameRequest
    <3> QED
      BY <3>1, QuietProper
  <2> QED
    BY <2>3, <2>8, <2>9 DEF Taken
<1>15. CASE there # {}
  <2> DEFINE u == Min(there)
             left == s.client.left \ {u}
             d == [s.client EXCEPT !.left = left]
  <2>1. u \in there
    BY <1>4, <1>15, PopAssumption, Ends DEF Uid
  <2> HIDE DEF u
  <2>2. Fetch(e, u)
    BY <1>3, <1>15 DEF u
  <2>3. e = [s EXCEPT !.client = d]
    BY <1>6 DEF Typed, Formed, On, u
  <2>4. /\ On(d, {"status", "running", "selected", "deleting", "testing", "pendingDeletes", "timer",
                  "limit", "numbers", "newUids", "obsolete", "selection", "existing", "left", "uid"})
        /\ d.newUids = client.newUids /\ d.limit = client.limit /\ d.numbers = client.numbers
        /\ d.selected = client.selected /\ d.deleting = client.deleting /\ d.testing = client.testing
        /\ d.selection = client.selection /\ d.existing = client.existing
        /\ d.left = left /\ d.obsolete = client.obsolete
    BY <1>6, <1>7 DEF Typed, Formed, On
  <2> HIDE DEF e, d
  <2>5. ClientTyped(d)
    BY <1>6, <1>7, <2>4 DEF Typed, ClientTyped
  <2> HIDE DEF left
  <2>6. /\ Typed(e) /\ e.client = d /\ e.source = s.source /\ e.link = s.link
        /\ e.store = s.store /\ e.handler = s.handler
    <3>1. Typed(s)
      BY <1>6
    <3>2. d.numbers = s.client.numbers /\ d.existing \subseteq s.client.existing
      BY <1>7, <2>4
    <3> QED
      BY <2>3, <2>4, <2>5, <3>1, <3>2, ClientChanged
  <2>7. u \in Uid
    BY <1>4, <2>1
  <2>8. PICK n : Become(n) /\ Asks(e, n, u)
    BY <2>2, <2>6, <2>7, FetchFields
  <2>9. AllSelected(n) /\ Received(n)
    BY <1>1, <2>4, <2>6, <2>8 DEF AllSelected, Received, Asks
  <2>10. Fetching(n)
    BY <2>4, <2>6, <2>7, <2>8 DEF Fetching, Whole, Asks
  <2>11. Deleting(n)
    <3>1. handler.request # "delete"
      BY <1>4, <1>12, <2>1
    <3> QED
      BY <1>6, <2>6, <2>8, <3>1, NowFields DEF Deleting, SameRequest, Asks
  <2>12. Retrieving(n)
    <3> SUFFICES ASSUME handler.request = "retrieve", client.limit = "all"
                 PROVE  Retrieving(n)
      BY <1>6, <2>4, <2>6, <2>8, NowFields DEF Retrieving, Asks, SameRequest
    <3>1. n.client.status = "Retr" /\ n.client.uid = u
      BY <2>4, <2>6, <2>8 DEF Asks, Whole
    <3>2. /\ n.client.selected /\ ~n.client.deleting /\ ~n.client.testing
          /\ n.client.selection = client.selection /\ n.client.left = left /\ n.store = s.store
          /\ n.client.existing = client.existing
      BY <1>13, <2>4, <2>6, <2>8 DEF Asks
    <3>3. ASSUME NEW v \in client.selection
          PROVE  LeftOrComplete(n, v)
      <4>1. CASE Complete(store, v)
        BY <1>9, <3>2, <4>1 DEF LeftOrComplete
      <4>2. CASE v \in client.left /\ Ready(Now, v)
        <5>1. Ready(n, v)
          BY <1>7, <1>11, <3>2, <4>2 DEF Ready
        <5>2. CASE v \in gone
          BY <1>10, <3>2, <4>2, <5>2 DEF LeftOrComplete
        <5>3. CASE v = u
          BY <3>1, <5>1, <5>3 DEF LeftOrComplete
        <5>4. CASE v \notin gone /\ v # u
          BY <1>6, <3>2, <4>2, <5>1, <5>4 DEF LeftOrComplete, left
        <5> QED
          BY <5>2, <5>3, <5>4
      <4> QED
        BY <1>13, <4>1, <4>2
    <3> QED
      BY <3>1, <3>2, <3>3 DEF Retrieving
  <2>13. Asking(n, asked) /\ Locked(n)
    BY <1>7, <1>8, <2>4, <2>6, <2>8 DEF Asking, Locked, SameRequest, Asks
  <2>14. Sound(n, asked)
    BY <2>8, <2>9, <2>10, <2>11, <2>12, <2>13 DEF Sound, Part, Asks
  <2>15. Proper(Now, n, asked)
    <3>1. n.link.marked \subseteq Now.link.marked /\ n.handler.request = Now.handler.request
      BY <1>6, <2>6, <2>8, NowFields DEF Asks, SameRequest
    <3> QED
      BY <3>1, QuietProper
  <2> QED
    BY <2>8, <2>14, <2>15 DEF Taken
<1> QED
  BY <1>14, <1>15

\* The first n of those to be deleted are taken from the list.
FirstOf(s, n) == {s.client.obsolete[k] : k \in 1 .. n}
NotThere(s, n) == {v \in FirstOf(s, n) : s.client.numbers[v] = 0}
ListCut(s, n) ==
  [s EXCEPT !.client.obsolete = SubSeq(@, n + 1, Len(@)), !.store.records = @ \ FirstOf(s, n)]
FirstTaken(s, n) == IF s.client.deleting THEN RemoveLocal(ListCut(s, n), NotThere(s, n)) ELSE ListCut(s, n)

TakenOff(s, n, asked, m) ==
  /\ Typed(m) /\ Asking(m, asked) /\ m.source = s.source /\ m.link = s.link /\ SameRequest(s, m)
  /\ m.client.status = s.client.status /\ m.client.running = s.client.running
  /\ m.client.selected = s.client.selected /\ m.client.deleting = s.client.deleting
  /\ m.client.testing = s.client.testing /\ m.client.limit = s.client.limit
  /\ m.client.selection = s.client.selection /\ m.client.left = s.client.left
  /\ m.client.numbers = s.client.numbers
  /\ m.client.obsolete = SubSeq(s.client.obsolete, n + 1, Len(s.client.obsolete))
  /\ \A u \in Uid : /\ Unadded(s.store, u) => Unadded(m.store, u)
                    /\ Absent(s.store, u) => Absent(m.store, u)
                    /\ Complete(s.store, u) => Complete(m.store, u)
  /\ s.client.deleting => \A u \in NotThere(s, n) : Unadded(s.store, u) => Absent(m.store, u)

\* DeleteMessage takes messages from its list, and removes those without a position.
LEMMA TakenFields ==
  ASSUME NEW s, NEW asked, Typed(s), Asking(s, asked), NEW n \in 0 .. Len(s.client.obsolete)
  PROVE  TakenOff(s, n, asked, FirstTaken(s, n))
<1> DEFINE q == s.client.obsolete
           a == ListCut(s, n)
           m == FirstTaken(s, n)
           r == SubSeq(q, n + 1, Len(q))
           records == s.store.records \ FirstOf(s, n)
           d == [s.client EXCEPT !.obsolete = r]
           t == [s.store EXCEPT !.records = records]
           b == [s EXCEPT !.client = d]
           e == [b EXCEPT !.store = t]
           gone == NotThere(s, n)
<1>0. Formed(s) /\ ClientTyped(s.client)
      /\ On(s.store, {"local", "records", "removed", "refused", "buffer", "timer", "inbox"})
  BY DEF Typed, StoreTyped
<1>1. e = a
  BY <1>0 DEF Formed, On, ListCut
<1>20. m = IF s.client.deleting THEN RemoveLocal(a, gone) ELSE a
  BY DEF FirstTaken
<1> HIDE DEF a, m
<1>2. r \in Seq(Uid) /\ \A k \in DOMAIN r : \E j \in DOMAIN q : r[k] = q[j]
  <2>1. q \in Seq(Uid)
    BY <1>0 DEF ClientTyped
  <2> HIDE DEF q
  <2>2. n \in 0 .. Len(q)
    BY DEF q
  <2> QED
    BY <2>1, <2>2, Rest
<1> HIDE DEF r
<1>3. /\ On(d, {"status", "running", "selected", "deleting", "testing", "pendingDeletes", "timer",
                "limit", "numbers", "newUids", "obsolete", "selection", "existing", "left", "uid"})
      /\ d.status = s.client.status /\ d.running = s.client.running /\ d.selected = s.client.selected
      /\ d.deleting = s.client.deleting /\ d.testing = s.client.testing /\ d.limit = s.client.limit
      /\ d.newUids = s.client.newUids /\ d.numbers = s.client.numbers /\ d.left = s.client.left
      /\ d.selection = s.client.selection /\ d.existing = s.client.existing /\ d.obsolete = r
  BY <1>0 DEF Formed, On
<1>4. /\ On(t, {"local", "records", "removed", "refused", "buffer", "timer", "inbox"})
      /\ t.local = s.store.local /\ t.buffer = s.store.buffer /\ t.records = records
      /\ t.refused = s.store.refused /\ t.removed = s.store.removed
  BY <1>0 DEF On
<1> HIDE DEF d, t
<1>5. ClientTyped(d) /\ d.existing \subseteq s.client.existing
  BY <1>0, <1>2, <1>3 DEF ClientTyped
<1>6. Typed(b) /\ b.client = d /\ b.source = s.source /\ b.link = s.link /\ b.store = s.store /\ b.handler = s.handler
  BY <1>3, <1>5, ClientChanged
<1> HIDE DEF b
<1>7. Typed(e) /\ e.client = d /\ e.source = s.source /\ e.link = s.link /\ e.store = t /\ e.handler = s.handler
  BY <1>4, <1>6, StoreChanged
<1> HIDE DEF e
<1>8. \A u \in Uid : /\ Unadded(s.store, u) => Unadded(t, u)
                     /\ Absent(s.store, u) => Absent(t, u)
                     /\ Complete(s.store, u) => Complete(t, u)
  BY <1>4, SamePresence
<1>9. Asking(e, asked)
  BY <1>2, <1>3, <1>4, <1>7 DEF Asking, records
<1>10. CASE ~s.client.deleting
  BY <1>1, <1>20, <1>3, <1>7, <1>8, <1>9, <1>10 DEF TakenOff, SameRequest, r, m
<1>11. CASE s.client.deleting
  <2>1. m = RemoveLocal(e, gone)
    BY <1>1, <1>20, <1>11
  <2>0. Without(e, gone, m)
    BY <1>7, <2>1, RemoveFields
  <2>2. /\ Typed(m) /\ m.source = e.source /\ m.link = e.link /\ SameRequest(e, m)
        /\ m.client = [e.client EXCEPT !.existing = e.client.existing \ gone]
        /\ m.client.existing = e.client.existing \ gone
        /\ m.store = Cleared(e.store, gone)
    BY <2>0 DEF Without
  <2> HIDE DEF gone
  <2>3. /\ m.store.records = t.records
        /\ \A u \in Uid : /\ u \in gone => m.store.local[u] = "none"
                          /\ Unadded(t, u) => Unadded(m.store, u)
                          /\ Absent(t, u) => Absent(m.store, u)
                          /\ Complete(t, u) => Complete(m.store, u)
    <3>1. StoreTyped(t)
      BY <1>7 DEF Typed
    <3> HIDE DEF t
    <3> DEFINE x == Cleared(t, gone)
    <3>2. /\ x.records = t.records
          /\ \A u \in Uid : /\ u \in gone => x.local[u] = "none"
                            /\ Unadded(t, u) => Unadded(x, u)
                            /\ Absent(t, u) => Absent(x, u)
                            /\ Complete(t, u) => Complete(x, u)
      BY <3>1, ClearedStore
    <3>3. m.store = x
      BY <1>7, <2>2
    <3> HIDE DEF x
    <3> QED
      BY <3>2, <3>3
  <2>4. /\ m.client.status = d.status /\ m.client.running = d.running /\ m.client.selected = d.selected
        /\ m.client.deleting = d.deleting /\ m.client.testing = d.testing /\ m.client.limit = d.limit
        /\ m.client.numbers = d.numbers /\ m.client.left = d.left
        /\ m.client.selection = d.selection /\ m.client.obsolete = r
    BY <1>3, <1>7, <2>2 DEF On
  <2>5. Asking(m, asked)
    BY <1>3, <1>4, <1>7, <1>9, <2>3, <2>4 DEF Asking
  <2>6. gone \subseteq Uid
    <3>1. \A k \in 1 .. n : q[k] \in Uid
      BY <1>0 DEF ClientTyped
    <3> QED
      BY <3>1 DEF gone, NotThere, FirstOf
  <2>7. \A u \in gone : Unadded(s.store, u) => Absent(m.store, u)
    BY <1>8, <2>3, <2>6 DEF Absent
  <2>8. \A u \in Uid : /\ Unadded(s.store, u) => Unadded(m.store, u)
                       /\ Absent(s.store, u) => Absent(m.store, u)
                       /\ Complete(s.store, u) => Complete(m.store, u)
    BY <1>8, <2>3
  <2>9. /\ m.source = s.source /\ m.link = s.link /\ SameRequest(s, m)
    BY <1>7, <2>2 DEF SameRequest
  <2> QED
    BY <1>3, <2>2, <2>4, <2>5, <2>7, <2>8, <2>9 DEF TakenOff, r, gone, m
<1> QED
  BY <1>10, <1>11

\* What DELE marks: the message that has the position, when it is current.
LEMMA MarksOne ==
  ASSUME NEW s, Typed(s), Current(s), NEW u \in Uid
  PROVE  At(s.client.numbers[u], s.link.drop) \subseteq {u}
<1>1. s.link.drop \in SUBSET Uid
  BY DEF Typed, Formed
<1>2. CASE s.client.numbers[u] = 0
  BY <1>1, <1>2, OneThere
<1>3. CASE s.client.numbers[u] # 0
  BY <1>1, <1>3, OneThere DEF Current
<1> QED
  BY <1>2, <1>3

\* DeleteMessage: what remains of those that were to be deleted.
LEMMA StillListed ==
  ASSUME NEW s, Typed(s), NEW asked, NEW n \in 0 .. Len(s.client.obsolete), NEW m, TakenOff(s, n, asked, m),
         s.client.deleting, NEW v \in Uid, Unadded(s.store, v), Absent(s.store, v) \/ InList(v, s.client.obsolete)
  PROVE  \/ Absent(m.store, v)
         \/ InList(v, m.client.obsolete)
         \/ \E k \in 1 .. n : s.client.obsolete[k] = v /\ s.client.numbers[v] # 0
<1> DEFINE q == s.client.obsolete
           r == SubSeq(q, n + 1, Len(q))
<1>1. CASE Absent(s.store, v)
  BY <1>1 DEF TakenOff
<1>2. CASE InList(v, q)
  <2>1. PICK j \in DOMAIN q : q[j] = v
    BY <1>2 DEF InList
  <2>2. j \in 1 .. n \/ InList(v, r)
    <3>1. q \in Seq(Uid) /\ n \in 0 .. Len(q)
      BY DEF Typed, ClientTyped
    <3>2. j \in DOMAIN q /\ q[j] = v
      BY <2>1
    <3> HIDE DEF q
    <3>3. \A i \in DOMAIN q : i \in 1 .. n \/ InList(q[i], r)
      BY <3>1, Rest
    <3> QED
      BY <3>2, <3>3
  <2>3. m.client.obsolete = r
    BY DEF TakenOff
  <2>4. CASE j \in 1 .. n /\ s.client.numbers[v] = 0
    <3>1. v \in NotThere(s, n)
      BY <2>1, <2>4 DEF NotThere, FirstOf
    <3> QED
      BY <3>1 DEF TakenOff
  <2> QED
    BY <2>1, <2>2, <2>3, <2>4
<1> QED
  BY <1>1, <1>2

\* DeleteMessage deletes the next of its list that has a position.
LEMMA NextDeleted ==
  ASSUME NEW asked, Sound(Now, asked), DeleteMessage
  PROVE  Taken(asked)
<1> DEFINE q == client.obsolete
           there == {k \in DOMAIN q : client.numbers[q[k]] # 0}
           i == IF there = {} THEN Len(q) ELSE Min(there)
           u == q[i]
           a == [Now EXCEPT !.client.obsolete = SubSeq(@, i + 1, Len(@)),
                            !.store.records = @ \ {client.obsolete[k] : k \in 1 .. i}]
           s == IF client.deleting THEN RemoveLocal(a, {v \in {client.obsolete[k] : k \in 1 .. i} : client.numbers[v] = 0})
                ELSE a
           e == [s EXCEPT !.client.uid = u, !.client.pendingDeletes = TRUE]
<1>1. client.running /\ client.status = "DeleteMessage"
  BY DEF DeleteMessage, Running
<1>2. Typed(Now) /\ Asking(Now, asked) /\ Locked(Now) /\ link.state = "up" /\ Part(Now)
  BY <1>1, NowFields DEF Sound, InUse
<1>3. IF there = {} THEN GoOn(s, "Done") ELSE Send(e, "Dele", "DELE", client.numbers[u])
  BY DEF DeleteMessage
<1>4. q \in Seq(Uid) /\ DOMAIN q = 1 .. Len(q) /\ Len(q) \in Nat /\ \A k \in DOMAIN q : q[k] \in Uid
  BY <1>2, NowFields DEF Typed, ClientTyped
<1>5. /\ i \in 0 .. Len(q)
      /\ there # {} => i \in there /\ \A k \in there : i <= k
  <2>1. CASE there = {}
    BY <1>4, <2>1
  <2>2. CASE there # {}
    <3>1. there \subseteq 1 .. Len(q)
      BY <1>4
    <3>2. Min(there) \in there /\ \A k \in there : Min(there) <= k
      BY <1>4, <2>2, <3>1, Ends
    <3>3. i = Min(there)
      BY <2>2
    <3> HIDE DEF i, there
    <3>4. \A k \in there : i <= k
      BY <3>2, <3>3, Zenon
    <3>5. i \in there
      BY <3>2, <3>3
    <3>6. i \in 0 .. Len(q)
      BY <1>4, <3>1, <3>5
    <3> QED
      BY <3>4, <3>5, <3>6, Zenon
  <2> QED
    BY <2>1, <2>2
<1> HIDE DEF i
<1>6. TakenOff(Now, i, asked, s)
  <2>1. s = FirstTaken(Now, i)
    BY NowFields DEF FirstOf, NotThere, ListCut, FirstTaken
  <2>2. i \in 0 .. Len(Now.client.obsolete)
    BY <1>5, NowFields
  <2> HIDE DEF s
  <2> QED
    BY <1>2, <2>1, <2>2, TakenFields
<1> HIDE DEF s
<1>7. /\ Typed(s) /\ Asking(s, asked) /\ s.source = source /\ s.link = link /\ SameRequest(Now, s)
      /\ s.client.status = client.status /\ s.client.running = client.running
      /\ s.client.selected = client.selected /\ s.client.deleting = client.deleting
      /\ s.client.testing = client.testing /\ s.client.limit = client.limit
      /\ s.client.selection = client.selection /\ s.client.left = client.left
      /\ s.client.numbers = client.numbers /\ s.client.obsolete = SubSeq(q, i + 1, Len(q))
      /\ \A v \in Uid : /\ Unadded(store, v) => Unadded(s.store, v)
                        /\ Complete(store, v) => Complete(s.store, v)
  BY <1>6, NowFields DEF TakenOff
<1>8. Locked(s)
  BY <1>2, <1>7, NowFields DEF Locked, SameRequest
<1>9. client.selection \subseteq Uid
  BY <1>2, NowFields DEF Typed, ClientTyped
<1>10. ASSUME NEW v \in client.selection, handler.request = "delete"
       PROVE  /\ Unadded(s.store, v)
              /\ \/ Absent(s.store, v)
                 \/ InList(v, s.client.obsolete)
                 \/ \E k \in 1 .. i : q[k] = v /\ client.numbers[v] # 0
  <2>1. client.deleting /\ v \in Uid /\ Unadded(store, v) /\ (Absent(store, v) \/ InList(v, q))
    BY <1>1, <1>2, <1>9, <1>10, NowFields DEF Part, Deleting, DeletedOrListed, Before
  <2>2. \/ Absent(s.store, v)
        \/ InList(v, s.client.obsolete)
        \/ \E k \in 1 .. i : Now.client.obsolete[k] = v /\ Now.client.numbers[v] # 0
    <3>1. i \in 0 .. Len(Now.client.obsolete) /\ Now.client.deleting /\ v \in Uid /\ Unadded(Now.store, v)
          /\ (Absent(Now.store, v) \/ InList(v, Now.client.obsolete))
      BY <1>5, <2>1, NowFields
    <3> QED
      BY <1>2, <1>6, <3>1, StillListed
  <2> QED
    BY <1>7, <2>1, <2>2, NowFields
<1>11. handler.request = "delete" =>
         client.selected /\ client.deleting /\ ~client.testing /\ client.left = {}
  BY <1>1, <1>2, NowFields DEF Part, Deleting, Before
<1>12. handler.request = "retrieve" /\ client.limit = "all" =>
         /\ client.selected /\ ~client.deleting /\ ~client.testing
         /\ \A v \in client.selection : Complete(s.store, v)
  BY <1>1, <1>2, <1>7, <1>9, NowFields DEF Part, Retrieving, Before
<1>13. CASE there = {}
  <2> DEFINE st == "Done"
  <2>0. GoOn(s, st)
    BY <1>3, <1>13
  <2> HIDE DEF st
  <2>1. Gone(s, st, s.client.running)
    BY <1>7, <2>0, GoFields
  <2>2. PICK n : Become(n) /\ Moved(s, n, st) /\ n.link = s.link
    BY <2>1 DEF Gone
  <2>3. AllSelected(n) /\ Fetching(n) /\ Received(n)
    BY <1>1, <1>2, <1>7, <2>2, NowFields DEF Moved, Part, AllSelected, Fetching, Received, st
  <2>4. Deleting(n)
    <3> SUFFICES ASSUME handler.request = "delete"
                 PROVE  Deleting(n)
      BY <1>7, <2>2, NowFields DEF Deleting, Moved, SameRequest
    <3>1. s.client.obsolete = <<>>
      <4>1. i = Len(q)
        BY <1>13 DEF i
      <4>2. q \in Seq(Uid) /\ i \in 0 .. Len(q) /\ i = Len(q)
        BY <1>4, <1>5, <4>1
      <4> HIDE DEF q
      <4>3. SubSeq(q, i + 1, Len(q)) = <<>>
        BY <4>2, Rest
      <4> QED
        BY <1>7, <4>3
    <3>2. \A k \in 1 .. i : client.numbers[q[k]] = 0
      BY <1>4, <1>5, <1>13
    <3>3. \A v \in client.selection : Absent(s.store, v) /\ Unadded(s.store, v)
      BY <1>10, <3>1, <3>2 DEF InList
    <3> QED
      BY <1>7, <1>11, <2>2, <3>3 DEF Deleting, Moved, st
  <2>5. Retrieving(n)
    <3> SUFFICES ASSUME handler.request = "retrieve", client.limit = "all"
                 PROVE  Retrieving(n)
      BY <1>7, <2>2, NowFields DEF Retrieving, Moved, SameRequest
    <3> QED
      BY <1>7, <1>12, <2>2 DEF Retrieving, Moved, st
  <2>6. Part(n)
    BY <2>3, <2>4, <2>5 DEF Part
  <2>7. Sound(n, asked)
    BY <1>2, <1>7, <1>8, <2>2, <2>6, MovedSound
  <2>8. Proper(Now, n, asked)
    <3>1. n.link.marked \subseteq Now.link.marked /\ n.handler.request = Now.handler.request
      BY <1>7, <2>2, NowFields DEF Moved, SameRequest
    <3> QED
      BY <3>1, QuietProper
  <2> QED
    BY <2>2, <2>7, <2>8 DEF Taken
<1>14. CASE there # {}
  <2> DEFINE d == [s.client EXCEPT !.uid = u, !.pendingDeletes = TRUE]
             st == "Dele"
  <2>0. Formed(s) /\ ClientTyped(s.client)
    BY <1>7 DEF Typed
  <2>1. Send(e, st, "DELE", client.numbers[u]) /\ u \in Uid /\ client.numbers[u] # 0
    BY <1>3, <1>4, <1>5, <1>14
  <2>2. \A k \in 1 .. i : client.numbers[q[k]] # 0 => q[k] = u
    <3> TAKE k \in 1 .. i
    <3> HAVE client.numbers[q[k]] # 0
    <3>1. k \in there /\ i <= k /\ k <= i /\ k \in Nat /\ i \in Nat
      BY <1>4, <1>5, <1>14
    <3> QED
      BY <3>1
  <2> HIDE DEF u
  <2>3. e = [s EXCEPT !.client = d]
    BY <2>0 DEF Formed, On
  <2>4. /\ On(d, {"status", "running", "selected", "deleting", "testing", "pendingDeletes", "timer",
                  "limit", "numbers", "newUids", "obsolete", "selection", "existing", "left", "uid"})
        /\ d.newUids = s.client.newUids /\ d.limit = s.client.limit /\ d.numbers = s.client.numbers
        /\ d.selected = s.client.selected /\ d.deleting = s.client.deleting /\ d.testing = s.client.testing
        /\ d.selection = s.client.selection /\ d.existing = s.client.existing
        /\ d.left = s.client.left /\ d.obsolete = s.client.obsolete /\ d.uid = u
    BY <2>0 DEF Formed, On
  <2> HIDE DEF e, d, st
  <2>5. ClientTyped(d) /\ d.existing \subseteq s.client.existing
    BY <2>0, <2>4 DEF ClientTyped
  <2>6. Typed(s)
    BY <1>7
  <2>7. /\ Typed(e) /\ e.client = d /\ e.source = s.source /\ e.link = s.link
        /\ e.store = s.store /\ e.handler = s.handler
    BY <2>3, <2>4, <2>5, <2>6, ClientChanged
  <2>8. Sent(e, st, "DELE", client.numbers[u])
    BY <2>1, <2>7, SendFields
  <2>9. PICK n : /\ Become(n) /\ Moved(e, n, st) /\ n.client.running = FALSE
                 /\ \/ n.link.marked = e.link.marked
                    \/ n.link.marked = e.link.marked \cup At(client.numbers[u], e.link.drop)
    BY <2>8 DEF Sent
  <2>10. AllSelected(n) /\ Fetching(n) /\ Received(n)
    BY <1>1, <1>2, <1>7, <2>4, <2>7, <2>9, NowFields DEF Moved, Part, AllSelected, Fetching, Received, st
  <2>11. Deleting(n)
    <3> SUFFICES ASSUME handler.request = "delete"
                 PROVE  Deleting(n)
      BY <1>7, <2>7, <2>9, NowFields DEF Deleting, Moved, SameRequest
    <3>1. /\ n.client.selected /\ n.client.deleting /\ ~n.client.testing /\ n.client.left = {}
          /\ n.client.selection = client.selection /\ n.client.obsolete = s.client.obsolete
          /\ n.client.uid = u /\ n.client.status = "Dele" /\ n.store = s.store
      BY <1>7, <1>11, <2>4, <2>7, <2>9 DEF Moved, st
    <3>2. \A v \in client.selection :
            Unadded(s.store, v) /\ (Absent(s.store, v) \/ InList(v, s.client.obsolete) \/ v = u)
      BY <1>10, <2>2
    <3> QED
      BY <3>1, <3>2 DEF Deleting, DeletedOrListed
  <2>12. Retrieving(n)
    <3> SUFFICES ASSUME handler.request = "retrieve", client.limit = "all"
                 PROVE  Retrieving(n)
      BY <1>7, <2>4, <2>7, <2>9, NowFields DEF Retrieving, Moved, SameRequest
    <3> QED
      BY <1>7, <1>12, <2>4, <2>7, <2>9 DEF Retrieving, Moved, st
  <2>13. Part(n)
    BY <2>10, <2>11, <2>12 DEF Part
  <2>14. Asking(e, asked) /\ Locked(e) /\ e.link.state = "up"
    BY <1>2, <1>7, <1>8, <2>4, <2>7 DEF Asking, Locked
  <2>15. Sound(n, asked)
    BY <2>9, <2>13, <2>14, MovedSound
  <2>16. Proper(Now, n, asked)
    <3>1. u \in asked
      BY <1>2, <1>5, <1>14, NowFields DEF Asking, u
    <3>2. Current(Now) => At(client.numbers[u], link.drop) \subseteq {u}
      BY <1>2, <2>1, MarksOne, NowFields
    <3>3. Justified(Now, n, asked)
      BY <1>7, <2>7, <2>9, <3>1, <3>2, NowFields DEF Justified
    <3>4. Served(Now, n)
      BY <1>7, <2>7, <2>9, NowFields DEF Served, Moved, SameRequest
    <3> QED
      BY <3>3, <3>4 DEF Proper
  <2> QED
    BY <2>9, <2>15, <2>16 DEF Taken
<1> QED
  BY <1>13, <1>14

\* A command that deletes nothing takes the session to the status that follows.
LEMMA SendTaken ==
  ASSUME NEW s, NEW asked, Sound(s, asked), s.link.state = "up", NEW st, Follows(s.client, st),
         NEW command, NEW arg, command # "DELE", Send(s, st, command, arg)
  PROVE  \E n : Become(n) /\ Sound(n, asked) /\ n.link.marked = s.link.marked /\ SameRequest(s, n)
<1>1. Typed(s) /\ Asking(s, asked) /\ Locked(s) /\ Part(s)
  BY DEF Sound, InUse
<1>2. Sent(s, st, command, arg)
  BY <1>1, SendFields
<1>3. PICK n : Become(n) /\ Moved(s, n, st) /\ n.client.running = FALSE /\ n.link.marked = s.link.marked
  BY <1>2 DEF Sent
<1>4. Part(n)
  BY <1>1, <1>3, FollowsPart
<1>5. Sound(n, asked)
  BY <1>1, <1>3, <1>4, MovedSound
<1> QED
  BY <1>3, <1>5 DEF Moved

\* So does nextAction when it goes on or waits.
LEMMA GoTaken ==
  ASSUME NEW asked, Sound(Now, asked), link.state = "up", NEW st, Follows(client, st), st # "MessageDataRetr",
         GoOn(Now, st) \/ Await(Now, st)
  PROVE  Taken(asked)
<1>1. Typed(Now) /\ Asking(Now, asked) /\ Locked(Now) /\ Part(Now) /\ Follows(Now.client, st)
      /\ Now.link.state = "up"
  BY NowFields DEF Sound, InUse
<1>2. PICK r : Gone(Now, st, r)
  BY <1>1, GoFields
<1>3. PICK n : Become(n) /\ Moved(Now, n, st) /\ n.link = Now.link
  BY <1>2 DEF Gone
<1>4. Part(n)
  BY <1>1, <1>3, FollowsPart
<1>5. Sound(n, asked)
  BY <1>1, <1>3, <1>4, MovedSound
<1>6. Proper(Now, n, asked)
  BY <1>3, QuietProper DEF Moved, SameRequest
<1> QED
  BY <1>3, <1>5, <1>6 DEF Taken

\* A command, with the marks that it makes, as a step.
LEMMA SentTaken ==
  ASSUME NEW asked, Sound(Now, asked), link.state = "up", NEW st, Follows(client, st),
         NEW command, NEW arg, command # "DELE", Send(Now, st, command, arg)
  PROVE  Taken(asked)
<1>1. Sound(Now, asked) /\ Now.link.state = "up" /\ Follows(Now.client, st)
  BY NowFields
<1>2. PICK n : Become(n) /\ Sound(n, asked) /\ n.link.marked = Now.link.marked /\ SameRequest(Now, n)
  BY <1>1, SendTaken
<1>3. Proper(Now, n, asked)
  BY <1>2, QuietProper DEF SameRequest
<1> QED
  BY <1>2, <1>3 DEF Taken

\* The dialogue up to the list, and what follows a list, are sound steps.
LEMMA PlainTaken ==
  ASSUME NEW asked, Sound(Now, asked),
         Greeted \/ CapabilitiesFollow \/ LogIn \/ LoggedIn \/ DataFollows \/ SizesKnown
  PROVE  Taken(asked)
<1>1. client.running /\ link.state = "up"
  BY NowFields DEF Sound, Greeted, CapabilitiesFollow, LogIn, LoggedIn, DataFollows, SizesKnown, Running
<1>2. CASE Greeted
  <2>1. Send(Now, "CapabilityTest", "CAPA", 0) /\ Follows(client, "CapabilityTest") /\ "CAPA" # "DELE"
    BY <1>2 DEF Greeted, Running, Follows
  <2> QED
    BY <1>1, <2>1, SentTaken
<1>3. CASE CapabilitiesFollow
  <2>1. Await(Now, "Capabilities") /\ Follows(client, "Capabilities")
    BY <1>3 DEF CapabilitiesFollow, Running, Follows
  <2> QED
    BY <1>1, <2>1, GoTaken
<1>4. CASE LogIn
  <2>1. Send(Now, "Auth", "PASS", 0) /\ Follows(client, "Auth") /\ "PASS" # "DELE"
    BY <1>4 DEF LogIn, Running, Follows
  <2> QED
    BY <1>1, <2>1, SentTaken
<1>5. CASE LoggedIn /\ client.testing
  <2>1. GoOn(Now, "Done") /\ Follows(client, "Done")
    BY <1>5 DEF LoggedIn, Running, Follows
  <2> QED
    BY <1>1, <2>1, GoTaken
<1>6. CASE LoggedIn /\ ~client.testing
  <2>1. Send(Now, "Uidl", "UIDL", 0) /\ Follows(client, "Uidl") /\ "UIDL" # "DELE"
    BY <1>6 DEF LoggedIn, Running, Follows
  <2> QED
    BY <1>1, <2>1, SentTaken
<1>7. CASE DataFollows
  <2>1. CASE Running("Retr") /\ Await(Now, "MessageDataRetr")
    <3>1. Typed(Now) /\ Asking(Now, asked) /\ Locked(Now) /\ Part(Now) /\ Follows(Now.client, "MessageDataRetr")
          /\ Now.link.state = "up"
      BY <1>1, <2>1, NowFields DEF Sound, InUse, Running, Follows
    <3> DEFINE st == "MessageDataRetr"
    <3>2. Await(Now, st) /\ Follows(Now.client, st)
      BY <2>1, <3>1
    <3> HIDE DEF st
    <3>3. Gone(Now, st, FALSE)
      BY <3>1, <3>2, GoFields
    <3>4. PICK n : Become(n) /\ Moved(Now, n, st) /\ n.client.running = FALSE /\ n.link = Now.link
      BY <3>3 DEF Gone
    <3>5. Part(n)
      BY <3>1, <3>2, <3>4, FollowsPart
    <3>6. Sound(n, asked)
      BY <3>1, <3>4, <3>5, MovedSound
    <3>7. Proper(Now, n, asked)
      BY <3>4, QuietProper DEF Moved, SameRequest
    <3> QED
      BY <3>4, <3>6, <3>7 DEF Taken
  <2>2. ASSUME NEW st \in {"UidList", "SizeList", "MessageDataTop"}, Follows(client, st), Await(Now, st)
        PROVE  Taken(asked)
    BY <1>1, <2>2, GoTaken
  <2>3. CASE ~(Running("Retr") /\ Await(Now, "MessageDataRetr"))
    <3>1. \E st \in {"UidList", "SizeList", "MessageDataTop"} : Follows(client, st) /\ Await(Now, st)
      BY <1>7, <2>3 DEF DataFollows, Running, Follows
    <3> QED
      BY <2>2, <3>1
  <2> QED
    BY <2>1, <2>3
<1>8. CASE SizesKnown
  <2>1. GoOn(Now, "RequestMessage") /\ Follows(client, "RequestMessage")
    BY <1>8 DEF SizesKnown, Running, Follows
  <2> QED
    BY <1>1, <2>1, GoTaken
<1> QED
  BY <1>2, <1>3, <1>4, <1>5, <1>6, <1>7, <1>8

\* What follows the end of a message: DELE only for one that has just been received.
LEMMA FetchedTaken ==
  ASSUME NEW asked, Sound(Now, asked), Fetched
  PROVE  Taken(asked)
<1>1. client.running /\ link.state = "up"
  BY NowFields DEF Sound, Fetched, Running
<1>2. CASE /\ Running("MessageDataRetr")
           /\ Send(Now, "DeleAfterRetr", "DELE", client.numbers[client.uid])
  <2> DEFINE st == "DeleAfterRetr"
             u == client.uid
  <2>1. /\ Typed(Now) /\ Asking(Now, asked) /\ Locked(Now) /\ Part(Now) /\ Follows(Now.client, st)
        /\ Now.link.state = "up" /\ st # "MessageDataRetr" /\ Send(Now, st, "DELE", client.numbers[u])
    BY <1>1, <1>2, NowFields DEF Sound, InUse, Running, Follows
  <2>2. u \in Uid /\ (HeldIn(store, u) \/ u \in store.refused)
    BY <1>1, <1>2, <2>1, NowFields DEF Part, Fetching, Received, Running
  <2> HIDE DEF st, u
  <2>3. Sent(Now, st, "DELE", client.numbers[u])
    BY <2>1, SendFields
  <2>4. PICK n : /\ Become(n) /\ Moved(Now, n, st)
                 /\ \/ n.link.marked = Now.link.marked
                    \/ n.link.marked = Now.link.marked \cup At(client.numbers[u], Now.link.drop)
    BY <2>3 DEF Sent
  <2>5. Part(n)
    BY <2>1, <2>4, FollowsPart
  <2>6. Sound(n, asked)
    BY <2>1, <2>4, <2>5, MovedSound
  <2>7. Current(Now) => At(client.numbers[u], link.drop) \subseteq {u}
    BY <2>1, <2>2, MarksOne, NowFields
  <2>8. Justified(Now, n, asked)
    BY <2>2, <2>4, <2>7, NowFields DEF Justified
  <2>9. Served(Now, n)
    BY <2>4 DEF Served, Moved, SameRequest
  <2> QED
    BY <2>4, <2>6, <2>8, <2>9 DEF Taken, Proper
<1>3. CASE /\ Running("MessageDataRetr") \/ client.status \in {"MessageDataTop", "DeleAfterRetr"}
           /\ GoOn(Now, "RequestMessage")
  <2>1. GoOn(Now, "RequestMessage") /\ Follows(client, "RequestMessage")
    BY <1>1, <1>3 DEF Running, Follows
  <2> QED
    BY <1>1, <2>1, GoTaken
<1> QED
  BY <1>2, <1>3 DEF Fetched

\* Dele: the message goes from the store, too.
Dropped(s) ==
  IF s.client.deleting THEN RemoveLocal(MessageProcessed(s, {s.client.uid}), {s.client.uid}) ELSE s

DroppedFrom(s, asked, m) ==
  /\ Typed(m) /\ Asking(m, asked) /\ m.source = s.source /\ m.link = s.link /\ SameRequest(s, m)
  /\ m.client.status = s.client.status /\ m.client.running = s.client.running
  /\ m.client.selected = s.client.selected /\ m.client.deleting = s.client.deleting
  /\ m.client.testing = s.client.testing /\ m.client.limit = s.client.limit
  /\ m.client.selection = s.client.selection /\ m.client.left = s.client.left
  /\ m.client.obsolete = s.client.obsolete
  /\ \A u \in Uid : /\ Unadded(s.store, u) => Unadded(m.store, u)
                    /\ Absent(s.store, u) => Absent(m.store, u)
                    /\ Complete(s.store, u) => Complete(m.store, u)
                    /\ s.client.deleting /\ Unadded(s.store, u) /\ u = s.client.uid => Absent(m.store, u)

\* The message that the server has deleted is removed from the store.
LEMMA DroppedFields ==
  ASSUME NEW s, NEW asked, Typed(s), Asking(s, asked)
  PROVE  DroppedFrom(s, asked, Dropped(s))
<1> DEFINE u == s.client.uid
           p == MessageProcessed(s, {u})
           m == Dropped(s)
           uids == {u}
<1>1. m = IF s.client.deleting THEN RemoveLocal(p, uids) ELSE s
  BY DEF Dropped
<1> HIDE DEF m
<1>2. CASE ~s.client.deleting
  BY <1>1, <1>2 DEF DroppedFrom, SameRequest, m
<1>3. CASE s.client.deleting
  <2>1. Typed(p) /\ Beside(s, p) /\ p.store = s.store
    BY ProcessedFields
  <2> HIDE DEF p, uids
  <2>2. Without(p, uids, m)
    BY <1>1, <1>3, <2>1, RemoveFields
  <2>3. /\ Typed(m) /\ m.source = p.source /\ m.link = p.link /\ SameRequest(p, m)
        /\ m.client = [p.client EXCEPT !.existing = p.client.existing \ uids]
        /\ m.store = Cleared(p.store, uids)
    BY <2>2 DEF Without
  <2>4. /\ m.store.records = s.store.records
        /\ \A v \in Uid : /\ v \in uids => m.store.local[v] = "none"
                          /\ Unadded(s.store, v) => Unadded(m.store, v)
                          /\ Absent(s.store, v) => Absent(m.store, v)
                          /\ Complete(s.store, v) => Complete(m.store, v)
    <3> DEFINE t == s.store
               x == Cleared(t, uids)
    <3>1. StoreTyped(t) /\ m.store = x
      BY <2>1, <2>3 DEF Typed
    <3> HIDE DEF t
    <3>2. /\ x.records = t.records
          /\ \A v \in Uid : /\ v \in uids => x.local[v] = "none"
                            /\ Unadded(t, v) => Unadded(x, v)
                            /\ Absent(t, v) => Absent(x, v)
                            /\ Complete(t, v) => Complete(x, v)
      BY <3>1, ClearedStore
    <3> HIDE DEF x
    <3> QED
      BY <3>1, <3>2 DEF t
  <2>5. /\ m.client.status = s.client.status /\ m.client.running = s.client.running
        /\ m.client.selected = s.client.selected /\ m.client.deleting = s.client.deleting
        /\ m.client.testing = s.client.testing /\ m.client.limit = s.client.limit
        /\ m.client.selection = s.client.selection /\ m.client.left = s.client.left
        /\ m.client.obsolete = s.client.obsolete
    <3>1. p.client = s.client /\ Formed(s)
      BY <2>1 DEF Beside, Typed
    <3> QED
      BY <2>3, <3>1 DEF Formed, On
  <2>6. Asking(m, asked)
    BY <2>4, <2>5 DEF Asking
  <2>7. \A v \in Uid : Unadded(s.store, v) /\ v = s.client.uid => Absent(m.store, v)
    BY <2>4 DEF Absent, uids
  <2> QED
    BY <2>1, <2>3, <2>4, <2>5, <2>6, <2>7 DEF DroppedFrom, Beside, SameRequest, m
<1> QED
  BY <1>2, <1>3

\* Dele: the next of the list follows, and the selection is still accounted for.
LEMMA DeletedTaken ==
  ASSUME NEW asked, Sound(Now, asked), Deleted
  PROVE  Taken(asked)
<1> DEFINE m == Dropped(Now)
           st == "DeleteMessage"
<1>1. client.running /\ client.status = "Dele" /\ GoOn(m, st)
  BY NowFields DEF Deleted, Running, Dropped
<1>2. Typed(Now) /\ Asking(Now, asked) /\ Locked(Now) /\ link.state = "up" /\ Part(Now)
  BY <1>1, NowFields DEF Sound, InUse
<1>3. DroppedFrom(Now, asked, m)
  BY <1>2, DroppedFields
<1> HIDE DEF m, st
<1>4. /\ Typed(m) /\ Asking(m, asked) /\ m.source = source /\ m.link = link /\ SameRequest(Now, m)
      /\ m.client.status = client.status /\ m.client.running = client.running
      /\ m.client.selected = client.selected /\ m.client.deleting = client.deleting
      /\ m.client.testing = client.testing /\ m.client.limit = client.limit
      /\ m.client.selection = client.selection /\ m.client.left = client.left
      /\ m.client.obsolete = client.obsolete
      /\ \A u \in Uid : /\ Unadded(store, u) => Unadded(m.store, u)
                        /\ Absent(store, u) => Absent(m.store, u)
                        /\ Complete(store, u) => Complete(m.store, u)
                        /\ client.deleting /\ Unadded(store, u) /\ u = client.uid => Absent(m.store, u)
  BY <1>3, NowFields DEF DroppedFrom
<1>5. client.selection \subseteq Uid
  BY <1>2, NowFields DEF Typed, ClientTyped
<1>6. Gone(m, st, m.client.running)
  BY <1>1, <1>4, GoFields
<1>7. PICK n : Become(n) /\ Moved(m, n, st) /\ n.link = m.link
  BY <1>6 DEF Gone
<1>8. AllSelected(n) /\ Fetching(n) /\ Received(n)
  BY <1>1, <1>2, <1>4, <1>7, NowFields DEF Moved, Part, AllSelected, Fetching, Received, st
<1>9. Deleting(n)
  <2> SUFFICES ASSUME handler.request = "delete"
               PROVE  Deleting(n)
    BY <1>4, <1>7, NowFields DEF Deleting, Moved, SameRequest
  <2>1. /\ client.selected /\ client.deleting /\ ~client.testing /\ client.left = {}
        /\ \A u \in client.selection :
             Unadded(store, u) /\ (Absent(store, u) \/ InList(u, client.obsolete) \/ u = client.uid)
    BY <1>1, <1>2, NowFields DEF Part, Deleting, DeletedOrListed, Before
  <2>2. \A u \in client.selection :
          Unadded(m.store, u) /\ (Absent(m.store, u) \/ InList(u, client.obsolete))
    BY <1>4, <1>5, <2>1
  <2> QED
    BY <1>4, <1>7, <2>1, <2>2 DEF Deleting, DeletedOrListed, Moved, st
<1>10. Retrieving(n)
  <2> SUFFICES ASSUME handler.request = "retrieve", client.limit = "all"
               PROVE  Retrieving(n)
    BY <1>4, <1>7, NowFields DEF Retrieving, Moved, SameRequest
  <2>1. /\ client.selected /\ ~client.deleting /\ ~client.testing
        /\ \A u \in client.selection : Complete(store, u)
    BY <1>1, <1>2, NowFields DEF Part, Retrieving, Before
  <2>2. \A u \in client.selection : Complete(m.store, u)
    BY <1>4, <1>5, <2>1
  <2> QED
    BY <1>4, <1>7, <2>1, <2>2 DEF Retrieving, Moved, st
<1>11. Part(n)
  BY <1>8, <1>9, <1>10 DEF Part
<1>12. Locked(m)
  BY <1>2, <1>4, NowFields DEF Locked, SameRequest
<1>13. Sound(n, asked)
  BY <1>2, <1>4, <1>7, <1>11, <1>12, MovedSound
<1>14. Proper(Now, n, asked)
  <2>1. n.link.marked \subseteq Now.link.marked /\ n.handler.request = Now.handler.request
    BY <1>4, <1>7, NowFields DEF Moved, SameRequest
  <2> QED
    BY <2>1, QuietProper
<1> QED
  BY <1>7, <1>13, <1>14 DEF Taken

\* The end of the list of UIDL: the check of the lists, and what follows.
LEMMA ListedTaken ==
  ASSUME NEW asked, Sound(Now, asked), Listed
  PROVE  Taken(asked)
<1> DEFINE s == UidlIntegrityCheck(Now)
<1>1. /\ client.running /\ client.status = "UidList"
      /\ IF s.client.newUids # <<>> THEN Send(s, "List", "LIST", 0) ELSE GoOn(s, "RequestMessage")
  BY DEF Listed, Running
<1>2. Typed(Now) /\ Asking(Now, asked) /\ Locked(Now) /\ link.state = "up" /\ Part(Now)
  BY <1>1, NowFields DEF Sound, InUse
<1>3. /\ Typed(s) /\ Asking(s, asked) /\ s.link = link /\ s.source = source /\ SameRequest(Now, s)
      /\ s.client.status = client.status /\ s.client.running = client.running
      /\ s.client.selected = client.selected /\ s.client.deleting = client.deleting
      /\ s.client.testing = client.testing /\ s.client.limit = client.limit
      /\ s.client.selection = client.selection /\ s.client.existing = client.existing
      /\ s.store.local = store.local /\ s.store.buffer = store.buffer
      /\ s.store.removed = store.removed /\ s.store.refused = store.refused
      /\ client.deleting =>
           /\ s.client.left = {} /\ s.client.newUids = <<>>
           /\ \A u \in client.selection : InList(u, s.client.obsolete)
      /\ ~client.deleting => s.client.left = client.left
  <2> DEFINE w == Now
             r == UidlIntegrityCheck(w)
  <2>1. Typed(w) /\ Asking(w, asked)
    BY <1>2
  <2> HIDE DEF w
  <2>2. /\ Typed(r) /\ Asking(r, asked) /\ r.link = w.link /\ r.source = w.source /\ SameRequest(w, r)
        /\ r.client.status = w.client.status /\ r.client.running = w.client.running
        /\ r.client.selected = w.client.selected /\ r.client.deleting = w.client.deleting
        /\ r.client.testing = w.client.testing /\ r.client.limit = w.client.limit
        /\ r.client.selection = w.client.selection /\ r.client.existing = w.client.existing
        /\ r.store.local = w.store.local /\ r.store.buffer = w.store.buffer
        /\ r.store.removed = w.store.removed /\ r.store.refused = w.store.refused
        /\ w.client.deleting =>
             /\ r.client.left = {} /\ r.client.newUids = <<>>
             /\ \A u \in w.client.selection : InList(u, r.client.obsolete)
        /\ ~w.client.deleting => r.client.left = w.client.left
    BY <2>1, CheckFields
  <2>3. s = r
    BY DEF w
  <2> HIDE DEF r, s
  <2> QED
    BY <2>2, <2>3, NowFields DEF w
<1> HIDE DEF s
<1>4. PICK n, st : /\ Become(n) /\ Moved(s, n, st) /\ n.link.marked = link.marked
                   /\ st \in {"List", "RequestMessage"} /\ (s.client.newUids = <<>> => st = "RequestMessage")
  <2>1. CASE s.client.newUids # <<>>
    <3> DEFINE st == "List"
               command == "LIST"
    <3>1. Send(s, st, command, 0) /\ command # "DELE" /\ st \in {"List", "RequestMessage"}
      BY <1>1, <2>1
    <3> HIDE DEF st, command
    <3>2. Sent(s, st, command, 0)
      BY <1>3, <3>1, SendFields
    <3>3. PICK n : Become(n) /\ Moved(s, n, st) /\ n.link.marked = s.link.marked
      BY <3>1, <3>2 DEF Sent
    <3> QED
      BY <1>3, <2>1, <3>1, <3>3
  <2>2. CASE s.client.newUids = <<>>
    <3> DEFINE st == "RequestMessage"
    <3>1. GoOn(s, st) /\ st = "RequestMessage"
      BY <1>1, <2>2
    <3> HIDE DEF st
    <3>2. Gone(s, st, s.client.running)
      BY <1>3, <3>1, GoFields
    <3>3. PICK n : Become(n) /\ Moved(s, n, st) /\ n.link = s.link
      BY <3>2 DEF Gone
    <3> QED
      BY <1>3, <2>2, <3>1, <3>3
  <2> QED
    BY <2>1, <2>2
<1>5. \A u : /\ Unadded(s.store, u) <=> Unadded(store, u)
             /\ Absent(s.store, u) <=> Absent(store, u)
  BY <1>3, SamePresence
<1>6. AllSelected(n) /\ Fetching(n) /\ Received(n)
  BY <1>1, <1>2, <1>3, <1>4, NowFields DEF Moved, Part, AllSelected, Fetching, Received
<1>7. Deleting(n)
  <2> SUFFICES ASSUME handler.request = "delete"
               PROVE  Deleting(n)
    BY <1>3, <1>4, NowFields DEF Deleting, Moved, SameRequest
  <2>1. /\ client.selected /\ client.deleting /\ ~client.testing
        /\ \A u \in client.selection : Unadded(store, u)
    BY <1>2, NowFields DEF Part, Deleting
  <2>2. st = "RequestMessage" /\ s.client.left = {} /\ \A u \in client.selection : InList(u, s.client.obsolete)
    BY <1>3, <1>4, <2>1
  <2> QED
    BY <1>3, <1>4, <1>5, <2>1, <2>2 DEF Deleting, DeletedOrListed, Moved
<1>8. Retrieving(n)
  <2> SUFFICES ASSUME handler.request = "retrieve", client.limit = "all"
               PROVE  Retrieving(n)
    BY <1>3, <1>4, NowFields DEF Retrieving, Moved, SameRequest
  <2>1. /\ client.selected /\ ~client.deleting /\ ~client.testing /\ client.left = client.selection
        /\ \A u \in client.selection : Ready(Now, u)
    BY <1>1, <1>2, NowFields DEF Part, Retrieving
  <2>2. s.client.left = client.selection /\ \A u \in client.selection : Ready(n, u)
    BY <1>3, <1>4, <1>5, <2>1, NowFields DEF Ready, Moved
  <2>3. \A u \in client.selection : LeftOrComplete(n, u)
    BY <1>4, <2>2 DEF LeftOrComplete, Moved
  <2> QED
    BY <1>3, <1>4, <2>1, <2>2, <2>3 DEF Retrieving, Moved
<1>9. Part(n)
  BY <1>6, <1>7, <1>8 DEF Part
<1>10. Locked(s)
  BY <1>2, <1>3, NowFields DEF Locked, SameRequest
<1>11. Sound(n, asked)
  BY <1>2, <1>3, <1>4, <1>9, <1>10, MovedSound
<1>12. Proper(Now, n, asked)
  <2>1. n.link.marked \subseteq Now.link.marked /\ n.handler.request = Now.handler.request
    BY <1>3, <1>4, NowFields DEF Moved, SameRequest
  <2> QED
    BY <2>1, QuietProper
<1> QED
  BY <1>4, <1>11, <1>12 DEF Taken

\* What a completion leaves.
Ended(s, asked, n) ==
  /\ Typed(n) /\ Asking(n, asked) /\ Settled(s.store, n.store)
  /\ n.handler.request = "none" /\ n.link.marked \subseteq s.link.marked
  /\ Sound(s, asked) /\ ~s.client.running /\ ~InUse(s) => Sound(n, asked)

\* The same of retrieveOperationCompleted, with a name for what it leaves.
LEMMA OperationEnded ==
  ASSUME NEW s, NEW asked, Typed(s), Asking(s, asked), NEW arrives
  PROVE  Ended(s, asked, RetrieveOperationCompleted(s, arrives))
  BY OperationEnds DEF Ended

\* Done: a success is reported only of what has been done.
LEMMA FinishTaken ==
  ASSUME NEW asked, Sound(Now, asked), Finish
  PROVE  Taken(asked)
<1>1. client.running /\ client.status = "Done" /\ link.state = "up"
  BY NowFields DEF Finish, Running, Sound
<1>2. Typed(Now) /\ Asking(Now, asked) /\ Locked(Now) /\ Part(Now)
  BY <1>1, NowFields DEF Sound, InUse
<1>3. CASE GoOn(Now, "Quit")
  <2>1. Follows(client, "Quit")
    BY <1>1 DEF Follows
  <2> QED
    BY <1>1, <1>3, <2>1, GoTaken
<1>4. CASE \E arrives \in BOOLEAN : Await(RetrieveOperationCompleted(Now, arrives), "Quit")
  <2> DEFINE st == "Quit"
  <2>1. PICK arrives \in BOOLEAN : Await(RetrieveOperationCompleted(Now, arrives), st)
    BY <1>4
  <2> DEFINE m == RetrieveOperationCompleted(Now, arrives)
  <2>2. Ended(Now, asked, m)
    BY <1>2, OperationEnded
  <2> HIDE DEF m, st
  <2>3. Typed(m)
    BY <2>2 DEF Ended
  <2>4. Gone(m, st, FALSE)
    BY <2>1, <2>3, GoFields DEF m
  <2>5. PICK n : Become(n) /\ Moved(m, n, st) /\ n.client.running = FALSE /\ n.link = m.link
    BY <2>4 DEF Gone
  <2>6. Sound(n, asked)
    <3>1. Asking(n, asked) /\ Locked(n)
      BY <2>2, <2>5 DEF Ended, Moved, SameRequest, Asking, Locked
    <3>2. Part(n)
      BY <2>2, <2>5 DEF Ended, Moved, SameRequest, Part, AllSelected, Fetching, Received, Deleting, Retrieving, st
    <3> QED
      BY <2>5, <3>1, <3>2 DEF Sound, Moved
  <2>7. Justified(Now, n, asked)
    BY <2>2, <2>5 DEF Ended, Justified
  <2>8. Served(Now, n)
    <3>1. client.selection \subseteq Uid
      BY <1>2, NowFields DEF Typed, ClientTyped
    <3>2. handler.request = "delete" => \A u \in client.selection : Absent(store, u)
      BY <1>1, <1>2, NowFields DEF Part, Deleting, Before
    <3>3. handler.request = "retrieve" /\ client.limit = "all" => \A u \in client.selection : Complete(store, u)
      BY <1>1, <1>2, NowFields DEF Part, Retrieving, Before
    <3>4. Settled(store, n.store)
      BY <2>2, <2>5, NowFields DEF Ended, Moved
    <3> QED
      BY <3>1, <3>2, <3>3, <3>4, NowFields DEF Served, Settled
  <2> QED
    BY <2>5, <2>6, <2>7, <2>8 DEF Taken, Proper
<1> QED
  BY <1>3, <1>4 DEF Finish

\* Quit ends the session at the server, and marks nothing.
LEMMA LogOutTaken ==
  ASSUME NEW asked, Sound(Now, asked), LogOut
  PROVE  Taken(asked)
<1>1. client.running /\ client.status = "Quit" /\ link.state = "up"
  BY NowFields DEF LogOut, Running, Sound
<1>2. Follows(client, "Exit")
  BY <1>1 DEF Follows
<1>3. CASE Await(Now, "Exit")
  BY <1>1, <1>2, <1>3, GoTaken
<1>4. CASE Send(Quit(Now, TRUE), "Exit", "QUIT", 0)
  <2> DEFINE q == Quit(Now, TRUE)
             st == "Exit"
             command == "QUIT"
             l == [link EXCEPT !.marked = {}]
             mails == mailbox \ link.marked
  <2>0. Formed(Now) /\ Typed(Now)
    BY NowFields DEF Sound, Typed
  <2>1. q = [Now EXCEPT !.mailbox = mails, !.link = l]
    BY <2>0, NowFields DEF Quit, Formed, On
  <2>2. /\ On(l, {"state", "wire", "drop", "marked"}) /\ l.state = link.state /\ l.wire = link.wire
        /\ l.drop = link.drop /\ l.marked = {}
    BY <2>0, NowFields DEF Formed, On
  <2>3. Send(q, st, command, 0) /\ command # "DELE"
    BY <1>4
  <2> HIDE DEF q, st, command, l, mails
  <2>4. /\ On(q, {"client", "source", "link", "mailbox", "store", "handler", "account"})
        /\ q.client = client /\ q.source = source /\ q.link = l /\ q.mailbox = mails
        /\ q.store = store /\ q.handler = handler /\ q.account = Now.account
    BY <2>0, <2>1, NowFields DEF Formed, On
  <2>5. Formed(q)
    <3>1. mails \in SUBSET Uid
      BY <2>0, NowFields DEF Formed, mails
    <3> QED
      BY <2>0, <2>2, <2>4, <3>1, NowFields DEF Formed
  <2>6. Typed(q)
    BY <2>0, <2>4, <2>5, NowFields DEF Typed
  <2>7. Sound(q, asked)
    BY <1>1, <2>2, <2>4, <2>6, NowFields DEF Sound, Asking, Locked, InUse, Part, AllSelected, Fetching, Received, Deleting,
                     Retrieving, DeletedOrListed, LeftOrComplete, Ready
  <2>8. q.link.state = "up" /\ Follows(q.client, st)
    BY <1>1, <1>2, <2>2, <2>4 DEF st
  <2>9. PICK n : Become(n) /\ Sound(n, asked) /\ n.link.marked = q.link.marked /\ SameRequest(q, n)
    BY <2>3, <2>7, <2>8, SendTaken
  <2>10. n.link.marked \subseteq Now.link.marked /\ n.handler.request = Now.handler.request
    BY <2>2, <2>4, <2>9, NowFields DEF SameRequest
  <2>11. Proper(Now, n, asked)
    BY <2>10, QuietProper
  <2> QED
    BY <2>9, <2>11 DEF Taken
<1> QED
  BY <1>3, <1>4 DEF LogOut

\* Every step of nextAction is a sound one.
LEMMA NextActionTaken ==
  ASSUME NEW asked, Sound(Now, asked), NextAction
  PROVE  Taken(asked)
  BY PlainTaken, ListedTaken, NewRequested, SelectedRequested, FetchedTaken, NextDeleted, DeletedTaken, FinishTaken,
     LogOutTaken DEF NextAction

-----------------------------------------------------------------------------
(* Every line of the server is a sound step *)

\* The invariant says nothing of the lines on the way.
LEMMA SoundAlike ==
  ASSUME NEW s, NEW asked, Sound(s, asked), NEW n, Typed(n), n.client = s.client, n.store = s.store,
         n.source = s.source, SameRequest(s, n), InUse(n) => InUse(s), n.client.running => n.link.state = "up"
  PROVE  Sound(n, asked)
<1>1. InUse(n) => Part(n)
  BY DEF Sound, SameRequest, Part, AllSelected, Fetching, Received, Deleting,
         Retrieving, DeletedOrListed, LeftOrComplete, Ready
<1> QED
  BY <1>1 DEF Sound, SameRequest, Asking, Locked

\* A line is read.
LEMMA ReadFields ==
  ASSUME NEW asked, Sound(Now, asked), link.wire # <<>>
  PROVE  /\ Sound(Read, asked) /\ Read.client = client /\ Read.store = store /\ Read.source = source
         /\ Read.handler = handler /\ Read.link.marked = link.marked /\ Read.link.state = link.state
         /\ SameRequest(Now, Read)
<1> DEFINE l == [link EXCEPT !.wire = Tail(link.wire)]
<1>1. Typed(Now) /\ Formed(Now)
  BY DEF Sound, Typed
<1>2. Read = [Now EXCEPT !.link = l]
  BY <1>1, NowFields DEF Read, Formed, On
<1>3. Tail(link.wire) \in Seq(LineOf(link.drop))
  <2> DEFINE w == link.wire
             L == LineOf(link.drop)
  <2>1. w \in Seq(L) /\ w # <<>>
    BY <1>1, NowFields DEF Formed
  <2> HIDE DEF w, L
  <2>2. Tail(w) \in Seq(L)
    BY <2>1
  <2> QED
    BY <2>2 DEF w, L
<1>4. /\ On(l, {"state", "wire", "drop", "marked"}) /\ l.state = link.state /\ l.drop = link.drop
      /\ l.marked = link.marked /\ l.wire = Tail(link.wire)
  BY <1>1, NowFields DEF Formed, On
<1> HIDE DEF l
<1>5. /\ On(Read, {"client", "source", "link", "mailbox", "store", "handler", "account"})
      /\ Read.client = client /\ Read.source = source /\ Read.link = l /\ Read.mailbox = mailbox
      /\ Read.store = store /\ Read.handler = handler
  BY <1>1, <1>2, NowFields DEF Formed, On
<1>6. Formed(Read)
  BY <1>1, <1>3, <1>4, <1>5, NowFields DEF Formed
<1>7. Typed(Read)
  BY <1>1, <1>5, <1>6, NowFields DEF Typed
<1>8. SameRequest(Now, Read)
  BY <1>5, NowFields DEF SameRequest
<1>9. Sound(Read, asked)
  <2>1. InUse(Read) <=> InUse(Now)
    BY <1>4, <1>5, NowFields DEF InUse
  <2>2. Read.client.running => Read.link.state = "up"
    BY <1>4, <1>5, NowFields DEF Sound
  <2> QED
    BY <1>5, <1>7, <1>8, <2>1, <2>2, SoundAlike, NowFields
<1> QED
  BY <1>4, <1>5, <1>8, <1>9

\* nextAction is called again.
LEMMA ProceedTaken ==
  ASSUME NEW s, NEW asked, Sound(s, asked), s.link.state = "up", s.client.status # "MessageDataRetr", Proceed(s)
  PROVE  \E n : Become(n) /\ Sound(n, asked) /\ n.link.marked = s.link.marked /\ SameRequest(s, n)
<1>1. Typed(s) /\ Asking(s, asked) /\ Locked(s) /\ Part(s)
  BY DEF Sound, InUse
<1> DEFINE st == s.client.status
<1>2. Gone(s, st, TRUE)
  BY <1>1, GoFields
<1>3. PICK n : Become(n) /\ Moved(s, n, st) /\ n.link = s.link
  BY <1>2 DEF Gone
<1>4. Part(n)
  BY <1>1, <1>3 DEF Moved, SameRequest, Part, AllSelected, Fetching, Received, Deleting,
                    Retrieving, DeletedOrListed, LeftOrComplete, Ready, Whole
<1>5. Sound(n, asked)
  BY <1>1, <1>3, <1>4, MovedSound
<1> QED
  BY <1>3, <1>5 DEF Moved

\* The operation fails.
Failed(s, asked, n) == Sound(n, asked) /\ n.handler.success = FALSE /\ n.link.marked \subseteq s.link.marked

\* operationFailed leaves a sound state, whatever went before.
LEMMA FailSound ==
  ASSUME NEW s, NEW asked, Typed(s), Asking(s, asked)
  PROVE  Failed(s, asked, OperationFailed(s))
<1> DEFINE n == OperationFailed(s)
<1>1. /\ Typed(n) /\ n.store = s.store /\ SameTask(s.client, n.client) /\ n.client.running = FALSE
      /\ n.handler.request = "none" /\ n.handler.success = FALSE /\ n.handler.posted = s.handler.posted
      /\ ~InUse(n) /\ n.link.marked \subseteq s.link.marked
  BY FailFields
<1> HIDE DEF n
<1>2. Asking(n, asked) /\ Locked(n)
  BY <1>1 DEF Asking, SameTask, Locked
<1>3. Sound(n, asked)
  BY <1>1, <1>2 DEF Sound
<1> QED
  BY <1>1, <1>3 DEF Failed, n

\* A failure is a sound step.
LEMMA FailTaken ==
  ASSUME NEW s, NEW asked, Sound(s, asked), s.link.marked \subseteq link.marked, Become(OperationFailed(s))
  PROVE  Taken(asked)
<1> DEFINE n == OperationFailed(s)
<1>1. Failed(s, asked, n)
  BY FailSound DEF Sound
<1>2. Become(n)
  OBVIOUS
<1> HIDE DEF n
<1>3. Proper(Now, n, asked)
  BY <1>1, QuietProper, NowFields DEF Failed
<1> QED
  BY <1>1, <1>2, <1>3 DEF Failed, Taken

\* A step that leaves the marks and the request as they are.
LEMMA QuietTaken ==
  ASSUME NEW asked, NEW n, Become(n), Sound(n, asked), n.link.marked \subseteq link.marked,
         n.handler.request = handler.request
  PROVE  Taken(asked)
<1>1. Proper(Now, n, asked)
  BY QuietProper, NowFields
<1> QED
  BY <1>1 DEF Taken

\* A line that says nothing is a sound step.
LEMMA ReadTaken ==
  ASSUME NEW asked, Sound(Now, asked), link.wire # <<>>, Become(Read)
  PROVE  Taken(asked)
<1>1. Sound(Read, asked) /\ Read.link.marked = link.marked /\ Read.handler = handler
  BY ReadFields
<1> QED
  BY <1>1, QuietTaken

\* A line after which nextAction is called again, with nothing else changed.
LEMMA ReadProceeds ==
  ASSUME NEW asked, Sound(Now, asked), link.wire # <<>>, link.state = "up", client.status # "MessageDataRetr",
         Proceed(Read)
  PROVE  Taken(asked)
<1>1. Sound(Read, asked) /\ Read.client = client /\ Read.link.marked = link.marked /\ Read.handler = handler
      /\ Read.link.state = "up"
  BY ReadFields
<1>2. PICK n : Become(n) /\ Sound(n, asked) /\ n.link.marked = Read.link.marked /\ SameRequest(Read, n)
  BY <1>1, ProceedTaken
<1> QED
  BY <1>1, <1>2, QuietTaken DEF SameRequest

\* The answers to commands, and the lists without use, are sound steps.
LEMMA AnswersTaken ==
  ASSUME NEW asked, Sound(Now, asked), ReceivePlain \/ ReceiveCapability \/ ReceiveList \/ ReceiveAnswer
  PROVE  Taken(asked)
<1>1. link.wire # <<>> /\ link.state = "up" /\ client.status # "MessageDataRetr"
  BY DEF ReceivePlain, ReceiveCapability, ReceiveList, ReceiveAnswer, Waiting
<1>2. CASE Proceed(Read)
  BY <1>1, <1>2, ReadProceeds
<1>3. CASE Become(Read)
  BY <1>1, <1>3, ReadTaken
<1>4. CASE Become(OperationFailed(Read))
  <2>1. Sound(Read, asked) /\ Read.link.marked = link.marked
    BY <1>1, ReadFields
  <2> QED
    BY <1>4, <2>1, FailTaken
<1>5. CASE client.status = "CapabilityTest" /\ Proceed([Read EXCEPT !.client.status = "Capabilities"])
  <2> DEFINE st == "Capabilities"
             c == [Read EXCEPT !.client.status = st]
             d == [client EXCEPT !.status = st]
  <2>1. /\ Sound(Read, asked) /\ Read.client = client /\ Read.store = store /\ Read.source = source
        /\ Read.handler = handler /\ Read.link.marked = link.marked /\ Read.link.state = link.state
    BY <1>1, ReadFields
  <2>2. Typed(Read) /\ Asking(Read, asked) /\ Locked(Read) /\ Part(Read) /\ Formed(Read) /\ Read.link.state = "up"
    BY <1>1, <2>1 DEF Sound, InUse, Typed
  <2>3. Follows(Read.client, st) /\ st # "MessageDataRetr" /\ Proceed(c)
    BY <1>5, <2>1 DEF Follows
  <2> HIDE DEF st
  <2>4. c = [Read EXCEPT !.client = d]
    BY <2>1, <2>2 DEF Formed, On
  <2>5. d.running = client.running /\ d.status = st
    BY <2>1, <2>2 DEF Formed, On
  <2>6. /\ On(c, {"client", "source", "link", "mailbox", "store", "handler", "account"})
        /\ c.client = d /\ c.source = Read.source /\ c.link = Read.link /\ c.mailbox = Read.mailbox
        /\ c.store = Read.store /\ c.handler = Read.handler
    BY <2>2, <2>4 DEF Formed, On
  <2>7. d = [Read.client EXCEPT !.status = st, !.running = d.running]
    BY <2>1, <2>2, <2>5 DEF Formed, On
  <2> HIDE DEF c, d
  <2>8. On(c.link, {"state", "wire", "drop", "marked"}) /\ c.link.wire \in Seq(LineOf(Read.link.drop))
    BY <2>2, <2>6 DEF Formed
  <2>9. c.client = [Read.client EXCEPT !.status = st, !.running = c.client.running]
    BY <2>6, <2>7
  <2>10. Moved(Read, c, st)
    BY <2>2, <2>6, <2>8, <2>9, MovedFields
  <2>11. Part(c)
    BY <2>2, <2>3, <2>10, FollowsPart
  <2>12. Sound(c, asked)
    BY <2>2, <2>10, <2>11, MovedSound
  <2>13. c.link.state = "up" /\ c.client.status # "MessageDataRetr"
    BY <2>2, <2>3, <2>5, <2>6
  <2>14. PICK n : Become(n) /\ Sound(n, asked) /\ n.link.marked = c.link.marked /\ SameRequest(c, n)
    BY <2>3, <2>12, <2>13, ProceedTaken
  <2>15. n.link.marked \subseteq link.marked /\ n.handler.request = handler.request
    BY <2>1, <2>6, <2>14 DEF SameRequest
  <2> QED
    BY <2>14, <2>15, QuietTaken
<1> QED
  BY <1>2, <1>3, <1>4, <1>5 DEF ReceivePlain, ReceiveCapability, ReceiveList, ReceiveAnswer, Waiting

\* A line of the list gives a message its position.
LEMMA UidTaken ==
  ASSUME NEW asked, Sound(Now, asked), ReceiveUid
  PROVE  Taken(asked)
<1>1. link.wire # <<>> /\ link.state = "up" /\ client.status = "UidList" /\ ~client.running
  BY DEF ReceiveUid, Waiting
<1>2. CASE Proceed(Read)
  BY <1>1, <1>2, ReadProceeds
<1>3. CASE Become(Read)
  BY <1>1, <1>3, ReadTaken
<1>4. CASE Become([Read EXCEPT !.client.numbers[Response.uid] = Rank(Response.uid, link.drop)])
  <2> DEFINE v == Response.uid
             r == Rank(v, link.drop)
             n == [Read EXCEPT !.client.numbers[v] = r]
             d == [client EXCEPT !.numbers = [client.numbers EXCEPT ![v] = r]]
             m == [client.numbers EXCEPT ![v] = r]
  <2>1. /\ Sound(Read, asked) /\ Read.client = client /\ Read.store = store /\ Read.source = source
        /\ Read.handler = handler /\ Read.link.marked = link.marked /\ Read.link.state = link.state
    BY <1>1, ReadFields
  <2>2. Typed(Read) /\ Asking(Read, asked) /\ Locked(Read) /\ Part(Read) /\ Formed(Read) /\ Read.link.state = "up"
    BY <1>1, <2>1 DEF Sound, InUse, Typed
  <2>3. Become(n)
    BY <1>4
  <2> HIDE DEF v, r
  <2>4. n = [Read EXCEPT !.client = d]
    BY <2>1, <2>2 DEF Formed, On
  <2>5. On(m, Uid)
    <3>1. On(client.numbers, Uid)
      BY <2>1, <2>2 DEF Formed
    <3> QED
      BY <3>1 DEF On
  <2> HIDE DEF m
  <2>6. /\ On(d, {"status", "running", "selected", "deleting", "testing", "pendingDeletes", "timer",
                  "limit", "numbers", "newUids", "obsolete", "selection", "existing", "left", "uid"})
        /\ d.status = client.status /\ d.running = client.running /\ d.selected = client.selected
        /\ d.deleting = client.deleting /\ d.testing = client.testing /\ d.limit = client.limit
        /\ d.newUids = client.newUids /\ d.numbers = m /\ d.left = client.left
        /\ d.selection = client.selection /\ d.existing = client.existing /\ d.obsolete = client.obsolete
        /\ d.uid = client.uid
    BY <2>1, <2>2 DEF Formed, On, m
  <2> HIDE DEF d
  <2>7. /\ On(n, {"client", "source", "link", "mailbox", "store", "handler", "account"})
        /\ n.client = d /\ n.source = Read.source /\ n.link = Read.link /\ n.mailbox = Read.mailbox
        /\ n.store = Read.store /\ n.handler = Read.handler
    BY <2>2, <2>4 DEF Formed, On
  <2> HIDE DEF n
  <2>8. Formed(n)
    BY <2>2, <2>5, <2>6, <2>7 DEF Formed
  <2>9. Typed(n)
    BY <2>1, <2>2, <2>6, <2>7, <2>8 DEF Typed, ClientTyped
  <2>10. Part(n)
    BY <1>1, <2>1, <2>2, <2>6, <2>7 DEF Part, AllSelected, Fetching, Received, Deleting,
                     Retrieving, DeletedOrListed, LeftOrComplete, Ready, Whole
  <2>11. Sound(n, asked)
    BY <2>1, <2>2, <2>6, <2>7, <2>9, <2>10 DEF Sound, Asking, Locked
  <2> QED
    BY <2>1, <2>3, <2>7, <2>11, QuietTaken
<1> QED
  BY <1>2, <1>3, <1>4 DEF ReceiveUid

\* The message is put into the buffer.
Created(s, n) ==
  LET u == s.client.uid
  IN /\ Typed(n) /\ n.source = s.source /\ n.link = s.link /\ SameRequest(s, n)
     /\ \E there : n.client = [s.client EXCEPT !.existing = there] /\ s.client.existing \ {u} \subseteq there
     /\ n.store.records = s.store.records
     /\ \A v \in Uid \ {u} : /\ Absent(s.store, v) => Absent(n.store, v)
                             /\ Complete(s.store, v) => Complete(n.store, v)
     /\ Whole(s.client, u) => /\ Complete(n.store, u)
                              /\ HeldIn(n.store, u) \/ u \in n.store.refused

\* The same of createMail, with a name for what it leaves.
LEMMA MailCreated ==
  ASSUME NEW s, Typed(s), s.client.uid \in Uid, NEW full
  PROVE  Created(s, CreateMail(s, full))
  BY CreateFields DEF Created

\* The data of a message: at its end the message is given to the buffer.
LEMMA MessageTaken ==
  ASSUME NEW asked, Sound(Now, asked), ReceiveMessage
  PROVE  Taken(asked)
<1>1. /\ link.wire # <<>> /\ link.state = "up" /\ client.status \in {"MessageDataRetr", "MessageDataTop"}
      /\ ~client.running
  BY DEF ReceiveMessage, Waiting
<1>2. CASE Become(Read)
  BY <1>1, <1>2, ReadTaken
<1>3. CASE Become(OperationFailed(Read))
  <2>1. Sound(Read, asked) /\ Read.link.marked = link.marked
    BY <1>1, ReadFields
  <2> QED
    BY <1>3, <2>1, FailTaken
<1>4. CASE \E full \in BOOLEAN : Proceed(CreateMail(Read, full))
  <2>1. PICK full \in BOOLEAN : Proceed(CreateMail(Read, full))
    BY <1>4
  <2> DEFINE m == CreateMail(Read, full)
             st == client.status
             u == client.uid
  <2>2. /\ Sound(Read, asked) /\ Read.client = client /\ Read.store = store /\ Read.source = source
        /\ Read.handler = handler /\ Read.link.marked = link.marked /\ Read.link.state = link.state
    BY <1>1, ReadFields
  <2>3. Typed(Read) /\ Asking(Read, asked) /\ Locked(Read) /\ Part(Read) /\ Formed(Read) /\ Read.link.state = "up"
    BY <1>1, <2>2 DEF Sound, InUse, Typed
  <2>4. u \in Uid /\ (st = "MessageDataRetr" => Whole(client, u))
    BY <1>1, <2>2, <2>3 DEF Part, Fetching
  <2>5. Created(Read, m)
    BY <2>2, <2>3, <2>4, MailCreated
  <2>6. Proceed(m)
    BY <2>1
  <2> HIDE DEF m
  <2>7. /\ Typed(m) /\ m.source = source /\ m.link = Read.link /\ m.store.records = store.records
        /\ m.handler.request = handler.request /\ m.handler.posted = handler.posted
    BY <2>2, <2>5 DEF Created, SameRequest
  <2>8. PICK there : m.client = [client EXCEPT !.existing = there] /\ client.existing \ {u} \subseteq there
    BY <2>2, <2>5 DEF Created
  <2>9. /\ m.client.status = st /\ m.client.running = client.running /\ m.client.selected = client.selected
        /\ m.client.deleting = client.deleting /\ m.client.testing = client.testing
        /\ m.client.limit = client.limit /\ m.client.left = client.left
        /\ m.client.selection = client.selection /\ m.client.existing = there
        /\ m.client.obsolete = client.obsolete /\ m.client.uid = u
    BY <2>2, <2>3, <2>8 DEF Formed, On
  <2>10. /\ \A v \in Uid \ {u} : /\ Absent(store, v) => Absent(m.store, v)
                                 /\ Complete(store, v) => Complete(m.store, v)
         /\ Whole(client, u) => /\ Complete(m.store, u)
                                /\ HeldIn(m.store, u) \/ u \in m.store.refused
    BY <2>2, <2>5 DEF Created
  <2>11. Asking(m, asked) /\ Locked(m)
    BY <2>2, <2>3, <2>7, <2>9 DEF Asking, Locked
  <2> DEFINE sp == m.client.status
  <2>12. Gone(m, sp, TRUE)
    BY <2>6, <2>7, GoFields
  <2>13. PICK n : Become(n) /\ Moved(m, n, sp) /\ n.link = m.link
    BY <2>12 DEF Gone
  <2>14. AllSelected(n) /\ Fetching(n)
    BY <2>2, <2>3, <2>9, <2>13 DEF Moved, Part, AllSelected, Fetching, Whole
  <2>15. Received(n)
    BY <2>4, <2>9, <2>10, <2>13 DEF Moved, Received
  <2>16. Deleting(n)
    <3>1. handler.request # "delete"
      BY <1>1, <2>2, <2>3 DEF Part, Deleting, Before
    <3> QED
      BY <2>7, <2>13, <3>1 DEF Deleting, Moved, SameRequest
  <2>17. Retrieving(n)
    <3> SUFFICES ASSUME handler.request = "retrieve", client.limit = "all"
                 PROVE  Retrieving(n)
      BY <2>7, <2>9, <2>13 DEF Retrieving, Moved, SameRequest
    <3>1. /\ client.selected /\ ~client.deleting /\ ~client.testing
          /\ st = "MessageDataRetr" /\ \A v \in client.selection : LeftOrComplete(Read, v)
      BY <1>1, <2>2, <2>3 DEF Part, Retrieving, Before
    <3>2. /\ n.client.selected /\ ~n.client.deleting /\ ~n.client.testing /\ n.client.status = "MessageDataRetr"
          /\ n.client.selection = client.selection /\ n.client.left = client.left
          /\ n.client.existing = there /\ n.store = m.store
      BY <2>9, <2>13, <3>1 DEF Moved
    <3>3. ASSUME NEW v \in client.selection
          PROVE  LeftOrComplete(n, v)
      <4>0. v \in Uid
        BY <2>2, <2>3 DEF Typed, ClientTyped
      <4>1. CASE v = u
        BY <2>4, <2>10, <3>1, <3>2, <4>1 DEF LeftOrComplete
      <4>2. CASE v # u
        <5>1. (v \in client.left /\ Ready(Read, v)) \/ Complete(store, v)
          BY <2>2, <3>1, <4>2 DEF LeftOrComplete
        <5>2. Ready(Read, v) => Ready(n, v)
          BY <2>2, <2>8, <2>10, <3>2, <4>0, <4>2 DEF Ready
        <5> QED
          BY <2>10, <3>2, <4>0, <4>2, <5>1, <5>2 DEF LeftOrComplete
      <4> QED
        BY <4>1, <4>2
    <3> QED
      BY <3>2, <3>3 DEF Retrieving
  <2>18. Part(n)
    BY <2>14, <2>15, <2>16, <2>17 DEF Part
  <2>19. m.link.state = "up"
    BY <2>3, <2>7
  <2>20. Sound(n, asked)
    BY <2>11, <2>13, <2>18, <2>19, MovedSound
  <2> QED
    BY <2>2, <2>7, <2>13, <2>20, QuietTaken DEF Moved, SameRequest
<1> QED
  BY <1>2, <1>3, <1>4 DEF ReceiveMessage

\* The answer to QUIT completes the operation.
LEMMA GoodbyeTaken ==
  ASSUME NEW asked, Sound(Now, asked), ReceiveGoodbye
  PROVE  Taken(asked)
<1> DEFINE f == FALSE
           c == CloseConnection(Read, f)
           n == RetrieveOperationCompleted(c, f)
<1>1. /\ link.wire # <<>> /\ link.state = "up" /\ client.status = "Exit" /\ ~client.running
      /\ Become(n)
  BY DEF ReceiveGoodbye, Waiting
<1> HIDE DEF f
<1>2. /\ Sound(Read, asked) /\ Read.client = client /\ Read.store = store /\ Read.source = source
      /\ Read.handler = handler /\ Read.link.marked = link.marked /\ Read.link.state = link.state
  BY <1>1, ReadFields
<1>3. /\ Typed(c) /\ c.link = NoSession /\ c.store = store /\ c.source = source /\ c.handler = handler
      /\ SameTask(client, c.client) /\ c.client.running = client.running
      /\ c.link.marked = {} /\ ~InUse(c)
  <2>1. /\ Typed(c) /\ c.link = NoSession /\ c.store = Read.store /\ c.source = Read.source /\ c.handler = Read.handler
        /\ SameTask(Read.client, c.client) /\ c.client.running = Read.client.running /\ c.account = Read.account
        /\ c.link.marked = {} /\ ~InUse(c)
    BY <1>2, CloseFields DEF Sound
  <2> QED
    BY <1>2, <2>1
<1> HIDE DEF c
<1>4. Sound(c, asked)
  <2>1. Asking(c, asked) /\ Locked(c)
    BY <1>2, <1>3 DEF Sound, Asking, Locked, SameTask
  <2> QED
    BY <1>1, <1>3, <2>1 DEF Sound
<1>5. Ended(c, asked, n)
  BY <1>4, OperationEnded DEF Sound
<1> HIDE DEF n
<1>6. Sound(n, asked) /\ Settled(store, n.store) /\ n.link.marked = {}
  BY <1>1, <1>3, <1>4, <1>5 DEF Ended
<1>7. Part(Read) /\ Typed(Read)
  BY <1>1, <1>2 DEF Sound, InUse
<1>8. Served(Now, n)
  <2>1. client.selection \subseteq Uid
    BY <1>2, <1>7 DEF Typed, ClientTyped
  <2>2. handler.request = "delete" => \A u \in client.selection : Absent(store, u)
    BY <1>1, <1>2, <1>7 DEF Part, Deleting, Before
  <2>3. handler.request = "retrieve" /\ client.limit = "all" => \A u \in client.selection : Complete(store, u)
    BY <1>1, <1>2, <1>7 DEF Part, Retrieving, Before
  <2> QED
    BY <1>6, <2>1, <2>2, <2>3, NowFields DEF Served, Settled
<1>9. Justified(Now, n, asked)
  BY <1>6 DEF Justified
<1> QED
  BY <1>1, <1>6, <1>8, <1>9 DEF Taken, Proper

\* Every line of the server is a sound step.
LEMMA ProcessResponseTaken ==
  ASSUME NEW asked, Sound(Now, asked), ProcessResponse
  PROVE  Taken(asked)
  BY AnswersTaken, UidTaken, MessageTaken, GoodbyeTaken DEF ProcessResponse

-----------------------------------------------------------------------------
(* Every request is a sound step *)

\* The next state is sound with what has been asked for later, too.
TakenTo(asked, later) == \E n : Become(n) /\ Sound(n, later) /\ Proper(Now, n, asked)

\* Only what the source and the daemon know has changed.
Reported(s, n) == Typed(n) /\ n.client = s.client /\ n.link = s.link /\ n.store = s.store

\* A request is noted.
LEMMA AskedFields ==
  ASSUME NEW s, Typed(s), NEW request
  PROVE  LET n == Asked(s, request)
         IN Reported(s, n) /\ n.source = s.source /\ n.handler.request = request /\ n.handler.posted = s.handler.posted
<1> DEFINE n == Asked(s, request)
<1>1. /\ On(n, {"client", "source", "link", "mailbox", "store", "handler", "account"})
      /\ n.client = s.client /\ n.link = s.link /\ n.mailbox = s.mailbox /\ n.store = s.store /\ n.source = s.source
      /\ On(n.source, {"deleting", "unavailable", "queued", "checking"})
      /\ On(n.handler, {"request", "available", "posted", "told", "success"})
      /\ n.handler.request = request /\ n.handler.posted = s.handler.posted
  BY DEF Asked, Typed, Formed, On
<1> HIDE DEF n
<1>2. Typed(n)
  BY <1>1, ReportFields
<1> QED
  BY <1>1, <1>2 DEF Reported, n

\* _unavailable
BusyOf(s) == [s EXCEPT !.source.unavailable = TRUE]

\* Setting _unavailable changes nothing else.
LEMMA BusyFields ==
  ASSUME NEW s, Typed(s)
  PROVE  LET n == BusyOf(s)
         IN Reported(s, n) /\ n.source.unavailable = TRUE /\ n.handler = s.handler
<1> DEFINE n == BusyOf(s)
<1>1. /\ On(n, {"client", "source", "link", "mailbox", "store", "handler", "account"})
      /\ n.client = s.client /\ n.link = s.link /\ n.mailbox = s.mailbox /\ n.store = s.store
      /\ On(n.source, {"deleting", "unavailable", "queued", "checking"}) /\ n.source.unavailable = TRUE
      /\ On(n.handler, {"request", "available", "posted", "told", "success"}) /\ n.handler = s.handler
  BY DEF BusyOf, Typed, Formed, On
<1> HIDE DEF n
<1>2. Typed(n)
  BY <1>1, ReportFields
<1> QED
  BY <1>1, <1>2 DEF Reported, n

\* The completion is in the event queue.
PostedOf(s) == [s EXCEPT !.handler.posted = TRUE]

\* Posting a completion changes nothing else.
LEMMA PostFields ==
  ASSUME NEW s, Typed(s)
  PROVE  LET n == PostedOf(s)
         IN Reported(s, n) /\ n.source = s.source /\ n.handler.request = s.handler.request
<1> DEFINE n == PostedOf(s)
<1>1. /\ On(n, {"client", "source", "link", "mailbox", "store", "handler", "account"})
      /\ n.client = s.client /\ n.link = s.link /\ n.mailbox = s.mailbox /\ n.store = s.store /\ n.source = s.source
      /\ On(n.source, {"deleting", "unavailable", "queued", "checking"})
      /\ On(n.handler, {"request", "available", "posted", "told", "success"})
      /\ n.handler.request = s.handler.request
  BY DEF PostedOf, Typed, Formed, On
<1> HIDE DEF n
<1>2. Typed(n)
  BY <1>1, ReportFields
<1> QED
  BY <1>1, <1>2 DEF Reported, n

\* A request that works on no selection changes nothing of the session.
LEMMA AskedSound ==
  ASSUME NEW s, NEW asked, Sound(s, asked), NEW n, Reported(s, n), n.handler.request \notin {"delete", "retrieve"}
  PROVE  Sound(n, asked)
<1>1. InUse(n) => Part(n)
  BY DEF Sound, Reported, InUse, Part, AllSelected, Fetching, Received, Deleting, Retrieving
<1>2. Asking(n, asked) /\ Locked(n)
  BY DEF Sound, Reported, Asking, Locked
<1> QED
  BY <1>1, <1>2 DEF Sound, Reported

\* The connection for a request
Connected(s, asked, n) == Sound(n, asked) /\ n.link.marked \subseteq s.link.marked

\* A connection for a request that leaves the source unavailable.
LEMMA BusyBegun ==
  ASSUME NEW s, NEW asked, Typed(s), Asking(s, asked), Wished(s), ~s.client.running, ~s.handler.posted, NEW arrives
  PROVE  Connected(s, asked, BusyOf(NewConnection(s, arrives)))
<1> DEFINE m == NewConnection(s, arrives)
           n == BusyOf(m)
<1>1. Begun(s, m, asked)
  BY ConnectionBegun
<1> HIDE DEF m
<1>2. Reported(m, n) /\ n.source.unavailable = TRUE /\ n.handler = m.handler
  BY <1>1, BusyFields DEF Begun
<1> HIDE DEF n
<1>3. InUse(n) => Part(n)
  BY <1>1, <1>2 DEF Begun, Reported, InUse, Part, AllSelected, Fetching, Received, Deleting, Retrieving,
                    DeletedOrListed, LeftOrComplete, Ready
<1>4. Asking(n, asked) /\ Locked(n)
  BY <1>1, <1>2 DEF Begun, Reported, Asking, Locked
<1>5. Sound(n, asked) /\ n.link.marked \subseteq s.link.marked
  BY <1>1, <1>2, <1>3, <1>4 DEF Begun, Reported, Sound
<1> QED
  BY <1>5 DEF Connected, n, m

\* What the daemon has made sure of before it sends a request.
LEMMA IdleFields ==
  ASSUME NEW asked, Sound(Now, asked), Idle
  PROVE  /\ Typed(Now) /\ Asking(Now, asked) /\ Locked(Now) /\ ~client.running
         /\ handler.request = "none" /\ ~handler.posted
  BY NowFields DEF Sound, Idle

\* What a request leaves when the daemon has had none.
LEMMA RequestTaken ==
  ASSUME NEW asked, NEW later, NEW n, Become(n), Sound(n, later), n.link.marked \subseteq link.marked,
         handler.request = "none"
  PROVE  TakenTo(asked, later)
<1>1. Proper(Now, n, asked)
  BY QuietProper, NowFields
<1> QED
  BY <1>1 DEF TakenTo

\* exportUpdates only posts its completion.
LEMMA ExportTaken ==
  ASSUME NEW asked, Sound(Now, asked), ExportUpdates
  PROVE  TakenTo(asked, asked)
<1> DEFINE r == "export"
           a == Asked(Now, r)
           n == PostedOf(a)
<1>1. Idle /\ Become(n) /\ r \notin {"delete", "retrieve"}
  BY DEF ExportUpdates, Post, PostedOf
<1>2. Typed(Now) /\ handler.request = "none"
  BY <1>1, IdleFields
<1> HIDE DEF r
<1>3. Reported(Now, a) /\ a.handler.request = r
  BY <1>2, AskedFields
<1> HIDE DEF a
<1>4. Reported(a, n) /\ n.handler.request = a.handler.request
  BY <1>3, PostFields DEF Reported
<1> HIDE DEF n
<1>5. Reported(Now, n) /\ n.handler.request = r
  BY <1>3, <1>4 DEF Reported
<1>6. Sound(n, asked)
  BY <1>1, <1>5, AskedSound
<1> QED
  BY <1>1, <1>2, <1>5, <1>6, RequestTaken, NowFields DEF Reported

\* retrieveAll and synchronize work on no selection.
LEMMA SynchronizeTaken ==
  ASSUME NEW asked, Sound(Now, asked), Synchronize
  PROVE  TakenTo(asked, asked)
<1> DEFINE r == "synchronize"
           a == Asked(Now, r)
<1>1. Idle /\ r \notin {"delete", "retrieve"} /\ \E arrives \in BOOLEAN : Become(RetrieveAll(a, arrives))
  BY DEF Synchronize
<1>2. Typed(Now) /\ handler.request = "none" /\ ~client.running
  BY <1>1, IdleFields
<1>3. PICK arrives \in BOOLEAN : Become(RetrieveAll(a, arrives))
  BY <1>1
<1> HIDE DEF r
<1>4. Reported(Now, a) /\ a.handler.request = r
  BY <1>2, AskedFields
<1> HIDE DEF a
<1>5. Sound(a, asked)
  BY <1>1, <1>4, AskedSound
<1> DEFINE n == RetrieveAll(a, arrives)
<1>6. Checked(a, n, asked)
  BY <1>1, <1>4, <1>5, AllBegun DEF Sound
<1>7. Become(n)
  BY <1>3
<1> HIDE DEF n
<1>8. Sound(n, asked) /\ n.link.marked \subseteq link.marked
  BY <1>2, <1>4, <1>5, <1>6, NowFields DEF Checked, Reported
<1> QED
  BY <1>2, <1>7, <1>8, RequestTaken

\* setOperation, with a name for what it leaves
OperationOf(s, limit, n) ==
  /\ Typed(n) /\ n.source = s.source /\ n.handler = s.handler /\ n.link = s.link
  /\ n.client.selected = FALSE /\ n.client.deleting = FALSE /\ n.client.limit = limit
  /\ n.client.testing = s.client.testing /\ n.client.status = s.client.status
  /\ n.client.running = s.client.running /\ n.client.uid = s.client.uid
  /\ n.client.obsolete = s.client.obsolete /\ SameMessages(s.store, n.store)

\* The same of setOperation, with this name.
LEMMA OperationMade ==
  ASSUME NEW s, Typed(s), NEW limit
  PROVE  OperationOf(s, limit, SetOperation(s, limit))
  BY OperationFields DEF OperationOf, SameMessages

\* setSelectedMails
SelectionOf(s, uids, n) ==
  /\ Typed(n) /\ n.source = s.source /\ n.handler = s.handler /\ n.link = s.link /\ n.store = s.store
  /\ n.client.selected = TRUE /\ n.client.deleting = s.client.deleting /\ n.client.limit = s.client.limit
  /\ n.client.selection = uids /\ n.client.existing = uids /\ n.client.left = uids
  /\ n.client.running = s.client.running /\ n.client.obsolete = s.client.obsolete

\* The same of setSelectedMails, with this name.
LEMMA SelectionMade ==
  ASSUME NEW s, Typed(s), NEW uids \in SUBSET Uid, \A u \in uids : s.store.local[u] # "none"
  PROVE  SelectionOf(s, uids, SetSelectedMails(s, uids))
  BY SelectionFields DEF SelectionOf

\* retrieveMessages: every message of the selection is ready to be written.
LEMMA RetrieveTaken ==
  ASSUME NEW asked, Sound(Now, asked), NEW uids, uids \subseteq InStore, NEW limit, RetrieveMessages(uids, limit)
  PROVE  TakenTo(asked, asked)
<1> DEFINE r == "retrieve"
           a == Asked(Now, r)
           b == SetOperation(a, limit)
           c == SetSelectedMails(b, uids)
<1>1. Idle /\ \E arrives \in BOOLEAN : Become(BusyOf(NewConnection(c, arrives)))
  BY DEF RetrieveMessages, Busy, BusyOf
<1>2. Typed(Now) /\ Asking(Now, asked) /\ handler.request = "none" /\ ~client.running /\ ~handler.posted
  BY <1>1, IdleFields
<1>3. PICK arrives \in BOOLEAN : Become(BusyOf(NewConnection(c, arrives)))
  BY <1>1
<1>0. r \notin {"delete"}
  OBVIOUS
<1> HIDE DEF r
<1>4. Reported(Now, a) /\ a.handler.request = r /\ a.handler.posted = Now.handler.posted
  BY <1>2, AskedFields
<1> HIDE DEF a
<1>5. OperationOf(a, limit, b)
  BY <1>4, OperationMade DEF Reported
<1> HIDE DEF b
<1>6. uids \in SUBSET Uid /\ \A u \in uids : b.store.local[u] # "none"
  BY <1>4, <1>5, NowFields DEF InStore, Reported, OperationOf, SameMessages
<1>7. SelectionOf(b, uids, c)
  BY <1>5, <1>6, SelectionMade DEF OperationOf
<1> HIDE DEF c
<1>8. Wished(c)
  BY <1>0, <1>4, <1>5, <1>7 DEF Wished, OperationOf, SelectionOf, Ready
<1>9. Asking(c, asked)
  BY <1>2, <1>4, <1>5, <1>7, NowFields DEF Asking, Reported, OperationOf, SelectionOf, SameMessages
<1>10. ~c.client.running /\ ~c.handler.posted /\ c.link = link
  BY <1>2, <1>4, <1>5, <1>7, NowFields DEF Reported, OperationOf, SelectionOf
<1> DEFINE n == BusyOf(NewConnection(c, arrives))
<1>11. Connected(c, asked, n)
  BY <1>7, <1>8, <1>9, <1>10, BusyBegun DEF SelectionOf
<1>12. Become(n)
  BY <1>3
<1> HIDE DEF n
<1> QED
  BY <1>2, <1>10, <1>11, <1>12, RequestTaken DEF Connected

\* deleteMessages: the selection has been asked for, and nothing of it is to be added.
LEMMA DeleteTaken ==
  ASSUME NEW asked, Sound(Now, asked), NEW uids, uids \subseteq InStore, DeleteMessages(uids)
  PROVE  TakenTo(asked, asked \cup uids)
<1> DEFINE r == "delete"
           a == Asked(Now, r)
           d == [a.client EXCEPT !.deleting = TRUE]
           p == [a.source EXCEPT !.deleting = TRUE]
           b == [a EXCEPT !.source.deleting = TRUE, !.client.deleting = TRUE]
           c == SetSelectedMails(b, uids)
           later == asked \cup uids
<1>1. Idle /\ \E arrives \in BOOLEAN : Become(BusyOf(NewConnection(c, arrives)))
  BY DEF DeleteMessages, Busy, BusyOf
<1>2. Typed(Now) /\ Asking(Now, asked) /\ handler.request = "none" /\ ~client.running /\ ~handler.posted
  BY <1>1, IdleFields
<1>3. PICK arrives \in BOOLEAN : Become(BusyOf(NewConnection(c, arrives)))
  BY <1>1
<1>0. r \notin {"retrieve"}
  OBVIOUS
<1> HIDE DEF r
<1>4. /\ Reported(Now, a) /\ a.handler.request = r /\ a.handler.posted = Now.handler.posted
      /\ a.source = Now.source
  BY <1>2, AskedFields
<1> HIDE DEF a
<1>5. Formed(a) /\ ClientTyped(a.client) /\ On(a.source, {"deleting", "unavailable", "queued", "checking"})
  BY <1>4 DEF Reported, Typed
<1>6. b = [a EXCEPT !.source = p, !.client = d]
  BY <1>5 DEF Formed, On
<1>7. /\ On(d, {"status", "running", "selected", "deleting", "testing", "pendingDeletes", "timer",
                "limit", "numbers", "newUids", "obsolete", "selection", "existing", "left", "uid"})
      /\ d.deleting = TRUE /\ d.running = a.client.running
      /\ d.newUids = a.client.newUids /\ d.numbers = a.client.numbers /\ d.left = a.client.left
      /\ d.selection = a.client.selection /\ d.existing = a.client.existing /\ d.obsolete = a.client.obsolete
  BY <1>5 DEF Formed, On
<1>8. On(p, {"deleting", "unavailable", "queued", "checking"})
  BY <1>5 DEF On
<1> HIDE DEF b, d, p
<1>9. /\ On(b, {"client", "source", "link", "mailbox", "store", "handler", "account"})
      /\ b.client = d /\ b.source = p /\ b.link = a.link /\ b.mailbox = a.mailbox
      /\ b.store = a.store /\ b.handler = a.handler
  BY <1>5, <1>6 DEF Formed, On
<1>10. Typed(b)
  <2>1. Formed(b)
    BY <1>5, <1>7, <1>9 DEF Formed
  <2> QED
    BY <1>4, <1>5, <1>7, <1>8, <1>9, <2>1 DEF Reported, Typed, ClientTyped
<1>11. uids \in SUBSET Uid /\ \A u \in uids : b.store.local[u] # "none"
  BY <1>4, <1>9, NowFields DEF InStore, Reported
<1>12. SelectionOf(b, uids, c)
  BY <1>10, <1>11, SelectionMade
<1> HIDE DEF c
<1>13. \A u \in uids : Unadded(c.store, u)
  <2>1. StoreTyped(c.store) /\ \A u \in uids : c.store.local[u] # "none"
    BY <1>11, <1>12 DEF SelectionOf, Typed
  <2> QED
    BY <1>11, <2>1, PresentUnadded
<1>14. Wished(c)
  BY <1>0, <1>4, <1>7, <1>9, <1>12, <1>13 DEF Wished, SelectionOf
<1>15. Asking(c, later)
  BY <1>2, <1>4, <1>7, <1>9, <1>12, NowFields DEF Asking, Reported, SelectionOf
<1>16. ~c.client.running /\ ~c.handler.posted /\ c.link = link
  BY <1>2, <1>4, <1>7, <1>9, <1>12, NowFields DEF Reported, SelectionOf
<1> DEFINE n == BusyOf(NewConnection(c, arrives))
<1> HIDE DEF later
<1>17. Connected(c, later, n)
  BY <1>12, <1>14, <1>15, <1>16, BusyBegun DEF SelectionOf
<1>18. Become(n)
  BY <1>3
<1> HIDE DEF n
<1>19. TakenTo(asked, later)
  BY <1>2, <1>16, <1>17, <1>18, RequestTaken DEF Connected
<1> QED
  BY <1>19 DEF later

\* retrieveMessageList works on no selection, and completes later or connects.
LEMMA ListTaken ==
  ASSUME NEW asked, Sound(Now, asked), Session(Now), RetrieveMessageList
  PROVE  TakenTo(asked, asked)
<1> DEFINE r == "list"
           limit == "auto"
           a == Asked(Now, r)
           s == SetOperation(a, limit)
<1>1. Idle /\ r \notin {"delete", "retrieve"} /\ limit = "auto"
      /\ (Become(PostedOf(s)) \/ \E arrives \in BOOLEAN : Become(BusyOf(NewConnection(s, arrives))))
  BY DEF RetrieveMessageList, Busy, BusyOf, Post, PostedOf
<1>2. Typed(Now) /\ Asking(Now, asked) /\ handler.request = "none" /\ ~client.running /\ ~handler.posted
  BY <1>1, IdleFields
<1> HIDE DEF r, limit
<1>4. Reported(Now, a) /\ a.handler.request = r /\ a.handler.posted = Now.handler.posted
  BY <1>2, AskedFields
<1> HIDE DEF a
<1>5. OperationOf(a, limit, s)
  BY <1>4, OperationMade DEF Reported
<1> HIDE DEF s
<1>6. Asking(s, asked) /\ Wished(s)
  BY <1>1, <1>2, <1>4, <1>5, NowFields DEF Asking, Wished, Reported, OperationOf, SameMessages
<1>7. ~s.client.running /\ ~s.handler.posted /\ s.link = link
  BY <1>2, <1>4, <1>5, NowFields DEF Reported, OperationOf
<1>8. CASE Become(PostedOf(s))
  <2> DEFINE n == PostedOf(s)
  <2>1. Reported(s, n) /\ n.source = s.source /\ n.handler.request = s.handler.request
    BY <1>5, PostFields DEF OperationOf
  <2>2. Become(n)
    BY <1>8
  <2> HIDE DEF n
  <2>3. /\ n.client.selected = FALSE /\ n.client.deleting = FALSE /\ n.client.limit = "auto"
        /\ n.client.testing = client.testing /\ n.client.status = client.status
        /\ n.client.running = client.running /\ n.client.uid = client.uid
        /\ n.link = link /\ n.handler.request = r /\ Typed(n)
    BY <1>1, <1>4, <1>5, <2>1, NowFields DEF Reported, OperationOf
  <2>4. AllSelected(n) /\ Received(n) /\ Deleting(n) /\ Retrieving(n)
    BY <1>1, <1>2, <2>3 DEF AllSelected, Received, Deleting, Retrieving
  <2>5. InUse(n) => Fetching(n)
    <3> SUFFICES ASSUME InUse(Now), client.status \in {"Retr", "Top", "MessageDataRetr", "MessageDataTop"}
                 PROVE  /\ client.uid \in Uid
                        /\ client.status \in {"Retr", "MessageDataRetr"} => client.uid \notin Large
      BY <2>3, NowFields DEF InUse, Fetching, Whole
    <3>1. /\ client.uid \in Uid
          /\ client.status \in {"Retr", "MessageDataRetr"} => Whole(client, client.uid)
      BY NowFields DEF Sound, Part, Fetching
    <3>2. ~client.testing /\ ~client.selected
      BY <1>2, NowFields DEF Session, Tested, Requested, Free
    <3>3. client.limit # "all"
      BY <3>2, NowFields DEF Sound, Part, AllSelected
    <3> QED
      BY <3>1, <3>3 DEF Whole
  <2>6. Asking(n, asked) /\ Locked(n)
    BY <1>1, <1>6, <2>1, <2>3 DEF Asking, Locked, Reported
  <2>7. Sound(n, asked)
    BY <1>2, <2>3, <2>4, <2>5, <2>6 DEF Sound, Part
  <2> QED
    BY <1>2, <2>2, <2>3, <2>7, RequestTaken
<1>9. CASE \E arrives \in BOOLEAN : Become(BusyOf(NewConnection(s, arrives)))
  <2>1. PICK arrives \in BOOLEAN : Become(BusyOf(NewConnection(s, arrives)))
    BY <1>9
  <2> DEFINE n == BusyOf(NewConnection(s, arrives))
  <2>2. Connected(s, asked, n)
    BY <1>5, <1>6, <1>7, BusyBegun DEF OperationOf
  <2>3. Become(n)
    BY <2>1
  <2> HIDE DEF n
  <2> QED
    BY <1>2, <1>7, <2>2, <2>3, RequestTaken DEF Connected
<1> QED
  BY <1>1, <1>8, <1>9

\* testConnection, for a request that works on no selection.
LEMMA TestFields ==
  ASSUME NEW s, NEW asked, Typed(s), Asking(s, asked), s.handler.request \notin {"delete", "retrieve"},
         ~s.client.running, ~s.handler.posted, NEW arrives
  PROVE  Connected(s, asked, BusyOf(TestConnection(s, arrives)))
<1> DEFINE d == [s.client EXCEPT !.testing = TRUE, !.pendingDeletes = FALSE]
           x == [s EXCEPT !.client = d]
           a == CloseConnection(x, arrives)
           e == [a.client EXCEPT !.status = "Exit"]
           b == [a EXCEPT !.client = e]
           m == TestConnection(s, arrives)
           n == BusyOf(m)
<1>0. Formed(s) /\ ClientTyped(s.client)
  BY DEF Typed
<1>1. m = IF s.account.configured THEN Open(a) ELSE OperationFailed(b)
  <2>1. x = [s EXCEPT !.client.testing = TRUE, !.client.pendingDeletes = FALSE]
    BY <1>0 DEF Formed, On
  <2>2. \A y : [y EXCEPT !.client = [y.client EXCEPT !.status = "Exit"]] = [y EXCEPT !.client.status = "Exit"]
    OBVIOUS
  <2> HIDE DEF x
  <2> QED
    BY <2>1, <2>2 DEF TestConnection
<1> HIDE DEF m
<1>2. /\ On(d, {"status", "running", "selected", "deleting", "testing", "pendingDeletes", "timer",
                "limit", "numbers", "newUids", "obsolete", "selection", "existing", "left", "uid"})
      /\ d.testing = TRUE /\ d.running = s.client.running /\ d.deleting = s.client.deleting
      /\ d.newUids = s.client.newUids /\ d.numbers = s.client.numbers /\ d.left = s.client.left
      /\ d.selection = s.client.selection /\ d.existing = s.client.existing /\ d.obsolete = s.client.obsolete
  BY <1>0 DEF Formed, On
<1> HIDE DEF d
<1>3. ClientTyped(d)
  BY <1>0, <1>2 DEF ClientTyped
<1>4. /\ Typed(x) /\ x.client = d /\ x.source = s.source /\ x.link = s.link /\ x.store = s.store /\ x.handler = s.handler
  BY <1>2, <1>3, ClientChanged
<1> HIDE DEF x
<1>5. /\ Typed(a) /\ a.link = NoSession /\ a.store = s.store /\ a.source = s.source /\ a.handler = s.handler
      /\ SameTask(d, a.client) /\ a.client.running = s.client.running /\ a.link.marked = {}
  <2>1. /\ Typed(a) /\ a.link = NoSession /\ a.store = x.store /\ a.source = x.source /\ a.handler = x.handler
        /\ SameTask(x.client, a.client) /\ a.client.running = x.client.running /\ a.account = x.account
        /\ a.link.marked = {} /\ ~InUse(a)
    BY <1>4, CloseFields
  <2> QED
    BY <1>2, <1>4, <2>1
<1> HIDE DEF a
<1>6. Asking(a, asked)
  BY <1>2, <1>5 DEF Asking, SameTask
<1>7. CASE s.account.configured
  <2>1. /\ Typed(m) /\ m.store = a.store /\ m.source = a.source /\ m.handler = a.handler
        /\ SameTask(a.client, m.client) /\ m.client.running = a.client.running /\ m.client.status = "Init"
        /\ m.link.marked \subseteq a.link.marked
    BY <1>1, <1>5, <1>7, OpenFields
  <2>2. Reported(m, n) /\ n.source.unavailable = TRUE /\ n.handler = m.handler
    BY <2>1, BusyFields
  <2> HIDE DEF n
  <2>3. Part(n)
    BY <1>2, <1>5, <2>1, <2>2 DEF Reported, SameTask, Part, AllSelected, Fetching, Received, Deleting, Retrieving
  <2>4. Asking(n, asked) /\ Locked(n)
    BY <1>5, <1>6, <2>1, <2>2 DEF Reported, Asking, Locked, SameTask
  <2>5. Sound(n, asked) /\ n.link.marked \subseteq s.link.marked
    BY <1>5, <2>1, <2>2, <2>3, <2>4 DEF Sound, Reported
  <2> QED
    BY <2>5 DEF Connected, n, m
<1>8. CASE ~s.account.configured
  <2>0. Formed(a) /\ ClientTyped(a.client)
    BY <1>5 DEF Typed
  <2>1. /\ On(e, {"status", "running", "selected", "deleting", "testing", "pendingDeletes", "timer",
                  "limit", "numbers", "newUids", "obsolete", "selection", "existing", "left", "uid"})
        /\ e.deleting = a.client.deleting /\ e.newUids = a.client.newUids /\ e.numbers = a.client.numbers
        /\ e.left = a.client.left /\ e.selection = a.client.selection /\ e.existing = a.client.existing
        /\ e.obsolete = a.client.obsolete
    BY <2>0 DEF Formed, On
  <2> HIDE DEF e
  <2>2. ClientTyped(e)
    BY <2>0, <2>1 DEF ClientTyped
  <2>3. /\ Typed(b) /\ b.client = e /\ b.source = a.source /\ b.link = a.link /\ b.store = a.store /\ b.handler = a.handler
    BY <1>5, <2>1, <2>2, ClientChanged
  <2> HIDE DEF b
  <2>4. Asking(b, asked)
    BY <1>6, <2>1, <2>3 DEF Asking
  <2>5. Failed(b, asked, OperationFailed(b))
    BY <2>3, <2>4, FailSound
  <2>6. Failed(b, asked, m)
    BY <1>1, <1>8, <2>5
  <2>7. Typed(m) /\ Sound(m, asked) /\ m.link.marked \subseteq s.link.marked /\ m.handler.request \notin {"delete", "retrieve"}
    <3> DEFINE f == OperationFailed(b)
    <3>1. f.handler.request = "none"
      <4>1. /\ Typed(f) /\ f.store = b.store /\ SameTask(b.client, f.client) /\ f.client.running = FALSE
            /\ f.handler.request = "none" /\ f.handler.success = FALSE /\ f.handler.posted = b.handler.posted
            /\ ~InUse(f) /\ f.link.marked \subseteq b.link.marked
        BY <2>3, FailFields
      <4> QED
        BY <4>1
    <3> HIDE DEF f
    <3>2. m = f
      BY <1>1, <1>8 DEF f
    <3> QED
      BY <1>5, <2>3, <2>6, <3>1, <3>2 DEF Failed, Sound
  <2>8. Reported(m, n) /\ n.source.unavailable = TRUE /\ n.handler = m.handler
    BY <2>7, BusyFields
  <2> HIDE DEF n
  <2>9. Sound(n, asked)
    BY <2>7, <2>8, AskedSound
  <2> QED
    BY <2>7, <2>8, <2>9 DEF Connected, Reported, n, m
<1> QED
  BY <1>7, <1>8

\* retrieveFolderList posts its completion, or tests the connection.
LEMMA FoldersTaken ==
  ASSUME NEW asked, Sound(Now, asked), RetrieveFolderList
  PROVE  TakenTo(asked, asked)
<1> DEFINE r == "folders"
           a == Asked(Now, r)
           t == [a.store EXCEPT !.inbox = TRUE]
           s == [a EXCEPT !.store = t]
<1>1. /\ Idle /\ r \notin {"delete", "retrieve"}
      /\ \/ Become(PostedOf(a))
         \/ \E arrives \in BOOLEAN : Become(BusyOf(TestConnection(s, arrives)))
  BY DEF RetrieveFolderList, Busy, BusyOf, Post, PostedOf
<1>2. Typed(Now) /\ Asking(Now, asked) /\ handler.request = "none" /\ ~client.running /\ ~handler.posted
  BY <1>1, IdleFields
<1> HIDE DEF r
<1>4. Reported(Now, a) /\ a.handler.request = r /\ a.handler.posted = Now.handler.posted
  BY <1>2, AskedFields
<1> HIDE DEF a
<1>5. CASE Become(PostedOf(a))
  <2> DEFINE n == PostedOf(a)
  <2>1. Reported(a, n) /\ n.handler.request = a.handler.request
    BY <1>4, PostFields DEF Reported
  <2>2. Become(n)
    BY <1>5
  <2> HIDE DEF n
  <2>3. Reported(Now, n) /\ n.handler.request = r
    BY <1>4, <2>1 DEF Reported
  <2>4. Sound(n, asked)
    BY <1>1, <2>3, AskedSound
  <2> QED
    BY <1>2, <2>2, <2>3, <2>4, RequestTaken, NowFields DEF Reported
<1>6. CASE \E arrives \in BOOLEAN : Become(BusyOf(TestConnection(s, arrives)))
  <2>1. PICK arrives \in BOOLEAN : Become(BusyOf(TestConnection(s, arrives)))
    BY <1>6
  <2>2. /\ On(t, {"local", "records", "removed", "refused", "buffer", "timer", "inbox"})
        /\ t.local = a.store.local /\ t.buffer = a.store.buffer /\ t.records = a.store.records
    BY <1>4 DEF Reported, Typed, StoreTyped, On
  <2> HIDE DEF t
  <2>3. /\ Typed(s) /\ s.client = a.client /\ s.source = a.source /\ s.link = a.link
        /\ s.store = t /\ s.handler = a.handler
    BY <1>4, <2>2, StoreChanged DEF Reported
  <2> HIDE DEF s
  <2>4. Asking(s, asked)
    BY <1>2, <1>4, <2>2, <2>3, NowFields DEF Asking, Reported
  <2>5. ~s.client.running /\ ~s.handler.posted /\ s.handler.request \notin {"delete", "retrieve"}
        /\ s.link = link
    BY <1>1, <1>2, <1>4, <2>3, NowFields DEF Reported
  <2> DEFINE n == BusyOf(TestConnection(s, arrives))
  <2>6. Connected(s, asked, n)
    BY <2>3, <2>4, <2>5, TestFields
  <2>7. Become(n)
    BY <2>1
  <2> HIDE DEF n
  <2> QED
    BY <1>2, <2>5, <2>6, <2>7, RequestTaken DEF Connected
<1> QED
  BY <1>1, <1>5, <1>6

\* cancelOperation fails the operation, and closes the connection.
LEMMA CancelTaken ==
  ASSUME NEW asked, Sound(Now, asked), CancelOperation
  PROVE  Taken(asked)
<1> DEFINE f == FALSE
           a == OperationFailed(Now)
           b == CloseConnection(a, f)
           n == RetrievalTerminated(b)
<1>1. Become(n)
  BY DEF CancelOperation
<1>2. Typed(Now) /\ Asking(Now, asked)
  BY DEF Sound
<1> HIDE DEF f
<1>3. /\ Typed(a) /\ a.store = Now.store /\ SameTask(Now.client, a.client) /\ a.client.running = FALSE
      /\ a.handler.request = "none" /\ a.handler.success = FALSE /\ a.handler.posted = Now.handler.posted
      /\ ~InUse(a) /\ a.link.marked \subseteq Now.link.marked
  BY <1>2, FailFields
<1> HIDE DEF a
<1>4. /\ Typed(b) /\ b.link = NoSession /\ b.store = a.store /\ b.source = a.source /\ b.handler = a.handler
      /\ SameTask(a.client, b.client) /\ b.client.running = a.client.running /\ b.account = a.account
      /\ b.link.marked = {} /\ ~InUse(b)
  BY <1>3, CloseFields
<1> HIDE DEF b
<1>5. /\ Typed(n) /\ n.client = b.client /\ n.link = b.link /\ n.store = b.store /\ SameRequest(b, n)
      /\ n.account = b.account
  BY <1>4, TerminatedFields
<1> HIDE DEF n
<1>6. Asking(n, asked) /\ Locked(n) /\ ~InUse(n)
  BY <1>2, <1>3, <1>4, <1>5 DEF Asking, Locked, SameTask, SameRequest, InUse
<1>7. Sound(n, asked)
  BY <1>3, <1>4, <1>5, <1>6 DEF Sound
<1>8. n.handler.success = FALSE /\ n.link.marked \subseteq Now.link.marked
  BY <1>3, <1>4, <1>5 DEF SameRequest
<1>9. Proper(Now, n, asked)
  BY <1>8, QuietProper
<1> QED
  BY <1>1, <1>7, <1>9 DEF Taken

\* Every request of the daemon is a sound step.
LEMMA RequestsTaken ==
  ASSUME Sound(Now, history.asked), Session(Now), Request, On(history, {"arrived", "requests", "crashes", "asked"})
  PROVE  TakenTo(history.asked, history'.asked)
<1> DEFINE asked == history.asked
<1>1. ASSUME Taken(asked)
      PROVE  TakenTo(asked, asked)
  BY <1>1 DEF Taken, TakenTo
<1>2. CASE RetrieveFolderList \/ RetrieveMessageList \/ Synchronize \/ ExportUpdates
  <2>1. history'.asked = asked
    BY <1>2 DEF RetrieveFolderList, RetrieveMessageList, Synchronize, ExportUpdates, Count, On
  <2> HIDE DEF asked
  <2>2. TakenTo(asked, asked)
    BY <1>2, FoldersTaken, ListTaken, SynchronizeTaken, ExportTaken DEF asked
  <2> QED
    BY <2>1, <2>2 DEF asked
<1>3. ASSUME NEW uids \in SUBSET InStore, NEW limit, RetrieveMessages(uids, limit)
      PROVE  TakenTo(asked, history'.asked)
  <2>1. history'.asked = asked
    BY <1>3 DEF RetrieveMessages, Count, On
  <2>2. TakenTo(asked, asked)
    BY <1>3, RetrieveTaken
  <2> QED
    BY <2>1, <2>2
<1>4. ASSUME NEW uids \in SUBSET InStore, DeleteMessages(uids)
      PROVE  TakenTo(asked, history'.asked)
  <2>1. history'.asked = asked \cup uids
    BY <1>4 DEF DeleteMessages, On
  <2>2. TakenTo(asked, asked \cup uids)
    BY <1>4, DeleteTaken
  <2> QED
    BY <2>1, <2>2
<1>5. CASE CancelRequest
  <2>1. history'.asked = asked
    BY <1>5 DEF CancelRequest
  <2>2. Taken(asked)
    BY <1>5, CancelTaken DEF CancelRequest
  <2> QED
    BY <1>1, <2>1, <2>2
<1> QED
  BY <1>2, <1>3, <1>4, <1>5 DEF Request

-----------------------------------------------------------------------------
(* So are timers, the transport, and the world around *)

\* A step that changes neither the messages nor the request.
LEMMA BesideTaken ==
  ASSUME NEW asked, NEW later, asked \subseteq later, Sound(Now, asked), ~client.running, NEW n, Become(n), Typed(n),
         n.client = client, n.store = store, n.source = source, SameRequest(Now, n),
         n.link.marked \subseteq link.marked, InUse(n) => InUse(Now)
  PROVE  TakenTo(asked, later)
<1>1. Sound(n, asked)
  BY SoundAlike, NowFields
<1>2. Sound(n, later)
  BY <1>1 DEF Sound, Asking
<1>3. Proper(Now, n, asked)
  BY QuietProper, NowFields DEF SameRequest
<1> QED
  BY <1>2, <1>3 DEF TakenTo

\* A step that changes the maildrop or the account only.
LEMMA OutsideTaken ==
  ASSUME NEW asked, NEW later, asked \subseteq later, Sound(Now, asked), ~client.running,
         NEW m \in SUBSET Uid, NEW a,
         Become([Now EXCEPT !.mailbox = m]) \/ Become([Now EXCEPT !.account = a])
  PROVE  TakenTo(asked, later)
<1>1. Typed(Now) /\ Formed(Now)
  BY DEF Sound, Typed
<1>2. ASSUME NEW n, n = [Now EXCEPT !.mailbox = m] \/ n = [Now EXCEPT !.account = a], Become(n)
      PROVE  TakenTo(asked, later)
  <2>1. /\ On(n, {"client", "source", "link", "mailbox", "store", "handler", "account"})
        /\ n.client = client /\ n.source = source /\ n.link = link /\ n.store = store /\ n.handler = handler
        /\ n.mailbox \in SUBSET Uid
    BY <1>1, <1>2, NowFields DEF Formed, On
  <2>2. Formed(n)
    BY <1>1, <2>1, NowFields DEF Formed
  <2>3. Typed(n)
    BY <1>1, <2>1, <2>2, NowFields DEF Typed
  <2>4. SameRequest(Now, n) /\ (InUse(n) => InUse(Now))
    BY <2>1, NowFields DEF SameRequest, InUse
  <2> QED
    BY <1>2, <2>1, <2>3, <2>4, BesideTaken
<1> QED
  BY <1>2

\* The completion that was posted: no request on a selection waits for it.
LEMMA PostedTaken ==
  ASSUME NEW asked, Sound(Now, asked), Posted
  PROVE  Taken(asked)
<1> DEFINE f == FALSE
           s == [Now EXCEPT !.handler.posted = f]
<1>1. PICK arrives \in BOOLEAN : Become(RetrievalCompleted(s, arrives))
  BY DEF Posted
<1>2. ~client.running /\ handler.posted
  BY DEF Posted, Quiet
<1>3. Typed(Now) /\ handler.request \notin {"delete", "retrieve"}
  BY <1>2, NowFields DEF Sound, Locked
<1> HIDE DEF f
<1>4. /\ On(s, {"client", "source", "link", "mailbox", "store", "handler", "account"})
      /\ s.client = client /\ s.link = link /\ s.mailbox = mailbox /\ s.store = store /\ s.source = source
      /\ On(s.handler, {"request", "available", "posted", "told", "success"})
      /\ s.handler.request = handler.request
  BY <1>3, NowFields DEF Typed, Formed, On
<1> HIDE DEF s
<1>5. Reported(Now, s)
  <2>1. Typed(s)
    BY <1>3, <1>4, ReportFields, NowFields DEF Typed
  <2> QED
    BY <1>4, <2>1, NowFields DEF Reported
<1>6. Sound(s, asked)
  BY <1>3, <1>4, <1>5, AskedSound
<1> DEFINE n == RetrievalCompleted(s, arrives)
<1>7. /\ Typed(n) /\ Asking(n, asked) /\ SameMessages(s.store, n.store)
      /\ n.handler.request = "none" /\ n.link.marked \subseteq s.link.marked
      /\ n.link = s.link \/ n.client.selected = FALSE
      /\ Sound(s, asked) /\ ~s.client.running => Sound(n, asked)
  BY <1>6, CompletionFields DEF Sound
<1>8. Become(n)
  BY <1>1
<1> HIDE DEF n
<1>9. Proper(Now, n, asked)
  BY <1>3, <1>4, <1>7, QuietProper, NowFields
<1> QED
  BY <1>2, <1>4, <1>6, <1>7, <1>8, <1>9 DEF Taken

\* The interval timer of the account begins or queues a mail check.
LEMMA DueTaken ==
  ASSUME NEW asked, Sound(Now, asked), MailCheckDue
  PROVE  Taken(asked)
<1>1. PICK arrives \in BOOLEAN : Become(QueueMailCheck(Now, arrives))
  BY DEF MailCheckDue
<1> DEFINE n == QueueMailCheck(Now, arrives)
<1>2. Checked(Now, n, asked)
  BY CheckBegun DEF Sound
<1>3. Become(n)
  BY <1>1
<1> HIDE DEF n
<1>4. Sound(n, asked)
  BY <1>2, NowFields DEF Checked, MailCheckDue
<1>5. Proper(Now, n, asked)
  BY <1>2, QuietProper DEF Checked
<1> QED
  BY <1>3, <1>4, <1>5 DEF Taken

\* connectionInactive closes a connection that no operation uses.
LEMMA InactiveTaken ==
  ASSUME NEW asked, Sound(Now, asked), ConnectionInactive
  PROVE  Taken(asked)
<1>1. PICK arrives \in BOOLEAN : Become(CloseConnection(Now, arrives))
  BY DEF ConnectionInactive
<1> DEFINE n == CloseConnection(Now, arrives)
<1>2. Typed(Now) /\ Asking(Now, asked) /\ Locked(Now) /\ ~client.running
  BY DEF Sound, ConnectionInactive, Quiet
<1>3. /\ Typed(n) /\ n.link = NoSession /\ n.store = Now.store /\ n.source = Now.source /\ n.handler = Now.handler
      /\ SameTask(Now.client, n.client) /\ n.client.running = Now.client.running /\ n.account = Now.account
      /\ n.link.marked = {} /\ ~InUse(n)
  BY <1>2, CloseFields
<1>4. Become(n)
  BY <1>1
<1> HIDE DEF n
<1>5. Sound(n, asked)
  BY <1>2, <1>3, NowFields DEF Sound, Asking, Locked, SameTask
<1>6. Proper(Now, n, asked)
  BY <1>3, QuietProper
<1> QED
  BY <1>4, <1>5, <1>6 DEF Taken

\* The messages that were waited for are as present, or absent, as before.
LEMMA WritingSound ==
  ASSUME NEW s, NEW asked, Sound(s, asked), ~s.client.running, NEW n, Flushed(s, n)
  PROVE  Sound(n, asked)
<1>1. /\ Typed(n) /\ n.client = s.client /\ n.source = s.source /\ n.link = s.link /\ SameRequest(s, n)
      /\ n.store.records = s.store.records
      /\ \A u \in Uid : (Absent(s.store, u) => Absent(n.store, u)) /\ (Complete(s.store, u) => Complete(n.store, u))
  BY DEF Flushed, Beside
<1>2. \A u : Unadded(n.store, u)
  BY DEF Flushed, Unadded
<1>3. Asking(n, asked) /\ Locked(n)
  BY <1>1 DEF Sound, Asking, Locked, SameRequest
<1>4. s.client.selection \subseteq Uid
  BY DEF Sound, Typed, ClientTyped
<1>5. InUse(n) => Part(n)
  <2> SUFFICES ASSUME InUse(n)
               PROVE  Part(n)
    OBVIOUS
  <2>1. Part(s)
    BY <1>1 DEF Sound, InUse
  <2>2. AllSelected(n) /\ Fetching(n) /\ Received(n)
    BY <1>1, <2>1 DEF Part, AllSelected, Fetching, Received
  <2>3. \A u \in s.client.selection : DeletedOrListed(s, u) => DeletedOrListed(n, u)
    BY <1>1, <1>4 DEF DeletedOrListed
  <2>4. Deleting(n)
    BY <1>1, <1>2, <1>4, <2>1, <2>3 DEF Part, Deleting, SameRequest
  <2>5. \A u \in s.client.selection : /\ Ready(s, u) => Ready(n, u)
                                      /\ LeftOrComplete(s, u) => LeftOrComplete(n, u)
    BY <1>1, <1>4 DEF Ready, LeftOrComplete
  <2>6. Retrieving(n)
    BY <1>1, <1>4, <2>1, <2>5 DEF Part, Retrieving, SameRequest
  <2> QED
    BY <2>2, <2>4, <2>6 DEF Part
<1> QED
  BY <1>1, <1>3, <1>5 DEF Sound

\* messageTimeout writes the buffer in the middle of any operation.
LEMMA TimeoutTaken ==
  ASSUME NEW asked, Sound(Now, asked), MessageTimeout
  PROVE  Taken(asked)
<1>0. ~client.running /\ Typed(Now)
  BY DEF MessageTimeout, Quiet, Sound
<1>1. CASE Become(Flush(Now))
  <2> DEFINE n == Flush(Now)
  <2>1. Flushed(Now, n)
    BY <1>0, FlushFields
  <2>2. Become(n)
    BY <1>1
  <2> HIDE DEF n
  <2>3. Sound(n, asked)
    BY <1>0, <2>1, WritingSound, NowFields
  <2> QED
    BY <2>1, <2>2, <2>3, QuietTaken, NowFields DEF Flushed, Beside, SameRequest
<1>2. CASE Become([Now EXCEPT !.store.timer = FALSE])
  <2> DEFINE t == [store EXCEPT !.timer = FALSE]
             n == [Now EXCEPT !.store = t]
  <2>1. Become(n)
    BY <1>0, <1>2, NowFields DEF Typed, Formed, On
  <2>2. /\ On(t, {"local", "records", "removed", "refused", "buffer", "timer", "inbox"})
        /\ t.local = Now.store.local /\ t.buffer = Now.store.buffer /\ SameMessages(store, t)
    BY <1>0, NowFields DEF Typed, StoreTyped, On, SameMessages
  <2> HIDE DEF t
  <2>3. /\ Typed(n) /\ n.client = Now.client /\ n.source = Now.source /\ n.link = Now.link /\ n.mailbox = Now.mailbox
        /\ n.store = t /\ n.handler = Now.handler
    BY <1>0, <2>2, StoreChanged
  <2> HIDE DEF n
  <2>4. \A u : /\ Unadded(store, u) => Unadded(t, u)
               /\ Absent(store, u) => Absent(t, u)
               /\ Complete(store, u) => Complete(t, u)
    BY <2>2, SamePresence, NowFields DEF SameMessages
  <2>5. Asking(n, asked) /\ Locked(n)
    BY <2>2, <2>3, NowFields DEF Sound, Asking, Locked, SameMessages
  <2>6. InUse(n) => Part(n)
    BY <1>0, <2>3, <2>4, NowFields DEF Sound, InUse, Part, AllSelected, Fetching, Received, Deleting,
                       Retrieving, DeletedOrListed, LeftOrComplete, Ready
  <2>7. Sound(n, asked)
    BY <1>0, <2>3, <2>5, <2>6, NowFields DEF Sound
  <2> QED
    BY <2>1, <2>3, <2>7, QuietTaken, NowFields
<1> QED
  BY <1>1, <1>2 DEF MessageTimeout

\* The transport is connected: the maildrop is that of the server now.
LEMMA UpTaken ==
  ASSUME NEW asked, Sound(Now, asked), LinkUp
  PROVE  TakenTo(asked, asked)
<1> DEFINE l == [state |-> "up", wire |-> <<Ok>>, drop |-> mailbox, marked |-> {}]
           n == [Now EXCEPT !.link = l]
<1>1. Become(n) /\ link.state = "opening" /\ ~client.running
  BY DEF LinkUp, Quiet
<1>2. Typed(Now) /\ Formed(Now)
  BY DEF Sound, Typed
<1>3. <<Ok>> \in Seq(LineOf(mailbox))
  <2>1. Ok \in LineOf(mailbox)
    BY DEF Ok, Line, LineOf
  <2> QED
    BY <2>1
<1>4. On(l, {"state", "wire", "drop", "marked"}) /\ l.wire = <<Ok>> /\ l.drop = mailbox /\ l.state = "up" /\ l.marked = {}
  BY DEF On
<1> HIDE DEF l
<1>5. /\ On(n, {"client", "source", "link", "mailbox", "store", "handler", "account"})
      /\ n.client = client /\ n.source = source /\ n.link = l /\ n.mailbox = mailbox /\ n.store = store
      /\ n.handler = handler
  BY DEF Now, On
<1> HIDE DEF n
<1>6. Formed(n)
  <2>1. l.drop \in SUBSET Uid /\ l.wire \in Seq(LineOf(l.drop))
    BY <1>2, <1>3, <1>4, NowFields DEF Formed
  <2> QED
    BY <1>2, <1>4, <1>5, <2>1, NowFields DEF Formed
<1>7. Typed(n)
  BY <1>2, <1>5, <1>6, NowFields DEF Typed
<1>8. SameRequest(Now, n) /\ InUse(Now)
  BY <1>1, <1>5, NowFields DEF SameRequest, InUse
<1> QED
  BY <1>1, <1>4, <1>5, <1>7, <1>8, BesideTaken

\* transportError fails the operation.
LEMMA ErrorTaken ==
  ASSUME NEW asked, Sound(Now, asked), LinkFails
  PROVE  Taken(asked)
<1> DEFINE l == [NoSession EXCEPT !.state = "idle"]
           s == [Now EXCEPT !.link = l]
<1>1. Become(OperationFailed(s)) /\ ~client.running
  BY DEF LinkFails, Quiet
<1>2. Typed(Now) /\ Formed(Now) /\ Asking(Now, asked)
  BY DEF Sound, Typed
<1>3. /\ On(l, {"state", "wire", "drop", "marked"}) /\ l.wire = <<>> /\ l.drop = {} /\ l.state = "idle"
      /\ l.marked = {}
  BY DEF On, NoSession
<1>4. <<>> \in Seq(LineOf({}))
  OBVIOUS
<1> HIDE DEF l
<1>5. /\ On(s, {"client", "source", "link", "mailbox", "store", "handler", "account"})
      /\ s.client = client /\ s.source = source /\ s.link = l /\ s.mailbox = mailbox /\ s.store = store
      /\ s.handler = handler
  BY DEF Now, On
<1> HIDE DEF s
<1>6. Formed(s)
  <2>1. l.drop \in SUBSET Uid /\ l.wire \in Seq(LineOf(l.drop))
    BY <1>3, <1>4
  <2> QED
    BY <1>2, <1>3, <1>5, <2>1, NowFields DEF Formed
<1>7. Typed(s)
  BY <1>2, <1>5, <1>6, NowFields DEF Typed
<1>8. Asking(s, asked)
  BY <1>2, <1>5, NowFields DEF Asking
<1> DEFINE n == OperationFailed(s)
<1>9. Failed(s, asked, n)
  BY <1>7, <1>8, FailSound
<1>10. Become(n)
  BY <1>1
<1> HIDE DEF n
<1>11. Proper(Now, n, asked)
  BY <1>3, <1>5, <1>9, QuietProper DEF Failed
<1> QED
  BY <1>9, <1>10, <1>11 DEF Failed, Taken

\* accountsUpdated changes the account, or cancels.
LEMMA UpdatedTaken ==
  ASSUME NEW asked, Sound(Now, asked), AccountsUpdated
  PROVE  TakenTo(asked, asked)
<1>1. ASSUME NEW c \in Configurations, Become([Now EXCEPT !.account.configured = c])
      PROVE  TakenTo(asked, asked)
  <2> DEFINE a == [account EXCEPT !.configured = c]
  <2>1. Become([Now EXCEPT !.account = a])
    BY <1>1, NowFields DEF Sound, Typed, Formed, On
  <2>2. mailbox \in SUBSET Uid /\ ~client.running
    BY NowFields DEF Sound, Typed, Formed, AccountsUpdated, Quiet
  <2> HIDE DEF a
  <2> QED
    BY <2>1, <2>2, OutsideTaken
<1>2. CASE CancelOperation
  BY <1>2, CancelTaken DEF Taken, TakenTo
<1> QED
  BY <1>1, <1>2 DEF AccountsUpdated

\* Of message u, which a user removes, nothing is left that could be added.
LEMMA RemovalSound ==
  ASSUME NEW s, NEW asked, Sound(s, asked), ~s.client.running, NEW u \in Uid, s.store.local[u] # "none",
         NEW a, Without(s, {u}, a), NEW t,
         On(t, {"local", "records", "removed", "refused", "buffer", "timer", "inbox"}),
         t.local = a.store.local, t.buffer = a.store.buffer, t.removed = a.store.removed,
         t.refused = a.store.refused, t.records = a.store.records \cup {u},
         NEW n, n = [a EXCEPT !.store = t]
  PROVE  /\ Sound(n, asked \cup {u}) /\ n.link = s.link /\ SameRequest(s, n)
<1> DEFINE r == a.store
           d == s.client
           e == a.client
<1>0. Typed(s) /\ StoreTyped(s.store) /\ d.selection \subseteq Uid /\ d.existing \subseteq Uid
  BY DEF Sound, Typed, ClientTyped
<1>1. /\ Typed(n) /\ n.client = e /\ n.source = s.source /\ n.link = s.link /\ n.store = t /\ SameRequest(s, n)
  BY StoreChanged DEF Without, SameRequest
<1>2. /\ e.existing = d.existing \ {u} /\ e.status = d.status /\ e.running = d.running /\ e.selected = d.selected
      /\ e.deleting = d.deleting /\ e.testing = d.testing /\ e.limit = d.limit /\ e.selection = d.selection
      /\ e.left = d.left /\ e.uid = d.uid /\ e.obsolete = d.obsolete
  <2>1. e = [d EXCEPT !.existing = d.existing \ {u}] /\ Formed(s)
    BY <1>0 DEF Without, Typed
  <2> QED
    BY <2>1 DEF Formed, On
<1>3. r = Cleared(s.store, {u})
  BY DEF Without
<1>4. /\ r.records = s.store.records
      /\ \A v \in Uid : /\ v \in {u} => r.local[v] = "none"
                        /\ Unadded(s.store, v) => Unadded(r, v)
                        /\ Absent(s.store, v) => Absent(r, v)
                        /\ Complete(s.store, v) => Complete(r, v)
  BY <1>0, <1>3, ClearedStore
<1> HIDE DEF r, d, e
<1>5. \A v \in Uid : /\ Unadded(s.store, v) => Unadded(t, v)
                     /\ Absent(s.store, v) => Absent(t, v)
                     /\ Complete(s.store, v) => Complete(t, v)
  BY <1>4, SamePresence DEF r
<1>6. Absent(t, u)
  <2>1. Unadded(s.store, u)
    BY <1>0, PresentUnadded
  <2> QED
    BY <1>4, <1>5, <2>1 DEF Absent, r
<1>7. Asking(n, asked \cup {u}) /\ Locked(n)
  BY <1>1, <1>2, <1>4 DEF Sound, Asking, Locked, SameRequest, r, d, e
<1>8. InUse(n) => Part(n)
  <2> SUFFICES ASSUME InUse(n)
               PROVE  Part(n)
    OBVIOUS
  <2>1. Part(s)
    BY <1>1 DEF Sound, InUse
  <2>2. AllSelected(n) /\ Fetching(n) /\ Received(n)
    BY <1>1, <1>2, <2>1 DEF Part, AllSelected, Fetching, Received, Whole, d
  <2>3. \A v \in d.selection : DeletedOrListed(s, v) => DeletedOrListed(n, v)
    BY <1>0, <1>1, <1>2, <1>5 DEF DeletedOrListed, d
  <2>4. Deleting(n)
    BY <1>0, <1>1, <1>2, <1>5, <2>1, <2>3 DEF Part, Deleting, SameRequest, d
  <2>5. \A v \in d.selection : Ready(s, v) => Ready(n, v)
    BY <1>0, <1>1, <1>2, <1>5, <1>6 DEF Ready, d
  <2>6. \A v \in d.selection : LeftOrComplete(s, v) => LeftOrComplete(n, v)
    BY <1>0, <1>1, <1>2, <1>5, <2>5 DEF LeftOrComplete, d
  <2>7. Retrieving(n)
    BY <1>0, <1>1, <1>2, <1>5, <2>1, <2>5, <2>6 DEF Part, Retrieving, SameRequest, d
  <2> QED
    BY <2>2, <2>4, <2>7 DEF Part
<1> QED
  BY <1>1, <1>2, <1>7, <1>8 DEF Sound, d

\* A client removes a message, in the middle of any operation.
LEMMA UserTaken ==
  ASSUME NEW asked, Sound(Now, asked), NEW u \in Uid, UserRemoves(u)
  PROVE  TakenTo(asked, asked \cup {u})
<1> DEFINE a == RemoveLocal(Now, {u})
           t == [a.store EXCEPT !.records = a.store.records \cup {u}]
           n == [a EXCEPT !.store = t]
<1>0. Typed(Now) /\ ~client.running /\ store.local[u] # "none"
  BY DEF Sound, UserRemoves
<1>1. Without(Now, {u}, a)
  BY <1>0, RemoveFields
<1>2. Become(n)
  <2> HIDE DEF a
  <2>1. On(a, {"client", "source", "link", "mailbox", "store", "handler", "account"})
        /\ On(a.store, {"local", "records", "removed", "refused", "buffer", "timer", "inbox"})
    BY <1>1 DEF Without, Typed, Formed, StoreTyped
  <2>2. n = [a EXCEPT !.store.records = @ \cup {u}]
    BY <2>1 DEF On
  <2> HIDE DEF n
  <2> QED
    BY <2>2 DEF UserRemoves, a
<1> HIDE DEF a
<1>3. /\ On(t, {"local", "records", "removed", "refused", "buffer", "timer", "inbox"})
      /\ t.local = a.store.local /\ t.buffer = a.store.buffer /\ t.removed = a.store.removed
      /\ t.refused = a.store.refused /\ t.records = a.store.records \cup {u}
  BY <1>1 DEF Without, Typed, StoreTyped, On
<1> HIDE DEF t
<1>4. Sound(n, asked \cup {u}) /\ n.link = Now.link /\ SameRequest(Now, n)
  BY <1>0, <1>1, <1>3, RemovalSound, NowFields
<1> HIDE DEF n
<1>5. Proper(Now, n, asked)
  BY <1>4, QuietProper DEF SameRequest
<1> QED
  BY <1>2, <1>4, <1>5 DEF TakenTo

\* The state of a daemon that has just been started is sound.
LEMMA StartSound ==
  ASSUME NEW n, NEW asked, On(n, {"client", "source", "link", "mailbox", "store", "handler", "account"}),
         n.client = NewClient, n.link = NoSession, n.source = NewSource, n.mailbox \in SUBSET Uid,
         On(n.handler, {"request", "available", "posted", "told", "success"}),
         n.handler.request = "none", StoreTyped(n.store), n.store.records \subseteq asked
  PROVE  Sound(n, asked)
<1>1. Formed(n)
  BY NewSession DEF Session
<1>2. ClientTyped(NewClient) /\ NewClient.existing = {} /\ NewClient.running = FALSE /\ NewClient.obsolete = <<>>
      /\ NewClient.deleting = FALSE
  <2>1. <<>> \in Seq(Uid)
    OBVIOUS
  <2> QED
    BY <2>1 DEF ClientTyped, NewClient
<1>3. On(NewSource, {"deleting", "unavailable", "queued", "checking"})
  BY DEF On, NewSource
<1>4. Typed(n)
  BY <1>1, <1>2, <1>3 DEF Typed
<1>5. NoSession.state = "none"
  BY DEF NoSession
<1>6. DOMAIN <<>> = {}
  OBVIOUS
<1>7. Asking(n, asked) /\ Locked(n) /\ ~InUse(n)
  BY <1>2, <1>5, <1>6 DEF Asking, Locked, InUse
<1> QED
  BY <1>2, <1>4, <1>7 DEF Sound

\* After a crash only the store is left, and no request waits for it.
LEMMA CrashTaken ==
  ASSUME NEW asked, Sound(Now, asked), Crash
  PROVE  Taken(asked)
<1> DEFINE h == [NewHandler EXCEPT !.told = handler.told]
           t == [store EXCEPT !.buffer = <<>>, !.timer = FALSE]
           m == [Now EXCEPT !.client = NewClient, !.source = NewSource, !.link = NoSession,
                            !.handler = h, !.store.buffer = <<>>, !.store.timer = FALSE]
           n == [client |-> NewClient, source |-> NewSource, link |-> NoSession, mailbox |-> mailbox,
                 store |-> t, handler |-> h, account |-> account]
<1>1. Become(n)
  <2>1. Become(m)
    BY DEF Crash
  <2> HIDE DEF h
  <2> QED
    BY <2>1 DEF Become, Now
<1>2. Typed(Now) /\ StoreTyped(store) /\ mailbox \in SUBSET Uid /\ store.records \subseteq asked
  BY NowFields DEF Sound, Typed, Formed, Asking
<1>3. On(h, {"request", "available", "posted", "told", "success"}) /\ h.request = "none" /\ h.success = FALSE
  BY DEF NewHandler, On
<1> HIDE DEF h
<1>4. StoreTyped(t) /\ t.records = store.records
  <2>1. /\ On(t, {"local", "records", "removed", "refused", "buffer", "timer", "inbox"})
        /\ t.local = store.local /\ t.buffer = <<>> /\ t.records = store.records
    BY <1>2 DEF StoreTyped, On
  <2>2. <<>> \in Seq(Item) /\ DOMAIN <<>> = {}
    OBVIOUS
  <2> HIDE DEF t
  <2> QED
    BY <1>2, <2>1, <2>2 DEF StoreTyped
<1> HIDE DEF t
<1>5. /\ On(n, {"client", "source", "link", "mailbox", "store", "handler", "account"})
      /\ n.client = NewClient /\ n.link = NoSession /\ n.source = NewSource /\ n.mailbox = mailbox
      /\ n.store = t /\ n.handler = h
  BY DEF On
<1> HIDE DEF n
<1>6. Sound(n, asked)
  BY <1>2, <1>3, <1>4, <1>5, StartSound
<1>7. n.link.marked = {}
  BY <1>5 DEF NoSession
<1>8. Proper(Now, n, asked)
  BY <1>3, <1>5, <1>7, QuietProper
<1> QED
  BY <1>1, <1>6, <1>8 DEF Taken

\* All that is not a step of the client or a request is a sound step.
LEMMA WorldTaken ==
  ASSUME PopInv, Sound(Now, history.asked),
         \/ Posted \/ MailCheckDue \/ ConnectionInactive \/ MessageTimeout
         \/ LinkUp \/ LinkFails \/ AccountsUpdated \/ Arrives \/ Crash
         \/ \E u \in Uid : UserRemoves(u) \/ OthersRemove(u)
  PROVE  TakenTo(history.asked, history'.asked)
<1> DEFINE asked == history.asked
<1>1. On(history, {"arrived", "requests", "crashes", "asked"}) /\ mailbox \in SUBSET Uid
  BY NowFields DEF PopInv, Sound, Typed, Formed
<1>2. CASE Taken(asked) /\ history'.asked = asked
  BY <1>2 DEF Taken, TakenTo
<1>3. CASE Posted \/ MailCheckDue \/ ConnectionInactive \/ MessageTimeout \/ LinkFails \/ Crash
  <2>1. history'.asked = asked
    BY <1>1, <1>3 DEF Posted, MailCheckDue, ConnectionInactive, MessageTimeout, LinkFails, Crash, Quiet, Count, On
  <2>2. Taken(asked)
    <3> HIDE DEF asked
    <3> QED
      BY <1>3, PostedTaken, DueTaken, InactiveTaken, TimeoutTaken, ErrorTaken, CrashTaken DEF asked
  <2> QED
    BY <1>2, <2>1, <2>2
<1>4. CASE LinkUp \/ AccountsUpdated
  <2>1. history'.asked = asked
    BY <1>4 DEF LinkUp, AccountsUpdated, Quiet
  <2>2. TakenTo(asked, asked)
    BY <1>4, UpTaken, UpdatedTaken
  <2> QED
    BY <2>1, <2>2
<1>5. CASE Arrives
  <2>1. history'.asked = asked
    BY <1>1, <1>5 DEF Arrives, On
  <2>2. history.arrived + 1 \in Uid
    BY <1>5, PopAssumption DEF Arrives, PopInv, Uid
  <2> DEFINE m == mailbox \cup {history.arrived + 1}
  <2>3. m \in SUBSET Uid /\ Become([Now EXCEPT !.mailbox = m]) /\ ~client.running
    BY <1>1, <1>5, <2>2, NowFields DEF Arrives
  <2> HIDE DEF m, asked
  <2>4. TakenTo(asked, asked)
    BY <2>3, OutsideTaken DEF asked
  <2> QED
    BY <2>1, <2>4 DEF asked
<1>6. ASSUME NEW u \in Uid, OthersRemove(u)
      PROVE  TakenTo(asked, history'.asked)
  <2>1. history'.asked = asked \cup {u}
    BY <1>1, <1>6 DEF OthersRemove, On
  <2> DEFINE m == mailbox \ {u}
             later == asked \cup {u}
  <2>2. m \in SUBSET Uid /\ Become([Now EXCEPT !.mailbox = m]) /\ ~client.running /\ asked \subseteq later
    BY <1>1, <1>6, NowFields DEF OthersRemove
  <2> HIDE DEF m, asked, later
  <2>3. TakenTo(asked, later)
    BY <2>2, OutsideTaken DEF asked
  <2> QED
    BY <2>1, <2>3 DEF asked, later
<1>7. ASSUME NEW u \in Uid, UserRemoves(u)
      PROVE  TakenTo(asked, history'.asked)
  <2>1. history'.asked = asked \cup {u}
    BY <1>1, <1>7 DEF UserRemoves, On
  <2>2. TakenTo(asked, asked \cup {u})
    BY <1>7, UserTaken
  <2> QED
    BY <2>1, <2>2
<1> QED
  BY <1>3, <1>4, <1>5, <1>6, <1>7

\* Every step leads to a sound state, and does nothing wrong.
LEMMA StepTaken ==
  ASSUME PopInv, Sound(Now, history.asked), Next
  PROVE  TakenTo(history.asked, history'.asked)
<1>1. CASE UNCHANGED history /\ Taken(history.asked)
  BY <1>1 DEF Taken, TakenTo
<1>2. CASE NextAction /\ UNCHANGED history
  BY <1>1, <1>2, NextActionTaken
<1>3. CASE ProcessResponse /\ UNCHANGED history
  BY <1>1, <1>3, ProcessResponseTaken
<1>4. CASE Request
  BY <1>4, RequestsTaken DEF PopInv
<1>5. CASE \/ Posted \/ MailCheckDue \/ ConnectionInactive \/ MessageTimeout
           \/ LinkUp \/ LinkFails \/ AccountsUpdated \/ Arrives \/ Crash
           \/ \E u \in Uid : UserRemoves(u) \/ OthersRemove(u)
  BY <1>5, WorldTaken
<1> QED
  BY <1>2, <1>3, <1>4, <1>5 DEF Next

\* The invariant, of the variables.
SoundInv == Sound(Now, history.asked)

\* What a step does, in the terms of the properties.
LEMMA StepProper ==
  ASSUME PopInv, SoundInv, [Next]_vars
  PROVE  /\ SoundInv'
         /\ UNCHANGED vars \/ Proper(Now, Now', history.asked)
<1>1. CASE Next
  <2>1. PICK n : Become(n) /\ Sound(n, history'.asked) /\ Proper(Now, n, history.asked)
    BY <1>1, StepTaken DEF SoundInv, TakenTo
  <2>2. Now' = n
    BY <2>1, BecomeNow DEF Sound
  <2> QED
    BY <2>1, <2>2 DEF SoundInv
<1>2. CASE UNCHANGED vars
  <2>1. Now' = Now /\ history' = history
    BY <1>2 DEF vars, Now
  <2> QED
    BY <1>2, <2>1 DEF SoundInv
<1> QED
  BY <1>1, <1>2

\* The inductive invariant holds.
LEMMA SoundKept == Spec => []SoundInv
<1>1. Init => SoundInv
  <2> SUFFICES ASSUME Init PROVE SoundInv
    OBVIOUS
  <2>1. mailbox \in SUBSET Uid
    BY PopAssumption DEF Init, Uid
  <2>2. On(Now, {"client", "source", "link", "mailbox", "store", "handler", "account"})
    BY DEF Now, On
  <2>3. On(NewHandler, {"request", "available", "posted", "told", "success"}) /\ NewHandler.request = "none"
    BY DEF NewHandler, On
  <2>4. StoreTyped(store) /\ store.records \subseteq history.asked
    <3>1. <<>> \in Seq(Item) /\ DOMAIN <<>> = {}
      OBVIOUS
    <3>2. /\ On(store, {"local", "records", "removed", "refused", "buffer", "timer", "inbox"})
          /\ store.local \in [Uid -> {"none", "header", "whole"}] /\ store.buffer = <<>> /\ store.records = {}
      BY DEF Init, On
    <3> QED
      BY <3>1, <3>2 DEF StoreTyped
  <2>5. /\ client = NewClient /\ link = NoSession /\ source = NewSource /\ handler = NewHandler
        /\ history.asked = {}
    BY DEF Init
  <2>6. On(Now.handler, {"request", "available", "posted", "told", "success"}) /\ Now.handler.request = "none"
    BY <2>3, <2>5, NowFields
  <2>7. StoreTyped(Now.store) /\ Now.store.records \subseteq history.asked
    BY <2>4, NowFields
  <2>8. Now.client = NewClient /\ Now.link = NoSession /\ Now.source = NewSource /\ Now.mailbox \in SUBSET Uid
    BY <2>1, <2>5, NowFields
  <2> HIDE DEF Now
  <2>9. Sound(Now, history.asked)
    BY <2>2, <2>6, <2>7, <2>8, StartSound
  <2> QED
    BY <2>9 DEF SoundInv
<1>2. PopInv /\ SoundInv /\ [Next]_vars => SoundInv'
  BY StepProper
<1> QED
  BY <1>1, <1>2, PopInvKept, PTL DEF Spec

\* What the client marks for deletion, when the positions are those of the
\* session, a user has asked for, or the daemon has it or has had it refused:
\* nextAction sends DELE after RETR only, for the message whose data has just
\* been given to the buffer, and in DeleteMessage for the messages of
\* obsoleteUids.
THEOREM MarksOnlyHeld == Spec => DeletesOnlyHeld
<1>1. PopInv /\ SoundInv /\ [Next]_vars =>
        [link.state = "up" /\ Current(Now) =>
           \A u \in link'.marked \ link.marked :
             u \in history.asked \/ Held(u) \/ u \in store.refused]_vars
  <2> SUFFICES ASSUME PopInv, SoundInv, [Next]_vars, ~UNCHANGED vars, Current(Now), NEW u \in link'.marked \ link.marked
               PROVE  u \in history.asked \/ Held(u) \/ u \in store.refused
    OBVIOUS
  <2>1. Justified(Now, Now', history.asked)
    BY StepProper DEF Proper
  <2>2. Now.link = link /\ Now'.link = link' /\ Now.store = store
    BY DEF Now
  <2> QED
    BY <2>1, <2>2 DEF Justified, HeldIn, Held
<1> QED
  BY <1>1, PopInvKept, SoundKept, PTL DEF Spec, DeletesOnlyHeld

\* An operation on a selection that succeeds has served it.
LEMMA SuccessServed ==
  ASSUME PopInv, SoundInv, [Next]_vars, ~UNCHANGED vars, NEW request, Succeeds(request)
  PROVE  /\ request = "delete" => \A u \in client.selection : store'.local[u] = "none"
         /\ request = "retrieve" /\ client.limit = "all" =>
              \A u \in client.selection :
                u \in store'.removed \cup store'.refused \/ store'.local[u] \in {"none", "whole"}
<1>1. Served(Now, Now')
  BY StepProper DEF Proper
<1>2. Now.handler = handler /\ Now.client = client /\ Now'.handler = handler' /\ Now'.store = store'
  BY DEF Now
<1> QED
  BY <1>1, <1>2 DEF Served, Succeeds

\* deleteMessages reports its success only when none of its messages is left:
\* each has been deleted on the server, or has no position there, and is then
\* removed, and nothing that was in the buffer brings it back.
THEOREM DeletionDone == Spec => DeleteDone
<1>1. PopInv /\ SoundInv /\ [Next]_vars =>
        [Succeeds("delete") => \A u \in client.selection : store'.local[u] = "none"]_vars
  BY SuccessServed
<1> QED
  BY <1>1, PopInvKept, SoundKept, PTL DEF Spec, DeleteDone

\* retrieveMessages reports its success only when every message of the
\* selection is whole in the store, or has left the server, or the store has
\* refused it: the completion flushes the buffer first, whatever has been
\* flushed, removed or overwritten since the session began.
THEOREM RetrievalDone == Spec => RetrieveDone
<1>1. PopInv /\ SoundInv /\ [Next]_vars =>
        [Succeeds("retrieve") /\ client.limit = "all" =>
           \A u \in client.selection :
             u \in store'.removed \cup store'.refused \/ store'.local[u] \in {"none", "whole"}]_vars
  BY SuccessServed
<1> QED
  BY <1>1, PopInvKept, SoundKept, PTL DEF Spec, RetrieveDone

=============================================================================
