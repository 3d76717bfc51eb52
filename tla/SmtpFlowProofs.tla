--------------------------- MODULE SmtpFlowProofs ---------------------------
(***************************************************************************)
(* What TLAPS proves of the order of commands and responses in SmtpClient: *)
(* client and server never wait for each other, and what is reported as    *)
(* transmitted has been accepted.                                          *)
(***************************************************************************)
EXTENDS SmtpClientProofs

-----------------------------------------------------------------------------
(* What is on its way between client and server *)

\* A reply line that ends the transfer.
Fatal(l, st) == l.code \in {421, 550} \/ (l.code = 220 /\ st = "Helo")

\* Line i of q is a good line of g responses of which the last has x + 1 lines.
Good(q, st, g, x, i) ==
  /\ ~Fatal(q[i], st)
  /\ q[i].more <=> g =< i /\ i < g + x
  /\ q[i].code = 250 /\ q[i].more => st \in {"Helo", "Extension"}
  /\ st = "Init" => q[i].code = 220

\* Line i of q ends the transfer, at once or after one more line of its kind.
Final(q, st, i) ==
  /\ Fatal(q[i], st)
  /\ q[i].more => /\ i < Len(q) /\ q[i].code # 220
                  /\ q[i + 1].code \in {421, 550} /\ ~q[i + 1].more

\* At the greeting, every line after the good ones is one that ends the transfer.
Refused(q, i) == q[i].code \in {421, 550} /\ (q[i].more => i < Len(q) /\ ~q[i + 1].more)

\* What is on its way: q are the lines to read and w is the number of commands to
\* handle, when the client in status st waits for n responses.  The first g have
\* arrived, unless a line that ends the transfer is behind them, and no response
\* but the last has several lines.
Flow(q, w, n, st, g, x) ==
  /\ g \in Nat /\ x \in Nat
  /\ g + x =< Len(q) /\ g + w =< n
  /\ x > 0 => g = n /\ g > 0
  /\ \A i \in 1 .. g + x : Good(q, st, g, x, i)
  /\ g + x < Len(q) => /\ Final(q, st, g + x + 1)
                       /\ q[g + x + 1].code = 220 => g = 0 /\ x = 0
  /\ st # "Init" /\ Len(q) = g + x => g + w = n
  /\ st = "Init" => /\ x =< 1
                    /\ Len(q) > 0 => w = 0
                    /\ \A i \in g + x + 1 .. Len(q) : Refused(q, i)

\* The commands w are those of status st, and only the last may have a response
\* in several lines.
Paired(w, st) ==
  /\ \A i \in 1 .. Len(w) - 1 : w[i].verb \in {"MAIL", "RCPT", "BDAT"}
  /\ \A i \in 1 .. Len(w) : /\ w[i].verb = "EHLO" => st = "Helo"
                            /\ st = "Helo" => w[i].verb \in {"EHLO", "HELO"}
                            /\ st = "Init" => w[i].verb = "CONNECT"

\* The number of responses that nextAction waits for.
Expected ==
  IF socket = "handshake" \/ temporaryFile THEN 0
  ELSE IF outstandingResponses > 1 THEN outstandingResponses ELSE 1

Running == sending /\ socket # "opening"

\* The inductive invariant of the flow.
FlowInv ==
  /\ sending => socket # "closed"
  /\ socket = "opening" => /\ replies = <<>> /\ status = "Init" /\ outstandingResponses = 0
                           /\ transmitted = {}
  /\ sending /\ lineBuffer # NoLine /\ lineBuffer.batch # batches => status = "Init"
  /\ sending /\ outstandingResponses > 1 => status \in {"Sent", "Body"}
  /\ socket = "handshake" \/ temporaryFile => outstandingResponses = 0
  /\ Running => /\ Paired(wire, status)
                /\ \E g, x \in Nat : Flow(replies, Len(wire), Expected, status, g, x)

-----------------------------------------------------------------------------
(* The client reads a line *)

\* The lines of a sequence without its first, and the fields of all of them.
LEMMA TailLines ==
  ASSUME NEW q \in Seq(AnyLine), q # <<>>
  PROVE  /\ Tail(q) \in Seq(AnyLine) /\ Len(Tail(q)) = Len(q) - 1
         /\ Len(q) \in Nat /\ Len(q) >= 1
         /\ \A i \in 1 .. Len(q) - 1 : Tail(q)[i] = q[i + 1]
         /\ \A i \in 1 .. Len(q) : q[i].code \in Nat /\ q[i].more \in BOOLEAN
<1>1. \A i \in 1 .. Len(q) : q[i] \in AnyLine
  OBVIOUS
<1>2. \A l \in AnyLine : l.code \in Nat /\ l.more \in BOOLEAN
  BY DEF AnyLine
<1>3. /\ Tail(q) \in Seq(AnyLine) /\ Len(Tail(q)) = Len(q) - 1
      /\ Len(q) \in Nat /\ Len(q) >= 1
      /\ \A i \in 1 .. Len(q) - 1 : Tail(q)[i] = q[i + 1]
  BY TailIndex
<1> QED
  BY <1>1, <1>2, <1>3

\* The first line ends the transfer, or belongs to a good response.
LEMMA FirstLine ==
  ASSUME NEW q \in Seq(AnyLine), q # <<>>, NEW w \in Nat, NEW n \in Nat, NEW st,
         NEW g, NEW x, Flow(q, w, n, st, g, x)
  PROVE  /\ g \in Nat /\ x \in Nat /\ w =< n
         /\ Fatal(q[1], st) => g = 0 /\ x = 0
         /\ ~Fatal(q[1], st) => g > 0
         /\ ~Fatal(q[1], st) /\ n =< 1 => g = 1 /\ w = 0 /\ n = 1
         /\ ~Fatal(q[1], st) /\ n =< 1 /\ q[1].more => x > 0
         /\ ~Fatal(q[1], st) /\ n =< 1 /\ ~q[1].more => x = 0
<1>0. Len(q) \in Nat /\ Len(q) >= 1 /\ g \in Nat /\ x \in Nat /\ g + w =< n /\ g + x =< Len(q) /\ (x > 0 => g > 0)
  BY TailLines DEF Flow
<1>1. g = 0 => x = 0
  BY <1>0
<1>2. CASE g = 0
  <2>1. Final(q, st, 0 + 0 + 1) /\ 0 + 0 + 1 = 1
    BY <1>0, <1>1, <1>2 DEF Flow
  <2>2. Fatal(q[1], st)
    BY <2>1 DEF Final
  <2> QED
    BY <1>0, <1>1, <1>2, <2>2
<1>3. CASE g > 0
  <2>1. Good(q, st, g, x, 1)
    BY <1>0, <1>3 DEF Flow
  <2>2. ~Fatal(q[1], st) /\ (q[1].more <=> g =< 1 /\ 1 < g + x)
    BY <2>1 DEF Good
  <2> QED
    BY <1>0, <1>3, <2>2
<1> QED
  BY <1>0, <1>2, <1>3

\* A response to a command that others follow is read.
LEMMA FlowNext ==
  ASSUME NEW q \in Seq(AnyLine), q # <<>>, NEW w \in Nat, NEW n \in Nat, n > 1, NEW st, st # "Init",
         NEW g, NEW x, Flow(q, w, n, st, g, x), ~Fatal(q[1], st)
  PROVE  Flow(Tail(q), w, n - 1, st, g - 1, x) /\ g - 1 \in Nat /\ x \in Nat
<1> DEFINE v == Tail(q)
<1>0. /\ v \in Seq(AnyLine) /\ Len(v) = Len(q) - 1 /\ Len(q) \in Nat /\ Len(q) >= 1
      /\ \A i \in 1 .. Len(v) : v[i] = q[i + 1]
  BY TailLines
<1>1. g \in Nat /\ x \in Nat /\ g > 0 /\ g - 1 \in Nat
  BY FirstLine
<1> HIDE DEF v
<1>2. /\ (g - 1) + x =< Len(v) /\ (g - 1) + w =< n - 1
      /\ x > 0 => g - 1 = n - 1 /\ g - 1 > 0
      /\ Len(v) = (g - 1) + x => (g - 1) + w = n - 1
  BY <1>0, <1>1 DEF Flow
<1>3. ASSUME NEW i \in 1 .. (g - 1) + x PROVE Good(v, st, g - 1, x, i)
  <2>0. i \in 1 .. Len(v) /\ i + 1 \in 1 .. g + x
    <3>1. Len(v) \in Nat /\ (g - 1) + x =< Len(v) /\ g \in Nat /\ x \in Nat
      BY <1>0, <1>1, <1>2
    <3> QED
      BY <3>1
  <2>1. i + 1 \in 1 .. g + x /\ v[i] = q[i + 1]
    BY <1>0, <2>0
  <2>2. Good(q, st, g, x, i + 1)
    BY <2>1 DEF Flow
  <2>3. (g =< i + 1 /\ i + 1 < g + x) <=> (g - 1 =< i /\ i < (g - 1) + x)
    BY <1>1
  <2>4. v[i].more <=> (g - 1 =< i /\ i < (g - 1) + x)
    BY <2>1, <2>2, <2>3 DEF Good
  <2> QED
    BY <2>1, <2>2, <2>4 DEF Good
<1>4. ASSUME (g - 1) + x < Len(v)
      PROVE  /\ Final(v, st, (g - 1) + x + 1)
             /\ v[(g - 1) + x + 1].code = 220 => g - 1 = 0 /\ x = 0
  <2> DEFINE j == g + x
  <2>1. j \in Nat /\ j >= 1 /\ (g - 1) + x + 1 = j /\ j < Len(q) /\ j \in 1 .. Len(v) /\ v[j] = q[j + 1]
    BY <1>0, <1>1, <1>4
  <2>2. Final(q, st, j + 1) /\ (q[j + 1].code # 220)
    BY <1>1, <2>1 DEF Flow
  <2> HIDE DEF j
  <2>3. q[j + 1].more => j + 1 < Len(q) /\ v[j + 1] = q[(j + 1) + 1] /\ j < Len(v)
    BY <1>0, <2>1, <2>2 DEF Final
  <2>4. Final(v, st, j)
    BY <2>1, <2>2, <2>3 DEF Final
  <2> QED
    BY <2>1, <2>2, <2>4
<1>5. Flow(v, w, n - 1, st, g - 1, x)
  BY <1>1, <1>2, <1>3, <1>4 DEF Flow
<1> QED
  BY <1>1, <1>5 DEF v

\* A line that another of the same response follows is put aside.
LEMMA FlowMore ==
  ASSUME NEW q \in Seq(AnyLine), q # <<>>, NEW w \in Nat, NEW n \in Nat, n =< 1,
         NEW st, NEW st2 \in {st, "Extension"}, st = "Init" => st2 = "Init",
         NEW g, NEW x, Flow(q, w, n, st, g, x), ~Fatal(q[1], st), q[1].more,
         st2 # st => st \in {"Helo", "Extension"}
  PROVE  Flow(Tail(q), w, 1, st2, 1, x - 1) /\ x - 1 \in Nat /\ n = 1 /\ w = 0
<1> DEFINE v == Tail(q)
<1>0. /\ v \in Seq(AnyLine) /\ Len(v) = Len(q) - 1 /\ Len(q) \in Nat /\ Len(q) >= 1
      /\ \A i \in 1 .. Len(v) : v[i] = q[i + 1]
  BY TailLines
<1>1. g = 1 /\ x \in Nat /\ x > 0 /\ w = 0 /\ n = 1 /\ x - 1 \in Nat
  BY FirstLine
<1> HIDE DEF v
<1>2. 1 + (x - 1) =< Len(v) /\ 1 + w =< 1 /\ x =< Len(v)
  BY <1>0, <1>1 DEF Flow
<1>3. ASSUME NEW i \in 1 .. 1 + (x - 1) PROVE Good(v, st2, 1, x - 1, i)
  <2>1. i + 1 \in 1 .. 1 + x /\ v[i] = q[i + 1]
    BY <1>0, <1>1, <1>2
  <2>2. Good(q, st, 1, x, i + 1)
    BY <1>1, <2>1 DEF Flow
  <2>3. (1 =< i + 1 /\ i + 1 < 1 + x) <=> (1 =< i /\ i < 1 + (x - 1))
    BY <1>1
  <2>4. ~Fatal(q[i + 1], st2)
    BY <2>2 DEF Good, Fatal
  <2> QED
    BY <2>1, <2>2, <2>3, <2>4 DEF Good
<1>4. ASSUME 1 + (x - 1) < Len(v)
      PROVE  Final(v, st2, 1 + (x - 1) + 1) /\ v[1 + (x - 1) + 1].code # 220
  <2> DEFINE j == x + 1
  <2>1. j \in Nat /\ j >= 1 /\ 1 + (x - 1) + 1 = j /\ j < Len(q) /\ j \in 1 .. Len(v) /\ v[j] = q[j + 1]
        /\ g + x = j
    BY <1>0, <1>1, <1>4
  <2>2. Final(q, st, j + 1) /\ (q[j + 1].code # 220)
    BY <1>1, <2>1 DEF Flow
  <2> HIDE DEF j
  <2>3. q[j + 1].more => j + 1 < Len(q) /\ v[j + 1] = q[(j + 1) + 1] /\ j < Len(v)
    BY <1>0, <2>1, <2>2 DEF Final
  <2>4. Final(v, st2, j)
    BY <2>1, <2>2, <2>3 DEF Final, Fatal
  <2> QED
    BY <2>1, <2>2, <2>4
<1>5. ASSUME st2 = "Init"
      PROVE  x - 1 =< 1 /\ \A i \in 1 + (x - 1) + 1 .. Len(v) : Refused(v, i)
  <2>1. st = "Init" /\ x =< 1 /\ \A i \in (1 + x) + 1 .. Len(q) : Refused(q, i)
    BY <1>1, <1>5 DEF Flow
  <2>2. ASSUME NEW i \in 1 + (x - 1) + 1 .. Len(v) PROVE Refused(v, i)
    <3>1. i + 1 \in (1 + x) + 1 .. Len(q) /\ v[i] = q[i + 1] /\ (i + 1 < Len(q) => i < Len(v) /\ v[i + 1] = q[(i + 1) + 1])
      BY <1>0, <1>1
    <3> QED
      BY <2>1, <3>1 DEF Refused
  <2> QED
    BY <1>1, <2>1, <2>2
<1>6. Flow(v, w, 1, st2, 1, x - 1)
  BY <1>0, <1>1, <1>2, <1>3, <1>4, <1>5 DEF Flow
<1> QED
  BY <1>1, <1>6 DEF v

\* The last line of a response is read, and k commands follow.
LEMMA FlowTurn ==
  ASSUME NEW q \in Seq(AnyLine), q # <<>>, NEW w \in Nat, NEW n \in Nat, n =< 1,
         NEW st, NEW st2, st2 # "Init", NEW k \in Nat,
         NEW g, NEW x, Flow(q, w, n, st, g, x), ~Fatal(q[1], st), ~q[1].more
  PROVE  Flow(Tail(q), k, k, st2, 0, 0) /\ n = 1 /\ w = 0
<1> DEFINE v == Tail(q)
<1>0. /\ v \in Seq(AnyLine) /\ Len(v) = Len(q) - 1 /\ Len(q) \in Nat /\ Len(q) >= 1
      /\ \A i \in 1 .. Len(v) : v[i] = q[i + 1]
  BY TailLines
<1>1. g = 1 /\ x = 0 /\ w = 0 /\ n = 1
  BY FirstLine
<1> HIDE DEF v
<1>2. ASSUME 0 < Len(v) PROVE Final(v, st2, 1)
  <2>1. 1 \in 1 .. Len(v) /\ 1 < Len(q) /\ v[1] = q[1 + 1]
    BY <1>0, <1>2
  <2>2. Final(q, st, 1 + 1) /\ (q[1 + 1].code # 220)
    BY <1>1, <2>1 DEF Flow
  <2>3. q[1 + 1].more => 1 + 1 < Len(q) /\ v[1 + 1] = q[(1 + 1) + 1] /\ 1 < Len(v)
    BY <1>0, <2>1, <2>2 DEF Final
  <2> QED
    BY <2>1, <2>2, <2>3 DEF Final, Fatal
<1>3. Flow(v, k, k, st2, 0, 0)
  <2>1. \A i \in 1 .. 0 + 0 : FALSE
    OBVIOUS
  <2>2. 0 + 0 < Len(v) => 0 < Len(v) /\ 0 + 0 + 1 = 1
    BY <1>0
  <2>3. 0 + 0 =< Len(v) /\ 0 + k =< k /\ 0 + k = k /\ Len(v) \in Nat
    BY <1>0
  <2> QED
    BY <1>2, <2>1, <2>2, <2>3 DEF Flow
<1> QED
  BY <1>1, <1>3 DEF v

\* The first of two lines that end the transfer is put aside.
LEMMA FlowFatal ==
  ASSUME NEW q \in Seq(AnyLine), q # <<>>, NEW w \in Nat, NEW n \in Nat, NEW st,
         NEW g, NEW x, Flow(q, w, n, st, g, x), Fatal(q[1], st), q[1].more
  PROVE  Flow(Tail(q), w, n, st, 0, 0)
<1> DEFINE v == Tail(q)
<1>0. /\ v \in Seq(AnyLine) /\ Len(v) = Len(q) - 1 /\ Len(q) \in Nat /\ Len(q) >= 1
      /\ \A i \in 1 .. Len(v) : v[i] = q[i + 1]
  BY TailLines
<1>1. g = 0 /\ x = 0 /\ w =< n
  BY FirstLine
<1>2. Final(q, st, 1)
  <2>1. 0 + 0 < Len(q) /\ 0 + 0 + 1 = 1
    BY <1>0
  <2> QED
    BY <1>1, <2>1 DEF Flow
<1> HIDE DEF v
<1>3. 1 < Len(q) /\ q[1 + 1].code \in {421, 550} /\ ~q[1 + 1].more
  BY <1>2 DEF Final
<1>4. 0 < Len(v) /\ v[1] = q[1 + 1]
  BY <1>0, <1>3
<1>5. Final(v, st, 1) /\ v[1].code # 220
  BY <1>3, <1>4 DEF Final, Fatal
<1>6. ASSUME st = "Init" PROVE w = 0 /\ \A i \in 0 + 0 + 1 .. Len(v) : Refused(v, i)
  <2>1. w = 0 /\ \A i \in 0 + 0 + 1 .. Len(q) : Refused(q, i)
    BY <1>0, <1>1, <1>6 DEF Flow
  <2>2. ASSUME NEW i \in 0 + 0 + 1 .. Len(v) PROVE Refused(v, i)
    <3>1. i + 1 \in 0 + 0 + 1 .. Len(q) /\ v[i] = q[i + 1] /\ (i + 1 < Len(q) => i < Len(v) /\ v[i + 1] = q[(i + 1) + 1])
      BY <1>0
    <3> QED
      BY <2>1, <3>1 DEF Refused
  <2> QED
    BY <2>1, <2>2
<1>7. Flow(v, w, n, st, 0, 0)
  <2>1. \A i \in 1 .. 0 + 0 : FALSE
    OBVIOUS
  <2>2. 0 + 0 + 1 = 1 /\ Len(v) # 0 + 0 /\ 0 + 0 =< Len(v) /\ 0 + w =< n
    BY <1>0, <1>1, <1>4
  <2> QED
    BY <1>5, <1>6, <2>1, <2>2 DEF Flow
<1> QED
  BY <1>7 DEF v

\* The greeting is taken for another line, which a part of a line left from an
\* earlier connection makes of it: the client waits on, or says EHLO.
LEMMA FlowStale ==
  ASSUME NEW q \in Seq(AnyLine), q # <<>>, NEW w \in Nat,
         NEW g, NEW x, Flow(q, w, 1, "Init", g, x)
  PROVE  /\ w = 0
         /\ \E g2, x2 \in Nat : Flow(Tail(q), 0, 1, "Init", g2, x2)
         /\ Flow(Tail(q), 1, 1, "Helo", 0, 0)
<1> DEFINE v == Tail(q)
<1>0. /\ v \in Seq(AnyLine) /\ Len(v) = Len(q) - 1 /\ Len(q) \in Nat /\ Len(q) >= 1
      /\ \A i \in 1 .. Len(v) : v[i] = q[i + 1]
      /\ \A i \in 1 .. Len(q) : q[i].more \in BOOLEAN
  BY TailLines
<1>1. /\ w = 0 /\ g \in Nat /\ x \in Nat /\ g =< 1 /\ x =< 1 /\ (x > 0 => g = 1) /\ g + x =< Len(q)
      /\ \A i \in g + x + 1 .. Len(q) : Refused(q, i)
      /\ \A i \in 1 .. g + x : Good(q, "Init", g, x, i)
  BY <1>0 DEF Flow
<1> HIDE DEF v
<1>2. \A i \in 1 .. Len(v) : i + 1 \in 1 .. Len(q) /\ i + 1 < Len(q) => i < Len(v) /\ v[i + 1] = q[(i + 1) + 1]
  BY <1>0
<1>3. ASSUME g + x =< 1
      PROVE  \A i \in 1 .. Len(v) : Refused(v, i) /\ (v[i].more => v[i + 1].code \in {421, 550})
  <2> SUFFICES ASSUME NEW i \in 1 .. Len(v)
               PROVE  Refused(v, i) /\ (v[i].more => v[i + 1].code \in {421, 550})
    OBVIOUS
  <2>1. i + 1 \in g + x + 1 .. Len(q) /\ v[i] = q[i + 1]
    BY <1>0, <1>1, <1>3
  <2>2. Refused(q, i + 1)
    BY <1>1, <2>1
  <2>3. q[i + 1].more => i < Len(v) /\ v[i + 1] = q[(i + 1) + 1] /\ (i + 1) + 1 \in g + x + 1 .. Len(q)
    BY <1>0, <1>1, <1>2, <2>1, <2>2 DEF Refused
  <2>4. q[i + 1].more => Refused(q, (i + 1) + 1)
    BY <1>1, <2>3
  <2> QED
    BY <2>1, <2>2, <2>3, <2>4 DEF Refused
<1>4. \A i \in 1 .. 0 + 0 : FALSE
  OBVIOUS
<1>5. /\ 0 + 0 =< Len(v) /\ 0 + 0 + 1 = 1 /\ 0 + 1 = 1 /\ 0 + 0 =< 1 /\ 0 =< 1 /\ Len(v) \in Nat
      /\ 0 + 0 < Len(v) => 1 \in 1 .. Len(v)
  BY <1>0
<1>6. CASE g + x =< 1
  <2>1. ASSUME NEW st, 0 + 0 < Len(v) PROVE Final(v, st, 1) /\ v[1].code # 220
    <3>1. Refused(v, 1) /\ (v[1].more => v[1 + 1].code \in {421, 550})
      BY <1>3, <1>5, <1>6, <2>1
    <3> QED
      BY <3>1 DEF Final, Refused, Fatal
  <2>2. Flow(v, 0, 1, "Init", 0, 0)
    BY <1>3, <1>4, <1>5, <1>6, <2>1 DEF Flow
  <2>3. Flow(v, 1, 1, "Helo", 0, 0)
    BY <1>4, <1>5, <2>1 DEF Flow
  <2> QED
    BY <1>1, <2>2, <2>3 DEF v
<1>7. CASE g = 1 /\ x = 1
  <2>1. /\ 1 \in 1 .. Len(v) /\ v[1] = q[1 + 1] /\ 1 + 1 \in 1 .. 1 + 1 /\ 1 + 0 =< Len(v)
        /\ Len(v) \in Nat /\ 1 + 0 = 1 /\ 1 + 0 + 1 = 2 /\ 1 + 1 + 1 = 3
    BY <1>0, <1>1, <1>7
  <2>2. Good(q, "Init", 1, 1, 1 + 1)
    BY <1>1, <1>7, <2>1
  <2>3. q[1 + 1].code = 220 /\ ~q[1 + 1].more
    BY <2>2 DEF Good
  <2>4. \A i \in 2 .. Len(v) : Refused(v, i) /\ (v[i].more => v[i + 1].code \in {421, 550})
    <3> SUFFICES ASSUME NEW i \in 2 .. Len(v)
                 PROVE  Refused(v, i) /\ (v[i].more => v[i + 1].code \in {421, 550})
      OBVIOUS
    <3>1. i + 1 \in 3 .. Len(q) /\ v[i] = q[i + 1] /\ i \in 1 .. Len(v)
      BY <1>0
    <3>2. Refused(q, i + 1)
      BY <1>1, <1>7, <2>1, <3>1
    <3>3. q[i + 1].more => i < Len(v) /\ v[i + 1] = q[(i + 1) + 1] /\ (i + 1) + 1 \in 3 .. Len(q)
      BY <1>0, <1>2, <3>1, <3>2 DEF Refused
    <3>4. q[i + 1].more => Refused(q, (i + 1) + 1)
      BY <1>1, <1>7, <2>1, <3>3
    <3> QED
      BY <3>1, <3>2, <3>3, <3>4 DEF Refused
  <2>5. Final(v, "Helo", 1)
    BY <2>1, <2>3 DEF Final, Fatal
  <2>6. Flow(v, 1, 1, "Helo", 0, 0)
    BY <1>4, <1>5, <2>5 DEF Flow
  <2>7. ASSUME NEW i \in 1 .. 1 + 0 PROVE Good(v, "Init", 1, 0, i)
    <3>1. i = 1 /\ ~(1 =< 1 /\ 1 < 1 + 0)
      OBVIOUS
    <3> QED
      BY <2>1, <2>3, <3>1 DEF Good, Fatal
  <2>8. ASSUME 1 + 0 < Len(v) PROVE Final(v, "Init", 2) /\ v[2].code # 220
    <3>1. Refused(v, 2) /\ (v[2].more => v[2 + 1].code \in {421, 550})
      BY <2>1, <2>4, <2>8
    <3> QED
      BY <3>1 DEF Final, Refused, Fatal
  <2>9. Flow(v, 0, 1, "Init", 1, 0)
    BY <2>1, <2>4, <2>7, <2>8 DEF Flow
  <2> QED
    BY <1>1, <2>6, <2>9 DEF v
<1> QED
  BY <1>1, <1>6, <1>7

-----------------------------------------------------------------------------
(* The server answers *)

\* The lines of two sequences of replies.
LEMMA JoinLines ==
  ASSUME NEW q \in Seq(AnyLine), NEW ls \in Seq(AnyLine), ls # <<>>
  PROVE  /\ q \o ls \in Seq(AnyLine) /\ Len(q \o ls) = Len(q) + Len(ls)
         /\ Len(q) \in Nat /\ Len(ls) \in Nat /\ Len(ls) >= 1
         /\ \A i \in 1 .. Len(q) : (q \o ls)[i] = q[i]
         /\ \A i \in 1 .. Len(ls) : (q \o ls)[Len(q) + i] = ls[i]
<1>1. Len(q) \in Nat /\ Len(ls) \in Nat /\ Len(ls) >= 1
  BY EmptySeq
<1> QED
  BY <1>1, ConcatProperties

\* A line that ends the transfer has arrived, and others come after it.
LEMMA FlowBehind ==
  ASSUME NEW q \in Seq(AnyLine), NEW ls \in Seq(AnyLine), ls # <<>>, NEW w \in Nat, NEW w2 \in 0 .. w,
         NEW n \in Nat, NEW st, NEW g, NEW x, Flow(q, w, n, st, g, x), g + x < Len(q),
         st # "Init"
  PROVE  Flow(q \o ls, w2, n, st, g, x)
<1> DEFINE v == q \o ls
<1>0. /\ v \in Seq(AnyLine) /\ Len(v) = Len(q) + Len(ls) /\ Len(q) \in Nat /\ Len(ls) \in Nat /\ Len(ls) >= 1
      /\ \A i \in 1 .. Len(q) : v[i] = q[i]
  BY JoinLines
<1> HIDE DEF v
<1>1. /\ g \in Nat /\ x \in Nat /\ g + w =< n /\ (x > 0 => g = n /\ g > 0)
      /\ Final(q, st, g + x + 1) /\ (q[g + x + 1].code = 220 => g = 0 /\ x = 0)
  BY DEF Flow
<1>2. g + x + 1 \in 1 .. Len(q) /\ g + x =< Len(v) /\ g + w2 =< n /\ g + x < Len(v) /\ Len(v) # g + x
  BY <1>0, <1>1, SMTT(30)
<1>3. ASSUME NEW i \in 1 .. g + x PROVE Good(v, st, g, x, i)
  <2>1. i \in 1 .. Len(q) /\ v[i] = q[i] /\ Good(q, st, g, x, i)
    BY <1>0, <1>1 DEF Flow
  <2> QED
    BY <2>1 DEF Good
<1>4. Final(v, st, g + x + 1)
  <2> DEFINE j == g + x + 1
  <2>1. j \in 1 .. Len(q) /\ v[j] = q[j] /\ (j < Len(q) => v[j + 1] = q[j + 1] /\ j < Len(v))
    BY <1>0, <1>2, SMTT(60)
  <2> HIDE DEF j
  <2>2. Final(q, st, j)
    BY <1>1 DEF j
  <2>3. Final(v, st, j)
    BY <2>1, <2>2 DEF Final
  <2> QED
    BY <2>3 DEF j
<1>5. v[g + x + 1].code = 220 => g = 0 /\ x = 0
  BY <1>0, <1>1, <1>2
<1>6. Flow(v, w2, n, st, g, x)
  BY <1>1, <1>2, <1>3, <1>4, <1>5 DEF Flow
<1> QED
  BY <1>6 DEF v

\* The lines of a good response to one of w commands.
Answers(ls, w, st) ==
  /\ \A i \in 1 .. Len(ls) : /\ ~Fatal(ls[i], st)
                             /\ ls[i].more <=> i < Len(ls)
                             /\ ls[i].code = 250 /\ ls[i].more => st \in {"Helo", "Extension"}
                             /\ st = "Init" => ls[i].code = 220
  /\ Len(ls) > 1 => w = 1
  /\ st = "Init" => Len(ls) =< 2

\* The server answers a command.
LEMMA FlowAnswer ==
  ASSUME NEW q \in Seq(AnyLine), NEW ls \in Seq(AnyLine), ls # <<>>, NEW w \in Nat, w > 0,
         NEW n \in Nat, NEW st, st = "Init" => n = 1,
         NEW g, NEW x, Flow(q, w, n, st, g, x), Answers(ls, w, st)
  PROVE  \E g2, x2 \in Nat : Flow(q \o ls, w - 1, n, st, g2, x2)
<1> DEFINE v == q \o ls
           k == Len(ls) - 1
<1>0. /\ v \in Seq(AnyLine) /\ Len(v) = Len(q) + Len(ls) /\ Len(q) \in Nat /\ Len(ls) \in Nat /\ Len(ls) >= 1
      /\ \A i \in 1 .. Len(q) : v[i] = q[i]
      /\ \A i \in 1 .. Len(ls) : v[Len(q) + i] = ls[i]
      /\ k \in Nat /\ Len(ls) = k + 1
  BY JoinLines
<1> HIDE DEF v, k
<1>1. /\ g \in Nat /\ x \in Nat /\ g + w =< n /\ (x > 0 => g = n /\ g > 0) /\ g + x =< Len(q)
  BY DEF Flow
<1>2. st = "Init" => Len(q) = 0 /\ w = 1 /\ n = 1
  <2>1. st = "Init" => (Len(q) > 0 => w = 0)
    BY DEF Flow
  <2> QED
    BY <1>0, <1>1, <2>1
<1>3. x = 0 /\ g < n
  BY <1>1
<1>4. CASE g + x < Len(q)
  <2>1. w - 1 \in 0 .. w /\ st # "Init"
    BY <1>0, <1>1, <1>2, <1>4
  <2>2. Flow(q \o ls, w - 1, n, st, g, x)
    BY <1>4, <2>1, FlowBehind
  <2> QED
    BY <1>1, <2>2
<1>5. CASE g + x = Len(q)
  <2>1. g = Len(q) /\ Len(v) = (g + 1) + k /\ g + 1 \in Nat
    BY <1>0, <1>1, <1>3, <1>5
  <2>2. st # "Init" => g + w = n
    BY <1>1, <1>5 DEF Flow
  <2>3. k > 0 => w = 1 /\ g + 1 = n
    <3>1. k > 0 => w = 1
      BY <1>0 DEF Answers
    <3> QED
      BY <1>0, <1>1, <1>2, <2>1, <2>2, <3>1
  <2>4. ASSUME NEW i \in 1 .. (g + 1) + k PROVE Good(v, st, g + 1, k, i)
    <3>1. CASE i =< g
      <4>1. i \in 1 .. g + x /\ i \in 1 .. Len(q) /\ v[i] = q[i] /\ ~(g + 1 =< i)
        BY <1>0, <1>3, <2>1, <3>1
      <4>2. Good(q, st, g, x, i)
        BY <4>1 DEF Flow
      <4>3. ~q[i].more
        BY <1>1, <1>3, <4>1, <4>2 DEF Good
      <4> QED
        BY <4>1, <4>2, <4>3 DEF Good
    <3>2. CASE i > g
      <4> DEFINE j == i - g
      <4>1. j \in 1 .. Len(ls) /\ i = Len(q) + j
        <5>1. Len(q) = g /\ g \in Nat /\ Len(ls) = k + 1 /\ k \in Nat /\ i \in 1 .. (g + 1) + k
          BY <1>0, <1>1, <2>1
        <5> QED
          BY <3>2, <5>1
      <4>2. (g + 1 =< i /\ i < (g + 1) + k) <=> j < Len(ls)
        BY <1>0, <1>1, <2>1, <3>2
      <4>3. v[i] = ls[j]
        BY <1>0, <4>1
      <4> HIDE DEF j
      <4>4. /\ ~Fatal(ls[j], st) /\ (ls[j].more <=> j < Len(ls))
            /\ ls[j].code = 250 /\ ls[j].more => st \in {"Helo", "Extension"}
            /\ st = "Init" => ls[j].code = 220
        BY <4>1 DEF Answers
      <4>5. v[i].more <=> (g + 1 =< i /\ i < (g + 1) + k)
        BY <4>2, <4>3, <4>4
      <4> QED
        BY <4>3, <4>4, <4>5 DEF Good
    <3> QED
      BY <1>1, <3>1, <3>2
  <2>5. ~((g + 1) + k < Len(v)) /\ (g + 1) + (w - 1) =< n /\ (g + 1) + k =< Len(v)
    BY <1>0, <1>1, <2>1
  <2>6. st # "Init" => (g + 1) + (w - 1) = n
    BY <1>1, <2>2
  <2>7. st = "Init" => k =< 1 /\ w - 1 = 0 /\ \A i \in (g + 1) + k + 1 .. Len(v) : FALSE
    <3>1. st = "Init" => Len(ls) =< 2
      BY DEF Answers
    <3> QED
      BY <1>0, <1>2, <2>1, <3>1
  <2>8. Flow(v, w - 1, n, st, g + 1, k)
    BY <1>0, <2>1, <2>3, <2>4, <2>5, <2>6, <2>7 DEF Flow
  <2> QED
    BY <1>0, <2>1, <2>8 DEF v
<1> QED
  BY <1>0, <1>1, <1>4, <1>5, SMTT(30)

\* The lines of a refusal.
Refuses(ls) ==
  \A i \in 1 .. Len(ls) : /\ ls[i].code \in {421, 550}
                          /\ ls[i].more => i < Len(ls) /\ ~ls[i + 1].more

\* The server refuses a command, or gives up.
LEMMA FlowRefusal ==
  ASSUME NEW q \in Seq(AnyLine), NEW ls \in Seq(AnyLine), ls # <<>>, NEW w \in Nat, NEW w2 \in 0 .. w,
         NEW n \in Nat, NEW st, st = "Init" => w2 = 0,
         NEW g, NEW x, Flow(q, w, n, st, g, x), Refuses(ls)
  PROVE  Flow(q \o ls, w2, n, st, g, x) /\ g \in Nat /\ x \in Nat
<1> DEFINE v == q \o ls
<1>0. /\ v \in Seq(AnyLine) /\ Len(v) = Len(q) + Len(ls) /\ Len(q) \in Nat /\ Len(ls) \in Nat /\ Len(ls) >= 1
      /\ \A i \in 1 .. Len(q) : v[i] = q[i]
      /\ \A i \in 1 .. Len(ls) : v[Len(q) + i] = ls[i]
  BY JoinLines
<1> HIDE DEF v
<1>1. /\ g \in Nat /\ x \in Nat /\ g + w =< n /\ (x > 0 => g = n /\ g > 0) /\ g + x =< Len(q)
  BY DEF Flow
<1>2. ASSUME NEW j \in 1 .. Len(ls)
      PROVE  /\ Refused(v, Len(q) + j)
             /\ v[Len(q) + j].more => v[(Len(q) + j) + 1].code \in {421, 550}
  <2>1. v[Len(q) + j] = ls[j] /\ ls[j].code \in {421, 550}
    BY <1>0 DEF Refuses
  <2>2. ASSUME ls[j].more
        PROVE  /\ Len(q) + j < Len(v) /\ ~v[(Len(q) + j) + 1].more
               /\ v[(Len(q) + j) + 1].code \in {421, 550}
    <3>1. j < Len(ls) /\ ~ls[j + 1].more
      BY <2>2 DEF Refuses
    <3>2. j + 1 \in 1 .. Len(ls) /\ (Len(q) + j) + 1 = Len(q) + (j + 1) /\ Len(q) + j < Len(v)
      <4>1. Len(v) = Len(q) + Len(ls) /\ Len(q) \in Nat /\ Len(ls) \in Nat /\ j \in Nat /\ j >= 1
        BY <1>0
      <4> QED
        BY <3>1, <4>1
    <3>3. v[(Len(q) + j) + 1] = ls[j + 1]
      BY <1>0, <3>2
    <3>4. ls[j + 1].code \in {421, 550}
      BY <3>2 DEF Refuses
    <3> QED
      BY <3>1, <3>2, <3>3, <3>4
  <2> QED
    BY <2>1, <2>2 DEF Refused
<1>3. ASSUME NEW i \in 1 .. g + x PROVE Good(v, st, g, x, i)
  <2>1. i \in 1 .. Len(q) /\ v[i] = q[i] /\ Good(q, st, g, x, i)
    BY <1>0, <1>1 DEF Flow
  <2> QED
    BY <2>1 DEF Good
<1>4. Final(v, st, g + x + 1) /\ (v[g + x + 1].code = 220 => g = 0 /\ x = 0)
  <2>1. CASE g + x < Len(q)
    <3> DEFINE j == g + x + 1
    <3>0. j \in 1 .. Len(q) /\ j < Len(v) /\ (j < Len(q) => j + 1 \in 1 .. Len(q))
      <4>1. Len(v) = Len(q) + Len(ls) /\ Len(q) \in Nat /\ Len(ls) \in Nat /\ Len(ls) >= 1
        BY <1>0
      <4> QED
        BY <1>1, <2>1, <4>1
    <3>1. j \in 1 .. Len(q) /\ v[j] = q[j] /\ (j < Len(q) => v[j + 1] = q[j + 1] /\ j < Len(v))
      BY <1>0, <3>0
    <3> HIDE DEF j
    <3>2. Final(q, st, j) /\ (q[j].code = 220 => g = 0 /\ x = 0)
      BY <1>1, <2>1 DEF j, Flow
    <3>3. Final(v, st, j)
      BY <3>1, <3>2 DEF Final
    <3> QED
      BY <3>1, <3>2, <3>3 DEF j
  <2>2. CASE g + x = Len(q)
    <3>1. 1 \in 1 .. Len(ls) /\ g + x + 1 = Len(q) + 1
      BY <1>0, <2>2
    <3>2. /\ Refused(v, Len(q) + 1)
          /\ v[Len(q) + 1].more => v[(Len(q) + 1) + 1].code \in {421, 550}
      BY <1>2, <3>1
    <3>3. Final(v, st, Len(q) + 1) /\ v[Len(q) + 1].code # 220
      BY <3>2 DEF Final, Refused, Fatal
    <3> QED
      BY <3>1, <3>3
  <2> QED
    BY <1>0, <1>1, <2>1, <2>2
<1>5. ASSUME st = "Init", NEW i \in g + x + 1 .. Len(v) PROVE Refused(v, i)
  <2>1. CASE i =< Len(q)
    <3>1. i \in g + x + 1 .. Len(q) /\ v[i] = q[i] /\ (i < Len(q) => v[i + 1] = q[i + 1] /\ i < Len(v))
      BY <1>0, <1>1, <2>1
    <3>2. Refused(q, i)
      BY <1>5, <3>1 DEF Flow
    <3> QED
      BY <3>1, <3>2 DEF Refused
  <2>2. CASE i > Len(q)
    <3>1. i - Len(q) \in 1 .. Len(ls) /\ Len(q) + (i - Len(q)) = i
      BY <1>0, <1>1, <2>2
    <3> QED
      BY <1>2, <3>1
  <2> QED
    BY <1>0, <1>1, <2>1, <2>2
<1>6. /\ g + x =< Len(v) /\ g + w2 =< n /\ g + x < Len(v) /\ Len(v) # g + x
      /\ st = "Init" => x =< 1
  BY <1>0, <1>1 DEF Flow
<1>7. Flow(v, w2, n, st, g, x)
  BY <1>1, <1>3, <1>4, <1>5, <1>6 DEF Flow
<1> QED
  BY <1>1, <1>7 DEF v

-----------------------------------------------------------------------------
(* The commands that the client writes together *)

Leading == {"MAIL", "RCPT", "BDAT"}

\* Commands of a transaction, of which the last may have a response in several lines.
Grouped(d) ==
  /\ d \in Seq(AnyCommand) /\ d # <<>>
  /\ \A i \in 1 .. Len(d) - 1 : d[i].verb \in Leading
  /\ \A i \in 1 .. Len(d) : d[i].verb \in Leading \cup {"DATA", "END"}

\* A turn of the dialog that writes such commands: if there are several, the
\* message is written as far as it can be without a response.
Group(turn) ==
  /\ Grouped(turn.commands)
  /\ turn.status \in Transaction
  /\ Len(turn.commands) > 1 => turn.status \in {"Sent", "Body"}

\* Commands that precede a group belong to it.
LEMMA GroupedJoin ==
  ASSUME NEW b \in Seq(AnyCommand), \A i \in 1 .. Len(b) : b[i].verb \in Leading,
         NEW d, Grouped(d)
  PROVE  Grouped(b \o d)
<1> DEFINE v == b \o d
<1>1. /\ v \in Seq(AnyCommand) /\ Len(v) = Len(b) + Len(d)
      /\ Len(b) \in Nat /\ Len(d) \in Nat /\ Len(d) >= 1
      /\ \A i \in 1 .. Len(b) : v[i] = b[i]
      /\ \A i \in Len(b) + 1 .. Len(b) + Len(d) : v[i] = d[i - Len(b)] /\ i - Len(b) \in 1 .. Len(d)
  BY ConcatIndex DEF Grouped
<1> HIDE DEF v
<1>2. v # <<>>
  <2> SUFFICES ASSUME v = <<>> PROVE FALSE
    OBVIOUS
  <2>1. Len(v) = 0
    OBVIOUS
  <2> QED
    BY <1>1, <2>1
<1>3. ASSUME NEW i \in 1 .. Len(v)
      PROVE  /\ v[i].verb \in Leading \cup {"DATA", "END"}
             /\ i < Len(v) => v[i].verb \in Leading
  <2>1. CASE i =< Len(b)
    BY <1>1, <2>1
  <2>2. CASE i > Len(b)
    <3>1. v[i] = d[i - Len(b)] /\ i - Len(b) \in 1 .. Len(d)
      BY <1>1, <2>2
    <3>2. i < Len(v) => i - Len(b) \in 1 .. Len(d) - 1
      BY <1>1, <2>2
    <3> QED
      BY <3>1, <3>2 DEF Grouped
  <2> QED
    BY <1>1, <2>1, <2>2
<1>4. \A i \in 1 .. Len(v) - 1 : v[i].verb \in Leading
  <2> SUFFICES ASSUME NEW i \in 1 .. Len(v) - 1 PROVE v[i].verb \in Leading
    OBVIOUS
  <2>1. i \in 1 .. Len(v) /\ i < Len(v)
    BY <1>1
  <2> QED
    BY <1>3, <2>1
<1> QED
  BY <1>1, <1>2, <1>3, <1>4 DEF Grouped, v

\* One command is a group.
LEMMA GroupedOne ==
  ASSUME NEW c \in AnyCommand, c.verb \in Leading \cup {"DATA", "END"}
  PROVE  Grouped(<<c>>)
<1> DEFINE d == <<c>>
<1>1. d \in Seq(AnyCommand) /\ d # <<>> /\ Len(d) = 1 /\ d[1] = c
  OBVIOUS
<1> HIDE DEF d
<1>2. \A i \in 1 .. Len(d) - 1 : FALSE
  BY <1>1
<1>3. \A i \in 1 .. Len(d) : d[i] = c
  BY <1>1
<1>4. Grouped(d)
  BY <1>1, <1>2, <1>3 DEF Grouped
<1> QED
  BY <1>4 DEF d

\* case Chunk.
LEMMA ChunkGroup ==
  ASSUME NEW b \in Seq(AnyCommand), \A i \in 1 .. Len(b) : b[i].verb \in Leading,
         NEW chunks \in Seq(Part), chunks # <<>>, NEW p \in BOOLEAN, ~p => Len(b) = 0
  PROVE  Group(ChunkTurn(b, chunks, p))
<1>1. Len(chunks) \in Nat /\ Len(chunks) >= 1 /\ \A k \in 1 .. Len(chunks) : chunks[k] \in Part
  BY EmptySeq
<1>2. \A k \in 1 .. Len(chunks) : ChunkCommand(chunks, k) \in AnyCommand /\ ChunkCommand(chunks, k).verb = "BDAT"
  <2>1. \A k \in 1 .. Len(chunks) : ChunkCommand(chunks, k) \in AnyCommand
    BY <1>1, CommandType DEF ChunkCommand, Verb
  <2>2. \A k \in 1 .. Len(chunks) : ChunkCommand(chunks, k).verb = "BDAT"
    BY DEF ChunkCommand, Command
  <2> QED
    BY <2>1, <2>2
<1> DEFINE all == [k \in 1 .. Len(chunks) |-> ChunkCommand(chunks, k)]
           c   == ChunkCommand(chunks, 1)
<1>3. CASE p
  <2>1. all \in Seq(AnyCommand) /\ Len(all) = Len(chunks) /\ \A i \in 1 .. Len(all) : all[i].verb = "BDAT"
    <3>1. all \in [1 .. Len(chunks) -> AnyCommand]
      BY <1>2
    <3>2. all \in Seq(AnyCommand) /\ Len(all) = Len(chunks)
      BY <1>1, <3>1
    <3> QED
      BY <1>2, <3>2
  <2> HIDE DEF all
  <2>2. all # <<>>
    <3> SUFFICES ASSUME all = <<>> PROVE FALSE
      OBVIOUS
    <3>1. Len(all) = 0
      OBVIOUS
    <3> QED
      BY <1>1, <2>1, <3>1
  <2>3. \A i \in 1 .. Len(all) - 1 : i \in 1 .. Len(all)
    BY <1>1, <2>1
  <2>4. Grouped(all)
    BY <2>1, <2>2, <2>3 DEF Grouped, Leading
  <2>5. Grouped(b \o all)
    BY <2>4, GroupedJoin
  <2>6. ChunkTurn(b, chunks, p) = Turn("Sent", b \o all, <<>>)
    BY <1>3 DEF ChunkTurn, all
  <2> QED
    BY <2>5, <2>6 DEF Group, Turn, Transaction
<1>4. CASE ~p
  <2> DEFINE st == IF Len(chunks) = 1 THEN "Sent" ELSE "ChunkSent"
  <2>1. ChunkTurn(b, chunks, p) = Turn(st, b \o <<c>>, Tail(chunks))
    BY <1>4 DEF ChunkTurn
  <2>2. c \in AnyCommand /\ c.verb \in Leading \cup {"DATA", "END"}
    BY <1>1, <1>2 DEF Leading
  <2> HIDE DEF c
  <2>3. Grouped(<<c>>)
    BY <2>2, GroupedOne
  <2>4. Grouped(b \o <<c>>)
    BY <2>3, GroupedJoin
  <2>5. Len(b \o <<c>>) = 1
    BY <1>4, <2>2
  <2>6. st \in Transaction
    BY DEF Transaction
  <2> HIDE DEF st
  <2> QED
    BY <2>1, <2>4, <2>5, <2>6 DEF Group, Turn
<1> QED
  BY <1>3, <1>4

\* cases PrepareData and Data.
LEMMA DataGroup ==
  ASSUME NEW b \in Seq(AnyCommand), \A i \in 1 .. Len(b) : b[i].verb \in Leading,
         NEW m \in Message, NEW p \in BOOLEAN, ~p => Len(b) = 0, mailChunks \in Seq(Part)
  PROVE  Group(DataTurn(b, m, p))
<1>1. CASE m \in External
  <2>1. /\ mailChunks \o PartsOf(m) \in Seq(Part)
        /\ mailChunks \o PartsOf(m) # <<>>
    BY PartsType
  <2> QED
    BY <1>1, <2>1, ChunkGroup DEF DataTurn
<1>2. CASE m \notin External /\ ChunksOf[m] > 0
  BY <1>2, PartsType, ChunkGroup DEF DataTurn
<1>3. CASE m \notin External /\ ~(ChunksOf[m] > 0)
  <2> DEFINE c == Plain("DATA")
  <2>1. c \in AnyCommand /\ c.verb \in Leading \cup {"DATA", "END"}
    BY CommandType DEF Verb, Plain, Command
  <2>2. DataTurn(b, m, p) = Turn("Body", b \o <<c>>, mailChunks)
    BY <1>3 DEF DataTurn
  <2> HIDE DEF c
  <2>3. Grouped(b \o <<c>>)
    BY <2>1, GroupedOne, GroupedJoin
  <2> QED
    BY <2>2, <2>3 DEF Group, Turn, Transaction
<1> QED
  BY <1>1, <1>2, <1>3

\* cases MetaData and From.
LEMMA MetaDataGroup ==
  ASSUME NEW m \in Message, NEW p \in BOOLEAN, mailChunks \in Seq(Part)
  PROVE  Group(MetaDataTurn(m, p))
<1> DEFINE n     == RecipientsOf[m]
           c     == MailFrom(m)
           rcpts == [k \in 1 .. n |-> Plain("RCPT")]
           b     == <<c>> \o rcpts
<1>1. n \in Nat
  BY SmtpAssumption
<1>2. c \in AnyCommand /\ c.verb = "MAIL"
  BY CommandType DEF MailFrom, Command
<1>3. rcpts \in Seq(AnyCommand) /\ Len(rcpts) = n /\ \A i \in 1 .. n : rcpts[i].verb = "RCPT"
  <2>1. Plain("RCPT") \in AnyCommand /\ Plain("RCPT").verb = "RCPT"
    BY CommandType DEF Verb, Plain, Command
  <2>2. rcpts \in [1 .. n -> AnyCommand]
    BY <2>1
  <2> QED
    BY <1>1, <2>1, <2>2
<1>4. CASE p
  <2>1. MetaDataTurn(m, p) = DataTurn(b, m, p)
    BY <1>4 DEF MetaDataTurn
  <2> HIDE DEF c, rcpts
  <2>2. b \in Seq(AnyCommand) /\ Len(b) = n + 1 /\ b[1] = c /\ \A i \in 2 .. n + 1 : b[i] = rcpts[i - 1]
    BY <1>1, <1>2, <1>3
  <2> HIDE DEF b
  <2>3. ASSUME NEW i \in 1 .. Len(b) PROVE b[i].verb \in Leading
    <3>1. i = 1 \/ (i \in 2 .. n + 1 /\ i - 1 \in 1 .. n)
      BY <1>1, <2>2
    <3> QED
      BY <1>2, <1>3, <2>2, <3>1 DEF Leading
  <2> QED
    BY <1>4, <2>1, <2>2, <2>3, DataGroup
<1>5. CASE ~p
  <2>1. MetaDataTurn(m, p) = Turn("Recv", <<c>>, mailChunks)
    BY <1>5 DEF MetaDataTurn
  <2> HIDE DEF c
  <2>2. Grouped(<<c>>) /\ Len(<<c>>) = 1
    BY <1>2, GroupedOne DEF Leading
  <2> QED
    BY <2>1, <2>2 DEF Group, Turn, Transaction
<1> QED
  BY <1>4, <1>5

\* A group goes with the status of a transaction.
LEMMA GroupPaired ==
  ASSUME NEW turn, Group(turn)
  PROVE  Paired(turn.commands, turn.status)
  BY DEF Group, Grouped, Paired, Leading, Transaction

-----------------------------------------------------------------------------
(* The steps of the client *)

\* A transfer that has ended leaves nothing to say.
LEMMA FlowOver ==
  ASSUME sending' = FALSE, socket' = "closed", temporaryFile' = FALSE
  PROVE  FlowInv'
  BY DEF FlowInv, Running

\* What a step of a running transfer has to show.
LEMMA FlowHolds ==
  ASSUME socket' \notin {"closed", "opening"},
         lineBuffer' = NoLine \/ lineBuffer'.batch = batches' \/ status' = "Init",
         outstandingResponses' > 1 => status' \in {"Sent", "Body"},
         socket' = "handshake" \/ temporaryFile' => outstandingResponses' = 0,
         Paired(wire', status'), NEW n, n = Expected', NEW w, w = Len(wire'),
         NEW g \in Nat, NEW x \in Nat, Flow(replies', w, n, status', g, x)
  PROVE  FlowInv'
<1>1. Paired(wire, status)' /\ Flow(replies', Len(wire'), Expected', status', g, x)
  OBVIOUS
<1>2. (\E g1, x1 \in Nat : Flow(replies, Len(wire), Expected, status, g1, x1))'
  BY <1>1
<1> QED
  BY <1>1, <1>2 DEF FlowInv, Running

\* The response is complete and good, and the next command may be written.
Ready ==
  /\ sending /\ socket \notin {"closed", "opening", "handshake"} /\ ~temporaryFile
  /\ wire = <<>>
  /\ \A k \in Nat : \A st \in Status \ {"Init"} : Flow(Tail(replies), k, k, st, 0, 0)

\* The client writes commands and waits for as many responses.
LEMMA TakeFlow ==
  ASSUME Ready, LineRead, NEW turn, Take(turn), turn.status \in Status \ {"Init"},
         turn.commands \in Seq(AnyCommand), turn.commands # <<>>,
         Paired(turn.commands, turn.status), Len(turn.commands) > 1 => turn.status \in {"Sent", "Body"},
         UNCHANGED socket, UNCHANGED temporaryFile
  PROVE  FlowInv'
<1> DEFINE k == Len(turn.commands)
<1>1. k \in Nat /\ k >= 1
  BY EmptySeq
<1>2. wire' = turn.commands
  BY DEF Ready, Take
<1>3. outstandingResponses' = k /\ status' = turn.status /\ replies' = Tail(replies)
  BY DEF Take, Awaited
<1> HIDE DEF k
<1>4. socket' \notin {"closed", "opening", "handshake"} /\ ~temporaryFile'
  BY DEF Ready
<1>5. k = Expected'
  BY <1>1, <1>3, <1>4 DEF Expected
<1>6. Flow(replies', k, k, status', 0, 0)
  BY <1>1, <1>3 DEF Ready
<1>7. lineBuffer' = NoLine
  BY DEF LineRead
<1>8. Len(wire') = k
  BY <1>2 DEF k
<1>9. Paired(wire', status') /\ (outstandingResponses' > 1 => status' \in {"Sent", "Body"})
  BY <1>2, <1>3 DEF k
<1> QED
  BY <1>4, <1>5, <1>6, <1>7, <1>8, <1>9, FlowHolds

\* The client writes one command.
LEMMA SayFlow ==
  ASSUME Ready, LineRead, NEW st \in Status \ {"Init"}, NEW v \in Verb, Say(st, Plain(v)),
         v = "EHLO" => st = "Helo", st = "Helo" => v \in {"EHLO", "HELO"},
         UNCHANGED socket, UNCHANGED temporaryFile
  PROVE  FlowInv'
<1> DEFINE c == Plain(v)
           d == <<c>>
           turn == Turn(st, d, mailChunks)
<1>1. c \in AnyCommand /\ c.verb = v
  BY CommandType DEF Plain, Command
<1>2. Take(turn)
  BY DEF Say
<1> HIDE DEF c
<1>3. d \in Seq(AnyCommand) /\ d # <<>> /\ Len(d) = 1 /\ d[1] = c
  BY <1>1
<1>4. turn.status = st /\ turn.commands = d
  BY DEF Turn
<1> HIDE DEF d, turn
<1>5. Paired(d, st)
  <2>1. (\A i \in 1 .. Len(d) - 1 : FALSE) /\ \A i \in 1 .. Len(d) : d[i] = c
    BY <1>3
  <2> QED
    BY <1>1, <2>1 DEF Paired
<1>6. /\ turn.status \in Status \ {"Init"} /\ turn.commands \in Seq(AnyCommand) /\ turn.commands # <<>>
      /\ Paired(turn.commands, turn.status) /\ ~(Len(turn.commands) > 1)
  <2>1. Paired(turn.commands, turn.status)
    BY <1>4, <1>5, Zenon
  <2>2. Len(turn.commands) = 1
    BY <1>3, <1>4
  <2>3. turn.status \in Status \ {"Init"}
    BY <1>4, Zenon
  <2>4. turn.commands \in Seq(AnyCommand) /\ turn.commands # <<>>
    BY <1>3, <1>4, Zenon
  <2>5. ~(1 > 1)
    OBVIOUS
  <2> QED
    BY <2>1, <2>2, <2>3, <2>4, <2>5, Zenon
<1> QED
  BY <1>2, <1>6, TakeFlow

\* The client writes a group of commands.
LEMMA GroupFlow ==
  ASSUME Ready, LineRead, NEW turn, Take(turn), Group(turn), UNCHANGED socket, UNCHANGED temporaryFile
  PROVE  FlowInv'
<1>1. turn.status \in Status \ {"Init"}
  BY DEF Group, Transaction, Status
<1>2. turn.commands \in Seq(AnyCommand) /\ turn.commands # <<>>
  BY DEF Group, Grouped
<1>3. Paired(turn.commands, turn.status) /\ (Len(turn.commands) > 1 => turn.status \in {"Sent", "Body"})
  BY GroupPaired DEF Group
<1> QED
  BY <1>1, <1>2, <1>3, TakeFlow

\* The client waits, with nothing to write.
LEMMA WaitFlow ==
  ASSUME Ready, LineRead, NEW st \in Status \ {"Init"}, Hold(st),
         socket' \notin {"closed", "opening"}, socket' = "handshake" \/ temporaryFile'
  PROVE  FlowInv'
<1>1. wire' = <<>> \o <<>> /\ outstandingResponses' = Len(<<>>) /\ status' = st /\ replies' = Tail(replies)
  BY DEF Ready, Hold, Take, Turn, Awaited
<1>2. Len(wire') = 0 /\ outstandingResponses' = 0
  BY <1>1
<1>3. Paired(wire', status')
  <2>1. (\A i \in 1 .. Len(wire') - 1 : FALSE) /\ \A i \in 1 .. Len(wire') : FALSE
    BY <1>2
  <2> QED
    BY <2>1 DEF Paired
<1>4. 0 = Expected'
  BY DEF Expected
<1>5. Flow(replies', 0, 0, status', 0, 0)
  BY <1>1 DEF Ready
<1>6. lineBuffer' = NoLine
  BY DEF LineRead
<1> QED
  BY <1>2, <1>3, <1>4, <1>5, <1>6, FlowHolds

\* The dialog goes on with a message, or ends.
LEMMA MessageFlow ==
  ASSUME WellTyped, Ready, LineRead, NEW i \in 1 .. Len(mailList) + 1, NEW p \in BOOLEAN, MessageTurn(i, p)
  PROVE  FlowInv'
<1>0. mailList \in Seq(Message) /\ Len(mailList) \in Nat /\ mailChunks \in Seq(Part)
  BY DEF WellTyped, TypeOK, Part
<1>1. CASE AtEnd(i)
  <2>1. sending' = FALSE /\ socket' = "closed" /\ temporaryFile' = FALSE
    BY <1>1 DEF MessageTurn, QuitTurn, close, Ready
  <2> QED
    BY <2>1, FlowOver
<1>2. CASE ~AtEnd(i)
  <2>1. Take(MetaDataTurn(mailList[i], p)) /\ UNCHANGED socket /\ UNCHANGED temporaryFile
    BY <1>2 DEF MessageTurn
  <2>2. mailList[i] \in Message
    BY <1>0, <1>2 DEF AtEnd
  <2>3. Group(MetaDataTurn(mailList[i], p))
    BY <1>0, <2>2, MetaDataGroup
  <2> QED
    BY <2>1, <2>3, GroupFlow
<1> QED
  BY <1>1, <1>2

\* The dialog goes on after the capabilities.
LEMMA LoginFlow ==
  ASSUME WellTyped, Ready, LineRead, NEW offered, LoginTurn(offered)
  PROVE  FlowInv'
<1>1. CASE Say("TLS", Plain("STARTTLS")) /\ UNCHANGED <<mailItr, it, temporaryFile, socket>>
  <2>1. UNCHANGED socket /\ UNCHANGED temporaryFile /\ "TLS" \in Status \ {"Init"} /\ "STARTTLS" \in Verb
    BY <1>1 DEF Status, Verb
  <2> QED
    BY <1>1, <2>1, SayFlow
<1>2. CASE Say("Authenticating", Plain("AUTH")) /\ UNCHANGED <<mailItr, it, temporaryFile, socket>>
  <2>1. UNCHANGED socket /\ UNCHANGED temporaryFile /\ "Authenticating" \in Status \ {"Init"} /\ "AUTH" \in Verb
    BY <1>2 DEF Status, Verb
  <2> QED
    BY <1>2, <2>1, SayFlow
<1>3. CASE MessageTurn(mailItr, "PIPELINING" \in offered)
  <2>1. mailItr \in 1 .. Len(mailList) + 1 /\ ("PIPELINING" \in offered) \in BOOLEAN
    BY DEF WellTyped, TypeOK
  <2> QED
    BY <1>3, <2>1, MessageFlow
<1> QED
  BY <1>1, <1>2, <1>3 DEF LoginTurn

\* A good response with code 250 has several lines only when it lists capabilities.
LEMMA GoodMore ==
  ASSUME NEW q \in Seq(AnyLine), q # <<>>, NEW w \in Nat, NEW n, NEW st, st \notin {"Helo", "Extension"},
         NEW g \in Nat, NEW x \in Nat, Flow(q, w, n, st, g, x), q[1].code = 250
  PROVE  ~q[1].more
<1>1. Len(q) \in Nat /\ Len(q) >= 1
  BY TailLines
<1>2. ~Fatal(q[1], st)
  BY DEF Fatal
<1>3. g + x >= 1
  <2> SUFFICES ASSUME g = 0, x = 0 PROVE FALSE
    OBVIOUS
  <2>1. 0 + 0 < Len(q) /\ 0 + 0 + 1 = 1
    BY <1>1
  <2>2. Final(q, st, 1)
    BY <2>1 DEF Flow
  <2> QED
    BY <1>2, <2>2 DEF Final
<1>4. Good(q, st, g, x, 1)
  BY <1>3 DEF Flow
<1> QED
  BY <1>4 DEF Good

\* One line that nextAction handles.
LEMMA NextActionFlow ==
  ASSUME WellTyped, Tidy, FlowInv, sending, LineRead, NEW r \in Responses, nextAction(r),
         ~(outstandingResponses > 1)
  PROVE  FlowInv'
<1> DEFINE q == replies
           n == Expected
           w == Len(wire)
<1>0. /\ wire \in Seq(AnyCommand) /\ q \in Seq(AnyLine) /\ q # <<>> /\ w \in Nat
      /\ mailList \in Seq(Message) /\ Len(mailList) \in Nat /\ mailItr \in 1 .. Len(mailList) + 1
      /\ mailChunks \in Seq(Part) /\ status \in Status
      /\ status \in Transaction => mailItr \in 1 .. Len(mailList) /\ mailList[mailItr] \in Message
      /\ status = "ChunkSent" => mailChunks # <<>>
      /\ Pipelining \in BOOLEAN /\ temporaryFile \in BOOLEAN
      /\ socket \in {"closed", "opening", "open", "handshake", "encrypted"}
      /\ socket # "closed" /\ socket # "opening" /\ lineBuffer' = NoLine
  BY DEF WellTyped, TypeOK, FlowInv, LineRead, Part, Pipelining, Status
<1>1. n \in Nat /\ n =< 1 /\ (socket # "handshake" /\ ~temporaryFile => n = 1)
      /\ (socket = "handshake" \/ temporaryFile => n = 0)
  BY DEF Expected
<1>2. PICK g \in Nat, x \in Nat : Flow(q, w, n, status, g, x)
  BY <1>0 DEF FlowInv, Running
<1>3. w = 0 <=> wire = <<>>
  BY <1>0, EmptySeq
<1>4. Paired(wire, status)
  BY <1>0 DEF FlowInv, Running
<1>5. status = "Init" => n = 1
  BY <1>1 DEF Tidy
<1>6. r = q[1] \/ status = "Init"
  <2>1. CASE lineBuffer = NoLine \/ lineBuffer.batch = batches
    <3>1. r = Head(q) /\ Head(q) = q[1]
      BY <1>0, <2>1, TailIndex DEF Responses
    <3> QED
      BY <3>1
  <2>2. CASE ~(lineBuffer = NoLine \/ lineBuffer.batch = batches)
    BY <2>2 DEF FlowInv
  <2> QED
    BY <2>1, <2>2
<1> HIDE DEF q, n, w
<1>7. ASSUME Failure PROVE FlowInv'
  <2>1. sending' = FALSE /\ socket' = "closed" /\ temporaryFile' = FALSE
    BY <1>7 DEF Failure, operationFailed, close, stopTransferring
  <2> QED
    BY <2>1, FlowOver
<1>8. ASSUME NEW st \in Status, Hold(st), UNCHANGED socket, UNCHANGED temporaryFile,
             NEW g2 \in Nat, NEW x2 \in Nat, Flow(Tail(q), w, n, st, g2, x2), st = status \/ wire = <<>>
      PROVE  FlowInv'
  <2>1. wire' = wire \o <<>> /\ outstandingResponses' = Len(<<>>) /\ status' = st /\ replies' = Tail(q)
    BY <1>8 DEF Hold, Take, Turn, Awaited, q
  <2>2. wire' = wire /\ outstandingResponses' = 0
    BY <1>0, <2>1, ConcatEmptySeq
  <2>3. n = Expected'
    BY <1>8, <2>2 DEF Expected, n
  <2>4. Paired(wire', status')
    <3>1. CASE st = status
      BY <1>4, <2>1, <2>2, <3>1
    <3>2. CASE wire = <<>>
      <4>1. Len(wire) = 0
        BY <3>2
      <4>2. (\A i \in 1 .. Len(wire) - 1 : FALSE) /\ \A i \in 1 .. Len(wire) : FALSE
        BY <4>1
      <4> QED
        BY <2>2, <4>2 DEF Paired
    <3> QED
      BY <1>8, <3>1, <3>2
  <2>5. w = Len(wire') /\ Flow(replies', w, n, status', g2, x2)
    BY <1>8, <2>1, <2>2 DEF w
  <2>6. socket' \notin {"closed", "opening"}
    BY <1>0, <1>8
  <2> QED
    BY <1>0, <2>2, <2>3, <2>4, <2>5, <2>6, FlowHolds
<1>9. ASSUME r.code # 250, r.more, Hold(status), UNCHANGED DialogVars PROVE FlowInv'
  <2>0. UNCHANGED socket /\ UNCHANGED temporaryFile
    BY <1>9 DEF DialogVars
  <2>1. CASE r = q[1]
    <3>1. CASE Fatal(q[1], status)
      <4>1. Flow(Tail(q), w, n, status, 0, 0)
        BY <1>0, <1>1, <1>2, <1>9, <2>1, <3>1, FlowFatal
      <4> QED
        BY <1>0, <1>8, <1>9, <2>0, <4>1
    <3>2. CASE ~Fatal(q[1], status)
      <4>1. Flow(Tail(q), w, 1, status, 1, x - 1) /\ x - 1 \in Nat /\ n = 1
        BY <1>0, <1>1, <1>2, <1>9, <2>1, <3>2, FlowMore
      <4> QED
        BY <1>0, <1>8, <1>9, <2>0, <4>1
    <3> QED
      BY <3>1, <3>2
  <2>2. CASE status = "Init"
    <3>1. Flow(q, w, 1, "Init", g, x)
      BY <1>2, <1>5, <2>2
    <3>2. w = 0 /\ \E g2, x2 \in Nat : Flow(Tail(q), 0, 1, "Init", g2, x2)
      BY <1>0, <3>1, FlowStale
    <3>3. PICK g2 \in Nat, x2 \in Nat : Flow(Tail(q), 0, 1, "Init", g2, x2)
      BY <3>2
    <3>4. Flow(Tail(q), w, n, status, g2, x2)
      BY <1>5, <2>2, <3>2, <3>3
    <3> QED
      BY <1>0, <1>8, <1>9, <2>0, <3>4
  <2> QED
    BY <1>6, <2>1, <2>2
<1>10. ASSUME r = q[1], ~Fatal(r, status), ~r.more PROVE Ready
  <2>1. ASSUME NEW k \in Nat, NEW st \in Status \ {"Init"}
        PROVE  Flow(Tail(q), k, k, st, 0, 0) /\ n = 1 /\ w = 0
    <3>1. st # "Init"
      OBVIOUS
    <3> QED
      BY <1>0, <1>1, <1>2, <1>10, <3>1, FlowTurn
  <2>2. n = 1 /\ w = 0
    <3>1. 0 \in Nat /\ "Helo" \in Status \ {"Init"}
      BY DEF Status
    <3> QED
      BY <2>1, <3>1
  <2>3. socket # "handshake" /\ ~temporaryFile
    BY <1>1, <2>2
  <2> QED
    BY <1>0, <1>3, <2>1, <2>2, <2>3 DEF Ready, q
<1>11. ASSUME r = q[1], ~Fatal(r, status), r.more, status \in {"Helo", "Extension"}, Hold("Extension"),
              UNCHANGED socket, UNCHANGED temporaryFile
       PROVE  FlowInv'
  <2>1. Flow(Tail(q), w, 1, "Extension", 1, x - 1) /\ x - 1 \in Nat /\ n = 1 /\ w = 0
    BY <1>0, <1>1, <1>2, <1>11, FlowMore
  <2>2. "Extension" \in Status /\ wire = <<>>
    BY <1>3, <2>1 DEF Status
  <2> QED
    BY <1>8, <1>11, <2>1, <2>2
<1>12. ASSUME OnInit(r), ~(r.code # 250 /\ r.more) PROVE FlowInv'
  <2>1. CASE r.code # 220
    BY <1>7, <1>12, <2>1 DEF OnInit
  <2>2. CASE r.code = 220
    <3> DEFINE c == Plain("EHLO")
               d == <<c>>
               turn == Turn("Helo", d, mailChunks)
    <3>1. Take(turn) /\ UNCHANGED socket /\ UNCHANGED temporaryFile /\ status = "Init"
      BY <1>12, <2>2 DEF OnInit, Say
    <3>2. Flow(q, w, 1, "Init", g, x)
      BY <1>2, <1>5, <3>1
    <3>3. w = 0 /\ Flow(Tail(q), 1, 1, "Helo", 0, 0)
      BY <1>0, <3>2, FlowStale
    <3>4. c \in AnyCommand /\ c.verb = "EHLO"
      BY CommandType DEF Verb, Plain, Command
    <3> HIDE DEF c
    <3>5. d \in Seq(AnyCommand) /\ Len(d) = 1 /\ d[1] = c
      BY <3>4
    <3>6. turn.status = "Helo" /\ turn.commands = d
      BY DEF Turn
    <3> HIDE DEF turn, d
    <3>7. Paired(d, "Helo")
      <4>1. (\A i \in 1 .. Len(d) - 1 : FALSE) /\ \A i \in 1 .. Len(d) : d[i] = c
        BY <3>5
      <4> QED
        BY <3>4, <4>1 DEF Paired
    <3>8. wire' = d
      <4>1. wire' = <<>> \o d
        BY <1>3, <3>1, <3>3, <3>6 DEF Take
      <4> QED
        BY <3>5, <4>1
    <3>9. status' = "Helo" /\ outstandingResponses' = 1 /\ replies' = Tail(q)
      BY <3>1, <3>5, <3>6 DEF Take, Awaited, q
    <3>10. socket' \notin {"closed", "opening", "handshake"} /\ ~temporaryFile'
      BY <1>0, <1>1, <1>5, <3>1
    <3>11. 1 = Expected'
      BY <3>9, <3>10 DEF Expected
    <3>12. Paired(wire', status') /\ 1 = Len(wire') /\ Flow(replies', 1, 1, status', 0, 0)
      BY <3>3, <3>5, <3>7, <3>8, <3>9
    <3>13. ~(outstandingResponses' > 1) /\ ~(socket' = "handshake" \/ temporaryFile') /\ 0 \in Nat
      BY <3>9, <3>10
    <3> QED
      BY <1>0, <3>10, <3>11, <3>12, <3>13, FlowHolds
  <2> QED
    BY <2>1, <2>2
<1>13. ASSUME OnHelo(r), ~(r.code # 250 /\ r.more) PROVE FlowInv'
  <2>0. r = q[1] /\ status = "Helo"
    BY <1>6, <1>13 DEF OnHelo
  <2>1. CASE r.code = 500
    <3>1. Ready
      BY <1>10, <1>13, <2>0, <2>1 DEF Fatal
    <3>2. Say("Helo", Plain("HELO")) /\ UNCHANGED socket /\ UNCHANGED temporaryFile
      BY <1>13, <2>1 DEF OnHelo, DialogVars
    <3>3. "Helo" \in Status \ {"Init"} /\ "HELO" \in Verb
      BY DEF Status, Verb
    <3> QED
      BY <3>1, <3>2, <3>3, SayFlow
  <2>2. CASE r.code = 250 /\ r.more
    <3>1. Hold("Extension") /\ UNCHANGED socket /\ UNCHANGED temporaryFile
      BY <1>13, <2>2 DEF OnHelo, DialogVars
    <3> QED
      BY <1>11, <2>0, <2>2, <3>1 DEF Fatal
  <2>3. CASE r.code = 250 /\ ~r.more
    <3>1. Ready
      BY <1>10, <2>0, <2>3 DEF Fatal
    <3>2. LoginTurn(capabilities)
      BY <1>13, <2>3 DEF OnHelo
    <3> QED
      BY <3>1, <3>2, LoginFlow
  <2>4. CASE r.code # 500 /\ r.code # 250
    BY <1>7, <1>13, <2>4 DEF OnHelo
  <2> QED
    BY <2>1, <2>2, <2>3, <2>4
<1>14. ASSUME OnExtension(r), ~(r.code # 250 /\ r.more) PROVE FlowInv'
  <2>0. r = q[1] /\ status = "Extension"
    BY <1>6, <1>14 DEF OnExtension
  <2>1. CASE r.code = 250 /\ r.more
    <3>1. Hold("Extension") /\ UNCHANGED socket /\ UNCHANGED temporaryFile
      BY <1>14, <2>1 DEF OnExtension
    <3> QED
      BY <1>11, <2>0, <2>1, <3>1 DEF Fatal
  <2>2. CASE r.code = 250 /\ ~r.more
    <3>1. Ready
      BY <1>10, <2>0, <2>2 DEF Fatal
    <3>2. LoginTurn(capabilities \cup r.offered)
      BY <1>14, <2>2 DEF OnExtension
    <3> QED
      BY <3>1, <3>2, LoginFlow
  <2>3. CASE r.code # 250
    BY <1>7, <1>14, <2>3 DEF OnExtension
  <2> QED
    BY <2>1, <2>2, <2>3
<1>15. ASSUME OnTLS(r), ~(r.code # 250 /\ r.more) PROVE FlowInv'
  <2>0. r = q[1] /\ status = "TLS"
    BY <1>6, <1>15 DEF OnTLS
  <2>1. CASE r.code = 220
    <3>1. Ready
      BY <1>10, <1>15, <2>0, <2>1 DEF Fatal
    <3>2. Hold("TLS") /\ socket' = "handshake"
      BY <1>15, <2>1 DEF OnTLS
    <3>3. "TLS" \in Status \ {"Init"}
      BY DEF Status
    <3> QED
      BY <3>1, <3>2, <3>3, WaitFlow
  <2>2. CASE r.code # 220
    BY <1>7, <1>15, <2>2 DEF OnTLS
  <2> QED
    BY <2>1, <2>2
<1>16. ASSUME OnAuthenticating(r), ~(r.code # 250 /\ r.more) PROVE FlowInv'
  <2>0. r = q[1] /\ status = "Authenticating"
    BY <1>6, <1>16 DEF OnAuthenticating
  <2>1. CASE r.code = 334 /\ Say("Authenticating", Plain("ANSWER")) /\ UNCHANGED DialogVars
    <3>1. Ready
      BY <1>10, <1>16, <2>0, <2>1 DEF Fatal
    <3>2. UNCHANGED socket /\ UNCHANGED temporaryFile
      BY <2>1 DEF DialogVars
    <3>3. "Authenticating" \in Status \ {"Init"} /\ "ANSWER" \in Verb
      BY DEF Status, Verb
    <3> QED
      BY <2>1, <3>1, <3>2, <3>3, SayFlow
  <2>2. CASE r.code = 235 /\ MessageTurn(mailItr, Pipelining)
    <3>1. Ready
      BY <1>10, <1>16, <2>0, <2>2 DEF Fatal
    <3> QED
      BY <1>0, <2>2, <3>1, MessageFlow
  <2>3. CASE Failure
    BY <1>7, <2>3
  <2> QED
    BY <1>16, <2>1, <2>2, <2>3 DEF OnAuthenticating
<1>17. ASSUME OnRecv(r), ~(r.code # 250 /\ r.more) PROVE FlowInv'
  <2>0. r = q[1] /\ status = "Recv"
    BY <1>6, <1>17 DEF OnRecv
  <2>1. CASE r.code = 250
    <3>1. ~r.more
      BY <1>0, <1>2, <2>0, <2>1, GoodMore, SMTT(30)
    <3>2. Ready
      BY <1>10, <2>0, <2>1, <3>1 DEF Fatal
    <3>3. Say("MRcv", Plain("RCPT")) /\ UNCHANGED socket /\ UNCHANGED temporaryFile
      BY <1>17, <2>1 DEF OnRecv
    <3>4. "MRcv" \in Status \ {"Init"} /\ "RCPT" \in Verb
      BY DEF Status, Verb
    <3> QED
      BY <3>2, <3>3, <3>4, SayFlow
  <2>2. CASE r.code # 250
    BY <1>7, <1>17, <2>2 DEF OnRecv
  <2> QED
    BY <2>1, <2>2
<1>18. ASSUME OnMRcv(r), ~(r.code # 250 /\ r.more) PROVE FlowInv'
  <2>0. r = q[1] /\ status = "MRcv" /\ mailList[mailItr] \in Message
    BY <1>0, <1>6, <1>18 DEF OnMRcv, Transaction
  <2>1. CASE r.code \in {250, 251}
    <3>1. ~r.more
      BY <1>0, <1>2, <1>18, <2>0, <2>1, GoodMore, SMTT(30)
    <3>2. Ready
      BY <1>10, <2>0, <2>1, <3>1 DEF Fatal
    <3>3. UNCHANGED socket /\ UNCHANGED temporaryFile
      BY <1>18, <2>1 DEF OnMRcv
    <3>4. CASE Say("MRcv", Plain("RCPT"))
      <4>1. "MRcv" \in Status \ {"Init"} /\ "RCPT" \in Verb
        BY DEF Status, Verb
      <4> QED
        BY <3>2, <3>3, <3>4, <4>1, SayFlow
    <3>5. CASE Take(DataTurn(<<>>, mailList[mailItr], Pipelining))
      <4> DEFINE b == <<>>
      <4>1. b \in Seq(AnyCommand) /\ Len(b) = 0 /\ \A i \in 1 .. Len(b) : FALSE
        OBVIOUS
      <4> HIDE DEF b
      <4>2. Group(DataTurn(b, mailList[mailItr], Pipelining))
        BY <1>0, <2>0, <4>1, DataGroup
      <4>3. Group(DataTurn(<<>>, mailList[mailItr], Pipelining))
        BY <4>2 DEF b
      <4> QED
        BY <3>2, <3>3, <3>5, <4>3, GroupFlow
    <3> QED
      BY <1>18, <2>1, <3>4, <3>5 DEF OnMRcv
  <2>2. CASE r.code \notin {250, 251}
    BY <1>7, <1>18, <2>2 DEF OnMRcv
  <2> QED
    BY <2>1, <2>2
<1>19. ASSUME OnBody(r), ~(r.code # 250 /\ r.more) PROVE FlowInv'
  <2>0. r = q[1] /\ status = "Body"
    BY <1>6, <1>19 DEF OnBody
  <2>1. CASE r.code = 354 /\ ~temporaryFile
    <3>1. Ready
      BY <1>10, <1>19, <2>0, <2>1 DEF Fatal
    <3>2. Hold("Body") /\ temporaryFile' /\ UNCHANGED socket
      BY <1>19, <2>1 DEF OnBody
    <3>3. "Body" \in Status \ {"Init"} /\ socket' \notin {"closed", "opening"}
      BY <1>0, <3>2 DEF Status
    <3> QED
      BY <3>1, <3>2, <3>3, WaitFlow
  <2>2. CASE ~(r.code = 354 /\ ~temporaryFile)
    BY <1>7, <1>19, <2>2 DEF OnBody
  <2> QED
    BY <2>1, <2>2
<1>20. ASSUME OnChunkSent(r), ~(r.code # 250 /\ r.more) PROVE FlowInv'
  <2>0. r = q[1] /\ status = "ChunkSent" /\ mailChunks # <<>>
    BY <1>0, <1>6, <1>20 DEF OnChunkSent
  <2>1. CASE r.code = 250
    <3>1. ~r.more
      BY <1>0, <1>2, <2>0, <2>1, GoodMore, SMTT(60)
    <3>2. Ready
      BY <1>10, <2>0, <2>1, <3>1 DEF Fatal
    <3>3. Take(ChunkTurn(<<>>, mailChunks, Pipelining)) /\ UNCHANGED socket /\ UNCHANGED temporaryFile
      BY <1>20, <2>1 DEF OnChunkSent, DialogVars
    <3> DEFINE b == <<>>
    <3>4. b \in Seq(AnyCommand) /\ Len(b) = 0 /\ \A i \in 1 .. Len(b) : FALSE
      OBVIOUS
    <3> HIDE DEF b
    <3>5. Group(ChunkTurn(b, mailChunks, Pipelining))
      BY <1>0, <2>0, <3>4, ChunkGroup
    <3>6. Group(ChunkTurn(<<>>, mailChunks, Pipelining))
      BY <3>5 DEF b
    <3> QED
      BY <3>2, <3>3, <3>6, GroupFlow
  <2>2. CASE r.code # 250
    BY <1>7, <1>20, <2>2 DEF OnChunkSent
  <2> QED
    BY <2>1, <2>2
<1>21. ASSUME OnSent(r), ~(r.code # 250 /\ r.more) PROVE FlowInv'
  <2>0. r = q[1] /\ status = "Sent" /\ mailItr + 1 \in 1 .. Len(mailList) + 1
    BY <1>0, <1>6, <1>21 DEF OnSent, Transaction
  <2>1. CASE r.code = 250
    <3>1. ~r.more
      BY <1>0, <1>2, <2>0, <2>1, GoodMore
    <3>2. Ready
      BY <1>10, <2>0, <2>1, <3>1 DEF Fatal
    <3>3. MessageTurn(mailItr + 1, Pipelining)
      BY <1>21, <2>1 DEF OnSent
    <3> QED
      BY <1>0, <2>0, <3>2, <3>3, MessageFlow
  <2>2. CASE r.code # 250
    BY <1>7, <1>21, <2>2 DEF OnSent
  <2> QED
    BY <2>1, <2>2
<1> QED
  BY <1>9, <1>12, <1>13, <1>14, <1>15, <1>16, <1>17, <1>18, <1>19, <1>20, <1>21 DEF nextAction

-----------------------------------------------------------------------------
(* The steps of the server *)

\* The fields of a reply line.
LEMMA LineFields ==
  ASSUME NEW code \in Nat, NEW more \in BOOLEAN, NEW offered \in SUBSET {"PIPELINING"}
  PROVE  /\ Line(code, more, offered) \in AnyLine
         /\ Line(code, more, offered).code = code /\ Line(code, more, offered).more = more
  BY DEF Line, AnyLine

\* A response has one line, or two that are marked as lines of one response.
LEMMA RespondLines ==
  ASSUME NEW code \in Nat, Respond(code), socket # "closed"
  PROVE  \E ls \in Seq(AnyLine) :
           /\ ls # <<>> /\ replies' = replies \o ls
           /\ Len(ls) = 1 \/ (Len(ls) = 2 /\ code \in MultiLine)
           /\ \A i \in 1 .. Len(ls) : ls[i].code = code /\ (ls[i].more <=> i < Len(ls))
<1>1. PICK k \in {1} \cup (IF code \in MultiLine THEN {2} ELSE {}) :
        Reply([i \in 1 .. k |-> Line(code, i < k, {})])
  BY DEF Respond
<1> DEFINE ls == [i \in 1 .. k |-> Line(code, i < k, {})]
<1>2. k \in Nat /\ k >= 1 /\ (k = 1 \/ (k = 2 /\ code \in MultiLine))
  BY <1>1
<1>3. replies' = replies \o ls
  BY <1>1 DEF Reply
<1>4. ASSUME NEW i \in 1 .. k
      PROVE  ls[i] \in AnyLine /\ ls[i].code = code /\ (ls[i].more <=> i < k)
  <2> DEFINE b == i < k
  <2>1. b \in BOOLEAN /\ ls[i] = Line(code, b, {})
    OBVIOUS
  <2> HIDE DEF b, ls
  <2>2. {} \in SUBSET {"PIPELINING"}
    OBVIOUS
  <2>3. ls[i] \in AnyLine /\ ls[i].code = code /\ ls[i].more = b
    BY <2>1, <2>2, LineFields
  <2> QED
    BY <2>3, Zenon DEF b
<1>5. ls \in [1 .. k -> AnyLine]
  BY <1>4
<1>6. ls \in Seq(AnyLine) /\ Len(ls) = k
  BY <1>2, <1>5
<1> HIDE DEF ls
<1>7. ls # <<>>
  <2> SUFFICES ASSUME ls = <<>> PROVE FALSE
    OBVIOUS
  <2>1. Len(ls) = 0
    OBVIOUS
  <2> QED
    BY <1>2, <1>6, <2>1
<1> QED
  BY <1>2, <1>3, <1>4, <1>6, <1>7

\* What the server does in a running transfer, apart from its answer.
Handles ==
  /\ sending /\ socket \notin {"closed", "opening", "handshake"}
  /\ wire # <<>> /\ wire' = Tail(wire) /\ UNCHANGED clientVars

\* The answer is one of the flow.
LEMMA HandledFlow ==
  ASSUME WellTyped, Tidy, FlowInv, Handles,
         NEW ls \in Seq(AnyLine), ls # <<>>, replies' = replies \o ls,
         Refuses(ls) \/ Answers(ls, Len(wire), status)
  PROVE  FlowInv'
<1> DEFINE w == Len(wire)
           n == Expected
<1>0. /\ wire \in Seq(AnyCommand) /\ replies \in Seq(AnyLine) /\ w \in Nat /\ w > 0
      /\ Tail(wire) \in Seq(AnyCommand) /\ Len(Tail(wire)) = w - 1
      /\ \A i \in 1 .. w - 1 : Tail(wire)[i] = wire[i + 1]
  BY TailIndex DEF WellTyped, Handles
<1>1. /\ UNCHANGED <<status, sending, outstandingResponses, temporaryFile, lineBuffer, socket, batches>>
      /\ socket \notin {"closed", "opening", "handshake"} /\ sending
  BY DEF Handles, clientVars, callVars
<1>2. PICK g \in Nat, x \in Nat : Flow(replies, w, n, status, g, x)
  BY <1>1 DEF FlowInv, Running
<1>3. n \in Nat /\ n = Expected' /\ (status = "Init" => n = 1)
  <2>1. status = "Init" => ~(outstandingResponses > 1) /\ ~temporaryFile
    BY <1>1 DEF FlowInv, Tidy
  <2>2. outstandingResponses \in Nat
    BY DEF WellTyped, TypeOK
  <2> QED
    BY <1>1, <2>1, <2>2 DEF Expected
<1>4. Paired(wire', status')
  <2>1. Paired(wire, status)
    BY <1>1 DEF FlowInv, Running
  <2> DEFINE v == Tail(wire)
  <2>2. wire' = v
    BY DEF Handles
  <2>3. Len(v) = w - 1 /\ \A i \in 1 .. Len(v) : v[i] = wire[i + 1]
    BY <1>0
  <2> HIDE DEF v
  <2>4. ASSUME NEW i \in 1 .. Len(v)
        PROVE  /\ i < Len(v) => v[i].verb \in {"MAIL", "RCPT", "BDAT"}
               /\ v[i].verb = "EHLO" => status = "Helo"
               /\ status = "Helo" => v[i].verb \in {"EHLO", "HELO"}
               /\ status = "Init" => v[i].verb = "CONNECT"
    <3>1. i + 1 \in 1 .. Len(wire) /\ (i < Len(v) => i + 1 \in 1 .. Len(wire) - 1) /\ v[i] = wire[i + 1]
      BY <1>0, <2>3
    <3> QED
      BY <2>1, <3>1 DEF Paired
  <2>5. \A i \in 1 .. Len(v) - 1 : i \in 1 .. Len(v) /\ i < Len(v)
    BY <1>0, <2>3
  <2>6. Paired(v, status)
    BY <2>4, <2>5 DEF Paired
  <2> QED
    BY <1>1, <2>2, <2>6
<1> HIDE DEF w, n
<1>5. \E g2, x2 \in Nat : Flow(replies \o ls, w - 1, n, status, g2, x2)
  <2>1. CASE Answers(ls, Len(wire), status)
    BY <1>0, <1>2, <1>3, <2>1, FlowAnswer DEF w
  <2>2. CASE Refuses(ls)
    <3>1. w - 1 \in 0 .. w
      BY <1>0
    <3>2. status = "Init" => w - 1 = 0
      <4>1. g + w =< n
        BY <1>2 DEF Flow
      <4> QED
        BY <1>0, <1>3, <4>1
    <3>3. Flow(replies \o ls, w - 1, n, status, g, x)
      BY <1>0, <1>2, <1>3, <2>2, <3>1, <3>2, FlowRefusal
    <3> QED
      BY <3>3
  <2> QED
    BY <2>1, <2>2
<1>6. PICK g2 \in Nat, x2 \in Nat : Flow(replies', w - 1, n, status', g2, x2)
  BY <1>1, <1>5
<1>7. w - 1 = Len(wire')
  BY <1>0 DEF Handles
<1>8. /\ lineBuffer' = NoLine \/ lineBuffer'.batch = batches' \/ status' = "Init"
      /\ outstandingResponses' > 1 => status' \in {"Sent", "Body"}
      /\ socket' = "handshake" \/ temporaryFile' => outstandingResponses' = 0
      /\ socket' \notin {"closed", "opening"}
  BY <1>1 DEF FlowInv
<1> QED
  BY <1>3, <1>4, <1>6, <1>7, <1>8, FlowHolds

\* A command that may have a response in several lines is alone.
LEMMA LoneCommand ==
  ASSUME NEW w \in Seq(AnyCommand), w # <<>>, NEW st, Paired(w, st), w[1].verb \notin Leading
  PROVE  Len(w) = 1
<1> DEFINE n == Len(w)
<1>1. n \in Nat /\ n >= 1
  BY TailIndex
<1>2. 1 \notin 1 .. n - 1
  BY DEF Paired, Leading
<1> HIDE DEF n
<1>3. ~(1 =< n - 1)
  BY <1>1, <1>2
<1>4. n = 1
  BY <1>1, <1>3
<1> QED
  BY <1>4 DEF n

\* The server answers a command of the dialog.
LEMMA AnswerFlow ==
  ASSUME {250, 251} \cap MultiLine = {}, WellTyped, Tidy, FlowInv, Handles,
         NEW code \in {220, 221, 235, 250, 251, 334, 354, 500}, Respond(code),
         code = 220 => status # "Helo", status = "Init" => code = 220,
         code \notin {250, 251} => wire[1].verb \notin Leading
  PROVE  FlowInv'
<1>0. wire \in Seq(AnyCommand) /\ Len(wire) \in Nat /\ Len(wire) >= 1
  BY TailIndex DEF WellTyped, Handles
<1>1. wire[1].verb \notin Leading => Len(wire) = 1
  <2>1. Paired(wire, status)
    BY DEF FlowInv, Running, Handles
  <2> QED
    BY <1>0, <2>1, LoneCommand DEF Handles
<1>2. PICK ls \in Seq(AnyLine) :
        /\ ls # <<>> /\ replies' = replies \o ls
        /\ Len(ls) = 1 \/ (Len(ls) = 2 /\ code \in MultiLine)
        /\ \A i \in 1 .. Len(ls) : ls[i].code = code /\ (ls[i].more <=> i < Len(ls))
  BY RespondLines DEF Handles
<1>3. Len(ls) > 1 => Len(wire) = 1 /\ code \notin {250, 251}
  BY <1>1, <1>2
<1>4. ASSUME NEW i \in 1 .. Len(ls)
      PROVE  /\ ~Fatal(ls[i], status)
             /\ ls[i].more <=> i < Len(ls)
             /\ ls[i].code = 250 /\ ls[i].more => status \in {"Helo", "Extension"}
             /\ status = "Init" => ls[i].code = 220
  <2>1. ls[i].code = code /\ (ls[i].more <=> i < Len(ls))
    BY <1>2
  <2>2. ~Fatal(ls[i], status)
    BY <2>1 DEF Fatal
  <2>3. ls[i].more => Len(ls) > 1
    BY <1>2, <2>1
  <2> QED
    BY <1>3, <2>1, <2>2, <2>3
<1>5. Answers(ls, Len(wire), status)
  BY <1>2, <1>3, <1>4 DEF Answers
<1> QED
  BY <1>2, <1>5, HandledFlow

\* The server lists its capabilities.
LEMMA OffersFlow ==
  ASSUME WellTyped, Tidy, FlowInv, Handles, wire[1].verb = "EHLO", NEW C \in SUBSET {"PIPELINING"},
         Reply(<<Line(250, TRUE, {}), Line(250, TRUE, C), Line(250, FALSE, {})>>)
  PROVE  FlowInv'
<1>0. wire \in Seq(AnyCommand) /\ Len(wire) \in Nat /\ Len(wire) >= 1
  BY TailIndex DEF WellTyped, Handles
<1>1. Len(wire) = 1 /\ status = "Helo"
  <2>1. Paired(wire, status)
    BY DEF FlowInv, Running, Handles
  <2>2. 1 \in 1 .. Len(wire) /\ "EHLO" \notin Leading
    BY <1>0 DEF Leading
  <2>3. Len(wire) = 1
    BY <1>0, <2>1, <2>2, LoneCommand DEF Handles
  <2> QED
    BY <2>1, <2>2, <2>3 DEF Paired
<1> DEFINE a == Line(250, TRUE, {})
           b == Line(250, TRUE, C)
           c == Line(250, FALSE, {})
           ls == <<a, b, c>>
<1>2. /\ a \in AnyLine /\ b \in AnyLine /\ c \in AnyLine
      /\ a.code = 250 /\ b.code = 250 /\ c.code = 250
      /\ a.more = TRUE /\ b.more = TRUE /\ c.more = FALSE
  <2>1. a \in AnyLine /\ b \in AnyLine /\ c \in AnyLine
    BY DEF Line, AnyLine
  <2>2. a.code = 250 /\ b.code = 250 /\ c.code = 250
    BY DEF Line
  <2>3. a.more = TRUE /\ b.more = TRUE /\ c.more = FALSE
    BY DEF Line
  <2> QED
    BY <2>1, <2>2, <2>3
<1>3. replies' = replies \o ls
  BY DEF Reply, Handles
<1> HIDE DEF a, b, c
<1>4. ls \in Seq(AnyLine) /\ ls # <<>> /\ Len(ls) = 3 /\ ls[1] = a /\ ls[2] = b /\ ls[3] = c
  BY <1>2, ThreeLines
<1> HIDE DEF ls
<1>5. ASSUME NEW i \in 1 .. Len(ls)
      PROVE  ~Fatal(ls[i], status) /\ (ls[i].more <=> i < Len(ls))
  <2>1. i = 1 \/ i = 2 \/ i = 3
    BY <1>4
  <2>2. ls[i].code = 250
    BY <1>2, <1>4, <2>1
  <2>3. ls[i].more <=> i < Len(ls)
    <3>1. CASE i = 1
      BY <1>2, <1>4, <3>1
    <3>2. CASE i = 2
      BY <1>2, <1>4, <3>2
    <3>3. CASE i = 3
      BY <1>2, <1>4, <3>3
    <3> QED
      BY <2>1, <3>1, <3>2, <3>3
  <2> QED
    BY <2>2, <2>3 DEF Fatal
<1>6. Answers(ls, Len(wire), status)
  BY <1>1, <1>5 DEF Answers
<1> QED
  BY <1>3, <1>4, <1>6, HandledFlow

\* The server handles a command.
LEMMA ServerFlow ==
  ASSUME {250, 251} \cap MultiLine = {}, WellTyped, Tidy, FlowInv, Server
  PROVE  FlowInv'
<1>1. CASE ~sending
  <2>1. sending' = FALSE /\ socket' = "closed" /\ temporaryFile' = FALSE
    BY <1>1 DEF Server, clientVars, Tidy, Released
  <2> QED
    BY <2>1, FlowOver
<1>2. CASE sending
  <2>1. Handles /\ socket # "closed"
    BY <1>2 DEF Server, Handles, FlowInv
  <2>2. /\ Head(wire) = wire[1] /\ wire[1].verb \in Verb
        /\ status = "Helo" => wire[1].verb \in {"EHLO", "HELO"}
        /\ status = "Init" => wire[1].verb = "CONNECT"
        /\ wire[1].verb = "EHLO" => status = "Helo"
    <3>1. wire \in Seq(AnyCommand) /\ wire # <<>>
      BY <2>1 DEF WellTyped, Handles
    <3>2. Len(wire) \in Nat /\ Len(wire) >= 1 /\ Head(wire) = wire[1] /\ 1 \in 1 .. Len(wire)
      BY <3>1, TailIndex
    <3>3. Paired(wire, status)
      BY <1>2, <2>1 DEF FlowInv, Running, Handles
    <3>4. wire[1] \in AnyCommand
      BY <3>1, <3>2
    <3> QED
      BY <3>2, <3>3, <3>4 DEF Paired, AnyCommand
  <2> DEFINE verb == wire[1].verb
  <2>3. CASE ServerRefuses
    <3>1. CASE Respond(550)
      <4>1. PICK ls \in Seq(AnyLine) :
              /\ ls # <<>> /\ replies' = replies \o ls
              /\ Len(ls) = 1 \/ (Len(ls) = 2 /\ 550 \in MultiLine)
              /\ \A i \in 1 .. Len(ls) : ls[i].code = 550 /\ (ls[i].more <=> i < Len(ls))
        BY <2>1, <3>1, RespondLines
      <4>2. ASSUME NEW i \in 1 .. Len(ls), ls[i].more PROVE i < Len(ls) /\ ~ls[i + 1].more
        <5>1. i < Len(ls) /\ Len(ls) = 2 /\ i = 1
          BY <4>1, <4>2
        <5>2. 2 \in 1 .. Len(ls) /\ ~(2 < Len(ls)) /\ i + 1 = 2
          BY <5>1
        <5> QED
          BY <4>1, <5>1, <5>2
      <4>3. Refuses(ls)
        BY <4>1, <4>2 DEF Refuses
      <4> QED
        BY <2>1, <4>1, <4>3, HandledFlow
    <3>2. CASE verb = "EHLO" /\ Respond(500)
      BY <2>1, <2>2, <3>2, AnswerFlow DEF Leading
    <3> QED
      BY <2>2, <2>3, <3>1, <3>2 DEF ServerRefuses
  <2>4. CASE Welcome(verb)
    <3>1. CASE verb \in {"CONNECT", "STARTTLS"} /\ Respond(220)
      BY <2>1, <2>2, <3>1, AnswerFlow DEF Leading
    <3>2. CASE verb = "EHLO" /\ \E C \in SUBSET {"PIPELINING"} :
                        Reply(<<Line(250, TRUE, {}), Line(250, TRUE, C), Line(250, FALSE, {})>>)
      BY <2>1, <3>2, OffersFlow
    <3>3. CASE verb \in {"EHLO", "HELO"} /\ Respond(250)
      BY <2>1, <2>2, <3>3, AnswerFlow
    <3>4. CASE verb \in {"AUTH", "ANSWER"} /\ Respond(235)
      BY <2>1, <2>2, <3>4, AnswerFlow DEF Leading
    <3>5. CASE verb \in {"AUTH", "ANSWER"} /\ Respond(334)
      BY <2>1, <2>2, <3>5, AnswerFlow DEF Leading
    <3>6. CASE verb = "QUIT" /\ Respond(221)
      BY <2>1, <2>2, <3>6, AnswerFlow DEF Leading
    <3> QED
      BY <2>4, <3>1, <3>2, <3>3, <3>4, <3>5, <3>6 DEF Welcome
  <2>5. CASE verb \in {"MAIL", "RCPT", "BDAT", "END"} /\ (Respond(250) \/ Respond(251))
    <3>1. status # "Init" /\ {250, 251} \subseteq {220, 221, 235, 250, 251, 334, 354, 500}
      BY <2>2, <2>5
    <3>2. CASE Respond(250)
      BY <2>1, <3>1, <3>2, AnswerFlow
    <3>3. CASE Respond(251)
      BY <2>1, <3>1, <3>3, AnswerFlow
    <3> QED
      BY <2>5, <3>2, <3>3
  <2>6. CASE verb = "DATA" /\ Respond(354)
    BY <2>1, <2>2, <2>6, AnswerFlow DEF Leading
  <2> HIDE DEF verb
  <2>7. ServerAccepts =>
          \/ Welcome(verb)
          \/ verb \in {"MAIL", "RCPT", "BDAT", "END"} /\ (Respond(250) \/ Respond(251))
          \/ verb = "DATA" /\ Respond(354)
    BY <2>2 DEF ServerAccepts, verb
  <2> QED
    BY <2>3, <2>4, <2>5, <2>6, <2>7 DEF Server
<1> QED
  BY <1>1, <1>2

-----------------------------------------------------------------------------
(* All steps *)

\* While the client waits for no response, it goes on with one command.
LEMMA FlowResume ==
  ASSUME NEW q \in Seq(AnyLine), NEW w \in Nat, NEW st \in Status \ {"Init", "Helo"},
         NEW st2 \in Status \ {"Init"}, NEW g, NEW x, Flow(q, w, 0, st, g, x)
  PROVE  w = 0 /\ Flow(q, 1, 1, st2, 0, 0)
<1>1. g = 0 /\ x = 0 /\ w = 0 /\ Len(q) \in Nat
  BY DEF Flow
<1>2. 0 + 0 < Len(q) => Final(q, st2, 0 + 0 + 1)
  <2>1. 0 + 0 < Len(q) => Final(q, st, 0 + 0 + 1)
    BY <1>1 DEF Flow
  <2> QED
    BY <2>1 DEF Final, Fatal
<1>3. /\ 0 + 0 =< Len(q) /\ 0 + 1 = 1 /\ 0 + 1 =< 1 /\ 0 \in Nat
      /\ \A i \in 1 .. 0 + 0 : FALSE
  BY <1>1
<1> QED
  BY <1>1, <1>2, <1>3 DEF Flow

\* The client resumes the dialog after the handshake, or at the end of a body.
LEMMA ResumeFlow ==
  ASSUME WellTyped, FlowInv, sending, socket # "opening", Expected = 0, status \in Status \ {"Init", "Helo"},
         NEW c \in AnyCommand, wire' = wire \o <<c>>, status' \in Status \ {"Init"}, status' = "Helo" <=> c.verb = "EHLO",
         outstandingResponses' = 1, socket' \notin {"closed", "opening", "handshake"}, ~temporaryFile',
         UNCHANGED <<replies, lineBuffer, batches>>
  PROVE  FlowInv'
<1> DEFINE d == <<c>>
<1>1. wire \in Seq(AnyCommand) /\ replies \in Seq(AnyLine) /\ Len(wire) \in Nat
  BY DEF WellTyped
<1>2. PICK g \in Nat, x \in Nat : Flow(replies, Len(wire), 0, status, g, x)
  BY DEF FlowInv, Running
<1>3. Len(wire) = 0 /\ Flow(replies, 1, 1, status', 0, 0)
  BY <1>1, <1>2, FlowResume
<1>4. wire' = d
  <2>1. wire = <<>>
    BY <1>1, <1>3, EmptySeq
  <2> QED
    BY <2>1
<1>5. Len(d) = 1 /\ d[1] = c
  OBVIOUS
<1> HIDE DEF d
<1>6. Paired(d, status')
  <2>1. (\A i \in 1 .. Len(d) - 1 : FALSE) /\ \A i \in 1 .. Len(d) : d[i] = c
    BY <1>5
  <2> QED
    BY <2>1 DEF Paired
<1>7. Paired(wire', status') /\ 1 = Len(wire') /\ Flow(replies', 1, 1, status', 0, 0)
  BY <1>3, <1>4, <1>5, <1>6
<1>8. 1 = Expected'
  BY DEF Expected
<1>9. /\ lineBuffer' = NoLine \/ lineBuffer'.batch = batches'
      /\ ~(outstandingResponses' > 1) /\ ~(socket' = "handshake" \/ temporaryFile') /\ 0 \in Nat
  BY DEF FlowInv
<1> QED
  BY <1>7, <1>8, <1>9, FlowHolds

\* No step disturbs the flow.
LEMMA StepFlow ==
  ASSUME {250, 251} \cap MultiLine = {}
  PROVE  WellTyped /\ Tidy /\ FlowInv /\ [Next]_vars => FlowInv'
<1> SUFFICES ASSUME WellTyped, Tidy, FlowInv, [Next]_vars PROVE FlowInv'
  OBVIOUS
<1>0. /\ socket # "closed" \/ replies # <<>> \/ authTimeout \/ temporaryFile => sending
      /\ sending \in BOOLEAN /\ status \in Status /\ temporaryFile \in BOOLEAN
      /\ wire \in Seq(AnyCommand) /\ replies \in Seq(AnyLine) /\ outstandingResponses \in Nat
  BY DEF Tidy, Released, WellTyped, TypeOK, Status
<1>1. ASSUME sending, NEW st, operationFailed(st) PROVE FlowInv'
  <2>1. sending' = FALSE /\ socket' = "closed" /\ temporaryFile' = FALSE
    BY <1>1 DEF operationFailed, close, stopTransferring
  <2> QED
    BY <2>1, FlowOver
<1>2. ASSUME UNCHANGED <<status, sending, outstandingResponses, temporaryFile, socket, wire, replies, transmitted, batches>>,
             UNCHANGED lineBuffer \/ lineBuffer'.batch = batches
      PROVE  FlowInv'
  <2>1. UNCHANGED Expected
    BY <1>2 DEF Expected
  <2>2. Running' => Paired(wire, status)' /\ (\E g, x \in Nat : Flow(replies, Len(wire), Expected, status, g, x))'
    BY <1>2, <2>1 DEF FlowInv, Running
  <2> QED
    BY <1>2, <2>2 DEF FlowInv
<1>3. ASSUME NEW M \in SUBSET outbox, NEW mails \in SetToSeqs(M \ Invalid), TransmitMessages(mails)
      PROVE  FlowInv'
  <2>1. sending = FALSE /\ replies = <<>> /\ socket = "closed" /\ temporaryFile = FALSE
    BY <1>0, <1>3 DEF TransmitMessages, Tidy, Released
  <2>2. UNCHANGED replies /\ UNCHANGED temporaryFile /\ transmitted' = {}
    BY <1>3 DEF TransmitMessages
  <2>3. CASE configured
    <3>1. status' = "Init" /\ socket' = "opening" /\ outstandingResponses' = 0
      BY <1>3, <2>3 DEF TransmitMessages
    <3> QED
      BY <2>1, <2>2, <3>1 DEF FlowInv, Running
  <2>4. CASE ~configured
    <3>1. sending' = FALSE /\ socket' = "closed" /\ temporaryFile' = FALSE
      BY <1>3, <2>1, <2>2, <2>4 DEF TransmitMessages
    <3> QED
      BY <3>1, FlowOver
  <2> QED
    BY <2>3, <2>4
<1>4. CASE Connected
  <2> DEFINE c == Plain("CONNECT")
             d == <<c>>
  <2>1. /\ wire' = d /\ socket' = "open" /\ UNCHANGED <<status, outstandingResponses, temporaryFile, replies>>
        /\ status = "Init" /\ outstandingResponses = 0 /\ replies = <<>> /\ temporaryFile = FALSE
    BY <1>0, <1>4 DEF Connected, FlowInv, Tidy
  <2>2. c.verb = "CONNECT"
    BY DEF Plain, Command
  <2> HIDE DEF c
  <2>3. Len(d) = 1 /\ d[1] = c
    OBVIOUS
  <2> HIDE DEF d
  <2>4. Paired(d, "Init")
    <3>1. (\A i \in 1 .. Len(d) - 1 : FALSE) /\ \A i \in 1 .. Len(d) : d[i] = c
      BY <2>3
    <3> QED
      BY <2>2, <3>1 DEF Paired
  <2>5. Len(replies) = 0
    BY <2>1
  <2>6. Flow(replies, 1, 1, "Init", 0, 0)
    <3>1. /\ 0 + 0 =< 0 /\ 0 + 1 =< 1 /\ 0 \in Nat /\ ~(0 + 0 < 0)
          /\ \A i \in 1 .. 0 + 0 : FALSE
          /\ \A i \in 0 + 0 + 1 .. 0 : FALSE
      OBVIOUS
    <3> QED
      BY <2>5, <3>1 DEF Flow
  <2>7. Paired(wire', status') /\ 1 = Len(wire') /\ Flow(replies', 1, 1, status', 0, 0)
    BY <2>1, <2>3, <2>4, <2>6
  <2>8. 1 = Expected'
    BY <2>1 DEF Expected
  <2>9. /\ status' = "Init" /\ ~(outstandingResponses' > 1)
        /\ ~(socket' = "handshake" \/ temporaryFile') /\ 0 \in Nat /\ socket' \notin {"closed", "opening"}
    BY <2>1
  <2> QED
    BY <2>7, <2>8, <2>9, FlowHolds
<1>5. CASE Encrypted
  <2>1. /\ sending /\ socket = "handshake" /\ status = "TLS" /\ outstandingResponses = 0 /\ temporaryFile = FALSE
    BY <1>0, <1>5 DEF Encrypted, FlowInv, Tidy
  <2>2. /\ wire' = wire \o <<Plain("EHLO")>> /\ status' = "Helo" /\ outstandingResponses' = 1
        /\ socket' = "encrypted" /\ temporaryFile' = FALSE /\ UNCHANGED <<replies, lineBuffer, batches>>
    BY <1>5, <2>1 DEF Encrypted, callVars
  <2>3. Expected = 0 /\ status \in Status \ {"Init", "Helo"} /\ status' \in Status \ {"Init"}
    BY <2>1, <2>2 DEF Expected, Status
  <2>4. Plain("EHLO") \in AnyCommand /\ Plain("EHLO").verb = "EHLO"
    BY CommandType DEF Verb, Plain, Command
  <2> QED
    BY <2>1, <2>2, <2>3, <2>4, ResumeFlow
<1>6. CASE ReadLine
  <2>1. PICK r \in Responses :
          IF outstandingResponses > 1
          THEN PipelinedResponse(r) /\ UNCHANGED reportVars
          ELSE nextAction(r)
    BY <1>6 DEF ReadLine
  <2>2. sending /\ LineRead /\ replies # <<>>
    BY <1>0, <1>6 DEF ReadLine, LineRead
  <2>3. CASE ~(outstandingResponses > 1)
    BY <2>1, <2>2, <2>3, NextActionFlow
  <2>4. CASE outstandingResponses > 1
    <3>0. PipelinedResponse(r) /\ outstandingResponses' = outstandingResponses - 1 /\ UNCHANGED wire
      BY <2>1, <2>4 DEF PipelinedResponse
    <3>1. CASE operationFailed(status)
      BY <1>1, <2>2, <3>1
    <3>2. CASE ~operationFailed(status)
      <4>1. /\ r.code \in 200 .. 299 /\ replies' = Tail(replies)
            /\ UNCHANGED <<status, sending, temporaryFile, socket>>
        BY <3>0, <3>2 DEF PipelinedResponse, DialogVars
      <4>2. status \in {"Sent", "Body"} /\ socket # "handshake" /\ temporaryFile = FALSE
            /\ socket \notin {"closed", "opening"}
        BY <1>0, <2>2, <2>4 DEF FlowInv
      <4>3. r = replies[1]
        <5>1. lineBuffer = NoLine \/ lineBuffer.batch = batches
          BY <2>2, <4>2 DEF FlowInv
        <5>2. r = Head(replies) /\ Head(replies) = replies[1]
          BY <1>0, <2>2, <5>1, TailIndex DEF Responses
        <5> QED
          BY <5>2
      <4>4. ~Fatal(replies[1], status) /\ status # "Init"
        <5>1. r.code # 421 /\ r.code # 550
          <6>1. \A code \in 200 .. 299 : code # 421 /\ code # 550
            OBVIOUS
          <6> QED
            BY <4>1, <6>1
        <5> QED
          BY <4>2, <4>3, <5>1 DEF Fatal
      <4> DEFINE n == outstandingResponses
                 w == Len(wire)
      <4>5. Expected = n /\ n \in Nat /\ n > 1 /\ w \in Nat
        BY <1>0, <2>4, <4>2 DEF Expected
      <4>6. PICK g \in Nat, x \in Nat : Flow(replies, w, n, status, g, x)
        BY <2>2, <4>2, <4>5 DEF FlowInv, Running
      <4>7. Flow(Tail(replies), w, n - 1, status, g - 1, x) /\ g - 1 \in Nat
        BY <1>0, <2>2, <4>4, <4>5, <4>6, FlowNext
      <4>8. n - 1 = Expected'
        BY <3>0, <4>1, <4>2, <4>5 DEF Expected
      <4>9. Paired(wire', status') /\ w = Len(wire') /\ Flow(replies', w, n - 1, status', g - 1, x)
        <5>1. Paired(wire, status)
          BY <2>2, <4>2 DEF FlowInv, Running
        <5> QED
          BY <3>0, <4>1, <4>7, <5>1
      <4>10. /\ socket' \notin {"closed", "opening"} /\ lineBuffer' = NoLine
             /\ status' \in {"Sent", "Body"} /\ ~(socket' = "handshake" \/ temporaryFile')
        BY <2>2, <4>1, <4>2 DEF LineRead
      <4> QED
        BY <4>7, <4>8, <4>9, <4>10, FlowHolds
    <3> QED
      BY <3>1, <3>2
  <2> QED
    BY <2>3, <2>4
<1>7. CASE ReadPart
  <2>1. lineBuffer'.batch = batches
    BY <1>7 DEF ReadPart
  <2>2. UNCHANGED <<status, sending, outstandingResponses, temporaryFile, socket, wire, replies, transmitted, batches>>
    BY <1>7 DEF ReadPart, reportVars, callVars
  <2> QED
    BY <1>2, <2>1, <2>2
<1>8. CASE BodyWritten
  <2>1. temporaryFile /\ status = "Body" /\ sending /\ outstandingResponses = 0 /\ socket \notin {"closed", "opening", "handshake"}
    BY <1>0, <1>8 DEF BodyWritten, FlowInv, Tidy
  <2> DEFINE c == Command("END", <<mailList[mailItr], 1>>, TRUE)
  <2>2. c \in AnyCommand /\ c.verb = "END"
    <3>1. mailList[mailItr] \in Message
      BY <2>1 DEF WellTyped, TypeOK, Transaction
    <3>2. <<mailList[mailItr], 1>> \in Part /\ "END" \in Verb
      BY <3>1 DEF Part, Verb
    <3> QED
      BY <3>2, CommandType DEF Command
  <2>3. /\ wire' = wire \o <<c>> /\ status' = "Sent" /\ outstandingResponses' = 0 /\ temporaryFile' = FALSE
        /\ UNCHANGED <<replies, lineBuffer, batches, socket>>
    BY <1>8, <2>1 DEF BodyWritten, stopTransferring, Terminator, callVars
  <2> HIDE DEF c
  <2>4. PICK g \in Nat, x \in Nat : Flow(replies, Len(wire), 0, status, g, x)
    BY <2>1 DEF FlowInv, Running, Expected
  <2>5. Len(wire) = 0 /\ Flow(replies, 1, 1, "Sent", 0, 0)
    BY <1>0, <2>1, <2>4, FlowResume DEF Status
  <2> DEFINE d == <<c>>
  <2>6. wire' = d
    <3>1. wire = <<>>
      BY <1>0, <2>5, EmptySeq
    <3> QED
      BY <2>3, <3>1
  <2>7. Len(d) = 1 /\ d[1] = c
    OBVIOUS
  <2> HIDE DEF d
  <2>8. Paired(d, "Sent")
    <3>1. (\A i \in 1 .. Len(d) - 1 : FALSE) /\ \A i \in 1 .. Len(d) : d[i] = c
      BY <2>7
    <3> QED
      BY <2>2, <3>1 DEF Paired
  <2>9. Paired(wire', status') /\ 1 = Len(wire') /\ Flow(replies', 1, 1, status', 0, 0)
    BY <2>3, <2>5, <2>6, <2>7, <2>8
  <2>10. 1 = Expected'
    BY <2>1, <2>3 DEF Expected
  <2>11. /\ lineBuffer' = NoLine \/ lineBuffer'.batch = batches'
         /\ status' \in {"Sent", "Body"} /\ ~(socket' = "handshake" \/ temporaryFile') /\ 0 \in Nat
         /\ socket' \notin {"closed", "opening"}
    BY <2>1, <2>3 DEF FlowInv
  <2> QED
    BY <2>9, <2>10, <2>11, FlowHolds
<1>9. CASE TransportError
  BY <1>0, <1>1, <1>9 DEF TransportError
<1>10. CASE AuthExpired
  BY <1>0, <1>1, <1>10 DEF AuthExpired
<1>11. CASE CancelTransfer
  BY <1>1, <1>11 DEF CancelTransfer
<1>12. CASE AccountsUpdated
  <2>1. UNCHANGED <<status, sending, outstandingResponses, temporaryFile, socket, wire, replies, transmitted, batches>>
    BY <1>12 DEF AccountsUpdated, reportVars
  <2>2. UNCHANGED lineBuffer
    BY <1>12 DEF AccountsUpdated
  <2> QED
    BY <1>2, <2>1, <2>2
<1>13. CASE Server
  BY <1>13, ServerFlow
<1>14. CASE ServerShutsDown
  <2>1. /\ wire' = <<>> /\ socket \in {"open", "encrypted"} /\ sending
        /\ UNCHANGED <<status, sending, outstandingResponses, temporaryFile, lineBuffer, socket, batches>>
    BY <1>0, <1>14 DEF ServerShutsDown, clientVars, callVars
  <2> DEFINE l  == Line(421, FALSE, {})
             ls == <<l>>
             w  == Len(wire)
             n  == Expected
  <2>2. l \in AnyLine /\ l.code = 421 /\ l.more = FALSE
    <3>1. l \in AnyLine
      BY DEF Line, AnyLine
    <3>2. l.code = 421 /\ l.more = FALSE
      BY DEF Line
    <3> QED
      BY <3>1, <3>2
  <2>3. replies' = Append(replies, l)
    BY <1>14 DEF ServerShutsDown
  <2> HIDE DEF l
  <2>4. ls \in Seq(AnyLine) /\ ls # <<>> /\ Len(ls) = 1 /\ ls[1] = l /\ replies' = replies \o ls
    <3>1. ls \in Seq(AnyLine) /\ ls # <<>> /\ Len(ls) = 1 /\ ls[1] = l
      BY <2>2
    <3>2. Append(replies, l) = replies \o <<l>>
      BY <1>0, <2>2, AppendIsConcat
    <3> QED
      BY <2>3, <3>1, <3>2
  <2> HIDE DEF ls
  <2>5. Refuses(ls)
    <3>1. \A i \in 1 .. Len(ls) : ls[i] = l
      BY <2>4
    <3> QED
      BY <2>2, <3>1 DEF Refuses
  <2>6. PICK g \in Nat, x \in Nat : Flow(replies, w, n, status, g, x)
    BY <2>1 DEF FlowInv, Running
  <2>7. w \in Nat /\ 0 \in 0 .. w /\ n \in Nat /\ n = Expected'
    BY <1>0, <2>1 DEF Expected
  <2> HIDE DEF w, n
  <2>8. Flow(replies \o ls, 0, n, status, g, x)
    BY <1>0, <2>4, <2>5, <2>6, <2>7, FlowRefusal
  <2>9. Len(wire') = 0
    BY <2>1
  <2>10. Paired(wire', status')
    <3>1. (\A i \in 1 .. Len(wire') - 1 : FALSE) /\ \A i \in 1 .. Len(wire') : FALSE
      BY <2>9
    <3> QED
      BY <3>1 DEF Paired
  <2>11. Flow(replies', 0, n, status', g, x)
    BY <2>1, <2>4, <2>8
  <2>12. /\ lineBuffer' = NoLine \/ lineBuffer'.batch = batches' \/ status' = "Init"
         /\ outstandingResponses' > 1 => status' \in {"Sent", "Body"}
         /\ socket' = "handshake" \/ temporaryFile' => outstandingResponses' = 0
         /\ socket' \notin {"closed", "opening"}
    BY <2>1 DEF FlowInv
  <2> QED
    BY <2>7, <2>9, <2>10, <2>11, <2>12, FlowHolds
<1>15. CASE UNCHANGED vars
  <2>1. UNCHANGED <<status, sending, outstandingResponses, temporaryFile, socket, wire, replies, transmitted, batches>>
    BY <1>15 DEF vars, reportVars, callVars
  <2>2. UNCHANGED lineBuffer
    BY <1>15 DEF vars
  <2> QED
    BY <1>2, <2>1, <2>2
<1> QED
  BY <1>3, <1>4, <1>5, <1>6, <1>7, <1>8, <1>9, <1>10, <1>11, <1>12, <1>13, <1>14, <1>15 DEF Next

\* At the start nothing is on its way.
LEMMA InitFlow == Init => FlowInv
  BY DEF Init, FlowInv, Running

\* Client and server never wait for each other: once the greeting has been
\* understood, a command, a response or a body is on its way as long as the
\* transfer runs (sendCommand, incomingData, nextAction).  This holds for any
\* messages, with and without pipelining and encryption, wherever the server
\* refuses a command or gives up, and for responses in one line or in two, but
\* for the positive ones of a transaction: nextAction takes the first line of a
\* response 250 for the whole of it.
THEOREM DialogGoesOn ==
  ASSUME {250, 251} \cap MultiLine = {}
  PROVE  Spec => []NoStandstill
<1>1. Init => WellTyped /\ Tidy /\ FlowInv
  BY InitTyped, InitFlow
<1>2. WellTyped /\ Tidy /\ FlowInv => NoStandstill
  <2> SUFFICES ASSUME WellTyped, FlowInv, sending, status # "Init", socket # "handshake",
                      wire = <<>>, replies = <<>>, ~temporaryFile
               PROVE  FALSE
    BY DEF NoStandstill
  <2>1. Len(wire) = 0 /\ Len(replies) = 0
    OBVIOUS
  <2>2. Expected > 0
    BY DEF Expected, WellTyped, TypeOK
  <2>3. PICK g \in Nat, x \in Nat : Flow(replies, Len(wire), Expected, status, g, x)
    BY DEF FlowInv, Running
  <2>4. g = 0 /\ x = 0
    BY <2>1, <2>3 DEF Flow
  <2>5. 0 + 0 = Expected
    BY <2>1, <2>3, <2>4 DEF Flow
  <2> QED
    BY <2>2, <2>5
<1> QED
  BY <1>1, <1>2, StepTyped, StepTidy, StepFlow, PTL DEF Spec

-----------------------------------------------------------------------------
(* What is reported has been accepted *)

\* When all is written and all responses have arrived and none of them ends the
\* transfer, the server has accepted the current message.
Complete ==
  /\ Running /\ status = "Sent" /\ wire = <<>>
  /\ Expected =< Len(replies)
  /\ \A i \in 1 .. Expected : replies[i].code \notin {421, 550}

Taken == \E a \in accepted : a.message = Current

Answered == Complete => Taken

\* When all responses have arrived, nothing is left to handle.
LEMMA FlowComplete ==
  ASSUME NEW q \in Seq(AnyLine), NEW w \in Nat, NEW n \in Nat, NEW st, st # "Helo",
         NEW g, NEW x, Flow(q, w, n, st, g, x), n =< Len(q),
         \A i \in 1 .. n : q[i].code \notin {421, 550}
  PROVE  w = 0
<1>1. g \in Nat /\ x \in Nat /\ g + w =< n /\ (x > 0 => g = n) /\ g + x =< Len(q) /\ Len(q) \in Nat
  BY DEF Flow
<1>2. CASE x > 0
  BY <1>1, <1>2
<1>3. CASE g >= n
  BY <1>1, <1>3
<1>4. CASE x = 0 /\ g < n
  <2>1. g + x < Len(q) /\ g + x + 1 \in 1 .. n
    BY <1>1, <1>4
  <2>2. Final(q, st, g + x + 1)
    BY <2>1 DEF Flow
  <2> QED
    BY <2>1, <2>2 DEF Final, Fatal
<1> QED
  BY <1>1, <1>2, <1>3, <1>4

\* A good response to the last command of a message: it has been accepted.
LEMMA SentTaken ==
  ASSUME WellTyped, Tidy, FlowInv, Answered, Running, status = "Sent", ~(outstandingResponses > 1),
         replies # <<>>, replies[1].code \notin {421, 550}
  PROVE  Taken
<1>0. wire \in Seq(AnyCommand) /\ replies \in Seq(AnyLine) /\ Len(wire) \in Nat /\ outstandingResponses \in Nat
  BY DEF WellTyped, TypeOK
<1>1. Len(replies) \in Nat /\ Len(replies) >= 1
  BY <1>0, TailLines
<1>2. Expected = 1
  BY DEF Expected, Tidy
<1>3. PICK g \in Nat, x \in Nat : Flow(replies, Len(wire), 1, status, g, x)
  BY <1>2 DEF FlowInv
<1>4. 1 =< Len(replies) /\ \A i \in 1 .. 1 : replies[i].code \notin {421, 550}
  BY <1>1
<1>5. Len(wire) = 0
  BY <1>0, <1>3, <1>4, FlowComplete
<1>6. wire = <<>>
  BY <1>0, <1>5, EmptySeq
<1>7. Complete
  BY <1>2, <1>4, <1>6 DEF Complete
<1> QED
  BY <1>7 DEF Answered

\* Something written leaves something to handle.
LEMMA JoinedSome ==
  ASSUME NEW S, NEW w \in Seq(S), NEW d \in Seq(S), d # <<>>
  PROVE  w \o d # <<>>
<1>1. Len(w \o d) = Len(w) + Len(d) /\ Len(w) \in Nat /\ Len(d) \in Nat /\ Len(d) >= 1
  BY ConcatIndex
<1>2. Len(<<>>) = 0
  OBVIOUS
<1>3. Len(w \o d) # 0
  BY <1>1
<1> QED
  BY <1>2, <1>3, Zenon

\* When nothing follows the first one, it is alone.
LEMMA LastOne ==
  ASSUME NEW S, NEW w \in Seq(S), w # <<>>, Tail(w) = <<>>
  PROVE  Len(w) = 1 /\ Head(w) = w[1]
<1>1. Len(Tail(w)) = Len(w) - 1 /\ Len(w) \in Nat /\ Head(w) = w[1]
  BY TailIndex
<1>2. Len(<<>>) = 0
  OBVIOUS
<1>3. Len(Tail(w)) = 0
  BY <1>2, Zenon
<1> DEFINE n == Len(w)
           k == Len(Tail(w))
<1>4. k = n - 1 /\ n \in Nat /\ k = 0
  BY <1>1, <1>3
<1> HIDE DEF n, k
<1>5. n = 1
  BY <1>4
<1> QED
  BY <1>1, <1>5 DEF n

\* A step of nextAction that leaves the last response of a message to be read
\* has put aside a line, and nothing else.
LEMMA StillSent ==
  ASSUME WellTyped, sending, NEW r, nextAction(r), sending', status' = "Sent", wire' = <<>>
  PROVE  r.code # 250 /\ r.more /\ Hold(status) /\ UNCHANGED DialogVars /\ UNCHANGED reportVars
<1>0. /\ wire \in Seq(AnyCommand) /\ mailChunks \in Seq(Part) /\ Pipelining \in BOOLEAN
      /\ mailList \in Seq(Message) /\ Len(mailList) \in Nat /\ mailItr \in 1 .. Len(mailList) + 1
      /\ status \in Transaction => mailItr \in 1 .. Len(mailList) /\ mailList[mailItr] \in Message
      /\ status = "ChunkSent" => mailChunks # <<>>
  BY DEF WellTyped, TypeOK, Part, Pipelining
<1>1. ASSUME NEW turn, Take(turn), Group(turn) PROVE FALSE
  <2>1. turn.commands \in Seq(AnyCommand) /\ turn.commands # <<>> /\ wire' = wire \o turn.commands
    BY <1>1 DEF Group, Grouped, Take
  <2>2. wire \o turn.commands # <<>>
    BY <1>0, <2>1, JoinedSome
  <2> QED
    BY <2>1, <2>2
<1>2. ASSUME NEW i \in 1 .. Len(mailList) + 1, NEW p \in BOOLEAN, MessageTurn(i, p) PROVE FALSE
  <2>1. CASE AtEnd(i)
    BY <1>2, <2>1 DEF MessageTurn, QuitTurn
  <2>2. CASE ~AtEnd(i)
    <3>1. Take(MetaDataTurn(mailList[i], p)) /\ mailList[i] \in Message
      BY <1>0, <1>2, <2>2 DEF MessageTurn, AtEnd
    <3>2. Group(MetaDataTurn(mailList[i], p))
      BY <1>0, <3>1, MetaDataGroup
    <3> QED
      BY <1>1, <3>1, <3>2
  <2> QED
    BY <2>1, <2>2
<1>3. ASSUME NEW st, st # "Sent", NEW c, Say(st, c) \/ Hold(st) PROVE FALSE
  BY <1>3 DEF Say, Hold, Take, Turn
<1>4. ASSUME Failure PROVE FALSE
  BY <1>4 DEF Failure, operationFailed
<1>5. ASSUME NEW offered, LoginTurn(offered) PROVE FALSE
  <2>1. CASE MessageTurn(mailItr, "PIPELINING" \in offered)
    <3>1. ("PIPELINING" \in offered) \in BOOLEAN
      OBVIOUS
    <3> QED
      BY <1>0, <1>2, <2>1, <3>1
  <2>2. CASE Say("TLS", Plain("STARTTLS"))
    BY <1>3, <2>2
  <2>3. CASE Say("Authenticating", Plain("AUTH"))
    BY <1>3, <2>3
  <2> QED
    BY <1>5, <2>1, <2>2, <2>3 DEF LoginTurn
<1>6. ~OnInit(r)
  <2>1. "Helo" # "Sent"
    OBVIOUS
  <2> QED
    BY <1>3, <1>4, <2>1 DEF OnInit
<1>7. ~OnHelo(r)
  <2>1. "Helo" # "Sent" /\ "Extension" # "Sent"
    OBVIOUS
  <2> QED
    BY <1>3, <1>4, <1>5, <2>1 DEF OnHelo
<1>8. ~OnExtension(r)
  <2>1. "Extension" # "Sent"
    OBVIOUS
  <2> QED
    BY <1>3, <1>4, <1>5, <2>1 DEF OnExtension
<1>9. ~OnTLS(r)
  <2>1. "TLS" # "Sent"
    OBVIOUS
  <2> QED
    BY <1>3, <1>4, <2>1 DEF OnTLS
<1>10. ~OnAuthenticating(r)
  <2>1. "Authenticating" # "Sent"
    OBVIOUS
  <2> QED
    BY <1>0, <1>2, <1>3, <1>4, <2>1 DEF OnAuthenticating
<1>11. ~OnRecv(r)
  <2>1. "MRcv" # "Sent"
    OBVIOUS
  <2> QED
    BY <1>3, <1>4, <2>1 DEF OnRecv
<1>12. ~OnMRcv(r)
  <2>1. "MRcv" # "Sent"
    OBVIOUS
  <2> DEFINE b == <<>>
  <2>2. b \in Seq(AnyCommand) /\ Len(b) = 0 /\ \A i \in 1 .. Len(b) : FALSE
    OBVIOUS
  <2> HIDE DEF b
  <2>3. status = "MRcv" => Group(DataTurn(b, mailList[mailItr], Pipelining))
    BY <1>0, <2>2, DataGroup DEF Transaction
  <2>4. status = "MRcv" => ~Take(DataTurn(<<>>, mailList[mailItr], Pipelining))
    BY <1>1, <2>3 DEF b
  <2> QED
    BY <1>3, <1>4, <2>1, <2>4 DEF OnMRcv
<1>13. ~OnBody(r)
  <2>1. "Body" # "Sent"
    OBVIOUS
  <2> QED
    BY <1>3, <1>4, <2>1 DEF OnBody
<1>14. ~OnChunkSent(r)
  <2> DEFINE b == <<>>
  <2>1. b \in Seq(AnyCommand) /\ Len(b) = 0 /\ \A i \in 1 .. Len(b) : FALSE
    OBVIOUS
  <2> HIDE DEF b
  <2>2. status = "ChunkSent" => Group(ChunkTurn(b, mailChunks, Pipelining))
    BY <1>0, <2>1, ChunkGroup
  <2>3. status = "ChunkSent" => ~Take(ChunkTurn(<<>>, mailChunks, Pipelining))
    BY <1>1, <2>2 DEF b
  <2> QED
    BY <1>4, <2>3 DEF OnChunkSent
<1>15. ~OnSent(r)
  <2>1. status = "Sent" => mailItr + 1 \in 1 .. Len(mailList) + 1
    BY <1>0 DEF Transaction
  <2> QED
    BY <1>0, <1>2, <1>4, <2>1 DEF OnSent
<1> QED
  BY <1>6, <1>7, <1>8, <1>9, <1>10, <1>11, <1>12, <1>13, <1>14, <1>15 DEF nextAction

\* The server handles the last command of a message.
LEMMA ServerAnswers ==
  ASSUME WellTyped, Tidy, StreamInv, FlowInv, Server, Complete'
  PROVE  Taken'
<1>0. /\ wire \in Seq(AnyCommand) /\ replies \in Seq(AnyLine) /\ wire # <<>> /\ wire' = Tail(wire) /\ wire' = <<>>
      /\ UNCHANGED <<status, sending, outstandingResponses, temporaryFile, socket, mailList, mailItr>>
      /\ outstandingResponses \in Nat /\ status = "Sent" /\ Running
  BY DEF WellTyped, TypeOK, Server, clientVars, listVars, Complete, Running
<1> DEFINE c == wire[1]
           n == Expected
<1>1. Len(wire) = 1 /\ Head(wire) = c
  <2>1. Tail(wire) = <<>>
    BY <1>0, Zenon
  <2> QED
    BY <1>0, <2>1, LastOne
<1>2. IsData(c) /\ c.last /\ c.part[1] = Current
  <2>1. Written(wire, envelope, content)
    BY <1>0 DEF StreamInv, Running
  <2> QED
    BY <1>0, <1>1, <2>1 DEF Written
<1>3. n = Expected' /\ n \in Nat /\ UNCHANGED Current
  BY <1>0 DEF Expected, Current
<1> HIDE DEF c, n
<1>4. c.verb \in {"BDAT", "END"}
  BY <1>2 DEF IsData
<1>5. CASE ServerAccepts
  <2>1. ~Welcome(c.verb)
    BY <1>4 DEF Welcome
  <2>2. envelope # NoMessage /\ accepted' = accepted \cup {[message |-> envelope, parts |-> Append(content, c.part)]}
    BY <1>1, <1>2, <1>4, <1>5, <2>1 DEF ServerAccepts
  <2>3. envelope = Current
    <3>1. 1 \in 1 .. Len(wire) /\ NoMail(wire, 1, 1)
      BY <1>1, <1>4 DEF NoMail, c
    <3>2. Stream(wire, envelope, content)
      BY DEF StreamInv
    <3>3. wire[1].part[1] = envelope
      BY <1>2, <2>2, <3>1, <3>2 DEF Stream, c
    <3> QED
      BY <1>2, <3>3 DEF c
  <2> DEFINE a == [message |-> envelope, parts |-> Append(content, c.part)]
  <2>4. a \in accepted' /\ a.message = Current'
    BY <1>3, <2>2, <2>3
  <2> QED
    BY <2>4 DEF Taken
<1>6. CASE ServerRefuses
  <2>1. Respond(550) /\ socket # "closed"
    BY <1>0, <1>1, <1>4, <1>6 DEF ServerRefuses, FlowInv, Running
  <2>2. PICK ls \in Seq(AnyLine) :
          /\ ls # <<>> /\ replies' = replies \o ls
          /\ \A i \in 1 .. Len(ls) : ls[i].code = 550
    <3> DEFINE code == 550
    <3>1. code \in Nat /\ Respond(code)
      BY <2>1
    <3> HIDE DEF code
    <3>2. \E ls \in Seq(AnyLine) :
            /\ ls # <<>> /\ replies' = replies \o ls
            /\ \A i \in 1 .. Len(ls) : ls[i].code = code
      BY <2>1, <3>1, RespondLines, SMTT(60)
    <3> QED
      BY <3>2 DEF code
  <2>3. /\ Len(replies) \in Nat /\ Len(ls) \in Nat /\ Len(ls) >= 1
        /\ \A i \in 1 .. Len(replies) : replies'[i] = replies[i]
        /\ \A i \in 1 .. Len(ls) : replies'[Len(replies) + i] = ls[i]
    BY <1>0, <2>2, JoinLines
  <2>4. PICK g \in Nat, x \in Nat : Flow(replies, 1, n, status, g, x)
    BY <1>0, <1>1 DEF FlowInv, n
  <2>5. g + x =< Len(replies) /\ g + 1 =< n /\ x = 0
    BY <1>3, <2>4 DEF Flow
  <2>6. replies'[g + 1].code \in {421, 550}
    <3>1. CASE g < Len(replies)
      <4>1. g + x < Len(replies) /\ g + x + 1 = g + 1 /\ g + 1 \in 1 .. Len(replies)
        BY <2>3, <2>5, <3>1
      <4>2. Final(replies, status, g + 1)
        BY <2>4, <4>1 DEF Flow
      <4>3. replies[g + 1].code \in {421, 550}
        BY <1>0, <4>2 DEF Final, Fatal
      <4> QED
        BY <2>3, <4>1, <4>3
    <3>2. CASE g = Len(replies)
      <4>1. 1 \in 1 .. Len(ls) /\ g + 1 = Len(replies) + 1
        BY <2>3, <3>2
      <4>2. ls[1].code = 550 /\ replies'[Len(replies) + 1] = ls[1]
        BY <2>2, <2>3, <4>1
      <4> QED
        BY <4>1, <4>2
    <3> QED
      BY <2>3, <2>5, <3>1, <3>2
  <2>7. g + 1 \in 1 .. n
    BY <1>3, <2>5
  <2>8. \A i \in 1 .. n : replies'[i].code \notin {421, 550}
    BY <1>3 DEF Complete
  <2> QED
    BY <2>6, <2>7, <2>8
<1> QED
  BY <1>5, <1>6 DEF Server

\* The server gives up after it has answered everything.
LEMMA ShutdownAnswers ==
  ASSUME WellTyped, Tidy, FlowInv, Answered, ServerShutsDown, Complete'
  PROVE  Taken'
<1>0. /\ wire \in Seq(AnyCommand) /\ replies \in Seq(AnyLine) /\ UNCHANGED accepted
      /\ UNCHANGED <<status, sending, outstandingResponses, temporaryFile, socket, mailList, mailItr>>
      /\ outstandingResponses \in Nat /\ status = "Sent" /\ Running
  BY DEF WellTyped, TypeOK, ServerShutsDown, clientVars, listVars, Complete, Running
<1> DEFINE n == Expected
           l == Line(421, FALSE, {})
<1>1. n = Expected' /\ n \in Nat /\ UNCHANGED Current
  BY <1>0 DEF Expected, Current
<1>2. l.code = 421 /\ l \in AnyLine
  BY DEF Line, AnyLine
<1>3. replies' = Append(replies, l)
  BY DEF ServerShutsDown
<1> HIDE DEF n, l
<1>4. /\ Len(replies) \in Nat /\ Len(replies') = Len(replies) + 1
      /\ \A i \in 1 .. Len(replies) : replies'[i] = replies[i]
      /\ replies'[Len(replies) + 1] = l
  BY <1>0, <1>2, <1>3, AppendProperties
<1>5. n =< Len(replies') /\ \A i \in 1 .. n : replies'[i].code \notin {421, 550}
  BY <1>1 DEF Complete
<1>6. n =< Len(replies)
  <2> SUFFICES ASSUME n = Len(replies) + 1 PROVE FALSE
    BY <1>1, <1>4, <1>5
  <2>1. Len(replies) + 1 \in 1 .. n
    BY <1>4
  <2>2. l.code \notin {421, 550}
    BY <1>4, <1>5, <2>1
  <2> QED
    BY <1>2, <2>2
<1>7. \A i \in 1 .. n : replies[i].code \notin {421, 550}
  <2> SUFFICES ASSUME NEW i \in 1 .. n PROVE replies[i].code \notin {421, 550}
    OBVIOUS
  <2>1. i \in 1 .. Len(replies)
    BY <1>1, <1>4, <1>6
  <2> QED
    BY <1>4, <1>5, <2>1
<1>8. PICK g \in Nat, x \in Nat : Flow(replies, Len(wire), n, status, g, x)
  BY <1>0 DEF FlowInv, n
<1>9. Len(wire) = 0
  <2>1. Len(wire) \in Nat /\ status # "Helo"
    BY <1>0
  <2> QED
    BY <1>0, <1>1, <1>6, <1>7, <1>8, <2>1, FlowComplete
<1>10. wire = <<>>
  BY <1>0, <1>9, EmptySeq
<1>11. Complete
  BY <1>0, <1>6, <1>7, <1>10 DEF Complete, n
<1>12. Taken
  BY <1>11 DEF Answered
<1> QED
  BY <1>0, <1>1, <1>12 DEF Taken

\* A response to a command that others follow is read.
LEMMA PipelinedAnswers ==
  ASSUME WellTyped, Tidy, FlowInv, Answered, sending, LineRead, outstandingResponses > 1, replies # <<>>,
         UNCHANGED <<status, sending, temporaryFile, socket, wire, mailList, mailItr, accepted>>,
         outstandingResponses' = outstandingResponses - 1, replies' = Tail(replies),
         replies[1].code \notin {421, 550}, Complete'
  PROVE  Taken'
<1> DEFINE n == outstandingResponses
<1>0. replies \in Seq(AnyLine) /\ n \in Nat /\ n > 1
  BY DEF WellTyped, TypeOK
<1>1. socket # "handshake" /\ ~temporaryFile
  BY <1>0 DEF FlowInv
<1>2. Expected = n /\ Expected' = n - 1 /\ UNCHANGED Current
  BY <1>0, <1>1 DEF Expected, Current
<1>3. /\ Len(Tail(replies)) = Len(replies) - 1 /\ Len(replies) \in Nat
      /\ \A i \in 1 .. Len(replies) - 1 : Tail(replies)[i] = replies[i + 1]
  BY <1>0, TailLines
<1>4. n - 1 =< Len(Tail(replies)) /\ \A i \in 1 .. n - 1 : Tail(replies)[i].code \notin {421, 550}
  BY <1>2 DEF Complete
<1> HIDE DEF n
<1>5. n =< Len(replies)
  BY <1>0, <1>3, <1>4
<1>6. ASSUME NEW i \in 1 .. n PROVE replies[i].code \notin {421, 550}
  <2>1. CASE i = 1
    BY <2>1
  <2>2. CASE i > 1
    <3>1. i - 1 \in 1 .. n - 1 /\ i - 1 \in 1 .. Len(replies) - 1 /\ (i - 1) + 1 = i
      BY <1>0, <1>3, <1>5, <2>2
    <3>2. Tail(replies)[i - 1] = replies[i]
      BY <1>3, <3>1
    <3> QED
      BY <1>4, <3>1, <3>2
  <2> QED
    BY <1>0, <2>1, <2>2
<1>7. Complete
  BY <1>2, <1>5, <1>6 DEF Complete, Running
<1>8. Taken
  BY <1>7 DEF Answered
<1> QED
  BY <1>2, <1>8 DEF Taken

\* A line of a response is put aside: the response was good, or its other line
\* still ends the transfer.
LEMMA HeldAnswers ==
  ASSUME WellTyped, Tidy, FlowInv, Answered, Running, status = "Sent", ~(outstandingResponses > 1),
         replies # <<>>, replies[1].more, Hold(status), UNCHANGED <<DialogVars, accepted>>, Complete'
  PROVE  Taken'
<1>0. wire \in Seq(AnyCommand) /\ replies \in Seq(AnyLine) /\ Len(wire) \in Nat
  BY DEF WellTyped, TypeOK
<1>1. UNCHANGED <<status, mailList, mailItr, temporaryFile, socket>> /\ replies' = Tail(replies) /\ outstandingResponses' = 0
  <2>1. UNCHANGED <<status, mailList>> /\ replies' = Tail(replies) /\ outstandingResponses' = Len(<<>>)
    BY DEF Hold, Take, Turn, Awaited
  <2>2. Len(<<>>) = 0
    OBVIOUS
  <2> QED
    BY <2>1, <2>2 DEF DialogVars
<1>2. Expected = 1 /\ Expected' = 1
  BY <1>1 DEF Expected, Tidy
<1>3. UNCHANGED Current
  BY <1>1 DEF Current
<1>4. CASE replies[1].code \notin {421, 550}
  BY <1>3, <1>4, SentTaken DEF Taken
<1>5. CASE replies[1].code \in {421, 550}
  <2>1. PICK g \in Nat, x \in Nat : Flow(replies, Len(wire), 1, status, g, x)
    BY <1>2 DEF FlowInv
  <2>2. /\ Len(Tail(replies)) = Len(replies) - 1 /\ Len(replies) \in Nat /\ Len(replies) >= 1
        /\ \A i \in 1 .. Len(replies) - 1 : Tail(replies)[i] = replies[i + 1]
    BY <1>0, TailLines
  <2>3. g + x = 0
    <3> SUFFICES ASSUME g + x >= 1 PROVE FALSE
      BY <2>1
    <3>1. 1 \in 1 .. g + x
      BY <2>1
    <3>2. Good(replies, status, g, x, 1)
      BY <2>1, <3>1 DEF Flow
    <3> QED
      BY <1>5, <3>2 DEF Good, Fatal
  <2>4. g + x < Len(replies) /\ g + x + 1 = 1
    BY <2>2, <2>3
  <2>5. Final(replies, status, 1)
    BY <2>1, <2>4 DEF Flow
  <2>6. 1 < Len(replies) /\ replies[1 + 1].code \in {421, 550}
    BY <2>5 DEF Final
  <2>7. 1 \in 1 .. Len(replies) - 1
    BY <2>2, <2>6
  <2>8. Tail(replies)[1].code \in {421, 550}
    BY <2>2, <2>6, <2>7
  <2>9. \A i \in 1 .. 1 : Tail(replies)[i].code \notin {421, 550}
    BY <1>1, <1>2 DEF Complete
  <2>10. 1 \in 1 .. 1
    OBVIOUS
  <2> QED
    BY <2>8, <2>9, <2>10, Zenon
<1> QED
  BY <1>4, <1>5

\* A step that reads a line.
LEMMA ReadReported ==
  ASSUME WellTyped, Tidy, FlowInv, Answered, ReportedIsAccepted, ReadLine
  PROVE  Answered' /\ ReportedIsAccepted'
<1>1. PICK r \in Responses :
        IF outstandingResponses > 1
        THEN PipelinedResponse(r) /\ UNCHANGED reportVars
        ELSE nextAction(r)
  BY DEF ReadLine
<1>2. /\ replies # <<>> /\ LineRead /\ sending /\ socket # "opening" /\ Running /\ UNCHANGED accepted
      /\ replies \in Seq(AnyLine)
  BY DEF ReadLine, LineRead, Tidy, FlowInv, Running, serverVars, WellTyped
<1>3. status # "Init" => r = replies[1]
  <2>1. Head(replies) = replies[1]
    BY <1>2, TailIndex
  <2>2. status # "Init" => lineBuffer = NoLine \/ lineBuffer.batch = batches
    BY <1>2 DEF FlowInv
  <2> QED
    BY <1>1, <2>1, <2>2 DEF Responses
<1>4. CASE outstandingResponses > 1
  <2>1. PipelinedResponse(r) /\ UNCHANGED reportVars /\ status \in {"Sent", "Body"}
    BY <1>1, <1>2, <1>4 DEF FlowInv
  <2>2. ReportedIsAccepted'
    BY <1>2, <2>1 DEF ReportedIsAccepted, reportVars
  <2>3. CASE operationFailed(status)
    <3>1. sending' = FALSE
      BY <1>2, <2>3 DEF operationFailed
    <3> QED
      BY <2>2, <3>1 DEF Answered, Complete, Running
  <2>4. CASE ~operationFailed(status)
    <3>1. /\ r.code \in 200 .. 299 /\ replies' = Tail(replies) /\ outstandingResponses' = outstandingResponses - 1
          /\ UNCHANGED <<status, sending, temporaryFile, socket, wire, mailList, mailItr>>
      BY <2>1, <2>4 DEF PipelinedResponse, DialogVars
    <3>2. \A code \in 200 .. 299 : code \notin {421, 550}
      OBVIOUS
    <3>3. replies[1].code \notin {421, 550}
      BY <1>3, <2>1, <3>1, <3>2, ZenonT(80)
    <3>4. UNCHANGED <<status, sending, temporaryFile, socket, wire, mailList, mailItr, accepted>>
      BY <1>2, <3>1
    <3>5. Complete' => Taken'
      BY <1>2, <1>4, <3>1, <3>3, <3>4, PipelinedAnswers
    <3> QED
      BY <2>2, <3>5 DEF Answered
  <2> QED
    BY <2>3, <2>4
<1>5. CASE ~(outstandingResponses > 1)
  <2>1. nextAction(r)
    BY <1>1, <1>5
  <2>2. ASSUME Complete' PROVE Taken'
    <3>1. sending' /\ status' = "Sent" /\ wire' = <<>>
      BY <2>2 DEF Complete, Running
    <3>2. r.code # 250 /\ r.more /\ Hold(status) /\ UNCHANGED DialogVars
      BY <1>2, <2>1, <3>1, StillSent
    <3>3. status = "Sent"
      BY <3>1, <3>2 DEF Hold, Take, Turn
    <3>4. replies[1].more /\ UNCHANGED <<DialogVars, accepted>>
      BY <1>2, <1>3, <3>2, <3>3
    <3> QED
      BY <1>2, <1>5, <2>2, <3>2, <3>3, <3>4, HeldAnswers
  <2>3. ReportedIsAccepted'
    <3>1. CASE UNCHANGED reportVars
      BY <1>2, <3>1 DEF ReportedIsAccepted, reportVars
    <3>2. CASE ~UNCHANGED reportVars
      <4>1. OnSent(r) /\ r.code = 250
        BY <2>1, <3>2 DEF nextAction, OnSent
      <4>2. status = "Sent" /\ transmitted' = transmitted \cup {Current}
        BY <4>1 DEF OnSent, Current
      <4>3. replies[1].code \notin {421, 550}
        BY <1>3, <4>1, <4>2
      <4>4. Taken
        BY <1>2, <1>5, <4>2, <4>3, SentTaken
      <4> QED
        BY <1>2, <4>2, <4>4 DEF Taken, ReportedIsAccepted
    <3> QED
      BY <3>1, <3>2
  <2> QED
    BY <2>2, <2>3 DEF Answered
<1> QED
  BY <1>4, <1>5

\* No step reports a message that has not been accepted.
LEMMA StepReported ==
  WellTyped /\ Tidy /\ StreamInv /\ FlowInv /\ Answered /\ ReportedIsAccepted /\ [Next]_vars
    => Answered' /\ ReportedIsAccepted'
<1> SUFFICES ASSUME WellTyped, Tidy, StreamInv, FlowInv, Answered, ReportedIsAccepted, [Next]_vars
             PROVE  Answered' /\ ReportedIsAccepted'
  OBVIOUS
<1>0. /\ socket # "closed" \/ authTimeout \/ temporaryFile => sending
      /\ sending \in BOOLEAN /\ wire \in Seq(AnyCommand)
  BY DEF Tidy, Released, WellTyped, TypeOK
<1>1. ASSUME UNCHANGED <<accepted, transmitted>>, ~Complete' PROVE Answered' /\ ReportedIsAccepted'
  BY <1>1 DEF Answered, ReportedIsAccepted
<1>2. ASSUME UNCHANGED <<accepted, transmitted>>, sending, NEW st, operationFailed(st)
      PROVE  Answered' /\ ReportedIsAccepted'
  <2>1. sending' = FALSE
    BY <1>2 DEF operationFailed
  <2>2. ~Complete'
    BY <2>1 DEF Complete, Running
  <2> QED
    BY <1>1, <1>2, <2>2
<1>3. ASSUME UNCHANGED <<accepted, transmitted>>, NEW c \in AnyCommand, wire' = wire \o <<c>>
      PROVE  Answered' /\ ReportedIsAccepted'
  <2>1. <<c>> \in Seq(AnyCommand) /\ <<c>> # <<>>
    OBVIOUS
  <2>2. wire' # <<>>
    BY <1>0, <1>3, <2>1, JoinedSome
  <2> QED
    BY <1>1, <1>3, <2>2 DEF Complete
<1>4. ASSUME UNCHANGED <<status, sending, outstandingResponses, temporaryFile, socket, wire, replies,
                         mailList, mailItr, accepted, transmitted>>
      PROVE  Answered' /\ ReportedIsAccepted'
  BY <1>4 DEF Answered, Complete, Taken, Running, Expected, Current, ReportedIsAccepted
<1>5. ASSUME NEW M \in SUBSET outbox, NEW mails \in SetToSeqs(M \ Invalid), TransmitMessages(mails)
      PROVE  Answered' /\ ReportedIsAccepted'
  <2>1. transmitted' = {} /\ (sending' => socket' = "opening")
    BY <1>0, <1>5 DEF TransmitMessages
  <2> QED
    BY <2>1 DEF Answered, Complete, Running, ReportedIsAccepted
<1>6. CASE Connected
  <2>1. transmitted' = {} /\ wire' # <<>>
    BY <1>6 DEF Connected, FlowInv, reportVars
  <2> QED
    BY <2>1 DEF Answered, Complete, ReportedIsAccepted
<1>7. CASE Encrypted
  <2>1. Plain("EHLO") \in AnyCommand
    BY CommandType DEF Verb, Plain
  <2>2. UNCHANGED <<accepted, transmitted>> /\ wire' = wire \o <<Plain("EHLO")>>
    BY <1>7 DEF Encrypted, serverVars, reportVars
  <2> QED
    BY <1>3, <2>1, <2>2
<1>8. CASE ReadLine
  BY <1>8, ReadReported
<1>9. CASE ReadPart
  <2>1. UNCHANGED <<status, sending, outstandingResponses, temporaryFile, socket, wire, replies,
                    mailList, mailItr, accepted, transmitted>>
    BY <1>9 DEF ReadPart, listVars, serverVars, reportVars
  <2> QED
    BY <1>4, <2>1
<1>10. CASE BodyWritten
  <2> DEFINE c == Command("END", <<mailList[mailItr], 1>>, TRUE)
  <2>1. c \in AnyCommand
    <3>1. mailList[mailItr] \in Message
      BY <1>0, <1>10 DEF BodyWritten, Tidy, WellTyped, TypeOK, Transaction
    <3>2. <<mailList[mailItr], 1>> \in Part /\ "END" \in Verb
      BY <3>1 DEF Part, Verb
    <3> QED
      BY <3>2, CommandType
  <2>2. UNCHANGED <<accepted, transmitted>> /\ wire' = wire \o <<c>>
    BY <1>10 DEF BodyWritten, Terminator, serverVars, reportVars
  <2> QED
    BY <1>3, <2>1, <2>2
<1>11. CASE TransportError
  <2>1. UNCHANGED <<accepted, transmitted>> /\ sending /\ operationFailed(status)
    BY <1>0, <1>11 DEF TransportError, serverVars, reportVars
  <2> QED
    BY <1>2, <2>1
<1>12. CASE AuthExpired
  <2>1. UNCHANGED <<accepted, transmitted>> /\ sending /\ operationFailed("Done")
    BY <1>0, <1>12 DEF AuthExpired, serverVars, reportVars
  <2> QED
    BY <1>2, <2>1
<1>13. CASE CancelTransfer
  <2>1. UNCHANGED <<accepted, transmitted>> /\ sending /\ operationFailed(status)
    BY <1>13 DEF CancelTransfer, serverVars, reportVars
  <2> QED
    BY <1>2, <2>1
<1>14. CASE AccountsUpdated
  <2>1. UNCHANGED <<status, sending, outstandingResponses, temporaryFile, socket, wire, replies,
                    mailList, mailItr, accepted, transmitted>>
    BY <1>14 DEF AccountsUpdated, listVars, serverVars, reportVars
  <2> QED
    BY <1>4, <2>1
<1>15. CASE Server
  <2>1. accepted \subseteq accepted' /\ UNCHANGED transmitted
    BY <1>15 DEF Server, ServerAccepts, ServerRefuses, serverVars, clientVars, reportVars
  <2>2. ReportedIsAccepted'
    BY <2>1 DEF ReportedIsAccepted
  <2>3. Answered'
    BY <1>15, ServerAnswers DEF Answered
  <2> QED
    BY <2>2, <2>3
<1>16. CASE ServerShutsDown
  <2>1. UNCHANGED <<accepted, transmitted>>
    BY <1>16 DEF ServerShutsDown, clientVars, reportVars
  <2>2. ReportedIsAccepted'
    BY <2>1 DEF ReportedIsAccepted
  <2>3. Answered'
    BY <1>16, ShutdownAnswers DEF Answered
  <2> QED
    BY <2>2, <2>3
<1>17. CASE UNCHANGED vars
  <2>1. UNCHANGED <<status, sending, outstandingResponses, temporaryFile, socket, wire, replies,
                    mailList, mailItr, accepted, transmitted>>
    BY <1>17 DEF vars, listVars, serverVars, reportVars
  <2> QED
    BY <1>4, <2>1
<1> QED
  BY <1>5, <1>6, <1>7, <1>8, <1>9, <1>10, <1>11, <1>12, <1>13, <1>14, <1>15, <1>16, <1>17 DEF Next

\* A message is reported as transmitted only after the server has accepted it:
\* the count of responses and the status of the dialog keep in step, with and
\* without pipelining, whatever fails and whenever it fails (sendCommand,
\* processResponse, nextAction).  A response 250 in two lines would break it and
\* is excluded: nextAction takes its first line for all of it.  So are external
\* messages, for which the invariant of the stream does not hold: the reference
\* to one is appended to the chunks that a failed transfer has left.
THEOREM ReportedWasAccepted ==
  ASSUME External = {}, {250, 251} \cap MultiLine = {}
  PROVE  Spec => []ReportedIsAccepted
<1>1. Init => WellTyped /\ Tidy /\ StreamInv /\ FlowInv /\ Answered /\ ReportedIsAccepted
  <2>1. Init => Answered /\ ReportedIsAccepted
    BY DEF Init, Answered, Complete, Running, ReportedIsAccepted
  <2> QED
    BY <2>1, InitTyped, InitStream, InitFlow
<1> QED
  BY <1>1, StepTyped, StepTidy, StepStream, StepFlow, StepReported, PTL DEF Spec

=============================================================================
