------------------------- MODULE MailThreadsProofs -------------------------
(***************************************************************************)
(* What holds of the conversations in the mail store (MailThreads) for any *)
(* accounts, headers, folders and number of messages: every message is in  *)
(* a thread that exists, its predecessor is there, no message is its own   *)
(* ancestor, a removal leaves the ancestors of what is left, and a message *)
(* that arrives ends the waits for it.                                     *)
(*                                                                         *)
(* The theorems are about a store without a metadata cache (CacheSize =    *)
(* 0), and each says which of its other hypotheses it needs: runs of       *)
(* MCMailThreads show that without them the properties are false.          *)
(*                                                                         *)
(* A chain of predecessors is followed for MaxMessages steps, as Chain     *)
(* says.  A set that is least among the closed ones stands for the         *)
(* induction on these steps, and Acyclic, every set of messages has one    *)
(* whose predecessor is outside, for the absence of cycles.                *)
(*                                                                         *)
(* The operations are cut into parts (RespondParts and so on), each with   *)
(* what it changes and what it leaves; Became has the five kinds of steps  *)
(* they come to, and each invariant is shown for each kind.                *)
(***************************************************************************)
EXTENDS MailThreads, FiniteSetTheorems, WellFoundedInduction, TLAPS

-----------------------------------------------------------------------------
(* Induction *)

\* A set of natural numbers has a least element.
LEMMA LeastNatural ==
  ASSUME NEW T, T \subseteq Nat, T # {}
  PROVE  \E n \in T : \A k \in T : n <= k
<1> DEFINE R == {ss \in Nat \X Nat : ss[1] < ss[2]}
<1>1. IsWellFoundedOn(R, Nat)
  BY NatLessThanWellFounded DEF OpToRel
<1>2. \A k, n \in Nat : k < n => <<k, n>> \in R
  OBVIOUS
<1> HIDE DEF R
<1>3. PICK n \in T : \A k \in T : <<k, n>> \notin R
  BY <1>1, WFMin
<1>4. \A k \in T : ~(k < n)
  BY <1>2, <1>3
<1> QED
  BY <1>4

\* Induction over the natural numbers, for a set in the place of a predicate.
LEMMA SetInduction ==
  ASSUME NEW T, 0 \in T, \A n \in Nat : n \in T => n + 1 \in T
  PROVE  Nat \subseteq T
<1> SUFFICES ASSUME Nat \ T # {} PROVE FALSE
  OBVIOUS
<1>1. PICK n \in Nat \ T : \A k \in Nat \ T : n <= k
  BY LeastNatural
<1>2. n # 0 /\ n - 1 \in Nat
  OBVIOUS
<1>3. n - 1 \in T
  BY <1>1, <1>2
<1> QED
  BY <1>2, <1>3

\* The same up to a bound.
LEMMA BoundedInduction ==
  ASSUME NEW N \in Nat, NEW T, 0 \in T, \A n \in 0 .. N - 1 : n \in T => n + 1 \in T
  PROVE  0 .. N \subseteq T
<1> DEFINE U == {n \in Nat : n <= N => n \in T}
<1>1. 0 \in U
  OBVIOUS
<1>2. ASSUME NEW n \in Nat, n \in U PROVE n + 1 \in U
  BY <1>2
<1> HIDE DEF U
<1>3. Nat \subseteq U
  BY <1>1, <1>2, SetInduction
<1> QED
  BY <1>3 DEF U

\* A function on 0 .. N that is defined from value to value exists: F takes a
\* value to the next.
Iterates(g, N, F, x) == g = [n \in 0 .. N |-> IF n = 0 THEN x ELSE F[n][g[n - 1]]]

\* The function of the first N iterates of F from x exists.
LEMMA IteratesExist ==
  ASSUME NEW N \in Nat, NEW F, NEW x
  PROVE  \E g : Iterates(g, N, F, x)
<1> DEFINE T == {k \in Nat : \E g : Iterates(g, k, F, x)}
<1>1. 0 \in T
  <2> DEFINE g == [n \in 0 .. 0 |-> x]
  <2>1. g = [n \in 0 .. 0 |-> IF n = 0 THEN x ELSE F[n][g[n - 1]]]
    OBVIOUS
  <2> HIDE DEF g
  <2> QED
    BY <2>1 DEF Iterates
<1>2. ASSUME NEW k \in Nat, k \in T PROVE k + 1 \in T
  <2>1. PICK g : Iterates(g, k, F, x)
    BY <1>2
  <2> DEFINE h == [n \in 0 .. k + 1 |-> IF n = 0 THEN x ELSE F[n][g[n - 1]]]
  <2>2. \A n \in 0 .. k : g[n] = IF n = 0 THEN x ELSE F[n][g[n - 1]]
    BY <2>1 DEF Iterates
  <2>3. \A n \in 0 .. k : h[n] = g[n]
    BY <2>2
  <2>4. \A n \in 0 .. k + 1 : h[n] = IF n = 0 THEN x ELSE F[n][g[n - 1]]
    OBVIOUS
  <2>5. \A n \in 0 .. k + 1 : h[n] = IF n = 0 THEN x ELSE F[n][h[n - 1]]
    <3> TAKE n \in 0 .. k + 1
    <3>1. n # 0 => n - 1 \in 0 .. k
      OBVIOUS
    <3> HIDE DEF h
    <3> QED
      BY <2>3, <2>4, <3>1
  <2>6. DOMAIN h = 0 .. k + 1 /\ h = [n \in DOMAIN h |-> h[n]]
    OBVIOUS
  <2> HIDE DEF h
  <2>7. Iterates(h, k + 1, F, x)
    BY <2>5, <2>6 DEF Iterates
  <2> QED
    BY <2>7
<1> HIDE DEF T
<1>3. Nat \subseteq T
  BY <1>1, <1>2, SetInduction
<1> QED
  BY <1>3 DEF T

-----------------------------------------------------------------------------
(* Chains of predecessors *)

\* Chain, with the sets it is built from.
Steps(g, r, x) ==
  /\ g[0] = {x}
  /\ \A n \in 0 .. MaxMessages - 1 : g[n + 1] = g[n] \cup {r[y] : y \in g[n] \cap DOMAIN r}

\* A chain is the last of its steps.
LEMMA ChainSteps ==
  ASSUME NEW r, NEW x
  PROVE  \E g : Steps(g, r, x) /\ Chain(r, x) = g[MaxMessages] \ {0}
<1> DEFINE V == {x} \cup DOMAIN r \cup {r[y] : y \in DOMAIN r}
           F == [X \in SUBSET V |-> X \cup {r[y] : y \in X \cap DOMAIN r}]
           Q(g) == g = [n \in 0 .. MaxMessages |->
                          IF n = 0 THEN {x} ELSE g[n-1] \cup {r[y] : y \in g[n-1] \cap DOMAIN r}]
           step == CHOOSE g : Q(g)
<1>0. MaxMessages \in Nat
  BY ThreadsAssumption
<1>1. PICK g : Iterates(g, MaxMessages, [n \in 0 .. MaxMessages |-> F], {x})
  BY <1>0, IteratesExist
<1>2. \A n \in 0 .. MaxMessages : g[n] = IF n = 0 THEN {x} ELSE F[g[n - 1]]
  BY <1>1 DEF Iterates
<1>3. DOMAIN g = 0 .. MaxMessages /\ g = [n \in DOMAIN g |-> g[n]]
  BY <1>1 DEF Iterates
<1>4. 0 .. MaxMessages \subseteq {n \in 0 .. MaxMessages : g[n] \in SUBSET V}
  <2> DEFINE T == {n \in 0 .. MaxMessages : g[n] \in SUBSET V}
  <2>1. 0 \in T
    <3>1. 0 \in 0 .. MaxMessages
      BY <1>0
    <3>2. g[0] = {x}
      BY <1>2, <3>1
    <3> QED
      BY <3>1, <3>2
  <2>2. ASSUME NEW n \in 0 .. MaxMessages - 1, n \in T PROVE n + 1 \in T
    <3>1. n + 1 \in 0 .. MaxMessages /\ n + 1 # 0 /\ (n + 1) - 1 = n
      BY <1>0
    <3>2. g[n + 1] = F[g[n]]
      BY <1>2, <3>1
    <3>3. F[g[n]] \in SUBSET V
      BY <2>2
    <3> QED
      BY <3>1, <3>2, <3>3
  <2> HIDE DEF T
  <2>3. 0 .. MaxMessages \subseteq T
    BY <1>0, <2>1, <2>2, BoundedInduction
  <2> QED
    BY <2>3 DEF T
<1>5. \A n \in 0 .. MaxMessages :
        g[n] = IF n = 0 THEN {x} ELSE g[n-1] \cup {r[y] : y \in g[n-1] \cap DOMAIN r}
  <2> TAKE n \in 0 .. MaxMessages
  <2>1. CASE n = 0
    BY <1>2, <2>1
  <2>2. CASE n # 0
    <3>1. g[n - 1] \in SUBSET V
      BY <1>0, <1>4, <2>2
    <3> QED
      BY <1>2, <2>2, <3>1
  <2> QED
    BY <2>1, <2>2
<1>6. Q(g)
  BY <1>3, <1>5
<1> HIDE DEF Q
<1>7. Q(step)
  BY <1>6
<1>8. Chain(r, x) = step[MaxMessages] \ {0}
  BY DEF Chain, Q
<1> HIDE DEF step
<1>9. Steps(step, r, x)
  <2>1. \A n \in 0 .. MaxMessages :
          step[n] = IF n = 0 THEN {x} ELSE step[n-1] \cup {r[y] : y \in step[n-1] \cap DOMAIN r}
    BY <1>7 DEF Q
  <2>2. \A n \in 0 .. MaxMessages - 1 : n + 1 \in 0 .. MaxMessages /\ n + 1 # 0 /\ (n + 1) - 1 = n
    BY <1>0
  <2>3. step[0] = {x}
    <3>1. 0 \in 0 .. MaxMessages
      BY <1>0
    <3> HIDE DEF V, F
    <3>2. step[0] = IF 0 = 0 THEN {x} ELSE step[0-1] \cup {r[y] : y \in step[0-1] \cap DOMAIN r}
      BY <2>1, <3>1
    <3> QED
      BY <3>2
  <2>4. ASSUME NEW n \in 0 .. MaxMessages - 1
        PROVE  step[n + 1] = step[n] \cup {r[y] : y \in step[n] \cap DOMAIN r}
    <3> DEFINE m == n + 1
    <3>1. m \in 0 .. MaxMessages /\ m # 0 /\ m - 1 = n
      BY <2>2
    <3> HIDE DEF m, V, F
    <3>2. step[m] = step[m-1] \cup {r[y] : y \in step[m-1] \cap DOMAIN r}
      BY <2>1, <3>1
    <3>3. step[m] = step[n] \cup {r[y] : y \in step[n] \cap DOMAIN r}
      BY <3>1, <3>2
    <3> QED
      BY <3>3 DEF m
  <2> QED
    BY <2>3, <2>4 DEF Steps
<1> QED
  BY <1>8, <1>9

\* A chain is within every set that has its first message and, with a message,
\* the predecessor.
LEMMA ChainLeast ==
  ASSUME NEW r, NEW x, NEW T, x \in T, \A y \in T \cap DOMAIN r : r[y] \in T
  PROVE  Chain(r, x) \subseteq T
<1>0. MaxMessages \in Nat
  BY ThreadsAssumption
<1>1. PICK g : Steps(g, r, x) /\ Chain(r, x) = g[MaxMessages] \ {0}
  BY ChainSteps
<1> DEFINE U == {n \in 0 .. MaxMessages : g[n] \subseteq T}
<1>2. 0 \in U
  <2>1. g[0] = {x} /\ 0 \in 0 .. MaxMessages
    BY <1>0, <1>1 DEF Steps
  <2> QED
    BY <2>1
<1>3. ASSUME NEW n \in 0 .. MaxMessages - 1, n \in U PROVE n + 1 \in U
  <2>1. g[n + 1] = g[n] \cup {r[y] : y \in g[n] \cap DOMAIN r}
    BY <1>1 DEF Steps
  <2>2. g[n] \subseteq T
    BY <1>3
  <2>3. g[n + 1] \subseteq T
    BY <2>1, <2>2
  <2>4. n + 1 \in 0 .. MaxMessages
    BY <1>0
  <2> QED
    BY <2>3, <2>4
<1> HIDE DEF U
<1>4. 0 .. MaxMessages \subseteq U
  BY <1>0, <1>2, <1>3, BoundedInduction
<1>5. MaxMessages \in 0 .. MaxMessages
  BY <1>0
<1> QED
  BY <1>1, <1>4, <1>5 DEF U

\* The steps of a chain grow.
LEMMA StepsGrow ==
  ASSUME NEW r, NEW x, NEW g, Steps(g, r, x)
  PROVE  \A n \in 0 .. MaxMessages : g[n] \subseteq g[MaxMessages]
<1>0. MaxMessages \in Nat
  BY ThreadsAssumption
<1> DEFINE U == {n \in 0 .. MaxMessages : g[MaxMessages - n] \subseteq g[MaxMessages]}
<1>1. 0 \in U
  <2>1. MaxMessages - 0 = MaxMessages /\ 0 \in 0 .. MaxMessages
    BY <1>0
  <2> QED
    BY <2>1
<1>2. ASSUME NEW n \in 0 .. MaxMessages - 1, n \in U PROVE n + 1 \in U
  <2> DEFINE k == MaxMessages - (n + 1)
  <2>1. k \in 0 .. MaxMessages - 1 /\ k + 1 = MaxMessages - n /\ n + 1 \in 0 .. MaxMessages
    BY <1>0
  <2> HIDE DEF k
  <2>2. g[k] \subseteq g[k + 1]
    BY <2>1 DEF Steps
  <2>3. g[k] \subseteq g[MaxMessages]
    BY <1>2, <2>1, <2>2
  <2> QED
    BY <2>1, <2>3 DEF k
<1> HIDE DEF U
<1>3. 0 .. MaxMessages \subseteq U
  BY <1>0, <1>1, <1>2, BoundedInduction
<1> QED
  <2> TAKE n \in 0 .. MaxMessages
  <2>1. MaxMessages - n \in 0 .. MaxMessages /\ MaxMessages - (MaxMessages - n) = n
    BY <1>0
  <2> QED
    BY <1>3, <2>1 DEF U

\* A chain has its first message.
LEMMA ChainStart ==
  ASSUME NEW r, NEW x, x # 0
  PROVE  x \in Chain(r, x)
<1>0. MaxMessages \in Nat
  BY ThreadsAssumption
<1>1. PICK g : Steps(g, r, x) /\ Chain(r, x) = g[MaxMessages] \ {0}
  BY ChainSteps
<1>2. g[0] \subseteq g[MaxMessages]
  BY <1>0, <1>1, StepsGrow
<1> QED
  BY <1>1, <1>2 DEF Steps

\* As many steps as there are messages reach the end of a chain: each step that
\* does not adds one message.
LEMMA ChainClosed ==
  ASSUME NEW r, DOMAIN r \subseteq 1 .. MaxMessages, NEW x
  PROVE  \A y \in Chain(r, x) \cap DOMAIN r : r[y] \in Chain(r, x) \cup {0}
<1>0. MaxMessages \in Nat
  BY ThreadsAssumption
<1>1. PICK g : Steps(g, r, x) /\ Chain(r, x) = g[MaxMessages] \ {0}
  BY ChainSteps
<1> DEFINE D == DOMAIN r
           Whole(X) == \A y \in X \cap D : r[y] \in X
           Part1(X, k) == \E l \in X \cap D : /\ \A y \in X \cap D : y # l => r[y] \in X
                                              /\ Cardinality(X \cap D) > k
           U == {n \in 0 .. MaxMessages : Whole(g[n]) \/ Part1(g[n], n)}
<1>2. IsFiniteSet(D) /\ Cardinality(D) <= MaxMessages
  <2>1. IsFiniteSet(1 .. MaxMessages) /\ Cardinality(1 .. MaxMessages) = MaxMessages
    BY <1>0, FS_Interval
  <2> QED
    BY <2>1, FS_Subset
<1>3. \A X : IsFiniteSet(X \cap D) /\ Cardinality(X \cap D) \in Nat /\ Cardinality(X \cap D) <= MaxMessages
  <2> TAKE X
  <2>1. X \cap D \in SUBSET D
    OBVIOUS
  <2> QED
    BY <1>0, <1>2, <2>1, FS_Subset, FS_CardinalityType
<1> HIDE DEF D
<1>4. 0 \in U
  <2>1. g[0] = {x} /\ 0 \in 0 .. MaxMessages
    BY <1>0, <1>1 DEF Steps
  <2>2. CASE x \in D
    <3>1. {x} \cap D = {x} /\ Cardinality({x}) = 1
      BY <2>2, FS_Singleton
    <3>2. Part1({x}, 0)
      BY <2>2, <3>1
    <3> QED
      BY <2>1, <3>2
  <2>3. CASE x \notin D
    BY <2>1, <2>3
  <2> QED
    BY <2>2, <2>3
<1>5. ASSUME NEW n \in 0 .. MaxMessages - 1, n \in U PROVE n + 1 \in U
  <2> DEFINE X == g[n]
             Y == g[n + 1]
  <2>1. Y = X \cup {r[y] : y \in X \cap D}
    BY <1>1 DEF Steps, D
  <2>2. n + 1 \in 0 .. MaxMessages
    BY <1>0
  <2>3. Whole(X) \/ Part1(X, n)
    BY <1>5
  <2> HIDE DEF X, Y, U
  <2>4. CASE Whole(X)
    <3>1. Y = X
      BY <2>1, <2>4
    <3>2. Whole(Y)
      BY <2>4, <3>1
    <3> QED
      BY <2>2, <3>2 DEF Y, U
  <2>5. CASE ~Whole(X) /\ Part1(X, n)
    <3>1. PICK l \in X \cap D : /\ \A y \in X \cap D : y # l => r[y] \in X
                                /\ Cardinality(X \cap D) > n
      BY <2>5
    <3>2. r[l] \notin X
      BY <2>5, <3>1
    <3>3. Y = X \cup {r[l]}
      BY <2>1, <3>1
    <3>4. CASE r[l] \in D
      <4>1. Y \cap D = (X \cap D) \cup {r[l]} /\ r[l] \notin X \cap D
        BY <3>2, <3>3, <3>4
      <4>2. Cardinality((X \cap D) \cup {r[l]}) = Cardinality(X \cap D) + 1
        BY <1>3, <4>1, FS_AddElement
      <4>3. Cardinality(Y \cap D) > n + 1
        <5>1. Cardinality(X \cap D) \in Nat /\ Cardinality(X \cap D) > n /\ n \in Nat
          BY <1>0, <1>3, <3>1
        <5>2. Cardinality(Y \cap D) = Cardinality(X \cap D) + 1
          BY <4>1, <4>2
        <5> QED
          BY <5>1, <5>2
      <4>4. \A y \in Y \cap D : y # r[l] => r[y] \in Y
        BY <3>1, <3>3
      <4>5. r[l] \in Y \cap D
        BY <3>3, <3>4
      <4>6. Part1(Y, n + 1)
        <5> WITNESS r[l] \in Y \cap D
        <5> QED
          BY <4>3, <4>4
      <4> QED
        BY <2>2, <4>6 DEF Y, U
    <3>5. CASE r[l] \notin D
      <4>1. Whole(Y)
        BY <3>1, <3>3, <3>5
      <4> QED
        BY <2>2, <4>1 DEF Y, U
    <3> QED
      BY <3>4, <3>5
  <2> QED
    BY <2>3, <2>4, <2>5
<1> HIDE DEF U
<1>6. 0 .. MaxMessages \subseteq U
  BY <1>0, <1>4, <1>5, BoundedInduction
<1>7. MaxMessages \in 0 .. MaxMessages
  BY <1>0
<1>8. Whole(g[MaxMessages]) \/ Part1(g[MaxMessages], MaxMessages)
  BY <1>6, <1>7 DEF U
<1>9. ~Part1(g[MaxMessages], MaxMessages)
  BY <1>0, <1>3
<1>10. Whole(g[MaxMessages])
  BY <1>8, <1>9
<1> QED
  BY <1>1, <1>10 DEF D

\* A chain that begins at no message.
LEMMA ChainOfNone ==
  ASSUME NEW r, 0 \notin DOMAIN r
  PROVE  Chain(r, 0) = {}
<1> DEFINE T == {0}
<1>0. 0 \in T /\ \A y \in T \cap DOMAIN r : r[y] \in T
  OBVIOUS
<1>1. Chain(r, 0) \subseteq T
  <2> HIDE DEF T
  <2> QED
    BY <1>0, ChainLeast
<1>2. 0 \notin Chain(r, 0)
  BY DEF Chain
<1> QED
  BY <1>1, <1>2

\* No chain has 0, which stands for no predecessor.
LEMMA ChainWithoutZero ==
  ASSUME NEW r, NEW x
  PROVE  0 \notin Chain(r, x)
BY DEF Chain

\* A chain is its first message and the chain of the predecessor.
LEMMA ChainUnfold ==
  ASSUME NEW r, DOMAIN r \subseteq 1 .. MaxMessages, NEW x \in DOMAIN r
  PROVE  Chain(r, x) = {x} \cup Chain(r, r[x])
<1>0. MaxMessages \in Nat /\ x # 0 /\ 0 \notin DOMAIN r
  BY ThreadsAssumption
<1>1. x \in Chain(r, x)
  BY <1>0, ChainStart
<1>2. Chain(r, x) \subseteq {x} \cup Chain(r, r[x]) \cup {0}
  <2> DEFINE T == {x} \cup Chain(r, r[x]) \cup {0}
  <2>1. r[x] \in Chain(r, r[x]) \cup {0}
    BY ChainStart
  <2>2. \A y \in Chain(r, r[x]) \cap DOMAIN r : r[y] \in Chain(r, r[x]) \cup {0}
    BY ChainClosed
  <2>3. \A y \in T \cap DOMAIN r : r[y] \in T
    BY <1>0, <2>1, <2>2
  <2>4. x \in T
    OBVIOUS
  <2>5. Chain(r, x) \subseteq T
    <3> HIDE DEF T
    <3> QED
      BY <2>3, <2>4, ChainLeast
  <2> QED
    BY <2>5
<1>3. Chain(r, r[x]) \subseteq Chain(r, x) \cup {0}
  <2> DEFINE T == Chain(r, x) \cup {0}
  <2>1. \A y \in Chain(r, x) \cap DOMAIN r : r[y] \in T
    BY ChainClosed
  <2>2. \A y \in T \cap DOMAIN r : r[y] \in T
    BY <1>0, <2>1
  <2>3. r[x] \in T
    BY <1>1, <2>1
  <2>4. Chain(r, r[x]) \subseteq T
    <3> HIDE DEF T
    <3> QED
      BY <2>2, <2>3, ChainLeast
  <2> QED
    BY <2>4
<1> QED
  BY <1>1, <1>2, <1>3, ChainWithoutZero

\* A part of the messages that no predecessor leads out of has whole chains.
LEMMA ChainWithin ==
  ASSUME NEW r, DOMAIN r \subseteq 1 .. MaxMessages, NEW S, S \subseteq DOMAIN r,
         \A y \in S : r[y] \in S \cup {0}, NEW x \in S
  PROVE  /\ Chain([y \in S |-> r[y]], x) = Chain(r, x)
         /\ Chain(r, x) \subseteq S
<1>0. MaxMessages \in Nat /\ x # 0 /\ 0 \notin DOMAIN r
  BY ThreadsAssumption
<1> DEFINE f == [y \in S |-> r[y]]
<1>1. Chain(r, x) \subseteq (Chain(f, x) \cap S) \cup {0}
  <2> DEFINE T == (Chain(f, x) \cap S) \cup {0}
  <2>1. x \in Chain(f, x)
    BY <1>0, ChainStart
  <2>2. DOMAIN f \subseteq 1 .. MaxMessages
    OBVIOUS
  <2> HIDE DEF f
  <2>3. \A y \in Chain(f, x) \cap DOMAIN f : f[y] \in Chain(f, x) \cup {0}
    BY <2>2, ChainClosed
  <2>4. \A y \in T \cap DOMAIN r : r[y] \in T
    BY <1>0, <2>3 DEF f
  <2>5. x \in T
    BY <2>1
  <2> HIDE DEF T
  <2>6. Chain(r, x) \subseteq T
    BY <2>4, <2>5, ChainLeast
  <2> QED
    BY <2>6 DEF T
<1>2. Chain(f, x) \subseteq Chain(r, x) \cup {0}
  <2> DEFINE T == Chain(r, x) \cup {0}
  <2>1. x \in Chain(r, x)
    BY <1>0, ChainStart
  <2>2. \A y \in Chain(r, x) \cap DOMAIN r : r[y] \in Chain(r, x) \cup {0}
    BY ChainClosed
  <2>3. DOMAIN f = S /\ \A y \in S : f[y] = r[y]
    OBVIOUS
  <2> HIDE DEF f
  <2>4. \A y \in T \cap DOMAIN f : f[y] \in T
    BY <1>0, <2>2, <2>3
  <2>5. x \in T
    BY <2>1
  <2> HIDE DEF T
  <2>6. Chain(f, x) \subseteq T
    BY <2>4, <2>5, ChainLeast
  <2> QED
    BY <2>6 DEF T
<1> QED
  BY <1>1, <1>2, ChainWithoutZero

\* No set of messages has all the predecessors of its messages.
Acyclic(r) == \A T \in SUBSET DOMAIN r : T # {} => \E y \in T : r[y] \notin T

\* A chain from outside is a message at most.
LEMMA ChainOutside ==
  ASSUME NEW r, NEW x, x \notin DOMAIN r
  PROVE  Chain(r, x) \subseteq {x}
<1> DEFINE T == {x}
<1>1. x \in T /\ \A y \in T \cap DOMAIN r : r[y] \in T
  OBVIOUS
<1>2. Chain(r, x) \subseteq T
  <2> HIDE DEF T
  <2> QED
    BY <1>1, ChainLeast
<1> QED
  BY <1>2

\* Without cycles no message is among its ancestors.
LEMMA NoLoop ==
  ASSUME NEW r, DOMAIN r \subseteq 1 .. MaxMessages, Acyclic(r), NEW x \in DOMAIN r
  PROVE  x \notin Chain(r, r[x])
<1> SUFFICES ASSUME x \in Chain(r, r[x]) PROVE FALSE
  OBVIOUS
<1> DEFINE T == {y \in DOMAIN r : x \in Chain(r, r[y])}
<1>1. T \in SUBSET DOMAIN r /\ x \in T
  OBVIOUS
<1>2. PICK y \in T : r[y] \notin T
  BY <1>1 DEF Acyclic
<1>3. x \in Chain(r, r[y]) /\ y \in DOMAIN r
  BY <1>2
<1>4. r[y] \in DOMAIN r
  <2> SUFFICES ASSUME r[y] \notin DOMAIN r PROVE FALSE
    OBVIOUS
  <2>1. Chain(r, r[y]) \subseteq {r[y]}
    BY ChainOutside
  <2> QED
    BY <1>3, <2>1
<1>5. Chain(r, r[y]) = {r[y]} \cup Chain(r, r[r[y]])
  BY <1>4, ChainUnfold
<1>6. x \in Chain(r, r[r[y]])
  BY <1>3, <1>5
<1> QED
  BY <1>2, <1>4, <1>6

\* A new message that nothing answers.
LEMMA AcyclicNew ==
  ASSUME NEW r, Acyclic(r), NEW id, id \notin DOMAIN r, NEW p, p # id,
         \A y \in DOMAIN r : r[y] # id,
         NEW f, DOMAIN f = DOMAIN r \cup {id}, f[id] = p, \A y \in DOMAIN r : f[y] = r[y]
  PROVE  Acyclic(f)
<1> SUFFICES ASSUME NEW T \in SUBSET DOMAIN f, T # {}
             PROVE  \E y \in T : f[y] \notin T
  BY DEF Acyclic
<1>1. CASE T \ {id} # {}
  <2>1. PICK y \in T \ {id} : r[y] \notin T \ {id}
    BY <1>1 DEF Acyclic
  <2> QED
    BY <2>1
<1>2. CASE T = {id}
  BY <1>2
<1> QED
  BY <1>1, <1>2

\* Messages that do not come before id become its answers.
LEMMA AcyclicChange ==
  ASSUME NEW r, DOMAIN r \subseteq 1 .. MaxMessages, Acyclic(r), NEW id, NEW S,
         S \cap Chain(r, id) = {}, id \in S => FALSE, id # 0,
         NEW f, DOMAIN f = DOMAIN r, \A y \in DOMAIN r : f[y] = IF y \in S THEN id ELSE r[y]
  PROVE  Acyclic(f)
<1> SUFFICES ASSUME NEW T \in SUBSET DOMAIN r, T # {}
             PROVE  \E y \in T : f[y] \notin T
  BY DEF Acyclic
<1>0. 0 \notin DOMAIN r
  BY ThreadsAssumption
<1>1. CASE T \cap Chain(r, id) # {}
  <2>1. PICK y \in T \cap Chain(r, id) : r[y] \notin T \cap Chain(r, id)
    BY <1>1 DEF Acyclic
  <2>2. r[y] \in Chain(r, id) \cup {0}
    BY <2>1, ChainClosed
  <2>3. f[y] = r[y]
    BY <2>1
  <2> QED
    BY <1>0, <2>1, <2>2, <2>3
<1>2. CASE T \cap Chain(r, id) = {}
  <2>1. id \in Chain(r, id)
    BY ChainStart
  <2>2. PICK y \in T : r[y] \notin T
    BY DEF Acyclic
  <2> QED
    BY <1>2, <2>1, <2>2
<1> QED
  BY <1>1, <1>2

\* One of finitely many messages has the earliest stamp.
LEMMA Earliest ==
  ASSUME NEW v, NEW T, T # {}, T \subseteq 1 .. MaxMessages, \A y \in T : v[y] \in Int
  PROVE  \E y \in T : \A k \in T : v[y] <= v[k]
<1>0. MaxMessages \in Nat
  BY ThreadsAssumption
<1> DEFINE U == {n \in 0 .. MaxMessages :
                   T \cap (1 .. n) # {} => \E y \in T \cap (1 .. n) : \A k \in T \cap (1 .. n) : v[y] <= v[k]}
<1>1. 0 \in U
  <2>1. 0 \in 0 .. MaxMessages /\ 1 .. 0 = {}
    BY <1>0
  <2> QED
    BY <2>1
<1>2. ASSUME NEW n \in 0 .. MaxMessages - 1, n \in U PROVE n + 1 \in U
  <2>1. n + 1 \in 0 .. MaxMessages /\ 1 .. n + 1 = (1 .. n) \cup {n + 1}
    BY <1>0
  <2> DEFINE A == T \cap (1 .. n)
             B == T \cap (1 .. n + 1)
  <2>2. A # {} => \E y \in A : \A k \in A : v[y] <= v[k]
    BY <1>2
  <2>3. B = A \/ (B = A \cup {n + 1} /\ n + 1 \in T)
    BY <2>1
  <2>4. A \subseteq T
    OBVIOUS
  <2> HIDE DEF A, B
  <2>5. B # {} => \E y \in B : \A k \in B : v[y] <= v[k]
    <3>1. CASE B = A
      BY <2>2, <3>1
    <3>2. CASE A = {} /\ B = {n + 1} /\ n + 1 \in T
      BY <3>2
    <3>3. CASE A # {} /\ B = A \cup {n + 1} /\ n + 1 \in T
      <4>1. PICK y \in A : \A k \in A : v[y] <= v[k]
        BY <2>2, <3>3
      <4>2. v[y] \in Int /\ v[n + 1] \in Int /\ \A k \in A : v[k] \in Int
        BY <2>4, <3>3
      <4>3. CASE v[y] <= v[n + 1]
        BY <3>3, <4>1, <4>3
      <4>4. CASE ~(v[y] <= v[n + 1])
        <5>1. \A k \in B : v[n + 1] <= v[k]
          BY <3>3, <4>1, <4>2, <4>4
        <5> QED
          BY <3>3, <5>1
      <4> QED
        BY <4>3, <4>4
    <3> QED
      BY <2>3, <3>1, <3>2, <3>3
  <2> QED
    BY <2>1, <2>5 DEF B
<1> HIDE DEF U
<1>3. 0 .. MaxMessages \subseteq U
  BY <1>0, <1>1, <1>2, BoundedInduction
<1>4. MaxMessages \in U
  BY <1>0, <1>3
<1> QED
  BY <1>4 DEF U

\* Predecessors with earlier stamps.
LEMMA AcyclicStamps ==
  ASSUME NEW r, DOMAIN r \subseteq 1 .. MaxMessages, NEW v, \A y \in DOMAIN r : v[y] \in Int,
         \A y \in DOMAIN r : r[y] \in DOMAIN r => v[r[y]] < v[y]
  PROVE  Acyclic(r)
<1> SUFFICES ASSUME NEW T \in SUBSET DOMAIN r, T # {}
             PROVE  \E y \in T : r[y] \notin T
  BY DEF Acyclic
<1>1. PICK y \in T : \A k \in T : v[y] <= v[k]
  BY Earliest
<1>2. r[y] \notin T
  <2> SUFFICES ASSUME r[y] \in T PROVE FALSE
    OBVIOUS
  <2>1. v[r[y]] < v[y] /\ v[y] <= v[r[y]] /\ v[y] \in Int /\ v[r[y]] \in Int
    BY <1>1
  <2> QED
    BY <2>1
<1> QED
  BY <1>2

-----------------------------------------------------------------------------
(* Skipping deleted messages *)

\* Every message with its predecessor.
Resp(d) == Responses(d, Messages(d))

\* FirstLeft, with the messages it passes.
Passes(g, r, S, x) ==
  /\ g[0] = x
  /\ \A n \in 0 .. MaxMessages - 1 : g[n + 1] = IF g[n] \in S THEN r[g[n]] ELSE g[n]

\* FirstLeft is the last of the steps over the deleted messages.
LEMMA FirstPasses ==
  ASSUME NEW d, NEW S, S \subseteq Messages(d), NEW x
  PROVE  \E g : Passes(g, Resp(d), S, x) /\ FirstLeft(d, S, x) = g[MaxMessages]
<1> DEFINE V == {x} \cup {d.messages[y].response : y \in S}
           F == [y \in V |-> IF y \in S THEN d.messages[y].response ELSE y]
           Q(g) == g = [n \in 0 .. MaxMessages |->
                          IF n = 0 THEN x
                          ELSE IF g[n-1] \in S THEN d.messages[g[n-1]].response ELSE g[n-1]]
           step == CHOOSE g : Q(g)
<1>0. MaxMessages \in Nat /\ 0 \in 0 .. MaxMessages
  BY ThreadsAssumption
<1>1. PICK g : Iterates(g, MaxMessages, [n \in 0 .. MaxMessages |-> F], x)
  BY <1>0, IteratesExist
<1>2. \A n \in 0 .. MaxMessages : g[n] = IF n = 0 THEN x ELSE F[g[n - 1]]
  BY <1>1 DEF Iterates
<1>3. DOMAIN g = 0 .. MaxMessages /\ g = [n \in DOMAIN g |-> g[n]]
  BY <1>1 DEF Iterates
<1>4. \A n \in 0 .. MaxMessages : g[n] \in V
  <2> DEFINE T == {n \in 0 .. MaxMessages : g[n] \in V}
  <2>1. 0 \in T
    <3>1. g[0] = x
      BY <1>0, <1>2
    <3> QED
      BY <1>0, <3>1
  <2>2. ASSUME NEW n \in 0 .. MaxMessages - 1, n \in T PROVE n + 1 \in T
    <3> DEFINE m == n + 1
    <3>1. m \in 0 .. MaxMessages /\ m # 0 /\ m - 1 = n
      BY <1>0
    <3> HIDE DEF m
    <3>2. g[m] = F[g[n]]
      BY <1>2, <3>1
    <3>3. F[g[n]] \in V
      BY <2>2
    <3> QED
      BY <3>1, <3>2, <3>3 DEF m
  <2> HIDE DEF T
  <2>3. 0 .. MaxMessages \subseteq T
    BY <1>0, <2>1, <2>2, BoundedInduction
  <2> QED
    BY <2>3 DEF T
<1>5. \A n \in 0 .. MaxMessages :
        g[n] = IF n = 0 THEN x ELSE IF g[n-1] \in S THEN d.messages[g[n-1]].response ELSE g[n-1]
  <2> TAKE n \in 0 .. MaxMessages
  <2>1. CASE n = 0
    BY <1>2, <2>1
  <2>2. CASE n # 0
    <3>1. g[n - 1] \in V
      BY <1>0, <1>4, <2>2
    <3> QED
      BY <1>2, <2>2, <3>1
  <2> QED
    BY <2>1, <2>2
<1>6. Q(g)
  BY <1>3, <1>5
<1> HIDE DEF Q
<1>7. Q(step)
  BY <1>6
<1>8. FirstLeft(d, S, x) = step[MaxMessages]
  BY DEF FirstLeft, Q
<1> HIDE DEF step
<1>9. Passes(step, Resp(d), S, x)
  <2>1. \A n \in 0 .. MaxMessages :
          step[n] = IF n = 0 THEN x
                    ELSE IF step[n-1] \in S THEN d.messages[step[n-1]].response ELSE step[n-1]
    BY <1>7 DEF Q
  <2>2. step[0] = x
    BY <1>0, <2>1
  <2>3. ASSUME NEW n \in 0 .. MaxMessages - 1
        PROVE  step[n + 1] = IF step[n] \in S THEN Resp(d)[step[n]] ELSE step[n]
    <3> DEFINE m == n + 1
    <3>1. m \in 0 .. MaxMessages /\ m # 0 /\ m - 1 = n
      BY <1>0
    <3> HIDE DEF m
    <3>2. step[m] = IF step[n] \in S THEN d.messages[step[n]].response ELSE step[n]
      BY <2>1, <3>1
    <3>3. \A y \in S : Resp(d)[y] = d.messages[y].response
      BY DEF Resp, Responses, Messages
    <3> QED
      BY <3>2, <3>3 DEF m
  <2> QED
    BY <2>2, <2>3 DEF Passes
<1> QED
  BY <1>8, <1>9

\* Along the predecessors a set is not left that they do not lead out of.
LEMMA FirstLeftWithin ==
  ASSUME NEW d, NEW S, S \subseteq Messages(d), NEW x, NEW T, x \in T,
         \A y \in S \cap T : Resp(d)[y] \in T
  PROVE  FirstLeft(d, S, x) \in T
<1>0. MaxMessages \in Nat
  BY ThreadsAssumption
<1>1. PICK g : Passes(g, Resp(d), S, x) /\ FirstLeft(d, S, x) = g[MaxMessages]
  BY FirstPasses
<1> DEFINE U == {n \in 0 .. MaxMessages : g[n] \in T}
<1>2. 0 \in U
  BY <1>0, <1>1 DEF Passes
<1>3. ASSUME NEW n \in 0 .. MaxMessages - 1, n \in U PROVE n + 1 \in U
  <2>1. n + 1 \in 0 .. MaxMessages
    BY <1>0
  <2>2. g[n + 1] = IF g[n] \in S THEN Resp(d)[g[n]] ELSE g[n]
    BY <1>1 DEF Passes
  <2>3. g[n + 1] \in T
    BY <1>3, <2>2
  <2> QED
    BY <2>1, <2>3
<1> HIDE DEF U
<1>4. 0 .. MaxMessages \subseteq U
  BY <1>0, <1>2, <1>3, BoundedInduction
<1>5. MaxMessages \in U
  BY <1>0, <1>4
<1> QED
  BY <1>1, <1>5 DEF U

\* A message that is not deleted is the first that is left.
LEMMA FirstLeftOutside ==
  ASSUME NEW d, NEW S, S \subseteq Messages(d), NEW x, x \notin S
  PROVE  FirstLeft(d, S, x) = x
<1> DEFINE T == {x}
<1>1. x \in T /\ \A y \in S \cap T : Resp(d)[y] \in T
  OBVIOUS
<1>2. FirstLeft(d, S, x) \in T
  <2> HIDE DEF T
  <2> QED
    BY <1>1, FirstLeftWithin
<1> QED
  BY <1>2

\* Where there is no cycle, it is left.  Otherwise two of the messages passed
\* are the same, and those between them are a cycle.
LEMMA FirstLeftLeft ==
  ASSUME NEW d, NEW S, S \subseteq Messages(d), Messages(d) \subseteq 1 .. MaxMessages,
         Acyclic(Resp(d)), NEW x
  PROVE  FirstLeft(d, S, x) \notin S
<1>0. MaxMessages \in Nat /\ MaxMessages \in 0 .. MaxMessages
  BY ThreadsAssumption
<1>1. PICK g : Passes(g, Resp(d), S, x) /\ FirstLeft(d, S, x) = g[MaxMessages]
  BY FirstPasses
<1> SUFFICES ASSUME g[MaxMessages] \in S PROVE FALSE
  BY <1>1
<1>2. \A n \in 0 .. MaxMessages : g[n] \in S
  <2> DEFINE U == {n \in 0 .. MaxMessages : g[MaxMessages - n] \in S}
  <2>1. 0 \in U
    <3>1. MaxMessages - 0 = MaxMessages /\ 0 \in 0 .. MaxMessages
      BY <1>0
    <3> QED
      BY <3>1
  <2>2. ASSUME NEW n \in 0 .. MaxMessages - 1, n \in U PROVE n + 1 \in U
    <3> DEFINE k == MaxMessages - (n + 1)
    <3>1. k \in 0 .. MaxMessages - 1 /\ k + 1 = MaxMessages - n /\ n + 1 \in 0 .. MaxMessages
      BY <1>0
    <3> HIDE DEF k
    <3>2. g[k + 1] = IF g[k] \in S THEN Resp(d)[g[k]] ELSE g[k]
      BY <1>1, <3>1 DEF Passes
    <3>3. g[k] \in S
      BY <2>2, <3>1, <3>2
    <3> QED
      BY <3>1, <3>3 DEF k
  <2> HIDE DEF U
  <2>3. 0 .. MaxMessages \subseteq U
    BY <1>0, <2>1, <2>2, BoundedInduction
  <2> TAKE n \in 0 .. MaxMessages
  <2>4. MaxMessages - n \in 0 .. MaxMessages /\ MaxMessages - (MaxMessages - n) = n
    BY <1>0
  <2> QED
    BY <2>3, <2>4 DEF U
<1>3. \E i, j \in 0 .. MaxMessages : i < j /\ g[i] = g[j]
  <2> DEFINE f == [n \in 0 .. MaxMessages |-> g[n]]
             I == 0 .. MaxMessages
             J == 1 .. MaxMessages
  <2>1. IsFiniteSet(I) /\ Cardinality(I) = MaxMessages + 1 /\ IsFiniteSet(J) /\ Cardinality(J) = MaxMessages
    BY <1>0, FS_Interval
  <2>2. f \in [I -> J]
    BY <1>2
  <2>3. Cardinality(J) < Cardinality(I)
    BY <1>0, <2>1
  <2> HIDE DEF f, I, J
  <2>4. PICK i, j \in I : i # j /\ f[i] = f[j]
    BY <2>1, <2>2, <2>3, FS_PigeonHole
  <2>5. i \in 0 .. MaxMessages /\ j \in 0 .. MaxMessages
    BY DEF I
  <2>6. g[i] = g[j]
    BY <2>4, <2>5 DEF f
  <2>7. i < j \/ j < i
    BY <1>0, <2>4, <2>5
  <2> QED
    BY <2>5, <2>6, <2>7
<1>4. PICK i, j \in 0 .. MaxMessages : i < j /\ g[i] = g[j]
  BY <1>3
<1> DEFINE T == {g[n] : n \in i .. j - 1}
<1>5. i .. j - 1 \subseteq 0 .. MaxMessages - 1 /\ i \in i .. j - 1
  BY <1>0, <1>4
<1>6. i .. j - 1 \subseteq 0 .. MaxMessages
  BY <1>0, <1>4
<1>7. T \subseteq DOMAIN Resp(d)
  BY <1>2, <1>6 DEF Resp, Responses
<1>8. g[i] \in T
  BY <1>5
<1>9. PICK y \in T : Resp(d)[y] \notin T
  BY <1>7, <1>8 DEF Acyclic
<1>10. PICK n \in i .. j - 1 : y = g[n]
  BY <1>9
<1>11. g[n + 1] = Resp(d)[g[n]]
  <2>1. g[n] \in S /\ n \in 0 .. MaxMessages - 1
    BY <1>2, <1>5, <1>6
  <2> QED
    BY <1>1, <2>1 DEF Passes
<1>12. CASE n = j - 1
  <2>1. n + 1 = j
    BY <1>12
  <2> QED
    BY <1>4, <1>8, <1>9, <1>10, <1>11, <2>1
<1>13. CASE n # j - 1
  <2>1. n + 1 \in i .. j - 1
    BY <1>13
  <2> QED
    BY <1>9, <1>10, <1>11, <2>1
<1> QED
  BY <1>12, <1>13

\* From a deleted message, the first that is left is that of its predecessor.
LEMMA FirstLeftStep ==
  ASSUME NEW d, NEW S, S \subseteq Messages(d), Messages(d) \subseteq 1 .. MaxMessages,
         Acyclic(Resp(d)), NEW x \in S
  PROVE  FirstLeft(d, S, x) = FirstLeft(d, S, Resp(d)[x])
<1>0. MaxMessages \in Nat /\ MaxMessages - 1 \in Nat
  BY ThreadsAssumption
<1>1. PICK g : Passes(g, Resp(d), S, x) /\ FirstLeft(d, S, x) = g[MaxMessages]
  BY FirstPasses
<1> DEFINE y == Resp(d)[x]
<1> HIDE DEF y
<1>2. PICK h : Passes(h, Resp(d), S, y) /\ FirstLeft(d, S, y) = h[MaxMessages]
  BY FirstPasses
<1> DEFINE U == {n \in 0 .. MaxMessages - 1 : h[n] = g[n + 1]}
<1>3. 0 \in U
  <2>1. 0 \in 0 .. MaxMessages - 1
    BY <1>0
  <2>2. h[0] = y /\ g[0] = x
    BY <1>1, <1>2 DEF Passes
  <2>3. g[0 + 1] = IF g[0] \in S THEN Resp(d)[g[0]] ELSE g[0]
    BY <1>1, <2>1 DEF Passes
  <2> QED
    BY <2>1, <2>2, <2>3 DEF y
<1>4. ASSUME NEW n \in 0 .. (MaxMessages - 1) - 1, n \in U PROVE n + 1 \in U
  <2> DEFINE m == n + 1
  <2>1. m \in 0 .. MaxMessages - 1 /\ n \in 0 .. MaxMessages - 1
    BY <1>0
  <2>2. h[n + 1] = IF h[n] \in S THEN Resp(d)[h[n]] ELSE h[n]
    BY <1>2, <2>1 DEF Passes
  <2>3. h[n] = g[m]
    BY <1>4
  <2> HIDE DEF m
  <2>4. g[m + 1] = IF g[m] \in S THEN Resp(d)[g[m]] ELSE g[m]
    BY <1>1, <2>1 DEF Passes
  <2>5. h[m] = g[m + 1]
    BY <2>2, <2>3, <2>4 DEF m
  <2> QED
    BY <2>1, <2>5 DEF m
<1> HIDE DEF U
<1>5. 0 .. MaxMessages - 1 \subseteq U
  BY <1>0, <1>3, <1>4, BoundedInduction
<1> DEFINE k == MaxMessages - 1
<1>6. k \in 0 .. MaxMessages - 1 /\ k + 1 = MaxMessages
  BY <1>0
<1> HIDE DEF k
<1>7. h[k] = g[MaxMessages]
  BY <1>5, <1>6 DEF U
<1>8. h[MaxMessages] = IF h[k] \in S THEN Resp(d)[h[k]] ELSE h[k]
  BY <1>2, <1>6 DEF Passes
<1>9. g[MaxMessages] \notin S
  BY <1>1, FirstLeftLeft
<1> QED
  BY <1>1, <1>2, <1>7, <1>8, <1>9 DEF y

\* The predecessor of every message is a message of the store.
Linked(r) == \A y \in DOMAIN r : r[y] \in DOMAIN r \cup {0}

\* What is left of r when S is removed.
Relinked(f, d, S) ==
  /\ DOMAIN f = Messages(d) \ S
  /\ \A y \in Messages(d) \ S : f[y] = FirstLeft(d, S, Resp(d)[y])

\* deleteMessages brings no cycle about.
LEMMA RelinkedAcyclic ==
  ASSUME NEW d, NEW S, S \subseteq Messages(d), Messages(d) \subseteq 1 .. MaxMessages,
         Acyclic(Resp(d)), NEW f, Relinked(f, d, S)
  PROVE  Acyclic(f)
<1> DEFINE r == Resp(d)
           FL(x) == FirstLeft(d, S, x)
<1>0. DOMAIN r = Messages(d)
  BY DEF Resp, Responses
<1>1. \A x \in S : FL(x) = FL(r[x])
  BY FirstLeftStep
<1>2. \A x : x \notin S => FL(x) = x
  BY FirstLeftOutside
<1> SUFFICES ASSUME NEW T \in SUBSET (Messages(d) \ S), T # {}
             PROVE  \E y \in T : f[y] \notin T
  BY DEF Acyclic, Relinked
<1>3. \A y \in T : f[y] = FL(r[y])
  BY DEF Relinked
<1> DEFINE U == T \cup {s \in S : FL(s) \in T}
<1>4. U \in SUBSET DOMAIN r /\ U # {}
  BY <1>0
<1> HIDE DEF FL, r
<1>5. PICK y \in U : r[y] \notin U
  BY <1>4 DEF Acyclic, r
<1>6. FL(r[y]) \notin T
  <2>1. CASE r[y] \in S
    BY <1>5, <2>1
  <2>2. CASE r[y] \notin S
    BY <1>2, <1>5, <2>2
  <2> QED
    BY <2>1, <2>2
<1>7. CASE y \in T
  BY <1>3, <1>6, <1>7
<1>8. CASE y \in S /\ FL(y) \in T
  BY <1>1, <1>6, <1>8
<1> QED
  BY <1>5, <1>7, <1>8

\* deleteMessages leaves no predecessor that is gone.
LEMMA RelinkedLinked ==
  ASSUME NEW d, NEW S, S \subseteq Messages(d), Messages(d) \subseteq 1 .. MaxMessages,
         Acyclic(Resp(d)), Linked(Resp(d)), NEW f, Relinked(f, d, S)
  PROVE  Linked(f)
<1> SUFFICES ASSUME NEW y \in Messages(d) \ S
             PROVE  f[y] \in (Messages(d) \ S) \cup {0}
  BY DEF Linked, Relinked
<1> DEFINE T == Messages(d) \cup {0}
           x == Resp(d)[y]
<1>0. DOMAIN Resp(d) = Messages(d)
  BY DEF Resp, Responses
<1>1. x \in T /\ \A z \in S \cap T : Resp(d)[z] \in T
  BY <1>0 DEF Linked
<1>2. f[y] = FirstLeft(d, S, x)
  BY DEF Relinked
<1> HIDE DEF T, x
<1>3. FirstLeft(d, S, x) \in T
  BY <1>1, FirstLeftWithin
<1>4. FirstLeft(d, S, x) \notin S
  BY FirstLeftLeft
<1> QED
  BY <1>2, <1>3, <1>4 DEF T

\* The messages left have the ancestors they had, without what is gone.
LEMMA RelinkedChains ==
  ASSUME NEW d, NEW S, S \subseteq Messages(d), Messages(d) \subseteq 1 .. MaxMessages,
         Acyclic(Resp(d)), Linked(Resp(d)), NEW f, Relinked(f, d, S), NEW m \in Messages(d) \ S
  PROVE  Chain(f, m) = Chain(Resp(d), m) \cap (Messages(d) \ S)
<1> DEFINE r == Resp(d)
           L == Messages(d) \ S
           FL(x) == FirstLeft(d, S, x)
<1>0. DOMAIN r = Messages(d) /\ 0 \notin Messages(d) /\ DOMAIN r \subseteq 1 .. MaxMessages
  BY ThreadsAssumption DEF Resp, Responses
<1>1. \A x \in S : FL(x) = FL(r[x])
  BY FirstLeftStep
<1>2. \A x : x \notin S => FL(x) = x
  BY FirstLeftOutside
<1>3. \A x : FL(x) \notin S
  BY FirstLeftLeft
<1>4. DOMAIN f = L /\ \A y \in L : f[y] = FL(r[y])
  BY DEF Relinked
<1>5. Chain(r, m) \subseteq Messages(d)
  <2> DEFINE T == Messages(d) \cup {0}
  <2>1. m \in T /\ \A y \in T \cap DOMAIN r : r[y] \in T
    BY <1>0 DEF Linked
  <2>2. Chain(r, m) \subseteq T
    <3> HIDE DEF T, r
    <3> QED
      BY <2>1, ChainLeast
  <2> QED
    BY <2>2, ChainWithoutZero
<1>6. \A y \in Chain(r, m) \cap DOMAIN r : r[y] \in Chain(r, m) \cup {0}
  <2> HIDE DEF r
  <2> QED
    BY <1>0, ChainClosed
<1>7. m \in Chain(r, m) /\ m \in Chain(f, m)
  BY <1>0, ChainStart
<1>8. \A x \in Chain(r, m) \cup {0} : FL(x) \in Chain(r, m) \cup {0}
  <2> TAKE x \in Chain(r, m) \cup {0}
  <2> DEFINE T == Chain(r, m) \cup {0}
  <2>1. x \in T /\ \A y \in S \cap T : Resp(d)[y] \in T
    BY <1>0, <1>6
  <2>2. FirstLeft(d, S, x) \in T
    <3> HIDE DEF T
    <3> QED
      BY <2>1, FirstLeftWithin
  <2> QED
    BY <2>2
<1>9. Chain(f, m) \subseteq (Chain(r, m) \cap L) \cup {0}
  <2> DEFINE T == (Chain(r, m) \cap L) \cup {0}
  <2>1. m \in T
    BY <1>7
  <2>2. ASSUME NEW y \in T \cap DOMAIN f PROVE f[y] \in T
    <3> HIDE DEF r, FL
    <3>1. y \in Chain(r, m) \cap DOMAIN r /\ y \in L
      BY <1>0, <1>4, <2>2
    <3>2. r[y] \in Chain(r, m) \cup {0}
      BY <1>6, <3>1
    <3>3. f[y] \in Chain(r, m) \cup {0} /\ f[y] \notin S
      BY <1>3, <1>4, <1>8, <3>1, <3>2
    <3> QED
      BY <1>5, <3>3
  <2> HIDE DEF T
  <2>3. Chain(f, m) \subseteq T
    BY <2>1, <2>2, ChainLeast
  <2> QED
    BY <2>3 DEF T
<1>10. Chain(r, m) \subseteq {y \in Messages(d) \cup {0} : FL(y) \in Chain(f, m) \cup {0}}
  <2> DEFINE T == {y \in Messages(d) \cup {0} : FL(y) \in Chain(f, m) \cup {0}}
  <2>1. m \in T
    BY <1>2, <1>7
  <2>2. ASSUME NEW y \in T \cap DOMAIN r PROVE r[y] \in T
    <3>1. r[y] \in Messages(d) \cup {0}
      BY <1>0 DEF Linked
    <3>2. CASE y \in S
      BY <1>1, <3>1, <3>2
    <3>3. CASE y \notin S
      <4>1. y \in Chain(f, m) \cap DOMAIN f
        BY <1>0, <1>2, <1>4, <3>3
      <4>2. f[y] \in Chain(f, m) \cup {0}
        <5>1. DOMAIN f \subseteq 1 .. MaxMessages
          BY <1>4
        <5> QED
          BY <4>1, <5>1, ChainClosed
      <4>3. f[y] = FL(r[y])
        BY <1>4, <4>1
      <4> QED
        BY <3>1, <4>2, <4>3
    <3> QED
      BY <3>2, <3>3
  <2> HIDE DEF T, r
  <2>3. Chain(r, m) \subseteq T
    BY <2>1, <2>2, ChainLeast
  <2> QED
    BY <2>3 DEF T
<1>11. Chain(r, m) \cap L \subseteq Chain(f, m)
  <2> SUFFICES ASSUME NEW y \in Chain(r, m) \cap L PROVE y \in Chain(f, m)
    OBVIOUS
  <2>1. FL(y) \in Chain(f, m) \cup {0}
    BY <1>10
  <2>2. FL(y) = y /\ y # 0
    BY <1>0, <1>2
  <2> HIDE DEF FL
  <2> QED
    BY <2>1, <2>2
<1> QED
  BY <1>9, <1>11, ChainWithoutZero

-----------------------------------------------------------------------------
(* The parts of the operations *)

\* A row of mailmessages with the identifier, and the columns of the database.
Row == [account : Accounts, folder : Folders, read : BOOLEAN, hidden : BOOLEAN,
        mail : Headers, identifier : Nat, thread : Nat, response : Nat]

Fields == {"messages", "threads", "missing", "waiting", "subjects", "about",
           "lastMessage", "lastThread", "failed"}

Table(d) == DOMAIN d = Fields /\ d.messages \in [Messages(d) -> Row]

\* e has the messages of d; what says of them is not changed.
Kept(d, e) ==
  /\ Table(e) /\ Messages(e) = Messages(d)
  /\ \A m \in Messages(d) : /\ e.messages[m].account = d.messages[m].account
                            /\ e.messages[m].mail = d.messages[m].mail
  /\ e.lastMessage = d.lastMessage

\* What a change from d to e leaves.
SameIdentifiers(d, e) == \A m \in Messages(d) : e.messages[m].identifier = d.messages[m].identifier

SameResponses(d, e) == \A m \in Messages(d) : e.messages[m].response = d.messages[m].response

\* The threads of the messages, and those of the thread table.
SameThreads(d, e) ==
  /\ \A m \in Messages(d) : e.messages[m].thread = d.messages[m].thread
  /\ DOMAIN e.threads = DOMAIN d.threads

\* The messages in S have the predecessor id, those in the threads T thread into.
Answers(d, e, S, id) ==
  \A m \in Messages(d) : e.messages[m].response = IF m \in S THEN id ELSE d.messages[m].response

Moved(d, e, T, into) ==
  \A m \in Messages(d) :
    e.messages[m].thread = IF d.messages[m].thread \in T THEN into ELSE d.messages[m].thread

\* The threads T are gone, or gone if they have no messages.
ThreadsLess(d, e, T) == DOMAIN e.threads = DOMAIN d.threads \ T
EmptyLess(d, e) == \E T : DOMAIN e.threads = DOMAIN d.threads \ {t \in T : InThread(d, t) = {}}
ThreadsMore(d, e) == DOMAIN e.threads = DOMAIN d.threads \cup {d.lastThread + 1}

\* What an update of responseid changes and what it leaves.
LEMMA RespondParts ==
  ASSUME NEW d, Table(d), NEW S, NEW id \in Nat
  PROVE  LET e == Respond(d, S, id)
         IN /\ Kept(d, e) /\ SameIdentifiers(d, e) /\ SameThreads(d, e)
            /\ e.missing = d.missing /\ e.lastThread = d.lastThread /\ e.subjects = d.subjects
            /\ Answers(d, e, S, id)
<1> DEFINE e == Respond(d, S, id)
           f == [m \in Messages(d) |-> IF m \in S THEN [d.messages[m] EXCEPT !.response = id] ELSE d.messages[m]]
<1>1. f \in [Messages(d) -> Row]
  BY DEF Table, Row
<1>2. /\ DOMAIN e = Fields /\ e.messages = f /\ e.threads = d.threads /\ e.missing = d.missing
      /\ e.lastMessage = d.lastMessage /\ e.lastThread = d.lastThread /\ e.subjects = d.subjects
  BY DEF Respond, Table, Fields, Messages
<1>3. \A m \in Messages(d) : d.messages[m] \in Row
  BY DEF Table
<1>4. \A m \in Messages(d) :
        /\ f[m].account = d.messages[m].account /\ f[m].mail = d.messages[m].mail
        /\ f[m].identifier = d.messages[m].identifier /\ f[m].thread = d.messages[m].thread
        /\ f[m].response = IF m \in S THEN id ELSE d.messages[m].response
  BY <1>3 DEF Row
<1>5. DOMAIN f = Messages(d)
  OBVIOUS
<1> HIDE DEF e, f
<1> QED
  BY <1>1, <1>2, <1>4, <1>5 DEF Kept, Table, Messages, SameIdentifiers, SameThreads, Answers, e

\* What a merge of threads changes and what it leaves.
LEMMA MergeParts ==
  ASSUME NEW d, Table(d), NEW S, NEW into \in Nat, NEW t
  PROVE  LET e == MergeThreads(d, S, into, t)
         IN /\ Kept(d, e) /\ SameIdentifiers(d, e) /\ SameResponses(d, e)
            /\ e.missing = d.missing /\ e.lastThread = d.lastThread /\ e.subjects = d.subjects
            /\ Moved(d, e, S, into) /\ ThreadsLess(d, e, S)
<1> DEFINE e == MergeThreads(d, S, into, t)
           f == [m \in Messages(d) |-> IF d.messages[m].thread \in S
                                       THEN [d.messages[m] EXCEPT !.thread = into] ELSE d.messages[m]]
<1>1. f \in [Messages(d) -> Row]
  BY DEF Table, Row
<1>2. /\ DOMAIN e = Fields /\ e.messages = f /\ e.missing = d.missing
      /\ e.lastMessage = d.lastMessage /\ e.lastThread = d.lastThread /\ e.subjects = d.subjects
  BY DEF MergeThreads, Table, Fields, Messages
<1>3. DOMAIN e.threads = DOMAIN d.threads \ S
  BY DEF MergeThreads, Table, Fields, Without
<1>4. \A m \in Messages(d) : d.messages[m] \in Row
  BY DEF Table
<1>5. \A m \in Messages(d) :
        /\ f[m].account = d.messages[m].account /\ f[m].mail = d.messages[m].mail
        /\ f[m].identifier = d.messages[m].identifier /\ f[m].response = d.messages[m].response
        /\ f[m].thread = IF d.messages[m].thread \in S THEN into ELSE d.messages[m].thread
  BY <1>4 DEF Row
<1>6. DOMAIN f = Messages(d)
  OBVIOUS
<1> HIDE DEF e, f
<1> QED
  BY <1>1, <1>2, <1>3, <1>5, <1>6 DEF Kept, Table, Messages, SameIdentifiers, SameResponses, Moved, ThreadsLess, e

\* What else the operations on thread rows and subjects change is not about messages.
Beside(d, e) ==
  /\ DOMAIN e = Fields /\ e.messages = d.messages /\ e.missing = d.missing
  /\ e.lastMessage = d.lastMessage

\* registerSubject changes only what is kept about subjects.
LEMMA RegisterParts ==
  ASSUME NEW d, Table(d), NEW id, NEW md, NEW unknown
  PROVE  LET e == RegisterSubject(d, id, md, unknown)
         IN /\ Beside(d, e) /\ e.lastThread = d.lastThread /\ e.threads = d.threads
            /\ md.mail.subject = NoSubject => e.subjects = d.subjects
BY DEF RegisterSubject, Table, Fields, Beside

\* recalculateThreadsColumns changes threads only, and deletes empty ones.
LEMMA RecalculateParts ==
  ASSUME NEW d, Table(d), NEW S
  PROVE  LET e == RecalculateThreads(d, S)
         IN /\ Beside(d, e) /\ e.lastThread = d.lastThread /\ e.subjects = d.subjects
            /\ EmptyLess(d, e)
BY DEF RecalculateThreads, Table, Fields, Beside, EmptyLess

\* A new thread changes nothing else.
LEMMA AddThreadParts ==
  ASSUME NEW d, Table(d), NEW md, NEW n, NEW u
  PROVE  LET e == AddThread(d, md, n, u)
         IN /\ Beside(d, e) /\ e.lastThread = d.lastThread + 1 /\ e.subjects = d.subjects
            /\ ThreadsMore(d, e)
BY DEF AddThread, Table, Fields, Beside, ThreadsMore, With

\* updateThreadsValues changes the counts of threads only.
LEMMA AddUnreadParts ==
  ASSUME NEW d, Table(d), NEW t, NEW n
  PROVE  LET e == AddUnread(d, t, n)
         IN /\ Beside(d, e) /\ e.lastThread = d.lastThread /\ e.subjects = d.subjects
            /\ DOMAIN e.threads = DOMAIN d.threads
BY DEF AddUnread, Table, Fields, Beside

\* attemptAddMessage makes a thread for a message that has none, and only then.
LEMMA JoinParts ==
  ASSUME NEW d, Table(d), NEW md
  PROVE  LET e == JoinThread(d, md)
         IN /\ Beside(d, e) /\ e.subjects = d.subjects
            /\ IF md.thread = 0
               THEN e.lastThread = d.lastThread + 1 /\ ThreadsMore(d, e)
               ELSE e.lastThread = d.lastThread /\ DOMAIN e.threads = DOMAIN d.threads
<1>1. CASE md.thread = 0
  BY <1>1, AddThreadParts DEF JoinThread
<1>2. CASE md.thread # 0
  BY <1>2 DEF JoinThread, Table, Fields, Beside
<1> QED
  BY <1>1, <1>2

\* The counts after an update: empty threads may be deleted.
LEMMA CountParts ==
  ASSUME NEW d, Table(d), NEW old, NEW md
  PROVE  LET e == CountUpdate(d, old, md)
         IN Beside(d, e) /\ e.lastThread = d.lastThread /\ e.subjects = d.subjects /\ EmptyLess(d, e)
<1> DEFINE e == CountUpdate(d, old, md)
<1>1. \/ e = RecalculateThreads(d, {md.thread})
      \/ e = AddUnread(d, md.thread, One(old.read) - One(md.read))
  BY DEF CountUpdate
<1> HIDE DEF e
<1> SUFFICES Beside(d, e) /\ e.lastThread = d.lastThread /\ e.subjects = d.subjects /\ EmptyLess(d, e)
  BY DEF e
<1>2. CASE e = RecalculateThreads(d, {md.thread})
  BY <1>2, RecalculateParts
<1>3. CASE e = AddUnread(d, md.thread, One(old.read) - One(md.read))
  <2> DEFINE T == {}
  <2>1. {t \in T : InThread(d, t) = {}} = {}
    OBVIOUS
  <2> HIDE DEF T
  <2>2. Beside(d, e) /\ e.lastThread = d.lastThread /\ e.subjects = d.subjects /\ DOMAIN e.threads = DOMAIN d.threads
    BY <1>3, AddUnreadParts
  <2>3. DOMAIN e.threads = DOMAIN d.threads \ {t \in T : InThread(d, t) = {}}
    BY <2>1, <2>2
  <2> QED
    BY <2>2, <2>3 DEF EmptyLess
<1> QED
  BY <1>1, <1>2, <1>3

\* The waits for an identifier in the account of a message.
Asks(d, md, identifier) ==
  {w \in d.missing : w.identifier = identifier /\ d.messages[w.id].account = md.account}

\* The messages that get the predecessor id in resolveMissingMessages.
Called(d, c, id, md, identifier) ==
  IF identifier = 0 THEN {}
  ELSE NotBefore(d, c, md, {w.id : w \in Asks(d, md, identifier)}) \ {id}

\* The threads that are merged into that of the new message.
OldThreads(d, S, md) == {d.messages[m].thread : m \in S} \ {md.thread}

\* What waits is a message of the store.
MissingKnown(d) == \A w \in d.missing : w.id \in Messages(d) /\ w.level \in Int

\* What resolveMissingMessages calls has asked for the identifier.
LEMMA CalledAsks ==
  ASSUME NEW d, MissingKnown(d), NEW c, NEW id, NEW md, NEW identifier
  PROVE  /\ Called(d, c, id, md, identifier) \subseteq Messages(d) \ {id}
         /\ Called(d, c, id, md, identifier) \subseteq {w.id : w \in Asks(d, md, identifier)}
BY DEF Called, NotBefore, MissingKnown, Asks

\* What still asks in e for the identifier is none of S.
AskedOutside(d, md, identifier, e, S) ==
  \A w \in Asks(d, md, identifier) \cap e.missing : w.id \notin S

\* resolveMissingMessages by identifier: predecessors, threads and what is missing.
LEMMA ResolveReferencesParts ==
  ASSUME NEW d, Table(d), MissingKnown(d), NEW c, NEW id \in Messages(d), id \in Nat, NEW md, NEW identifier
  PROVE  LET e == ResolveReferences(d, c, id, md, identifier)
             S == Called(d, c, id, md, identifier)
             old == OldThreads(d, S, md)
         IN /\ Kept(d, e) /\ SameIdentifiers(d, e) /\ e.lastThread = d.lastThread /\ e.subjects = d.subjects
            /\ e.missing \subseteq d.missing
            /\ identifier # 0 => AskedOutside(d, md, identifier, e, S)
            /\ Answers(d, e, S, id) /\ Moved(d, e, old, d.messages[id].thread)
            /\ ThreadsLess(d, e, old)
<1> DEFINE e == ResolveReferences(d, c, id, md, identifier)
           S == Called(d, c, id, md, identifier)
           old == OldThreads(d, S, md)
           asks == Asks(d, md, identifier)
           b == Respond(d, S, id)
           X == {w \in b.missing : \A v \in asks : v.id \in S /\ v.id = w.id => w.level < v.level}
           a == [b EXCEPT !.missing = X]
           S0 == NotBefore(d, c, md, {w.id : w \in asks}) \ {id}
           Asked(T) == [Respond(d, T, id) EXCEPT
                          !.missing = {w \in @ : \A v \in asks : v.id \in T /\ v.id = w.id => w.level < v.level}]
<1>a. e = IF identifier = 0 \/ S0 = {} THEN d
          ELSE IF OldThreads(d, S0, md) = {} THEN Asked(S0)
          ELSE MergeThreads(Asked(S0), OldThreads(d, S0, md), Asked(S0).messages[id].thread, md.thread)
  BY DEF ResolveReferences, OldThreads, Asks
<1>b. S = IF identifier = 0 THEN {} ELSE S0
  BY DEF Called
<1>1. e = IF identifier = 0 \/ S = {} THEN d
          ELSE IF old = {} THEN a ELSE MergeThreads(a, old, a.messages[id].thread, md.thread)
  <2>1. CASE identifier = 0
    BY <1>a, <2>1
  <2>2. CASE identifier # 0
    <3>1. S = S0 /\ a = Asked(S)
      BY <1>b, <2>2
    <3> HIDE DEF e, S, S0, Asked, a, old
    <3> QED
      BY <1>a, <2>2, <3>1 DEF old
  <2> QED
    BY <2>1, <2>2
<1>2. S \subseteq Messages(d)
  BY CalledAsks
<1>3. identifier = 0 => S = {}
  BY DEF Called
<1>4. S = {} => old = {}
  BY DEF OldThreads
<1> HIDE DEF S, old
<1>5. /\ Kept(d, b) /\ SameIdentifiers(d, b) /\ SameThreads(d, b)
      /\ b.missing = d.missing /\ b.lastThread = d.lastThread /\ b.subjects = d.subjects
      /\ Answers(d, b, S, id)
  BY RespondParts
<1> HIDE DEF b
<1>6. /\ DOMAIN a = Fields /\ a.messages = b.messages /\ a.threads = b.threads /\ a.missing = X
      /\ a.lastThread = b.lastThread /\ a.subjects = b.subjects /\ a.lastMessage = b.lastMessage
  BY <1>5 DEF Kept, Table, Fields
<1>7. \A w \in asks \cap X : w.id \notin S
  <2>1. \A w \in asks : w.level \in Int
    BY DEF Asks, MissingKnown
  <2>2. \A w \in asks : ~(w.level < w.level)
    BY <2>1
  <2> QED
    BY <2>2
<1>8. X \subseteq d.missing
  BY <1>5
<1> HIDE DEF X, a
<1>9. /\ Kept(d, a) /\ SameIdentifiers(d, a) /\ SameThreads(d, a) /\ Table(a) /\ Messages(a) = Messages(d)
      /\ Answers(d, a, S, id)
  BY <1>5, <1>6 DEF Kept, SameIdentifiers, SameThreads, Answers, Table, Messages
<1> HIDE DEF asks, e
<1> SUFFICES /\ Kept(d, e) /\ SameIdentifiers(d, e) /\ e.lastThread = d.lastThread /\ e.subjects = d.subjects
             /\ e.missing \subseteq d.missing
             /\ identifier # 0 => AskedOutside(d, md, identifier, e, S)
             /\ Answers(d, e, S, id) /\ Moved(d, e, old, d.messages[id].thread)
             /\ ThreadsLess(d, e, old)
  BY DEF e, asks, S, old
<1>10. CASE identifier = 0 \/ S = {}
  <2>1. e = d /\ S = {} /\ old = {}
    BY <1>1, <1>3, <1>4, <1>10
  <2> QED
    BY <2>1 DEF Kept, SameIdentifiers, Answers, Moved, ThreadsLess, AskedOutside
<1>11. CASE identifier # 0 /\ S # {} /\ old = {}
  <2>1. e = a
    BY <1>1, <1>11
  <2> QED
    BY <1>5, <1>6, <1>7, <1>8, <1>9, <1>11, <2>1 DEF SameThreads, Moved, ThreadsLess, AskedOutside, asks
<1>12. CASE identifier # 0 /\ S # {} /\ old # {}
  <2> DEFINE t == a.messages[id].thread
  <2>1. e = MergeThreads(a, old, t, md.thread)
    BY <1>1, <1>12
  <2>2. t = d.messages[id].thread /\ t \in Nat
    <3>1. a.messages[id] \in Row
      BY <1>9 DEF Table
    <3> QED
      BY <1>9, <3>1 DEF SameThreads, Row
  <2> HIDE DEF t
  <2>a. Table(a)
    BY <1>9
  <2>3. /\ Kept(a, e) /\ SameIdentifiers(a, e) /\ SameResponses(a, e)
        /\ e.missing = a.missing /\ e.lastThread = a.lastThread /\ e.subjects = a.subjects
        /\ Moved(a, e, old, t) /\ ThreadsLess(a, e, old)
    BY <2>1, <2>2, <2>a, MergeParts
  <2>4. Kept(d, e)
    BY <1>9, <2>3 DEF Kept
  <2>5. SameIdentifiers(d, e)
    BY <1>9, <2>3 DEF SameIdentifiers
  <2>6. Answers(d, e, S, id) /\ Moved(d, e, old, d.messages[id].thread)
    BY <1>9, <2>2, <2>3 DEF SameResponses, SameThreads, Answers, Moved
  <2>7. ThreadsLess(d, e, old)
    BY <1>9, <2>3 DEF SameThreads, ThreadsLess
  <2> QED
    BY <1>5, <1>6, <1>7, <1>8, <2>3, <2>4, <2>5, <2>6, <2>7 DEF AskedOutside, asks
<1> QED
  BY <1>10, <1>11, <1>12

\* The messages that get the predecessor id by their subject.
SubjectCalled(d, c, id, md) ==
  LET stamp(m) == d.messages[m].mail.stamp
      waits == {w.id : w \in {v \in d.waiting : v.subject \in SubjectId(d, md.mail.subject)}}
      later == {m \in waits \cap Messages(d) :
                  /\ stamp(m) > stamp(id)
                  /\ LET r == d.messages[m].response
                     IN r = 0 \/ (r \in Messages(d) /\ stamp(id) > stamp(r))}
  IN IF md.mail.subject = NoSubject THEN {} ELSE NotBefore(d, c, md, later) \ {id}

\* What resolveMissingMessages calls by subject has a later stamp.
LEMMA SubjectCalledLater ==
  ASSUME NEW d, NEW c, NEW id, NEW md, NEW m \in SubjectCalled(d, c, id, md)
  PROVE  /\ m \in Messages(d) \ {id}
         /\ d.messages[m].mail.stamp > d.messages[id].mail.stamp
BY DEF SubjectCalled, NotBefore

\* resolveMissingMessages by subject: predecessors, and no threads.
LEMMA ResolveSubjectParts ==
  ASSUME NEW d, Table(d), NEW c, NEW id \in Nat, NEW md
  PROVE  LET e == ResolveSubject(d, c, id, md)
             S == SubjectCalled(d, c, id, md)
         IN /\ Kept(d, e) /\ SameIdentifiers(d, e) /\ SameThreads(d, e)
            /\ e.missing = d.missing /\ e.lastThread = d.lastThread /\ e.subjects = d.subjects
            /\ Answers(d, e, S, id)
<1> DEFINE e == ResolveSubject(d, c, id, md)
           S == SubjectCalled(d, c, id, md)
           b == Respond(d, S, id)
           X == {IF w.id \in S THEN [w EXCEPT !.found = TRUE] ELSE w : w \in b.waiting}
           a == [b EXCEPT !.waiting = X]
<1>1. md.mail.subject # NoSubject => e = a
  BY DEF ResolveSubject, SubjectCalled
<1>2. md.mail.subject = NoSubject => e = d /\ S = {}
  BY DEF ResolveSubject, SubjectCalled
<1> HIDE DEF S
<1>3. /\ Kept(d, b) /\ SameIdentifiers(d, b) /\ SameThreads(d, b)
      /\ b.missing = d.missing /\ b.lastThread = d.lastThread /\ b.subjects = d.subjects
      /\ Answers(d, b, S, id)
  BY RespondParts
<1> HIDE DEF b, X
<1>4. /\ DOMAIN a = Fields /\ a.messages = b.messages /\ a.threads = b.threads /\ a.missing = b.missing
      /\ a.lastThread = b.lastThread /\ a.subjects = b.subjects /\ a.lastMessage = b.lastMessage
  BY <1>3 DEF Kept, Table, Fields
<1> HIDE DEF e, a
<1> SUFFICES /\ Kept(d, e) /\ SameIdentifiers(d, e) /\ SameThreads(d, e)
             /\ e.missing = d.missing /\ e.lastThread = d.lastThread /\ e.subjects = d.subjects
             /\ Answers(d, e, S, id)
  BY DEF e, S
<1>5. CASE md.mail.subject = NoSubject
  BY <1>2, <1>5 DEF Kept, SameIdentifiers, SameThreads, Answers
<1>6. CASE md.mail.subject # NoSubject
  <2>1. e = a
    BY <1>1, <1>6
  <2> QED
    BY <1>3, <1>4, <2>1 DEF Kept, SameIdentifiers, SameThreads, Answers, Table, Messages
<1> QED
  BY <1>5, <1>6

-----------------------------------------------------------------------------
(* The predecessor of a message *)

\* Without a cache, metadata comes from the table.
Uncached(c) == CacheSize = 0 /\ DOMAIN c = {}

\* Without a cache, metadata come from the tables.
LEMMA UncachedReads ==
  ASSUME NEW d, NEW c, Uncached(c), NEW m
  PROVE  Metadata(d, c, m) = d.messages[m] /\ Looked(d, c, m) = c
<1>1. Cardinality(DOMAIN c) = 0
  BY FS_EmptySet DEF Uncached
<1> QED
  BY <1>1 DEF Metadata, Looked, Uncached

\* A list without its duplicates has elements of the list.
LEMMA NoDuplicatesOf ==
  ASSUME NEW V, NEW s \in Seq(V)
  PROVE  NoDuplicates(s) \in Seq(V)
<1> DEFINE N == Len(s)
           F == [n \in 0 .. N |-> [v \in Seq(V) |-> IF s[n] \in Range(v) THEN v ELSE Append(v, s[n])]]
           Q(g) == g = [n \in 0 .. N |->
                          IF n = 0 THEN <<>>
                          ELSE IF s[n] \in Range(g[n-1]) THEN g[n-1] ELSE Append(g[n-1], s[n])]
           kept == CHOOSE g : Q(g)
<1>0. N \in Nat /\ 0 \in 0 .. N /\ N \in 0 .. N /\ <<>> \in Seq(V)
  OBVIOUS
<1>a. \A n \in 1 .. N : s[n] \in V
  OBVIOUS
<1>b. \A n \in 1 .. N, v \in Seq(V) : F[n][v] = (IF s[n] \in Range(v) THEN v ELSE Append(v, s[n])) /\ F[n][v] \in Seq(V)
  <2> TAKE n \in 1 .. N, v \in Seq(V)
  <2>1. s[n] \in V /\ n \in 0 .. N
    BY <1>a
  <2>2. Append(v, s[n]) \in Seq(V)
    BY <2>1
  <2>3. F[n][v] = IF s[n] \in Range(v) THEN v ELSE Append(v, s[n])
    BY <2>1
  <2> HIDE DEF F
  <2> QED
    BY <2>2, <2>3
<1> HIDE DEF F, N
<1>1. PICK g : Iterates(g, N, F, <<>>)
  BY <1>0, IteratesExist
<1>2. \A n \in 0 .. N : g[n] = IF n = 0 THEN <<>> ELSE F[n][g[n - 1]]
  BY <1>1 DEF Iterates
<1>3. DOMAIN g = 0 .. N /\ g = [n \in DOMAIN g |-> g[n]]
  BY <1>1 DEF Iterates
<1>4. \A n \in 0 .. N : g[n] \in Seq(V)
  <2> DEFINE T == {n \in 0 .. N : g[n] \in Seq(V)}
  <2>1. 0 \in T
    <3>1. g[0] = <<>>
      BY <1>0, <1>2
    <3> QED
      BY <1>0, <3>1
  <2>2. ASSUME NEW n \in 0 .. N - 1, n \in T PROVE n + 1 \in T
    <3> DEFINE m == n + 1
    <3>1. m \in 1 .. N /\ m \in 0 .. N /\ m # 0 /\ m - 1 = n
      BY <1>0
    <3> HIDE DEF m
    <3>2. g[m] = F[m][g[n]]
      BY <1>2, <3>1
    <3>3. g[n] \in Seq(V)
      BY <2>2
    <3>4. F[m][g[n]] \in Seq(V)
      BY <1>b, <3>1, <3>3
    <3> QED
      BY <3>1, <3>2, <3>4 DEF m
  <2> HIDE DEF T
  <2>3. 0 .. N \subseteq T
    BY <1>0, <2>1, <2>2, BoundedInduction
  <2> QED
    BY <2>3 DEF T
<1>5. \A n \in 0 .. N :
        g[n] = IF n = 0 THEN <<>> ELSE IF s[n] \in Range(g[n-1]) THEN g[n-1] ELSE Append(g[n-1], s[n])
  <2> TAKE n \in 0 .. N
  <2>1. CASE n = 0
    BY <1>2, <2>1
  <2>2. CASE n # 0
    <3>1. n \in 1 .. N /\ n - 1 \in 0 .. N
      BY <1>0, <2>2
    <3>2. g[n - 1] \in Seq(V)
      BY <1>4, <3>1
    <3>3. g[n] = F[n][g[n - 1]]
      BY <1>2, <2>2
    <3> QED
      BY <1>b, <2>2, <3>1, <3>2, <3>3
  <2> QED
    BY <2>1, <2>2
<1>6. Q(g)
  BY <1>3, <1>5
<1>7. NoDuplicates(s) = kept[N]
  BY DEF NoDuplicates, N
<1> HIDE DEF Q
<1>8. Q(kept)
  BY <1>6
<1> HIDE DEF kept
<1>9. \A n \in 0 .. N :
        kept[n] = IF n = 0 THEN <<>> ELSE IF s[n] \in Range(kept[n-1]) THEN kept[n-1] ELSE Append(kept[n-1], s[n])
  BY <1>8 DEF Q
<1> DEFINE T == {n \in 0 .. N : kept[n] \in Seq(V)}
<1>10. 0 \in T
  <2>1. kept[0] = <<>>
    BY <1>0, <1>9
  <2> QED
    BY <1>0, <2>1
<1>11. ASSUME NEW n \in 0 .. N - 1, n \in T PROVE n + 1 \in T
  <2> DEFINE m == n + 1
  <2>1. m \in 1 .. N /\ m \in 0 .. N /\ m # 0 /\ m - 1 = n
    BY <1>0
  <2> HIDE DEF m
  <2>2. kept[m] = IF s[m] \in Range(kept[n]) THEN kept[n] ELSE Append(kept[n], s[m])
    BY <1>9, <2>1
  <2>3. kept[n] \in Seq(V) /\ s[m] \in V
    BY <1>11, <1>a, <2>1
  <2>4. Append(kept[n], s[m]) \in Seq(V)
    BY <2>3
  <2>5. kept[m] \in Seq(V)
    BY <2>2, <2>3, <2>4
  <2> QED
    BY <2>1, <2>5 DEF m
<1> HIDE DEF T
<1>12. 0 .. N \subseteq T
  BY <1>0, <1>10, <1>11, BoundedInduction
<1> QED
  BY <1>0, <1>7, <1>12 DEF T

\* A maximum of positions of a sequence is one of them.
LEMMA MaxPosition ==
  ASSUME NEW N \in Nat, NEW T, T \subseteq 0 .. N, T # {}
  PROVE  Max(T) \in T
<1> DEFINE U == {N - k : k \in T}
<1>1. U \subseteq Nat /\ U # {}
  <2>1. \A k \in T : N - k \in Nat
    OBVIOUS
  <2> QED
    BY <2>1
<1>2. PICK n \in U : \A k \in U : n <= k
  BY <1>1, LeastNatural
<1>3. PICK m \in T : n = N - m
  BY <1>2
<1>4. \A k \in T : m >= k
  <2> TAKE k \in T
  <2>1. N - m <= N - k /\ k \in 0 .. N /\ m \in 0 .. N
    BY <1>2, <1>3
  <2> QED
    BY <2>1
<1> QED
  BY <1>4 DEF Max

\* What MessagePredecessor may choose.
Precedes(d, id, md, refs, p) ==
  /\ p \in Messages(d) /\ d.messages[p].account = md.account
  /\ (\E k \in DOMAIN refs : d.messages[p].identifier = refs[k]) \/ p \in BySubject(d, id, md)
  /\ id # 0 => \E T : /\ d.messages[p].thread \in T
                      /\ id \notin Chain(Responses(d, {m \in Messages(d) : /\ d.messages[m].account = md.account
                                                                          /\ d.messages[m].thread \in T}), p)

\* The metadata that messagePredecessor makes of a predecessor.
Follows(d, md, p) == [md EXCEPT !.response = p, !.thread = d.messages[p].thread]

\* The last reference that is held, and those that are missing.
LEMMA LostReferences ==
  ASSUME NEW V, NEW refs \in Seq(V), NEW d, NEW md
  PROVE  /\ LastHeld(d, md, refs) \in 0 .. Len(refs)
         /\ LastHeld(d, md, refs) # 0 => Holders(d, md.account, refs[LastHeld(d, md, refs)]) # {}
         /\ NoDuplicates(Reverse(SubSeq(refs, LastHeld(d, md, refs) + 1, Len(refs)))) \in Seq(V)
         /\ NoDuplicates(refs) \in Seq(V)
<1> DEFINE T == {0} \cup {k \in DOMAIN refs : Holders(d, md.account, refs[k]) # {}}
           last == LastHeld(d, md, refs)
<1>1. T \subseteq 0 .. Len(refs) /\ Len(refs) \in Nat
  OBVIOUS
<1>2. last \in T
  <2>1. T # {}
    OBVIOUS
  <2>2. last = Max(T)
    BY DEF LastHeld
  <2> HIDE DEF T, last
  <2> QED
    BY <1>1, <2>1, <2>2, MaxPosition
<1>3. last \in 0 .. Len(refs)
  BY <1>1, <1>2
<1>4. last # 0 => Holders(d, md.account, refs[last]) # {}
  BY <1>2
<1> HIDE DEF last, T
<1> DEFINE s == SubSeq(refs, last + 1, Len(refs))
<1>5. s \in Seq(V)
  BY <1>3
<1> HIDE DEF s
<1>6. Reverse(s) \in Seq(V)
  <2>1. Len(s) \in Nat /\ \A i \in 1 .. Len(s) : s[i] \in V
    BY <1>5
  <2>2. \A i \in 1 .. Len(s) : (Len(s) - i) + 1 \in 1 .. Len(s)
    BY <2>1
  <2>3. Reverse(s) \in [1 .. Len(s) -> V]
    BY <2>1, <2>2 DEF Reverse
  <2> QED
    BY <2>1, <2>3
<1> QED
  BY <1>3, <1>4, <1>5, <1>6, NoDuplicatesOf DEF last, s

\* messagePredecessor leaves the metadata, or names a message it may follow.
LEMMA PredecessorParts ==
  ASSUME NEW d, NEW c, Uncached(c), NEW id, NEW md, NEW V, NEW refs \in Seq(V),
         NEW r \in MessagePredecessor(d, c, id, md, refs)
  PROVE  /\ r.cache = c /\ r.lost \in Seq(V)
         /\ r.md = md \/ \E p : Precedes(d, id, md, refs, p) /\ r.md = Follows(d, md, p)
<1> DEFINE last    == LastHeld(d, md, refs)
           unknown == (refs # <<>> /\ last = 0) \/ (refs = <<>> /\ md.mail.subject # NoSubject /\ md.mail.reply)
           all     == IF last # 0 THEN Holders(d, md.account, refs[last])
                      ELSE IF unknown THEN BySubject(d, id, md) ELSE {}
           near    == {m \in Messages(d) :
                         /\ d.messages[m].account = md.account
                         /\ \E p \in all \cup {id} : d.messages[m].thread = d.messages[p].thread}
           usable  == IF id = 0 THEN all ELSE {p \in all : id \notin Chain(Responses(d, near), p)}
           first   == IF last # 0 THEN usable ELSE Latest(d, usable)
           lost    == IF last # 0 THEN NoDuplicates(Reverse(SubSeq(refs, last + 1, Len(refs))))
                      ELSE NoDuplicates(refs)
           result(m, k) == [md |-> m, lost |-> lost, unknown |-> unknown, cache |-> k]
<1>1. r \in IF first = {} THEN {result(md, c)}
            ELSE {result([md EXCEPT !.response = p, !.thread = Metadata(d, c, p).thread], Looked(d, c, p)) :
                    p \in first}
  BY DEF MessagePredecessor
<1>2. lost \in Seq(V)
  BY LostReferences
<1>3. last # 0 => last \in DOMAIN refs
  <2>1. last \in 0 .. Len(refs)
    BY LostReferences
  <2> QED
    BY <2>1
<1>4. all \subseteq Messages(d) /\ \A p \in all : d.messages[p].account = md.account
  BY DEF Holders, BySubject
<1>5. \A p \in all : (\E k \in DOMAIN refs : d.messages[p].identifier = refs[k]) \/ p \in BySubject(d, id, md)
  BY <1>3 DEF Holders
<1> HIDE DEF lost, last, unknown, all
<1>6. ASSUME NEW p \in first
      PROVE  Precedes(d, id, md, refs, p)
  <2>1. p \in usable
    BY <1>6 DEF Latest
  <2>2. p \in all
    BY <2>1
  <2>3. ASSUME id # 0
        PROVE  \E T : /\ d.messages[p].thread \in T
                      /\ id \notin Chain(Responses(d, {m \in Messages(d) : /\ d.messages[m].account = md.account
                                                                          /\ d.messages[m].thread \in T}), p)
    <3> DEFINE T == {d.messages[q].thread : q \in all \cup {id}}
               part == {m \in Messages(d) : d.messages[m].account = md.account /\ d.messages[m].thread \in T}
    <3>1. part = near
      OBVIOUS
    <3>2. d.messages[p].thread \in T
      BY <2>2
    <3>3. id \notin Chain(Responses(d, near), p)
      BY <2>1, <2>3
    <3> HIDE DEF near, part, T
    <3>4. id \notin Chain(Responses(d, part), p)
      BY <3>1, <3>3
    <3> QED
      BY <3>2, <3>4 DEF part
  <2> QED
    BY <1>4, <1>5, <2>2, <2>3 DEF Precedes
<1> HIDE DEF first
<1>7. CASE first = {}
  <2>1. r = result(md, c)
    BY <1>1, <1>7
  <2> QED
    BY <1>2, <2>1
<1>8. CASE first # {}
  <2>1. PICK p \in first :
          r = result([md EXCEPT !.response = p, !.thread = Metadata(d, c, p).thread], Looked(d, c, p))
    BY <1>1, <1>8
  <2>2. Metadata(d, c, p) = d.messages[p] /\ Looked(d, c, p) = c
    BY UncachedReads
  <2>3. r = result(Follows(d, md, p), c)
    BY <2>1, <2>2 DEF Follows
  <2>4. r.md = Follows(d, md, p) /\ r.cache = c /\ r.lost = lost
    BY <2>3
  <2> QED
    BY <1>2, <1>6, <2>4
<1> QED
  BY <1>7, <1>8

-----------------------------------------------------------------------------
(* The invariants *)

\* What waits in missingmessages is a message that has the reference.
MissingGood(d) ==
  \A w \in d.missing : /\ w.id \in Messages(d) /\ w.level \in Int
                       /\ w.identifier \in Range(d.messages[w.id].mail.references)

\* A message has the identifier of its mail, or none yet.
IdentifiersGood(d) ==
  \A m \in Messages(d) : d.messages[m].identifier \in {0, d.messages[m].mail.identifier}

\* Threads are numbered up to the last.
ThreadsGood(d) == d.lastThread \in Nat /\ DOMAIN d.threads \subseteq 1 .. d.lastThread

\* The form of the tables.
Stored(d) ==
  /\ Table(d)
  /\ d.lastMessage \in 0 .. MaxMessages /\ Messages(d) \subseteq 1 .. d.lastMessage
  /\ ThreadsGood(d) /\ MissingGood(d) /\ IdentifiersGood(d)

\* Every message belongs to a thread of the thread table.
ThreadsThere(d) == \A m \in Messages(d) : d.messages[m].thread \in DOMAIN d.threads

\* Every message has the identifier of its mail.
Named(d) == \A m \in Messages(d) : d.messages[m].identifier = d.messages[m].mail.identifier

\* The predecessor of a message is in its thread and account.
SameThread(d) ==
  \A m \in Messages(d) : d.messages[m].response # 0 =>
    /\ d.messages[m].response \in Messages(d)
    /\ d.messages[d.messages[m].response].thread = d.messages[m].thread
    /\ d.messages[d.messages[m].response].account = d.messages[m].account

\* The predecessor of a message has an earlier stamp.
Ordered(d) ==
  \A m \in Messages(d) : d.messages[m].response # 0 =>
    /\ d.messages[m].response \in Messages(d)
    /\ d.messages[d.messages[m].response].mail.stamp < d.messages[m].mail.stamp

\* What the form of the tables says of a message.
LEMMA StoredFacts ==
  ASSUME NEW d, Stored(d)
  PROVE  /\ Messages(d) \subseteq 1 .. MaxMessages /\ Messages(d) \subseteq Nat /\ 0 \notin Messages(d)
         /\ MissingKnown(d) /\ Table(d)
         /\ \A m \in Messages(d) : /\ d.messages[m] \in Row /\ d.messages[m].mail \in Headers
                                   /\ d.messages[m].thread \in Nat /\ d.messages[m].response \in Nat
                                   /\ d.messages[m].mail.stamp \in Int
         /\ DOMAIN Resp(d) = Messages(d) /\ \A m \in Messages(d) : Resp(d)[m] = d.messages[m].response
<1>1. MaxMessages \in Nat /\ d.lastMessage \in 0 .. MaxMessages /\ Messages(d) \subseteq 1 .. d.lastMessage
  BY ThreadsAssumption DEF Stored
<1>2. Messages(d) \subseteq 1 .. MaxMessages /\ Messages(d) \subseteq Nat /\ 0 \notin Messages(d)
  BY <1>1
<1>3. MissingKnown(d) /\ Table(d)
  BY DEF Stored, MissingKnown, MissingGood
<1>4. \A m \in Messages(d) : d.messages[m] \in Row
  BY <1>3 DEF Table
<1>5. \A x \in Row : x.mail \in Headers /\ x.thread \in Nat /\ x.response \in Nat /\ x.mail.stamp \in Int
  BY ThreadsAssumption DEF Row
<1>6. DOMAIN Resp(d) = Messages(d) /\ \A m \in Messages(d) : Resp(d)[m] = d.messages[m].response
  BY DEF Resp, Responses
<1> QED
  BY <1>2, <1>3, <1>4, <1>5, <1>6

\* Each of the two invariants says that predecessors are there.
LEMMA SameThreadLinked ==
  ASSUME NEW d, SameThread(d) \/ Ordered(d)
  PROVE  Linked(Resp(d))
BY DEF SameThread, Ordered, Linked, Resp, Responses

\* Where predecessors are earlier, there is no cycle.
LEMMA OrderedAcyclic ==
  ASSUME NEW d, Stored(d), Ordered(d)
  PROVE  Acyclic(Resp(d))
<1> DEFINE v == [m \in Messages(d) |-> d.messages[m].mail.stamp]
           r == Resp(d)
<1>1. DOMAIN r = Messages(d) /\ DOMAIN r \subseteq 1 .. MaxMessages /\ \A y \in DOMAIN r : v[y] \in Int
  BY StoredFacts
<1>2. \A y \in DOMAIN r : r[y] \in DOMAIN r => v[r[y]] < v[y]
  <2> TAKE y \in DOMAIN r
  <2> HAVE r[y] \in DOMAIN r
  <2>1. r[y] = d.messages[y].response /\ y \in Messages(d) /\ r[y] \in Messages(d) /\ r[y] # 0
    BY <1>1, StoredFacts
  <2> HIDE DEF r
  <2> QED
    BY <2>1 DEF Ordered
<1> HIDE DEF v, r
<1>3. Acyclic(r)
  BY <1>1, <1>2, AcyclicStamps
<1> QED
  BY <1>3 DEF r

-----------------------------------------------------------------------------
(* Deletions *)

\* Threads are gone that have no messages.
EmptyGone(d, e) == \E T : DOMAIN e.threads = DOMAIN d.threads \ {t \in T : InThread(e, t) = {}}

\* e is d without S.
Deleted(d, e, S) ==
  /\ Table(e) /\ Messages(e) = Messages(d) \ S
  /\ \A m \in Messages(e) : /\ e.messages[m].account = d.messages[m].account
                            /\ e.messages[m].mail = d.messages[m].mail
                            /\ e.messages[m].identifier = d.messages[m].identifier
                            /\ e.messages[m].thread = d.messages[m].thread
                            /\ e.messages[m].response = FirstLeft(d, S, d.messages[m].response)
  /\ e.lastMessage = d.lastMessage /\ e.lastThread = d.lastThread
  /\ e.missing = {w \in d.missing : w.id \notin S}
  /\ DOMAIN e.subjects \subseteq DOMAIN d.subjects

\* What deleteMessages changes and what it leaves.
LEMMA DeleteParts ==
  ASSUME NEW d, Table(d), NEW S, S \subseteq Messages(d)
  PROVE  LET e == DeleteMessages(d, S) IN Deleted(d, e, S) /\ EmptyGone(d, e)
<1>0. S = {} => DeleteMessages(d, S) = d
  BY Zenon DEF DeleteMessages
<1> DEFINE e == DeleteMessages(d, S)
           f == [m \in Messages(d) \ S |->
                   [d.messages[m] EXCEPT !.response = FirstLeft(d, S, d.messages[m].response)]]
<1>1. \A m \in Messages(d) : d.messages[m] \in Row /\ d.messages[m].response \in Nat
  BY DEF Table, Row
<1>2. \A m \in Messages(d) : FirstLeft(d, S, d.messages[m].response) \in Nat
  <2> TAKE m \in Messages(d)
  <2>1. \A y \in S \cap Nat : Resp(d)[y] \in Nat
    BY <1>1 DEF Resp, Responses
  <2> DEFINE x == d.messages[m].response
  <2>2. x \in Nat
    BY <1>1
  <2> HIDE DEF x
  <2>3. FirstLeft(d, S, x) \in Nat
    BY <2>1, <2>2, FirstLeftWithin
  <2> QED
    BY <2>3 DEF x
<1>3. f \in [Messages(d) \ S -> Row]
  BY <1>1, <1>2 DEF Row
<1>4. \A m \in Messages(d) \ S :
        /\ f[m].account = d.messages[m].account /\ f[m].mail = d.messages[m].mail
        /\ f[m].identifier = d.messages[m].identifier /\ f[m].thread = d.messages[m].thread
        /\ f[m].response = FirstLeft(d, S, d.messages[m].response)
  BY <1>1 DEF Row
<1>5. CASE S = {}
  <2>1. e = d
    BY <1>0, <1>5
  <2>2. \A x : FirstLeft(d, S, x) = x
    BY <1>5, FirstLeftOutside
  <2>3. Deleted(d, d, S)
    BY <1>5, <2>2 DEF Deleted
  <2>4. EmptyGone(d, d)
    <3> DEFINE T == {}
    <3>1. {t \in T : InThread(d, t) = {}} = {}
      OBVIOUS
    <3> HIDE DEF T
    <3>2. DOMAIN d.threads = DOMAIN d.threads \ {t \in T : InThread(d, t) = {}}
      BY <3>1
    <3> QED
      BY <3>2 DEF EmptyGone
  <2> QED
    BY <2>1, <2>3, <2>4
<1>6. CASE S # {}
  <2> DEFINE about == {p \in d.about : \E m \in DOMAIN f : f[m].thread = p[1]}
             T == {d.messages[m].thread : m \in S}
             b == [d EXCEPT !.messages = f,
                            !.missing = {w \in @ : w.id \notin S}, !.waiting = {w \in @ : w.id \notin S},
                            !.about = about, !.subjects = Part(@, {p[2] : p \in about})]
  <2>1. e = RecalculateThreads(b, T)
    <3> DEFINE g == [m \in DOMAIN d.messages |->
                       IF m \in Messages(d)
                       THEN [d.messages[m] EXCEPT !.response = FirstLeft(d, S, d.messages[m].response)]
                       ELSE d.messages[m]]
    <3>1. [x \in DOMAIN g \ S |-> g[x]] = f
      BY DEF Messages
    <3> HIDE DEF f
    <3>2. e = RecalculateThreads(
                [d EXCEPT !.messages = [x \in DOMAIN g \ S |-> g[x]],
                          !.missing = {w \in @ : w.id \notin S}, !.waiting = {w \in @ : w.id \notin S},
                          !.about = {p \in d.about : \E m \in DOMAIN [x \in DOMAIN g \ S |-> g[x]] :
                                       [x \in DOMAIN g \ S |-> g[x]][m].thread = p[1]},
                          !.subjects = Part(@, {p[2] : p \in {p \in d.about :
                             \E m \in DOMAIN [x \in DOMAIN g \ S |-> g[x]] :
                               [x \in DOMAIN g \ S |-> g[x]][m].thread = p[1]}})], T)
      BY <1>6 DEF DeleteMessages, Without, Change
    <3> HIDE DEF g, e, T
    <3> QED
      BY <3>1, <3>2
  <2> HIDE DEF f, about, T
  <2>2. /\ DOMAIN b = Fields /\ b.messages = f /\ b.threads = d.threads
        /\ b.missing = {w \in d.missing : w.id \notin S} /\ b.lastMessage = d.lastMessage
        /\ b.lastThread = d.lastThread /\ b.subjects = Part(d.subjects, {p[2] : p \in about})
    BY DEF Table, Fields
  <2> HIDE DEF b
  <2>3. Table(b) /\ Messages(b) = Messages(d) \ S
    BY <1>3, <2>2 DEF Table, Messages
  <2> HIDE DEF e
  <2>4. Beside(b, e) /\ e.lastThread = b.lastThread /\ e.subjects = b.subjects /\ EmptyLess(b, e)
    BY <2>1, <2>3, RecalculateParts
  <2>5. DOMAIN e.subjects \subseteq DOMAIN d.subjects
    BY <2>2, <2>4 DEF Part
  <2>6. Deleted(d, e, S)
    BY <1>4, <2>2, <2>3, <2>4, <2>5 DEF Deleted, Beside, Table, Messages
  <2>7. EmptyGone(d, e)
    <3>1. \A t : InThread(b, t) = InThread(e, t)
      BY <2>4 DEF InThread, Beside, Messages
    <3>2. PICK U : DOMAIN e.threads = DOMAIN b.threads \ {t \in U : InThread(b, t) = {}}
      BY <2>4 DEF EmptyLess
    <3>3. DOMAIN e.threads = DOMAIN d.threads \ {t \in U : InThread(e, t) = {}}
      BY <2>2, <3>1, <3>2
    <3> QED
      BY <3>3 DEF EmptyGone
  <2> QED
    BY <2>6, <2>7 DEF e
<1> QED
  BY <1>5, <1>6

\* Threads may go that have no messages.
LEMMA EmptyGoneThere ==
  ASSUME NEW d, NEW e, EmptyGone(d, e), \A m \in Messages(e) : e.messages[m].thread \in DOMAIN d.threads
  PROVE  ThreadsThere(e)
<1>1. PICK T : DOMAIN e.threads = DOMAIN d.threads \ {t \in T : InThread(e, t) = {}}
  BY DEF EmptyGone
<1> SUFFICES ASSUME NEW m \in Messages(e) PROVE e.messages[m].thread \in DOMAIN e.threads
  BY DEF ThreadsThere
<1>2. m \in InThread(e, e.messages[m].thread)
  BY DEF InThread
<1> QED
  BY <1>1, <1>2

\* A removal keeps the form of the tables.
LEMMA DeletedStored ==
  ASSUME NEW d, Stored(d), NEW S, NEW e, Deleted(d, e, S), DOMAIN e.threads \subseteq DOMAIN d.threads
  PROVE  Stored(e)
<1>1. Messages(e) \subseteq Messages(d) /\ Table(e) /\ e.lastMessage = d.lastMessage /\ e.lastThread = d.lastThread
  BY DEF Deleted
<1>2. ThreadsGood(e)
  BY <1>1 DEF ThreadsGood, Stored
<1>3. MissingGood(e)
  <2> SUFFICES ASSUME NEW w \in e.missing
               PROVE  /\ w.id \in Messages(e) /\ w.level \in Int
                      /\ w.identifier \in Range(e.messages[w.id].mail.references)
    BY DEF MissingGood
  <2>1. w \in d.missing /\ w.id \notin S
    BY DEF Deleted
  <2>2. w.id \in Messages(d) /\ w.level \in Int /\ w.identifier \in Range(d.messages[w.id].mail.references)
    BY <2>1 DEF Stored, MissingGood
  <2>3. w.id \in Messages(e)
    BY <2>1, <2>2 DEF Deleted
  <2>4. e.messages[w.id].mail = d.messages[w.id].mail
    BY <2>3 DEF Deleted
  <2> QED
    BY <2>2, <2>3, <2>4
<1>4. IdentifiersGood(e)
  <2> SUFFICES ASSUME NEW m \in Messages(e) PROVE e.messages[m].identifier \in {0, e.messages[m].mail.identifier}
    BY DEF IdentifiersGood
  <2>1. e.messages[m].identifier = d.messages[m].identifier /\ e.messages[m].mail = d.messages[m].mail
    BY DEF Deleted
  <2> QED
    BY <1>1, <2>1 DEF Stored, IdentifiersGood
<1> QED
  BY <1>1, <1>2, <1>3, <1>4 DEF Stored

\* A removal leaves the identifiers.
LEMMA DeletedNamed ==
  ASSUME NEW d, NEW S, NEW e, Deleted(d, e, S), Named(d)
  PROVE  Named(e)
<1> SUFFICES ASSUME NEW m \in Messages(e) PROVE e.messages[m].identifier = e.messages[m].mail.identifier
  BY DEF Named
<1>1. e.messages[m].identifier = d.messages[m].identifier /\ e.messages[m].mail = d.messages[m].mail /\ m \in Messages(d)
  BY DEF Deleted
<1> QED
  BY <1>1 DEF Named

\* A removal gives each message the first predecessor that is left.
LEMMA DeletedRelinked ==
  ASSUME NEW d, Stored(d), NEW S, S \subseteq Messages(d), NEW e, Deleted(d, e, S)
  PROVE  Relinked(Resp(e), d, S)
<1>1. DOMAIN Resp(e) = Messages(e) /\ \A m \in Messages(e) : Resp(e)[m] = e.messages[m].response
  BY DEF Resp, Responses
<1>2. DOMAIN Resp(d) = Messages(d) /\ \A m \in Messages(d) : Resp(d)[m] = d.messages[m].response
  BY DEF Resp, Responses
<1>3. Messages(e) = Messages(d) \ S
  BY DEF Deleted
<1>4. \A m \in Messages(e) : e.messages[m].response = FirstLeft(d, S, d.messages[m].response)
  BY DEF Deleted
<1> QED
  BY <1>1, <1>2, <1>3, <1>4 DEF Relinked

\* A removal leaves predecessors in the thread of what answers them.
LEMMA DeletedSameThread ==
  ASSUME NEW d, Stored(d), NEW S, S \subseteq Messages(d), NEW e, Deleted(d, e, S),
         Acyclic(Resp(d)), SameThread(d)
  PROVE  SameThread(e)
<1> SUFFICES ASSUME NEW m \in Messages(e), e.messages[m].response # 0
             PROVE  /\ e.messages[m].response \in Messages(e)
                    /\ e.messages[e.messages[m].response].thread = e.messages[m].thread
                    /\ e.messages[e.messages[m].response].account = e.messages[m].account
  BY DEF SameThread
<1> DEFINE T == {y \in Messages(d) : /\ d.messages[y].thread = d.messages[m].thread
                                     /\ d.messages[y].account = d.messages[m].account} \cup {0}
           x == d.messages[m].response
           n == e.messages[m].response
<1>1. m \in Messages(d) /\ n = FirstLeft(d, S, x) /\ Messages(e) = Messages(d) \ S
  BY DEF Deleted
<1>2. x \in T
  BY <1>1 DEF SameThread
<1>3. \A y \in S \cap T : Resp(d)[y] \in T
  <2> TAKE y \in S \cap T
  <2>1. y \in Messages(d) /\ y # 0
    BY StoredFacts
  <2>2. Resp(d)[y] = d.messages[y].response
    BY <2>1 DEF Resp, Responses
  <2> QED
    BY <2>1, <2>2 DEF SameThread
<1>4. n \in T
  <2> HIDE DEF T, x, n
  <2> QED
    BY <1>1, <1>2, <1>3, FirstLeftWithin
<1>5. n \notin S
  <2>1. Messages(d) \subseteq 1 .. MaxMessages
    BY StoredFacts
  <2> QED
    BY <1>1, <2>1, FirstLeftLeft
<1>6. n \in Messages(e) /\ d.messages[n].thread = d.messages[m].thread /\ d.messages[n].account = d.messages[m].account
  BY <1>1, <1>4, <1>5
<1> HIDE DEF n
<1>7. \A k \in Messages(e) : e.messages[k].thread = d.messages[k].thread /\ e.messages[k].account = d.messages[k].account
  BY DEF Deleted
<1> QED
  BY <1>6, <1>7 DEF n

\* A removal leaves predecessors earlier: it only goes further back.
LEMMA DeletedOrdered ==
  ASSUME NEW d, Stored(d), NEW S, S \subseteq Messages(d), NEW e, Deleted(d, e, S), Ordered(d)
  PROVE  Ordered(e)
<1> SUFFICES ASSUME NEW m \in Messages(e), e.messages[m].response # 0
             PROVE  /\ e.messages[m].response \in Messages(e)
                    /\ e.messages[e.messages[m].response].mail.stamp < e.messages[m].mail.stamp
  BY DEF Ordered
<1> DEFINE stamp(y) == d.messages[y].mail.stamp
           T == {y \in Messages(d) : stamp(y) < stamp(m)} \cup {0}
           x == d.messages[m].response
           n == e.messages[m].response
<1>1. m \in Messages(d) /\ n = FirstLeft(d, S, x) /\ Messages(e) = Messages(d) \ S
  BY DEF Deleted
<1>2. x \in T
  BY <1>1 DEF Ordered
<1>3. \A y \in S \cap T : Resp(d)[y] \in T
  <2> TAKE y \in S \cap T
  <2>1. y \in Messages(d) /\ y # 0 /\ stamp(y) < stamp(m)
    BY StoredFacts
  <2>2. Resp(d)[y] = d.messages[y].response
    BY <2>1 DEF Resp, Responses
  <2>3. CASE Resp(d)[y] = 0
    BY <2>3
  <2>4. CASE Resp(d)[y] # 0
    <3>1. Resp(d)[y] \in Messages(d) /\ stamp(Resp(d)[y]) < stamp(y)
      BY <2>1, <2>2, <2>4 DEF Ordered
    <3>2. stamp(Resp(d)[y]) \in Int /\ stamp(y) \in Int /\ stamp(m) \in Int
      BY <1>1, <2>1, <3>1, StoredFacts
    <3>3. stamp(Resp(d)[y]) < stamp(m)
      <4> HIDE DEF stamp
      <4> QED
        BY <2>1, <3>1, <3>2
    <3> QED
      BY <3>1, <3>3
  <2> QED
    BY <2>3, <2>4
<1>4. n \in T
  <2> HIDE DEF T, x, n
  <2> QED
    BY <1>1, <1>2, <1>3, FirstLeftWithin
<1>5. n \notin S
  <2>1. Messages(d) \subseteq 1 .. MaxMessages /\ Acyclic(Resp(d))
    BY StoredFacts, OrderedAcyclic
  <2> QED
    BY <1>1, <2>1, FirstLeftLeft
<1>6. n \in Messages(e) /\ stamp(n) < stamp(m)
  BY <1>1, <1>4, <1>5
<1> HIDE DEF n
<1>7. \A k \in Messages(e) : e.messages[k].mail = d.messages[k].mail
  BY DEF Deleted
<1> QED
  BY <1>6, <1>7 DEF n

\* A removal leaves every message the ancestors it had, without what is gone.
LEMMA DeletedChains ==
  ASSUME NEW d, Stored(d), NEW S, S \subseteq Messages(d), NEW e, Deleted(d, e, S),
         Acyclic(Resp(d)), Linked(Resp(d))
  PROVE  /\ Acyclic(Resp(e)) /\ Linked(Resp(e))
         /\ \A m \in Messages(e) : Chain(Resp(e), m) = Chain(Resp(d), m) \cap Messages(e)
<1>1. Relinked(Resp(e), d, S) /\ Messages(d) \subseteq 1 .. MaxMessages /\ Messages(e) = Messages(d) \ S
  BY DeletedRelinked, StoredFacts DEF Deleted
<1>2. Acyclic(Resp(e)) /\ Linked(Resp(e))
  BY <1>1, RelinkedAcyclic, RelinkedLinked
<1>3. \A m \in Messages(d) \ S : Chain(Resp(e), m) = Chain(Resp(d), m) \cap (Messages(d) \ S)
  BY <1>1, RelinkedChains
<1> QED
  BY <1>1, <1>2, <1>3

\* A removal leaves no message without its thread.
LEMMA DeletedThere ==
  ASSUME NEW d, ThreadsThere(d), NEW S, NEW e, Deleted(d, e, S), EmptyGone(d, e)
  PROVE  ThreadsThere(e)
<1>1. \A m \in Messages(e) : e.messages[m].thread \in DOMAIN d.threads
  BY DEF Deleted, ThreadsThere
<1> QED
  BY <1>1, EmptyGoneThere

\* The messages of the threads T go, and the threads.
LEMMA DeleteThreadsParts ==
  ASSUME NEW d, Table(d), NEW T
  PROVE  LET e == DeleteThreads(d, T)
             S == {m \in Messages(d) : d.messages[m].thread \in T}
         IN /\ Deleted(d, e, S) /\ DOMAIN e.threads \subseteq DOMAIN d.threads
            /\ ThreadsThere(d) => ThreadsThere(e)
<1> DEFINE e == DeleteThreads(d, T)
           S == {m \in Messages(d) : d.messages[m].thread \in T}
           a == DeleteMessages(d, S)
<1>1. S \subseteq Messages(d)
  OBVIOUS
<1>2. e = [a EXCEPT !.threads = Without(@, T)]
  BY DEF DeleteThreads
<1> HIDE DEF S
<1>3. Deleted(d, a, S) /\ EmptyGone(d, a)
  BY <1>1, DeleteParts
<1> HIDE DEF a, e
<1>4. DOMAIN a = Fields
  BY <1>3 DEF Deleted, Table
<1>5. /\ DOMAIN e = Fields /\ e.messages = a.messages /\ e.missing = a.missing /\ e.lastMessage = a.lastMessage
      /\ e.lastThread = a.lastThread /\ e.subjects = a.subjects /\ e.threads = Without(a.threads, T)
  BY <1>2, <1>4 DEF Fields
<1>6. Deleted(d, e, S)
  BY <1>3, <1>5 DEF Deleted, Table, Messages
<1>7. DOMAIN e.threads = DOMAIN a.threads \ T
  BY <1>5 DEF Without
<1>8. DOMAIN a.threads \subseteq DOMAIN d.threads
  BY <1>3 DEF EmptyGone
<1>9. ASSUME ThreadsThere(d) PROVE ThreadsThere(e)
  <2>1. ThreadsThere(a)
    BY <1>3, <1>9, DeletedThere
  <2> SUFFICES ASSUME NEW m \in Messages(e) PROVE e.messages[m].thread \in DOMAIN e.threads
    BY DEF ThreadsThere
  <2>2. m \in Messages(d) /\ m \notin S /\ e.messages[m].thread = d.messages[m].thread
    BY <1>6 DEF Deleted
  <2>3. e.messages[m].thread \notin T
    BY <2>2 DEF S
  <2>4. m \in Messages(a) /\ e.messages[m] = a.messages[m]
    BY <1>5 DEF Messages
  <2> QED
    BY <1>7, <2>1, <2>3, <2>4 DEF ThreadsThere
<1> QED
  BY <1>6, <1>7, <1>8, <1>9 DEF e, S

-----------------------------------------------------------------------------
(* Messages that wait *)

\* All that get the predecessor id in resolveMissingMessages.
AllCalled(d, c, id, md, name) ==
  Called(d, c, id, md, name) \cup SubjectCalled(ResolveReferences(d, c, id, md, name), c, id, md)

\* What resolveMissingMessages changes and what it leaves.
LEMMA ResolveParts ==
  ASSUME NEW d, Stored(d), NEW c, NEW id \in Messages(d), NEW md, NEW name
  PROVE  LET e == ResolveMissingMessages(d, c, id, md, name)
             old == OldThreads(d, Called(d, c, id, md, name), md)
         IN /\ Kept(d, e) /\ SameIdentifiers(d, e) /\ e.lastThread = d.lastThread /\ e.subjects = d.subjects
            /\ e.missing \subseteq d.missing
            /\ name # 0 => AskedOutside(d, md, name, e, Called(d, c, id, md, name))
            /\ Answers(d, e, AllCalled(d, c, id, md, name), id)
            /\ Moved(d, e, old, d.messages[id].thread) /\ ThreadsLess(d, e, old)
<1> DEFINE g == ResolveReferences(d, c, id, md, name)
           e == ResolveSubject(g, c, id, md)
           S1 == Called(d, c, id, md, name)
           S2 == SubjectCalled(g, c, id, md)
           old == OldThreads(d, S1, md)
           t == d.messages[id].thread
<1>1. Table(d) /\ MissingKnown(d) /\ id \in Nat
  BY StoredFacts
<1>2. /\ Kept(d, g) /\ SameIdentifiers(d, g) /\ g.lastThread = d.lastThread /\ g.subjects = d.subjects
      /\ g.missing \subseteq d.missing
      /\ name # 0 => AskedOutside(d, md, name, g, S1)
      /\ Answers(d, g, S1, id) /\ Moved(d, g, old, t) /\ ThreadsLess(d, g, old)
  BY <1>1, ResolveReferencesParts
<1> HIDE DEF g, S1, old, t
<1>3. Table(g) /\ Messages(g) = Messages(d)
  BY <1>2 DEF Kept
<1>4. /\ Kept(g, e) /\ SameIdentifiers(g, e) /\ SameThreads(g, e)
      /\ e.missing = g.missing /\ e.lastThread = g.lastThread /\ e.subjects = g.subjects
      /\ Answers(g, e, S2, id)
  BY <1>1, <1>3, ResolveSubjectParts
<1>5. ResolveMissingMessages(d, c, id, md, name) = e /\ AllCalled(d, c, id, md, name) = S1 \cup S2
  BY DEF ResolveMissingMessages, AllCalled, g, S1
<1> HIDE DEF e, S2
<1>6. Kept(d, e)
  BY <1>2, <1>4 DEF Kept
<1>7. SameIdentifiers(d, e)
  BY <1>2, <1>3, <1>4 DEF SameIdentifiers
<1>8. Answers(d, e, S1 \cup S2, id)
  BY <1>2, <1>3, <1>4 DEF Answers
<1>9. Moved(d, e, old, t)
  BY <1>2, <1>3, <1>4 DEF Moved, SameThreads
<1>10. ThreadsLess(d, e, old)
  BY <1>2, <1>4 DEF ThreadsLess, SameThreads
<1>11. name # 0 => AskedOutside(d, md, name, e, S1)
  BY <1>2, <1>4 DEF AskedOutside
<1> QED
  BY <1>2, <1>4, <1>5, <1>6, <1>7, <1>8, <1>9, <1>10, <1>11 DEF old, t, S1

\* resolveMissingMessages calls messages of the store, and never the new one.
LEMMA AllCalledMessages ==
  ASSUME NEW d, Stored(d), NEW c, NEW id \in Messages(d), NEW md, NEW name
  PROVE  AllCalled(d, c, id, md, name) \subseteq Messages(d) \ {id}
<1> DEFINE g == ResolveReferences(d, c, id, md, name)
<1>1. Table(d) /\ MissingKnown(d) /\ id \in Nat
  BY StoredFacts
<1>2. Messages(g) = Messages(d)
  BY <1>1, ResolveReferencesParts DEF Kept
<1> HIDE DEF g
<1>3. SubjectCalled(g, c, id, md) \subseteq Messages(d) \ {id}
  BY <1>2, SubjectCalledLater
<1> QED
  BY <1>1, <1>3, CalledAsks DEF AllCalled, g

\* The same messages with good identifiers, waits and threads are good tables.
LEMMA KeptStored ==
  ASSUME NEW d, Stored(d), NEW e, Kept(d, e), IdentifiersGood(e), MissingGood(e), ThreadsGood(e)
  PROVE  Stored(e)
BY DEF Stored, Kept

\* resolveMissingMessages keeps the form of the tables.
LEMMA ResolveStored ==
  ASSUME NEW d, Stored(d), NEW c, NEW id \in Messages(d), NEW md, NEW name
  PROVE  Stored(ResolveMissingMessages(d, c, id, md, name))
<1> DEFINE e == ResolveMissingMessages(d, c, id, md, name)
           old == OldThreads(d, Called(d, c, id, md, name), md)
<1>1. /\ Kept(d, e) /\ SameIdentifiers(d, e) /\ e.lastThread = d.lastThread
      /\ e.missing \subseteq d.missing /\ ThreadsLess(d, e, old)
  BY ResolveParts
<1> HIDE DEF e, old
<1>2. Messages(e) = Messages(d) /\ \A m \in Messages(d) : e.messages[m].mail = d.messages[m].mail
  BY <1>1 DEF Kept
<1>3. IdentifiersGood(e)
  BY <1>1, <1>2 DEF IdentifiersGood, SameIdentifiers, Stored
<1>4. MissingGood(e)
  BY <1>1, <1>2 DEF MissingGood, Stored
<1>5. ThreadsGood(e)
  BY <1>1 DEF ThreadsGood, ThreadsLess, Stored
<1>6. Stored(e)
  BY <1>1, <1>3, <1>4, <1>5, KeptStored
<1> QED
  BY <1>6 DEF e

\* resolveMissingMessages leaves no message without its thread, if the thread
\* it is told for the message is the one in the row.
LEMMA ResolveThere ==
  ASSUME NEW d, Stored(d), NEW c, NEW id \in Messages(d), NEW md, NEW name,
         d.messages[id].thread = md.thread, ThreadsThere(d)
  PROVE  ThreadsThere(ResolveMissingMessages(d, c, id, md, name))
<1> DEFINE e == ResolveMissingMessages(d, c, id, md, name)
           old == OldThreads(d, Called(d, c, id, md, name), md)
           t == d.messages[id].thread
<1>1. Kept(d, e) /\ Moved(d, e, old, t) /\ ThreadsLess(d, e, old)
  BY ResolveParts
<1>2. t \notin old /\ t \in DOMAIN d.threads
  BY DEF OldThreads, ThreadsThere
<1> HIDE DEF e, old, t
<1>3. ThreadsThere(e)
  BY <1>1, <1>2 DEF ThreadsThere, Kept, Moved, ThreadsLess
<1> QED
  BY <1>3 DEF e

\* resolveMissingMessages leaves the identifiers.
LEMMA ResolveNamed ==
  ASSUME NEW d, Stored(d), NEW c, NEW id \in Messages(d), NEW md, NEW name, Named(d)
  PROVE  Named(ResolveMissingMessages(d, c, id, md, name))
<1> DEFINE e == ResolveMissingMessages(d, c, id, md, name)
<1>1. Kept(d, e) /\ SameIdentifiers(d, e)
  BY ResolveParts
<1> HIDE DEF e
<1>2. Named(e)
  BY <1>1 DEF Named, Kept, SameIdentifiers
<1> QED
  BY <1>2 DEF e

\* What resolveMissingMessages calls is later than what it is given.
LEMMA ResolveOrdered ==
  ASSUME NEW d, Stored(d), NEW c, NEW id \in Messages(d), NEW md, NEW name, Ordered(d),
         name \in {0, d.messages[id].mail.identifier},
         \A g, h \in Headers : g.identifier \in Range(h.references) => g.stamp < h.stamp
  PROVE  Ordered(ResolveMissingMessages(d, c, id, md, name))
<1> DEFINE e == ResolveMissingMessages(d, c, id, md, name)
           g == ResolveReferences(d, c, id, md, name)
           S1 == Called(d, c, id, md, name)
           S2 == SubjectCalled(g, c, id, md)
           stamp(m) == d.messages[m].mail.stamp
<1>0. Table(d) /\ MissingKnown(d) /\ id \in Nat
  BY StoredFacts
<1>1. Kept(d, e) /\ Answers(d, e, S1 \cup S2, id)
  BY ResolveParts DEF AllCalled
<1>2. \A m \in S1 : m \in Messages(d) /\ stamp(id) < stamp(m)
  <2> TAKE m \in S1
  <2>1. PICK w \in Asks(d, md, name) : m = w.id
    BY <1>0, CalledAsks
  <2>2. name # 0 /\ w \in d.missing /\ w.identifier = name
    BY <2>1 DEF Called, Asks
  <2>3. m \in Messages(d) /\ name \in Range(d.messages[m].mail.references)
    BY <2>1, <2>2 DEF Stored, MissingGood
  <2>4. d.messages[m].mail \in Headers /\ d.messages[id].mail \in Headers
    BY <2>3, StoredFacts
  <2> QED
    BY <2>2, <2>3, <2>4
<1>3. \A m \in S2 : m \in Messages(d) /\ stamp(id) < stamp(m)
  <2> TAKE m \in S2
  <2>1. m \in Messages(g) /\ g.messages[m].mail.stamp > g.messages[id].mail.stamp
    <3> HIDE DEF g
    <3> QED
      BY SubjectCalledLater
  <2>2. Kept(d, g)
    BY <1>0, ResolveReferencesParts
  <2> HIDE DEF g
  <2>3. m \in Messages(d) /\ g.messages[m].mail = d.messages[m].mail /\ g.messages[id].mail = d.messages[id].mail
    BY <2>1, <2>2 DEF Kept
  <2>4. stamp(m) \in Int /\ stamp(id) \in Int
    BY <2>3, StoredFacts
  <2> QED
    BY <2>1, <2>3, <2>4
<1> DEFINE S == S1 \cup S2
<1>4. \A m \in S : m \in Messages(d) /\ stamp(id) < stamp(m)
  <2> HIDE DEF S1, S2, stamp
  <2> QED
    BY <1>2, <1>3
<1>5. Answers(d, e, S, id)
  BY <1>1
<1> HIDE DEF e, S
<1>6. Ordered(e)
  BY <1>1, <1>4, <1>5 DEF Ordered, Kept, Answers
<1> QED
  BY <1>6 DEF e

-----------------------------------------------------------------------------
(* Adding a message *)

\* A mail is sent after what it refers to, and the local time is not ahead of UTC.
ClocksAgree ==
  Zone <= 0 /\ \A g, h \in Headers : g.identifier \in Range(h.references) => g.stamp < h.stamp

\* The predecessor that messagePredecessor finds was sent earlier, if the
\* clocks of the senders agree.
LEMMA PrecedesEarlier ==
  ASSUME NEW d, Stored(d), NEW id, NEW md, md.mail \in Headers, NEW refs,
         refs \in {<<>>, md.mail.references}, NEW p, Precedes(d, id, md, refs, p), ClocksAgree
  PROVE  d.messages[p].mail.stamp < md.mail.stamp
<1>0. /\ p \in Messages(d) /\ d.messages[p].mail \in Headers /\ d.messages[p].mail.stamp \in Int
      /\ md.mail.stamp \in Int /\ md.mail.references \in Seq(Nat \ {0}) /\ Zone \in Int
  BY StoredFacts, ThreadsAssumption DEF Precedes
<1>1. CASE \E k \in DOMAIN refs : d.messages[p].identifier = refs[k]
  <2>1. PICK k \in DOMAIN refs : d.messages[p].identifier = refs[k]
    BY <1>1
  <2>2. refs = md.mail.references
    BY <2>1
  <2>3. refs[k] \in Nat \ {0} /\ refs[k] \in Range(refs)
    BY <1>0, <2>1, <2>2 DEF Range
  <2>4. d.messages[p].identifier = d.messages[p].mail.identifier
    BY <1>0, <2>1, <2>3 DEF Stored, IdentifiersGood
  <2> QED
    BY <1>0, <2>1, <2>2, <2>3, <2>4 DEF ClocksAgree
<1>2. CASE p \in BySubject(d, id, md)
  <2>1. d.messages[p].mail.stamp < md.mail.stamp + Zone
    BY <1>2 DEF BySubject
  <2> QED
    BY <1>0, <2>1 DEF ClocksAgree
<1> QED
  BY <1>1, <1>2 DEF Precedes

\* The metadata md follows a message of the store; near, if messagePredecessor
\* has found it.
Follower(d, md) ==
  md.response # 0 => md.response \in Messages(d) /\ d.messages[md.response].thread = md.thread

Near(d, md) ==
  md.response # 0 => /\ md.response \in Messages(d)
                     /\ d.messages[md.response].account = md.account
                     /\ ClocksAgree => d.messages[md.response].mail.stamp < md.mail.stamp

\* f is d with the message id.
Arrived(d, f, id, md) ==
  /\ id = d.lastMessage + 1 /\ id \in 1 .. MaxMessages
  /\ Table(f) /\ Messages(f) = Messages(d) \cup {id}
  /\ \A m \in Messages(d) : f.messages[m] = d.messages[m]
  /\ f.messages[id] = md
  /\ f.lastMessage = id /\ f.missing = d.missing /\ ThreadsGood(f)
  /\ DOMAIN d.threads \subseteq DOMAIN f.threads
  /\ ThreadsThere(d) => md.thread \in DOMAIN f.threads

\* The row of a new message: attemptAddMessage up to resolveMissingMessages.
LEMMA ArrivedParts ==
  ASSUME NEW d, Stored(d), d.lastMessage < MaxMessages, NEW id, id = d.lastMessage + 1,
         NEW md0 \in Row, md0.response = 0 => md0.thread = 0 \/ md0.thread \in DOMAIN d.threads,
         NEW unknown, Follower(d, md0)
  PROVE  LET a  == JoinThread(d, md0)
             md == IF md0.thread = 0 THEN [md0 EXCEPT !.thread = a.lastThread] ELSE md0
             b  == [a EXCEPT !.messages = With(@, id, md), !.lastMessage = id]
             f  == RegisterSubject(b, id, md, unknown)
         IN Arrived(d, f, id, md) /\ md \in Row
<1> DEFINE a  == JoinThread(d, md0)
           md == IF md0.thread = 0 THEN [md0 EXCEPT !.thread = a.lastThread] ELSE md0
           b  == [a EXCEPT !.messages = With(@, id, md), !.lastMessage = id]
           f  == RegisterSubject(b, id, md, unknown)
<1>0. Table(d) /\ d.lastMessage \in 0 .. MaxMessages /\ MaxMessages \in Nat /\ ThreadsGood(d)
  BY ThreadsAssumption DEF Stored
<1>1. id \in 1 .. MaxMessages
  BY <1>0
<1>2. /\ Beside(d, a) /\ a.subjects = d.subjects
      /\ IF md0.thread = 0
         THEN a.lastThread = d.lastThread + 1 /\ ThreadsMore(d, a)
         ELSE a.lastThread = d.lastThread /\ DOMAIN a.threads = DOMAIN d.threads
  BY <1>0, JoinParts
<1> HIDE DEF a
<1>3. a.lastThread \in Nat
  BY <1>0, <1>2 DEF ThreadsGood
<1>4. md \in Row
  BY <1>3 DEF Row
<1>5. ThreadsThere(d) => md.thread \in DOMAIN a.threads
  <2>1. CASE md0.thread = 0
    BY <1>2, <1>4, <2>1 DEF ThreadsMore, Row
  <2>2. CASE md0.thread # 0
    BY <1>2, <2>2 DEF ThreadsThere, Follower
  <2> QED
    BY <2>1, <2>2
<1>6. ThreadsGood(a) /\ DOMAIN d.threads \subseteq DOMAIN a.threads
  <2>1. CASE md0.thread = 0
    BY <1>0, <1>2, <2>1 DEF ThreadsMore, ThreadsGood
  <2>2. CASE md0.thread # 0
    BY <1>0, <1>2, <2>2 DEF ThreadsGood
  <2> QED
    BY <2>1, <2>2
<1> HIDE DEF md
<1>7. a.messages \in [Messages(d) -> Row]
  BY <1>0, <1>2 DEF Beside, Table
<1> DEFINE g == With(a.messages, id, md)
<1>8. /\ g \in [Messages(d) \cup {id} -> Row] /\ g[id] = md
      /\ \A m \in Messages(d) \ {id} : g[m] = a.messages[m]
  BY <1>4, <1>7 DEF With
<1>9. id \notin Messages(d)
  BY <1>0 DEF Stored
<1> HIDE DEF g
<1>10. /\ DOMAIN b = Fields /\ b.messages = g /\ b.lastMessage = id /\ b.missing = a.missing
       /\ b.threads = a.threads /\ b.lastThread = a.lastThread
  BY <1>2 DEF Beside, Fields, g
<1> HIDE DEF b
<1>11. Table(b) /\ Messages(b) = Messages(d) \cup {id}
  BY <1>8, <1>10 DEF Table, Messages
<1>12. Beside(b, f) /\ f.lastThread = b.lastThread /\ f.threads = b.threads
  BY <1>11, RegisterParts
<1> HIDE DEF f
<1>13. Table(f) /\ Messages(f) = Messages(d) \cup {id} /\ f.messages = g
  BY <1>10, <1>11, <1>12 DEF Table, Beside, Messages
<1>14. \A m \in Messages(d) : f.messages[m] = d.messages[m]
  BY <1>2, <1>8, <1>9, <1>13 DEF Beside
<1>15. f.lastMessage = id /\ f.missing = d.missing /\ ThreadsGood(f)
  BY <1>2, <1>6, <1>10, <1>12 DEF Beside, ThreadsGood
<1>16. DOMAIN d.threads \subseteq DOMAIN f.threads /\ (ThreadsThere(d) => md.thread \in DOMAIN f.threads)
  BY <1>5, <1>6, <1>10, <1>12
<1>17. Arrived(d, f, id, md)
  BY <1>1, <1>8, <1>13, <1>14, <1>15, <1>16 DEF Arrived
<1> QED
  BY <1>4, <1>17 DEF a, md, b, f

\* e is d after the message id has been added.
Added(d, e, c, f, id, md, lost) ==
  /\ Arrived(d, f, id, md) /\ md \in Row
  /\ ThreadsThere(d) => Follower(d, md)
  /\ ~Detaching => Near(d, md)
  /\ md.identifier \in {0, md.mail.identifier}
  /\ TRUE \notin Bare => md.identifier = md.mail.identifier
  /\ lost \in Seq(Range(md.mail.references))
  /\ e = [ResolveMissingMessages(f, c, id, md, md.identifier) EXCEPT !.missing = @ \cup MissingEntries(id, lost)]

\* AddMessage fails, or adds a message as Added says.
LEMMA AddParts ==
  ASSUME Stored(db), Uncached(cache), NEW h \in Headers, NEW bare \in Bare, NEW account \in Accounts,
         NEW folder \in Folders, NEW flags \in SUBSET Flags, NEW response \in Nat,
         response = 0 \/ Detaching, AddMessage(h, bare, account, folder, flags, response)
  PROVE  /\ Uncached(cache')
         /\ db' = db \/ \E f, id, md, lost : Added(db, db', cache, f, id, md, lost)
<1> DEFINE id   == db.lastMessage + 1
           name == IF bare THEN 0 ELSE h.identifier
           refs == IF bare THEN <<>> ELSE h.references
           new  == [account |-> account, folder |-> folder, read |-> "read" \in flags,
                    hidden |-> "hidden" \in flags, mail |-> h, identifier |-> name,
                    thread |-> 0, response |-> response]
           md0  == Addressed(db, new)
           none == [md |-> md0, lost |-> <<>>, unknown |-> FALSE, cache |-> cache]
           V    == Range(h.references)
<1>0. /\ h.identifier \in Nat /\ h.references \in Seq(Nat \ {0}) /\ bare \in BOOLEAN
      /\ db.lastMessage < MaxMessages
  BY ThreadsAssumption DEF AddMessage
<1>1. new \in Row /\ new.response = response /\ new.thread = 0 /\ new.mail = h /\ new.identifier = name
  BY <1>0 DEF Row
<1>2. refs \in Seq(V) /\ <<>> \in Seq(V) /\ refs \in {<<>>, h.references}
  BY <1>0 DEF Range
<1>3. PICK r \in IF md0.response # 0 THEN {none} ELSE MessagePredecessor(db, cache, 0, md0, refs) :
        LET a  == JoinThread(db, r.md)
            md == IF r.md.thread = 0 THEN [r.md EXCEPT !.thread = a.lastThread] ELSE r.md
            b  == [a EXCEPT !.messages = With(@, id, md), !.lastMessage = id]
            e  == ResolveMissingMessages(RegisterSubject(b, id, md, r.unknown), r.cache, id, md, name)
        IN Commit([e EXCEPT !.missing = @ \cup MissingEntries(id, r.lost)], r.cache)
  BY DEF AddMessage
<1>4. /\ md0 \in Row /\ md0.mail = h /\ md0.identifier = name /\ Follower(db, md0)
      /\ md0.response = 0 => md0.thread = 0
      /\ md0.response # 0 => Detaching
  <2> HIDE DEF new
  <2>1. CASE new.response = 0
    <3>1. md0 = new
      BY <2>1 DEF Addressed
    <3> QED
      BY <1>1, <2>1, <3>1 DEF Follower
  <2>2. CASE new.response # 0 /\ new.response \in Messages(db)
    <3>1. md0 = [new EXCEPT !.thread = db.messages[new.response].thread]
      BY <2>2 DEF Addressed
    <3>2. db.messages[new.response].thread \in Nat
      BY <2>2, StoredFacts
    <3> QED
      BY <1>1, <2>2, <3>1, <3>2 DEF Row, Follower
  <2>3. CASE new.response # 0 /\ new.response \notin Messages(db)
    <3>1. md0 = [new EXCEPT !.response = 0]
      BY <2>3 DEF Addressed
    <3> QED
      BY <1>1, <3>1 DEF Row, Follower
  <2> QED
    BY <2>1, <2>2, <2>3
<1> HIDE DEF md0, new, name, refs, V
<1>5. /\ r.cache = cache /\ r.lost \in Seq(V)
      /\ r.md = md0 \/ \E p : md0.response = 0 /\ Precedes(db, 0, md0, refs, p) /\ r.md = Follows(db, md0, p)
  <2>1. CASE md0.response # 0
    <3>1. r = none
      BY <1>3, <2>1
    <3> QED
      BY <1>2, <3>1
  <2>2. CASE md0.response = 0
    <3>1. r \in MessagePredecessor(db, cache, 0, md0, refs)
      BY <1>3, <2>2
    <3> QED
      BY <1>2, <2>2, <3>1, PredecessorParts
  <2> QED
    BY <2>1, <2>2
<1>6. /\ r.md \in Row /\ r.md.mail = h /\ r.md.identifier = name /\ Follower(db, r.md)
      /\ r.md.response = 0 => r.md.thread = 0
      /\ ~Detaching => Near(db, r.md)
  <2>1. CASE r.md = md0
    BY <1>4, <2>1 DEF Near
  <2>2. ASSUME NEW p, Precedes(db, 0, md0, refs, p), r.md = Follows(db, md0, p), md0.response = 0
        PROVE  /\ r.md \in Row /\ r.md.mail = h /\ r.md.identifier = name /\ Follower(db, r.md)
               /\ r.md.response = 0 => r.md.thread = 0
               /\ ~Detaching => Near(db, r.md)
    <3>1. p \in Messages(db) /\ db.messages[p].account = md0.account
      BY <2>2 DEF Precedes
    <3>2. p \in Nat /\ p # 0 /\ db.messages[p].thread \in Nat
      BY <3>1, StoredFacts
    <3>3. /\ r.md \in Row /\ r.md.mail = md0.mail /\ r.md.identifier = md0.identifier /\ r.md.response = p
          /\ r.md.thread = db.messages[p].thread /\ r.md.account = md0.account
      BY <1>4, <2>2, <3>2 DEF Follows, Row
    <3>4. ClocksAgree => db.messages[p].mail.stamp < md0.mail.stamp
      BY <1>2, <1>4, <2>2, PrecedesEarlier
    <3> QED
      BY <1>4, <3>1, <3>2, <3>3, <3>4 DEF Follower, Near
  <2> QED
    BY <1>5, <2>1, <2>2
<1> DEFINE a  == JoinThread(db, r.md)
           md == IF r.md.thread = 0 THEN [r.md EXCEPT !.thread = a.lastThread] ELSE r.md
           b  == [a EXCEPT !.messages = With(@, id, md), !.lastMessage = id]
           f  == RegisterSubject(b, id, md, r.unknown)
           e  == ResolveMissingMessages(f, cache, id, md, name)
           z  == [e EXCEPT !.missing = @ \cup MissingEntries(id, r.lost)]
<1>7. Arrived(db, f, id, md) /\ md \in Row
  <2> HIDE DEF a, md, b, f
  <2> DEFINE md1 == r.md
  <2>1. md1 \in Row /\ (md1.response = 0 => md1.thread = 0 \/ md1.thread \in DOMAIN db.threads) /\ Follower(db, md1)
    BY <1>6
  <2>2. id = db.lastMessage + 1
    OBVIOUS
  <2> HIDE DEF md1, id
  <2> DEFINE a1  == JoinThread(db, md1)
             md2 == IF md1.thread = 0 THEN [md1 EXCEPT !.thread = a1.lastThread] ELSE md1
             b1  == [a1 EXCEPT !.messages = With(@, id, md2), !.lastMessage = id]
             f1  == RegisterSubject(b1, id, md2, r.unknown)
  <2>3. Arrived(db, f1, id, md2) /\ md2 \in Row
    BY <1>0, <2>1, <2>2, ArrivedParts
  <2> QED
    BY <2>3 DEF md1, a, md, b, f
<1>8. Commit(z, cache)
  BY <1>3, <1>5
<1>9. /\ md.mail = h /\ md.account = r.md.account /\ md.identifier = name /\ md.response = r.md.response
      /\ ThreadsThere(db) /\ r.md.response # 0 => md.thread = r.md.thread
  <2>1. CASE r.md.thread = 0
    <3>1. ThreadsThere(db) => r.md.response = 0
      <4>1. ThreadsThere(db) => \A m \in Messages(db) : db.messages[m].thread # 0
        BY DEF ThreadsThere, Stored, ThreadsGood
      <4> QED
        BY <1>6, <2>1, <4>1 DEF Follower
    <3> QED
      BY <1>6, <2>1, <3>1 DEF Row
  <2>2. CASE r.md.thread # 0
    BY <1>6, <2>2
  <2> QED
    BY <2>1, <2>2
<1> HIDE DEF md, a, b, f, e
<1>10. Added(db, z, cache, f, id, md, r.lost)
  BY <1>5, <1>6, <1>7, <1>8, <1>9 DEF Added, Follower, Near, e, name, V
<1> QED
  BY <1>8, <1>10 DEF Commit, Uncached

\* A thread of an account has whole chains of its messages.
LEMMA ChainInThread ==
  ASSUME NEW d, Stored(d), SameThread(d), NEW p \in Messages(d), NEW S, S \subseteq Messages(d), p \in S,
         \A m \in S, n \in Messages(d) :
            d.messages[n].thread = d.messages[m].thread /\ d.messages[n].account = d.messages[m].account => n \in S
  PROVE  Chain(Responses(d, S), p) = Chain(Resp(d), p)
<1> DEFINE r == Resp(d)
<1>1. DOMAIN r = Messages(d) /\ DOMAIN r \subseteq 1 .. MaxMessages /\ \A y \in Messages(d) : r[y] = d.messages[y].response
  BY StoredFacts
<1> HIDE DEF r
<1>2. \A y \in S : r[y] \in S \cup {0}
  BY <1>1 DEF SameThread
<1>3. Chain([y \in S |-> r[y]], p) = Chain(r, p)
  BY <1>1, <1>2, ChainWithin
<1>4. Responses(d, S) = [y \in S |-> r[y]]
  BY <1>1 DEF Responses
<1> QED
  BY <1>3, <1>4 DEF r

\* Whom a message calls is none of its ancestors, where chains keep to threads.
LEMMA CalledNotBefore ==
  ASSUME NEW d, Stored(d), SameThread(d), NEW c, Uncached(c), NEW id \in Messages(d), NEW md, NEW name,
         md.response = d.messages[id].response
  PROVE  Called(d, c, id, md, name) \cap Chain(Resp(d), id) = {}
<1> DEFINE S0 == {w.id : w \in Asks(d, md, name)}
           S  == Called(d, c, id, md, name)
           p  == md.response
<1>1. DOMAIN Resp(d) = Messages(d) /\ Messages(d) \subseteq 1 .. MaxMessages /\ Resp(d)[id] = p
  BY StoredFacts
<1>2. Chain(Resp(d), id) = {id} \cup Chain(Resp(d), p)
  BY <1>1, ChainUnfold
<1>3. S \subseteq NotBefore(d, c, md, S0) \ {id}
  BY DEF Called
<1> HIDE DEF S, S0
<1>4. CASE p = 0
  <2>1. 0 \notin DOMAIN Resp(d)
    BY <1>1
  <2>2. Chain(Resp(d), p) = {}
    BY <1>4, <2>1, ChainOfNone
  <2> QED
    BY <1>2, <1>3, <2>2 DEF S
<1>5. CASE p # 0
  <2> DEFINE T == {m \in Messages(d) : /\ p \in Messages(d) \cup DOMAIN c
                                      /\ d.messages[m].thread = d.messages[p].thread
                                      /\ d.messages[m].account = d.messages[p].account}
  <2>1. p \in Messages(d)
    BY <1>5 DEF SameThread
  <2>2. Metadata(d, c, p) = d.messages[p]
    BY UncachedReads
  <2>3. IdentifyAncestors(d, c, p, S0) = (Chain(Responses(d, T), p) \cap S0) \cup {p}
    BY <2>2 DEF IdentifyAncestors
  <2>4. p \in T /\ T \subseteq Messages(d)
    BY <2>1
  <2>5. \A m \in T, n \in Messages(d) :
            d.messages[n].thread = d.messages[m].thread /\ d.messages[n].account = d.messages[m].account => n \in T
    OBVIOUS
  <2> HIDE DEF T
  <2>6. Chain(Responses(d, T), p) = Chain(Resp(d), p)
    BY <2>1, <2>4, <2>5, ChainInThread
  <2>7. NotBefore(d, c, md, S0) \subseteq S0 \ (Chain(Resp(d), p) \cap S0)
    BY <1>5, <2>3, <2>6 DEF NotBefore
  <2> QED
    BY <1>2, <1>3, <2>7 DEF S
<1> QED
  BY <1>4, <1>5

\* Without subjects, resolveMissingMessages merges the threads of what it links,
\* and makes no cycle.
LEMMA ResolveSameThread ==
  ASSUME NEW d, Stored(d), SameThread(d), Acyclic(Resp(d)), NEW c, Uncached(c), NEW id \in Messages(d),
         NEW md, NEW name, md.mail.subject = NoSubject, md.response = d.messages[id].response,
         md.thread = d.messages[id].thread, md.account = d.messages[id].account
  PROVE  LET e == ResolveMissingMessages(d, c, id, md, name) IN SameThread(e) /\ Acyclic(Resp(e))
<1> DEFINE e   == ResolveMissingMessages(d, c, id, md, name)
           S   == Called(d, c, id, md, name)
           old == OldThreads(d, S, md)
           t   == md.thread
<1>1. AllCalled(d, c, id, md, name) = S
  BY DEF AllCalled, SubjectCalled
<1>2. Kept(d, e) /\ Answers(d, e, S, id) /\ Moved(d, e, old, t)
  BY <1>1, ResolveParts
<1>3. /\ DOMAIN Resp(d) = Messages(d) /\ Messages(d) \subseteq 1 .. MaxMessages /\ id # 0 /\ MissingKnown(d)
      /\ \A y \in Messages(d) : Resp(d)[y] = d.messages[y].response
  BY StoredFacts
<1>4. S \cap Chain(Resp(d), id) = {}
  BY CalledNotBefore
<1>5. S \subseteq Messages(d) \ {id} /\ \A m \in S : d.messages[m].account = md.account
  BY <1>3, CalledAsks DEF Asks
<1>6. \A m \in S : d.messages[m].thread \in old \/ d.messages[m].thread = t
  BY DEF OldThreads
<1>7. t \notin old
  BY DEF OldThreads
<1> HIDE DEF e, S, old
<1>8. Messages(e) = Messages(d)
  BY <1>2 DEF Kept
<1>9. DOMAIN Resp(e) = Messages(e) /\ \A y \in Messages(e) : Resp(e)[y] = e.messages[y].response
  BY DEF Resp, Responses
<1>10. \A y \in Messages(d) : Resp(e)[y] = IF y \in S THEN id ELSE Resp(d)[y]
  BY <1>2, <1>3, <1>8, <1>9 DEF Answers
<1>11. Acyclic(Resp(e))
  BY <1>3, <1>4, <1>5, <1>8, <1>9, <1>10, AcyclicChange
<1>12. SameThread(e)
  <2> SUFFICES ASSUME NEW m \in Messages(d), e.messages[m].response # 0
               PROVE  /\ e.messages[m].response \in Messages(d)
                      /\ e.messages[e.messages[m].response].thread = e.messages[m].thread
                      /\ e.messages[e.messages[m].response].account = e.messages[m].account
    BY <1>8 DEF SameThread
  <2>1. \A n \in Messages(d) : e.messages[n].account = d.messages[n].account
    BY <1>2 DEF Kept
  <2>2. \A n \in Messages(d) : e.messages[n].thread = IF d.messages[n].thread \in old THEN t ELSE d.messages[n].thread
    BY <1>2 DEF Moved
  <2>3. e.messages[m].response = IF m \in S THEN id ELSE d.messages[m].response
    BY <1>2 DEF Answers
  <2>4. CASE m \in S
    BY <1>5, <1>6, <1>7, <2>1, <2>2, <2>3, <2>4
  <2>5. CASE m \notin S
    <3> DEFINE n == d.messages[m].response
    <3>1. e.messages[m].response = n /\ n # 0
      BY <2>3, <2>5
    <3>2. /\ n \in Messages(d) /\ d.messages[n].thread = d.messages[m].thread
          /\ d.messages[n].account = d.messages[m].account
      BY <3>1 DEF SameThread
    <3> HIDE DEF n
    <3> QED
      BY <2>1, <2>2, <3>1, <3>2
  <2> QED
    BY <2>4, <2>5
<1> QED
  BY <1>11, <1>12 DEF e

\* What waits changes nothing else.
LEMMA EntriesGood ==
  ASSUME NEW V, NEW lost \in Seq(V), NEW id, NEW w \in MissingEntries(id, lost)
  PROVE  w.id = id /\ w.level \in Int /\ w.identifier \in V
<1>1. PICK k \in DOMAIN lost : w = [id |-> id, identifier |-> lost[k], level |-> Len(lost) - k]
  BY DEF MissingEntries
<1>2. lost[k] \in V /\ Len(lost) - k \in Int
  OBVIOUS
<1> QED
  BY <1>1, <1>2

\* A message that is added keeps the form of the tables.
LEMMA AddedStored ==
  ASSUME NEW d, Stored(d), NEW e, NEW c, NEW f, NEW id, NEW md, NEW lost, Added(d, e, c, f, id, md, lost)
  PROVE  /\ Stored(f)
         /\ Stored(e) /\ Messages(e) = Messages(d) \cup {id} /\ id \in Messages(f) /\ id \notin Messages(d)
         /\ e.messages = ResolveMissingMessages(f, c, id, md, md.identifier).messages
         /\ e.threads = ResolveMissingMessages(f, c, id, md, md.identifier).threads
<1> DEFINE x == ResolveMissingMessages(f, c, id, md, md.identifier)
<1>0. /\ Arrived(d, f, id, md) /\ md \in Row /\ md.identifier \in {0, md.mail.identifier}
      /\ lost \in Seq(Range(md.mail.references))
      /\ e = [x EXCEPT !.missing = @ \cup MissingEntries(id, lost)]
  BY DEF Added
<1>1. /\ Table(f) /\ Messages(f) = Messages(d) \cup {id} /\ f.lastMessage = id /\ id \in 1 .. MaxMessages
      /\ \A m \in Messages(d) : f.messages[m] = d.messages[m]
      /\ f.messages[id] = md /\ f.missing = d.missing /\ ThreadsGood(f) /\ id = d.lastMessage + 1
  BY <1>0 DEF Arrived
<1>2. d.lastMessage \in 0 .. MaxMessages /\ Messages(d) \subseteq 1 .. d.lastMessage /\ MissingGood(d) /\ IdentifiersGood(d)
  BY DEF Stored
<1>3. id \notin Messages(d) /\ Messages(f) \subseteq 1 .. f.lastMessage /\ f.lastMessage \in 0 .. MaxMessages
  BY <1>1, <1>2, ThreadsAssumption
<1>4. MissingGood(f)
  BY <1>1, <1>2 DEF MissingGood
<1>5. IdentifiersGood(f)
  BY <1>0, <1>1, <1>2 DEF IdentifiersGood
<1>6. Stored(f) /\ id \in Messages(f)
  BY <1>1, <1>3, <1>4, <1>5 DEF Stored
<1>7. Stored(x)
  BY <1>6, ResolveStored
<1>8. Kept(f, x)
  BY <1>6, ResolveParts
<1> HIDE DEF x
<1>9. DOMAIN x = Fields
  BY <1>7 DEF Stored, Table
<1> DEFINE X == MissingEntries(id, lost)
<1>10. \A w \in X : w.id = id /\ w.level \in Int /\ w.identifier \in Range(md.mail.references)
  BY <1>0, EntriesGood
<1>11. x.messages[id].mail = md.mail /\ Messages(x) = Messages(f)
  BY <1>1, <1>6, <1>8 DEF Kept
<1> HIDE DEF X
<1>12. /\ DOMAIN e = Fields /\ e.messages = x.messages /\ e.threads = x.threads /\ e.missing = x.missing \cup X
       /\ e.lastMessage = x.lastMessage /\ e.lastThread = x.lastThread
  BY <1>0, <1>9 DEF Fields, X
<1>13. Messages(e) = Messages(x)
  BY <1>12 DEF Messages
<1>14. MissingGood(e)
  BY <1>6, <1>7, <1>10, <1>11, <1>12, <1>13 DEF MissingGood, Stored
<1>15. Stored(e)
  BY <1>7, <1>12, <1>13, <1>14 DEF Stored, Table, ThreadsGood, IdentifiersGood
<1> QED
  BY <1>1, <1>3, <1>6, <1>11, <1>12, <1>13, <1>15 DEF x

\* A message that is added leaves none without its thread.
LEMMA AddedThere ==
  ASSUME NEW d, Stored(d), NEW e, NEW c, NEW f, NEW id, NEW md, NEW lost, Added(d, e, c, f, id, md, lost),
         ThreadsThere(d)
  PROVE  ThreadsThere(e)
<1> DEFINE x == ResolveMissingMessages(f, c, id, md, md.identifier)
<1>1. Stored(f) /\ id \in Messages(f) /\ e.messages = x.messages /\ e.threads = x.threads
  BY AddedStored
<1>2. Arrived(d, f, id, md)
  BY DEF Added
<1>3. ThreadsThere(f) /\ f.messages[id].thread = md.thread
  BY <1>2 DEF Arrived, ThreadsThere
<1>4. ThreadsThere(x)
  BY <1>1, <1>3, ResolveThere
<1> HIDE DEF x
<1> QED
  BY <1>1, <1>4 DEF ThreadsThere, Messages

\* A message that is added with its headers has the identifier of its mail.
LEMMA AddedNamed ==
  ASSUME NEW d, Stored(d), NEW e, NEW c, NEW f, NEW id, NEW md, NEW lost, Added(d, e, c, f, id, md, lost),
         Named(d), TRUE \notin Bare
  PROVE  Named(e)
<1> DEFINE x == ResolveMissingMessages(f, c, id, md, md.identifier)
<1>1. Stored(f) /\ id \in Messages(f) /\ e.messages = x.messages
  BY AddedStored
<1>2. Arrived(d, f, id, md) /\ md.identifier = md.mail.identifier
  BY DEF Added
<1>3. Named(f)
  BY <1>2 DEF Arrived, Named
<1>4. Named(x)
  BY <1>1, <1>3, ResolveNamed
<1> HIDE DEF x
<1> QED
  BY <1>1, <1>4 DEF Named, Messages

\* A message that is added comes after what it answers, and before what waited.
LEMMA AddedOrdered ==
  ASSUME NEW d, Stored(d), NEW e, NEW c, NEW f, NEW id, NEW md, NEW lost, Added(d, e, c, f, id, md, lost),
         Ordered(d), ClocksAgree, ~Detaching
  PROVE  Ordered(e)
<1> DEFINE x == ResolveMissingMessages(f, c, id, md, md.identifier)
<1>1. /\ Stored(f) /\ id \in Messages(f) /\ e.messages = x.messages
      /\ id \notin Messages(d)
  BY AddedStored
<1>2. Arrived(d, f, id, md) /\ Near(d, md) /\ md.identifier \in {0, md.mail.identifier}
  BY DEF Added
<1>3. /\ Messages(f) = Messages(d) \cup {id} /\ f.messages[id] = md
      /\ \A m \in Messages(d) : f.messages[m] = d.messages[m]
  BY <1>2 DEF Arrived
<1>4. Ordered(f)
  <2> SUFFICES ASSUME NEW m \in Messages(f), f.messages[m].response # 0
               PROVE  /\ f.messages[m].response \in Messages(d)
                      /\ d.messages[f.messages[m].response].mail.stamp < f.messages[m].mail.stamp
    BY <1>3 DEF Ordered
  <2>1. CASE m = id
    BY <1>2, <1>3, <2>1 DEF Near
  <2>2. CASE m # id
    BY <1>3, <2>2 DEF Ordered
  <2> QED
    BY <2>1, <2>2
<1>5. md.identifier \in {0, f.messages[id].mail.identifier}
  BY <1>2, <1>3
<1>6. Ordered(x)
  BY <1>1, <1>4, <1>5, ResolveOrdered DEF ClocksAgree
<1> HIDE DEF x
<1> QED
  BY <1>1, <1>6 DEF Ordered, Messages

\* Conversations are found by references alone.
NoSubjects == \A h \in Headers : h.subject = NoSubject

\* Without subjects, a message that is added joins the thread of its conversation.
LEMMA AddedSameThread ==
  ASSUME NEW d, Stored(d), NEW e, NEW c, Uncached(c), NEW f, NEW id, NEW md, NEW lost,
         Added(d, e, c, f, id, md, lost),
         ThreadsThere(d), SameThread(d), Acyclic(Resp(d)), NoSubjects, ~Detaching
  PROVE  SameThread(e) /\ Acyclic(Resp(e))
<1> DEFINE x == ResolveMissingMessages(f, c, id, md, md.identifier)
<1>1. /\ Stored(f) /\ id \in Messages(f) /\ e.messages = x.messages
      /\ id \notin Messages(d)
  BY AddedStored
<1>2. Arrived(d, f, id, md) /\ Near(d, md) /\ Follower(d, md) /\ md \in Row
  BY DEF Added
<1>3. /\ Messages(f) = Messages(d) \cup {id} /\ f.messages[id] = md
      /\ \A m \in Messages(d) : f.messages[m] = d.messages[m]
  BY <1>2 DEF Arrived
<1>4. SameThread(f)
  <2> SUFFICES ASSUME NEW m \in Messages(f), f.messages[m].response # 0
               PROVE  /\ f.messages[m].response \in Messages(d)
                      /\ d.messages[f.messages[m].response].thread = f.messages[m].thread
                      /\ d.messages[f.messages[m].response].account = f.messages[m].account
    BY <1>3 DEF SameThread
  <2>1. CASE m = id
    BY <1>2, <1>3, <2>1 DEF Near, Follower
  <2>2. CASE m # id
    BY <1>3, <2>2 DEF SameThread
  <2> QED
    BY <2>1, <2>2
<1>5. Acyclic(Resp(f))
  <2>1. DOMAIN Resp(d) = Messages(d) /\ \A y \in Messages(d) : Resp(d)[y] = d.messages[y].response
    BY StoredFacts
  <2>2. DOMAIN Resp(f) = Messages(f) /\ \A y \in Messages(f) : Resp(f)[y] = f.messages[y].response
    BY <1>1, StoredFacts
  <2>3. id # 0
    BY <1>1, StoredFacts
  <2>4. \A y \in DOMAIN Resp(d) : Resp(d)[y] # id
    BY <1>1, <2>1, <2>3 DEF SameThread
  <2>5. md.response # id
    BY <1>1, <1>2, <2>3 DEF Near
  <2>6. Resp(f)[id] = md.response /\ \A y \in DOMAIN Resp(d) : Resp(f)[y] = Resp(d)[y]
    BY <1>3, <2>1, <2>2
  <2> QED
    BY <1>1, <1>3, <2>1, <2>2, <2>4, <2>5, <2>6, AcyclicNew
<1>6. md.mail.subject = NoSubject
  BY <1>2 DEF NoSubjects, Row
<1>7. SameThread(x) /\ Acyclic(Resp(x))
  BY <1>1, <1>3, <1>4, <1>5, <1>6, ResolveSameThread
<1> HIDE DEF x
<1>8. Messages(e) = Messages(x)
  BY <1>1 DEF Messages
<1>9. Resp(e) = Resp(x)
  BY <1>1, <1>8 DEF Resp, Responses
<1>10. SameThread(e)
  BY <1>1, <1>7, <1>8 DEF SameThread
<1> QED
  BY <1>7, <1>9, <1>10

\* A chain is kept when the predecessors along it are.
LEMMA ChainKept ==
  ASSUME NEW r, DOMAIN r \subseteq 1 .. MaxMessages, NEW f, DOMAIN f \subseteq 1 .. MaxMessages, NEW x, x # 0,
         \A y \in Chain(r, x) \cap DOMAIN r : y \in DOMAIN f /\ f[y] = r[y]
  PROVE  Chain(r, x) \subseteq Chain(f, x)
<1> DEFINE T == (Chain(r, x) \cap Chain(f, x)) \cup {0}
<1>1. x \in T
  BY ChainStart
<1>2. ASSUME NEW y \in T \cap DOMAIN r PROVE r[y] \in T
  <2>1. y # 0
    BY ThreadsAssumption
  <2>2. y \in Chain(r, x) /\ y \in Chain(f, x) /\ y \in DOMAIN f /\ f[y] = r[y]
    BY <1>2, <2>1
  <2>3. r[y] \in Chain(r, x) \cup {0}
    BY <1>2, <2>2, ChainClosed
  <2>4. f[y] \in Chain(f, x) \cup {0}
    BY <2>2, ChainClosed
  <2> QED
    BY <2>2, <2>3, <2>4
<1> HIDE DEF T
<1>3. Chain(r, x) \subseteq T
  BY <1>1, <1>2, ChainLeast
<1> QED
  BY <1>3, ChainWithoutZero DEF T

\* The part of the table that identifyAncestors looks at.
ThreadOf(d, p) ==
  {m \in Messages(d) : /\ p \in Messages(d)
                       /\ d.messages[m].thread = d.messages[p].thread
                       /\ d.messages[m].account = d.messages[p].account}

\* Who is kept from a new predecessor: those in its thread that come before it.
LEMMA NotBeforeParts ==
  ASSUME NEW d, NEW c, Uncached(c), NEW md, md.response # 0, NEW S
  PROVE  /\ NotBefore(d, c, md, S) = S \ (Chain(Responses(d, ThreadOf(d, md.response)), md.response) \cup {md.response})
<1> DEFINE p == md.response
           T == {m \in Messages(d) : /\ p \in Messages(d) \cup DOMAIN c
                                     /\ d.messages[m].thread = d.messages[p].thread
                                     /\ d.messages[m].account = d.messages[p].account}
<1>1. Metadata(d, c, p) = d.messages[p]
  BY UncachedReads
<1>2. IdentifyAncestors(d, c, p, S) = (Chain(Responses(d, T), p) \cap S) \cup {p}
  BY <1>1 DEF IdentifyAncestors
<1>3. T = ThreadOf(d, p)
  BY DEF ThreadOf, Uncached
<1> HIDE DEF T
<1>4. NotBefore(d, c, md, S) = IF S = {} THEN S ELSE S \ IdentifyAncestors(d, c, p, S)
  BY DEF NotBefore
<1> HIDE DEF p
<1>5. NotBefore(d, c, md, S) = S \ (Chain(Responses(d, ThreadOf(d, p)), p) \cup {p})
  BY <1>2, <1>3, <1>4
<1> QED
  BY <1>5 DEF p

\* Who asks for the mail that has arrived, and does not get it as the
\* predecessor, is one of its ancestors.
LEMMA ResolveArrival ==
  ASSUME NEW d, Stored(d), NEW c, Uncached(c), NEW id \in Messages(d), NEW md, NEW name, name # 0,
         md.response = d.messages[id].response,
         NEW w \in ResolveMissingMessages(d, c, id, md, name).missing, w \in Asks(d, md, name)
  PROVE  w.id \in Chain(Resp(ResolveMissingMessages(d, c, id, md, name)), id)
<1> DEFINE e  == ResolveMissingMessages(d, c, id, md, name)
           g  == ResolveReferences(d, c, id, md, name)
           S0 == {v.id : v \in Asks(d, md, name)}
           S1 == Called(d, c, id, md, name)
           S2 == SubjectCalled(g, c, id, md)
           p  == md.response
           r  == Responses(d, ThreadOf(d, p))
           q  == Responses(g, ThreadOf(g, p))
<1>0. Table(d) /\ MissingKnown(d) /\ id \in Nat /\ id # 0 /\ Messages(d) \subseteq 1 .. MaxMessages
  BY StoredFacts
<1>1. Kept(d, e) /\ AskedOutside(d, md, name, e, S1) /\ Answers(d, e, S1 \cup S2, id)
  BY ResolveParts DEF AllCalled
<1>2. w.id \in S0 /\ w.id \notin S1
  BY <1>1 DEF AskedOutside
<1>3. S1 = NotBefore(d, c, md, S0) \ {id}
  BY DEF Called
<1>4. Kept(d, g) /\ Answers(d, g, S1, id) /\ \E T, t : Moved(d, g, T, t)
  BY <1>0, ResolveReferencesParts
<1>5. \E X : S2 \subseteq NotBefore(g, c, md, X) \ {id}
  BY DEF SubjectCalled
<1>6. Messages(e) = Messages(d) /\ Messages(g) = Messages(d)
  BY <1>1, <1>4 DEF Kept
<1>7. /\ DOMAIN Resp(e) = Messages(d)
      /\ \A y \in Messages(d) : Resp(e)[y] = e.messages[y].response
  BY <1>6 DEF Resp, Responses
<1>8. \A y \in Messages(d) \ (S1 \cup S2) : Resp(e)[y] = d.messages[y].response
  BY <1>1, <1>7 DEF Answers
<1> HIDE DEF e, g, S0, S1, S2
<1>9. CASE w.id = id
  <2>1. id \in Chain(Resp(e), id)
    BY <1>0, ChainStart
  <2> QED
    BY <1>9, <2>1 DEF e
<1>10. CASE w.id # id
  <2>1. p # 0
    BY <1>2, <1>3, <1>10 DEF NotBefore
  <2>2. S1 = (S0 \ (Chain(r, p) \cup {p})) \ {id}
    BY <1>3, <2>1, NotBeforeParts
  <2>3. S2 \cap (Chain(q, p) \cup {p}) = {}
    BY <1>5, <2>1, NotBeforeParts
  <2>4. w.id \in Chain(r, p)
    <3>1. p \in Chain(r, p)
      BY <2>1, ChainStart
    <3> QED
      BY <1>2, <1>10, <2>2, <3>1
  <2>5. DOMAIN r = ThreadOf(d, p) /\ \A y \in ThreadOf(d, p) : r[y] = d.messages[y].response
    BY DEF Responses
  <2>6. DOMAIN q = ThreadOf(g, p) /\ \A y \in ThreadOf(g, p) : q[y] = g.messages[y].response
    BY DEF Responses
  <2> HIDE DEF r, q
  <2>7. ThreadOf(d, p) \subseteq ThreadOf(g, p)
    <3>1. PICK T, t : Moved(d, g, T, t)
      BY <1>4
    <3>2. \A m \in Messages(d) : g.messages[m].account = d.messages[m].account
      BY <1>4 DEF Kept
    <3> QED
      BY <1>6, <3>1, <3>2 DEF ThreadOf, Moved
  <2>8. ThreadOf(g, p) \subseteq Messages(d) /\ ThreadOf(d, p) \subseteq Messages(d)
    BY <1>6 DEF ThreadOf
  <2>9. \A y \in Messages(d) : g.messages[y].response = IF y \in S1 THEN id ELSE d.messages[y].response
    BY <1>4 DEF Answers
  <2>10. Chain(r, p) \subseteq Chain(q, p)
    <3>1. \A y \in Chain(r, p) \cap DOMAIN r : y \in DOMAIN q /\ q[y] = r[y]
      BY <2>2, <2>5, <2>6, <2>7, <2>8, <2>9
    <3> QED
      BY <1>0, <2>1, <2>5, <2>6, <2>8, <3>1, ChainKept
  <2>11. Chain(r, p) \subseteq Chain(Resp(e), p)
    <3>1. \A y \in Chain(r, p) \cap DOMAIN r : y \in DOMAIN Resp(e) /\ Resp(e)[y] = r[y]
      BY <1>7, <1>8, <2>2, <2>3, <2>5, <2>8, <2>10
    <3> QED
      BY <1>0, <1>7, <2>1, <2>5, <2>8, <3>1, ChainKept
  <2>12. Resp(e)[id] = p
    <3>1. id \notin S1 \cup S2
      BY <1>5, <2>2
    <3> QED
      BY <1>8, <3>1
  <2>13. Chain(Resp(e), id) = {id} \cup Chain(Resp(e), p)
    BY <1>0, <1>7, <2>12, ChainUnfold
  <2> QED
    BY <2>4, <2>11, <2>13 DEF e
<1> QED
  BY <1>9, <1>10

\* What still waits for a message that is added comes before it.
LEMMA AddedArrival ==
  ASSUME NEW d, Stored(d), NEW e, NEW c, Uncached(c), NEW f, NEW id, NEW md, NEW lost,
         Added(d, e, c, f, id, md, lost),
         NEW n \in Messages(e) \ Messages(d), NEW w \in e.missing,
         w.identifier = e.messages[n].identifier, e.messages[w.id].account = e.messages[n].account
  PROVE  w.id \in Chain(Resp(e), n)
<1> DEFINE x == ResolveMissingMessages(f, c, id, md, md.identifier)
<1>1. /\ Stored(f) /\ id \in Messages(f) /\ e.messages = x.messages
      /\ id \notin Messages(d) /\ n = id /\ Stored(e)
  BY AddedStored
<1>2. Arrived(d, f, id, md) /\ lost \in Seq(Range(md.mail.references)) /\ md \in Row
  BY DEF Added
<1>3. /\ Messages(f) = Messages(d) \cup {id} /\ f.messages[id] = md /\ f.missing = d.missing
      /\ Kept(f, x) /\ SameIdentifiers(f, x) /\ x.missing \subseteq f.missing
  BY <1>1, <1>2, ResolveParts DEF Arrived
<1>4. e.missing = x.missing \cup MissingEntries(id, lost)
  <2>1. DOMAIN x = Fields
    BY <1>3 DEF Kept, Table
  <2>2. e = [x EXCEPT !.missing = @ \cup MissingEntries(id, lost)]
    BY DEF Added
  <2> HIDE DEF x
  <2> QED
    BY <2>1, <2>2 DEF Fields
<1>5. id # 0 /\ Messages(e) = Messages(x) /\ Resp(e) = Resp(x) /\ Messages(x) = Messages(f)
  <2>1. id # 0
    BY <1>1, StoredFacts
  <2>2. Messages(x) = Messages(f)
    BY <1>3 DEF Kept
  <2> HIDE DEF x
  <2> QED
    BY <1>1, <2>1, <2>2 DEF Messages, Resp, Responses
<1>6. CASE w \in MissingEntries(id, lost)
  <2>1. w.id = id
    BY <1>2, <1>6, EntriesGood
  <2> QED
    BY <1>1, <1>5, <2>1, ChainStart
<1>7. CASE w \in x.missing
  <2>1. w \in f.missing /\ w \in d.missing
    BY <1>3, <1>7
  <2>2. w.id \in Messages(f) /\ w.identifier \in Range(f.messages[w.id].mail.references)
    BY <1>1, <2>1 DEF Stored, MissingGood
  <2>3. w.identifier # 0
    <3>1. f.messages[w.id].mail.references \in Seq(Nat \ {0})
      BY <1>1, <2>2, StoredFacts, ThreadsAssumption
    <3>2. Range(f.messages[w.id].mail.references) \subseteq Nat \ {0}
      BY <3>1 DEF Range
    <3> QED
      BY <2>2, <3>2
  <2>4. /\ x.messages[id].identifier = md.identifier /\ x.messages[id].account = md.account
        /\ x.messages[w.id].account = f.messages[w.id].account
    BY <1>1, <1>3, <2>2 DEF Kept, SameIdentifiers
  <2>5. w.identifier = md.identifier /\ f.messages[w.id].account = md.account
    BY <1>1, <2>4
  <2>6. w \in Asks(f, md, md.identifier)
    BY <2>1, <2>5 DEF Asks
  <2>8. md.response = f.messages[id].response /\ md.identifier # 0
    BY <1>3, <2>3, <2>5
  <2>9. w.id \in Chain(Resp(x), id)
    BY <1>1, <1>7, <2>6, <2>8, ResolveArrival
  <2> QED
    BY <1>1, <1>5, <2>9
<1> QED
  BY <1>4, <1>6, <1>7

-----------------------------------------------------------------------------
(* Updating a message *)

\* The metadata md of message id names the thread it has, or that of its predecessor.
Beneath(d, id, md) ==
  \/ md.thread = d.messages[id].thread
  \/ md.response \in Messages(d) /\ d.messages[md.response].thread = md.thread

\* What a new predecessor in attemptUpdateMessage changes and what it leaves.
LEMMA ChangeParts ==
  ASSUME NEW d, Stored(d), NEW id \in Messages(d), NEW md \in Row, Beneath(d, id, md)
  PROVE  LET e == ChangePredecessor(d, id, md)
         IN /\ Kept(d, e) /\ SameIdentifiers(d, e) /\ SameResponses(d, e)
            /\ e.missing \subseteq d.missing /\ ThreadsGood(e)
            /\ ThreadsThere(d) => ThreadsThere(e) /\ md.thread \in DOMAIN e.threads
            /\ md.response \in Messages(d) => Moved(d, e, {d.messages[id].thread}, md.thread)
<1> DEFINE e   == ChangePredecessor(d, id, md)
           old == d.messages[id].thread
           p   == md.response
           successors == {m \in Messages(d) : id \in Chain(Responses(d, Messages(d)), m)}
           new == AddThread(d, md, 1, One(~md.read))
           moved == [new EXCEPT !.messages = [m \in DOMAIN @ |->
                      IF m \in successors THEN [@[m] EXCEPT !.thread = new.lastThread] ELSE @[m]]]
           failed == [d EXCEPT !.failed = TRUE]
           merged == MergeThreads(d, {old}, d.messages[p].thread, d.messages[p].thread)
           Rest(a) == [a EXCEPT !.missing = {w \in @ : w.id # id}, !.waiting = {w \in @ : w.id # id}]
           Good(a) == /\ Kept(d, a) /\ SameIdentifiers(d, a) /\ SameResponses(d, a)
                      /\ a.missing \subseteq d.missing /\ ThreadsGood(a)
                      /\ ThreadsThere(d) => ThreadsThere(a) /\ md.thread \in DOMAIN a.threads
                      /\ md.response \in Messages(d) => Moved(d, a, {old}, md.thread)
<1>0. /\ Table(d) /\ ThreadsGood(d) /\ 0 \notin Messages(d) /\ old \in Nat
      /\ \A m \in Messages(d) : d.messages[m] \in Row /\ d.messages[m].thread \in Nat
  BY StoredFacts DEF Stored
<1>1. \/ p = 0 /\ e = Rest(moved)
      \/ md.thread = old /\ p # 0 /\ e = Rest(d)
      \/ p \notin Messages(d) /\ e = Rest(failed)
      \/ md.thread # old /\ p \in Messages(d) /\ e = Rest(merged)
  BY DEF ChangePredecessor
<1>2. ThreadsThere(d) => md.thread \in DOMAIN d.threads
  BY DEF Beneath, ThreadsThere
<1>3. ASSUME p = 0 PROVE Good(moved)
  <2>1. Beside(d, new) /\ new.lastThread = d.lastThread + 1 /\ ThreadsMore(d, new)
    BY <1>0, AddThreadParts
  <2> HIDE DEF new, successors
  <2> DEFINE f == [m \in Messages(d) |->
                     IF m \in successors THEN [d.messages[m] EXCEPT !.thread = new.lastThread] ELSE d.messages[m]]
  <2>2. /\ DOMAIN moved = Fields /\ moved.messages = f /\ moved.threads = new.threads
        /\ moved.missing = d.missing /\ moved.lastMessage = d.lastMessage /\ moved.lastThread = d.lastThread + 1
    BY <2>1 DEF Beside, Fields, Messages
  <2>3. new.lastThread \in Nat
    BY <1>0, <2>1 DEF ThreadsGood
  <2>4. f \in [Messages(d) -> Row]
    BY <1>0, <2>3 DEF Row
  <2>5. \A m \in Messages(d) :
          /\ f[m].account = d.messages[m].account /\ f[m].mail = d.messages[m].mail
          /\ f[m].identifier = d.messages[m].identifier /\ f[m].response = d.messages[m].response
          /\ f[m].thread \in {d.messages[m].thread, d.lastThread + 1}
    BY <1>0, <2>1 DEF Row
  <2>6. DOMAIN f = Messages(d)
    OBVIOUS
  <2> HIDE DEF f, moved
  <2>7. Messages(moved) = Messages(d)
    BY <2>2, <2>6 DEF Messages
  <2>8. Kept(d, moved) /\ SameIdentifiers(d, moved) /\ SameResponses(d, moved) /\ moved.missing \subseteq d.missing
    BY <2>2, <2>4, <2>5, <2>7 DEF Kept, Table, SameIdentifiers, SameResponses
  <2>9. ThreadsGood(moved)
    BY <1>0, <2>1, <2>2 DEF ThreadsGood, ThreadsMore
  <2>10. ThreadsThere(d) => ThreadsThere(moved) /\ md.thread \in DOMAIN moved.threads
    BY <1>2, <2>1, <2>2, <2>5, <2>7 DEF ThreadsThere, ThreadsMore
  <2> QED
    BY <1>0, <1>3, <2>8, <2>9, <2>10
<1>4. ASSUME NEW a, a = d \/ (a = failed /\ p \notin Messages(d)), md.thread = old \/ p \notin Messages(d) PROVE Good(a)
  <2>1. /\ DOMAIN a = Fields /\ a.messages = d.messages /\ a.threads = d.threads /\ a.missing = d.missing
        /\ a.lastMessage = d.lastMessage /\ a.lastThread = d.lastThread
    BY <1>0, <1>4 DEF Table, Fields
  <2>2. Messages(a) = Messages(d)
    BY <2>1 DEF Messages
  <2>3. Kept(d, a) /\ SameIdentifiers(d, a) /\ SameResponses(d, a) /\ a.missing \subseteq d.missing
    BY <1>0, <2>1, <2>2 DEF Kept, Table, SameIdentifiers, SameResponses
  <2>4. ThreadsGood(a)
    BY <1>0, <2>1 DEF ThreadsGood
  <2>5. ThreadsThere(d) => ThreadsThere(a) /\ md.thread \in DOMAIN a.threads
    BY <1>2, <2>1, <2>2 DEF ThreadsThere
  <2>6. p \in Messages(d) => Moved(d, a, {old}, md.thread)
    BY <1>4, <2>1 DEF Moved
  <2> QED
    BY <2>3, <2>4, <2>5, <2>6
<1>5. ASSUME p \in Messages(d), md.thread # old PROVE Good(merged)
  <2>1. d.messages[p].thread = md.thread /\ md.thread \in Nat
    BY <1>0, <1>5 DEF Beneath
  <2> DEFINE t == md.thread
             x == MergeThreads(d, {old}, t, t)
  <2>2. merged = x
    BY <2>1
  <2>3. /\ Kept(d, x) /\ SameIdentifiers(d, x) /\ SameResponses(d, x)
        /\ x.missing = d.missing /\ x.lastThread = d.lastThread
        /\ Moved(d, x, {old}, t) /\ ThreadsLess(d, x, {old})
    BY <1>0, <2>1, MergeParts
  <2> HIDE DEF x, merged
  <2>4. ThreadsGood(x)
    BY <1>0, <2>3 DEF ThreadsGood, ThreadsLess
  <2>5. ThreadsThere(d) => ThreadsThere(x) /\ t \in DOMAIN x.threads
    <3>1. Messages(x) = Messages(d)
      BY <2>3 DEF Kept
    <3>2. t # old
      BY <1>5
    <3> QED
      BY <1>2, <2>3, <3>1, <3>2 DEF ThreadsThere, ThreadsLess, Moved
  <2> QED
    BY <2>2, <2>3, <2>4, <2>5
<1> HIDE DEF e, moved, failed, merged
<1>6. ASSUME NEW a, Good(a), e = Rest(a) PROVE Good(e)
  <2>1. DOMAIN a = Fields /\ Messages(a) = Messages(d)
    BY <1>6 DEF Kept, Table
  <2>2. /\ DOMAIN e = Fields /\ e.messages = a.messages /\ e.threads = a.threads /\ e.missing \subseteq a.missing
        /\ e.lastMessage = a.lastMessage /\ e.lastThread = a.lastThread
    BY <1>6, <2>1 DEF Fields
  <2>3. Messages(e) = Messages(d)
    BY <2>1, <2>2 DEF Messages
  <2>4. Kept(d, e) /\ SameIdentifiers(d, e) /\ SameResponses(d, e) /\ e.missing \subseteq d.missing
    BY <1>6, <2>1, <2>2, <2>3 DEF Kept, Table, SameIdentifiers, SameResponses
  <2>5. ThreadsGood(e)
    BY <1>6, <2>2 DEF ThreadsGood
  <2>6. ThreadsThere(d) => ThreadsThere(e) /\ md.thread \in DOMAIN e.threads
    BY <1>6, <2>1, <2>2, <2>3 DEF ThreadsThere
  <2>7. p \in Messages(d) => Moved(d, e, {old}, md.thread)
    BY <1>6, <2>2 DEF Moved
  <2> QED
    BY <2>4, <2>5, <2>6, <2>7
<1>7. Good(e)
  <2>1. CASE p = 0 /\ e = Rest(moved)
    BY <1>3, <1>6, <2>1
  <2>2. CASE md.thread = old /\ p # 0 /\ e = Rest(d)
    <3>1. Good(d)
      BY <1>4, <2>2
    <3> QED
      BY <1>6, <2>2, <3>1
  <2>3. CASE p \notin Messages(d) /\ e = Rest(failed)
    <3>1. Good(failed)
      BY <1>4, <2>3
    <3> QED
      BY <1>6, <2>3, <3>1
  <2>4. CASE md.thread # old /\ p \in Messages(d) /\ e = Rest(merged)
    BY <1>5, <1>6, <2>4
  <2> QED
    BY <1>1, <2>1, <2>2, <2>3, <2>4
<1> QED
  BY <1>7 DEF e

\* g is a with the row of id written; the wait for references in V may have begun.
Written(a, g, id, row, V) ==
  /\ Table(g) /\ Messages(g) = Messages(a) /\ g.lastMessage = a.lastMessage /\ g.lastThread = a.lastThread
  /\ \A m \in Messages(a) \ {id} : g.messages[m] = a.messages[m]
  /\ g.messages[id] = row
  /\ EmptyGone(a, g)
  /\ \A w \in g.missing : w \in a.missing \/ (w.id = id /\ w.level \in Int /\ w.identifier \in V)

\* attemptUpdateMessage from the row that is written to the references that are missing.
Write(a, id, row, old, md, unknown, data, content, name, lost) ==
  LET b == [a EXCEPT !.messages[id] = row]
      e == CountUpdate(b, old, md)
      f == IF data THEN RegisterSubject(e, id, md, unknown) ELSE e
  IN IF ~content THEN f
     ELSE [f EXCEPT !.messages[id].identifier = name,
                    !.missing = IF lost = <<>> THEN @
                                ELSE {w \in @ : w.id # id} \cup MissingEntries(id, lost)]

\* What attemptUpdateMessage writes changes one row.
LEMMA WriteParts ==
  ASSUME NEW a, Table(a), NEW id \in Messages(a), NEW row \in Row, NEW old, NEW md, NEW unknown,
         NEW data, NEW content, NEW name \in Nat, NEW V, NEW lost \in Seq(V)
  PROVE  Written(a, Write(a, id, row, old, md, unknown, data, content, name, lost), id,
                 IF content THEN [row EXCEPT !.identifier = name] ELSE row, V)
<1> DEFINE b == [a EXCEPT !.messages[id] = row]
           e == CountUpdate(b, old, md)
           f == IF data THEN RegisterSubject(e, id, md, unknown) ELSE e
           X == IF lost = <<>> THEN f.missing ELSE {w \in f.missing : w.id # id} \cup MissingEntries(id, lost)
           h == [f EXCEPT !.messages[id].identifier = name,
                          !.missing = IF lost = <<>> THEN @
                                      ELSE {w \in @ : w.id # id} \cup MissingEntries(id, lost)]
           g == IF ~content THEN f ELSE h
           new == IF content THEN [row EXCEPT !.identifier = name] ELSE row
<1>1. /\ DOMAIN b = Fields /\ b.messages \in [Messages(a) -> Row] /\ b.messages[id] = row
      /\ \A m \in Messages(a) \ {id} : b.messages[m] = a.messages[m]
      /\ b.threads = a.threads /\ b.missing = a.missing /\ b.lastMessage = a.lastMessage
      /\ b.lastThread = a.lastThread
  BY DEF Table, Fields
<1> HIDE DEF b
<1>2. Messages(b) = Messages(a) /\ Table(b)
  BY <1>1 DEF Messages, Table
<1>3. Beside(b, e) /\ e.lastThread = b.lastThread /\ EmptyLess(b, e)
  BY <1>2, CountParts
<1> HIDE DEF e
<1>4. Table(e)
  BY <1>2, <1>3 DEF Beside, Table, Messages
<1>5. Beside(e, f) /\ f.lastThread = e.lastThread /\ f.threads = e.threads
  <2>1. CASE data
    BY <1>4, <2>1, RegisterParts
  <2>2. CASE ~data
    BY <1>4, <2>2 DEF Beside, Table
  <2> QED
    BY <2>1, <2>2
<1> HIDE DEF f
<1>6. /\ DOMAIN f = Fields /\ f.messages = b.messages /\ f.missing = a.missing /\ f.lastMessage = a.lastMessage
      /\ f.lastThread = a.lastThread /\ EmptyLess(b, f)
  BY <1>1, <1>3, <1>5 DEF Beside, EmptyLess
<1>7. /\ DOMAIN h = Fields /\ h.messages = [f.messages EXCEPT ![id].identifier = name] /\ h.missing = X
      /\ h.lastMessage = f.lastMessage /\ h.lastThread = f.lastThread /\ h.threads = f.threads
  BY <1>6 DEF Fields
<1>8. /\ DOMAIN g = Fields /\ g.messages = [b.messages EXCEPT ![id] = new]
      /\ g.lastMessage = a.lastMessage /\ g.lastThread = a.lastThread /\ g.threads = f.threads
      /\ g.missing = IF content THEN X ELSE a.missing
  <2>1. CASE ~content
    BY <1>1, <1>6, <2>1
  <2>2. CASE content
    <3>1. [b.messages EXCEPT ![id].identifier = name] = [b.messages EXCEPT ![id] = new]
      BY <1>1, <2>2
    <3> HIDE DEF X, h, new
    <3>2. g = h
      BY <2>2
    <3> HIDE DEF g
    <3> QED
      BY <1>6, <1>7, <2>2, <3>1, <3>2
  <2> QED
    BY <2>1, <2>2
<1>9. new \in Row /\ new.thread = row.thread
  BY DEF Row
<1> HIDE DEF g, h, new
<1>10. /\ g.messages \in [Messages(a) -> Row] /\ g.messages[id] = new
       /\ \A m \in Messages(a) \ {id} : g.messages[m] = a.messages[m]
  BY <1>1, <1>8, <1>9
<1>11. Messages(g) = Messages(a)
  BY <1>10 DEF Messages
<1>12. EmptyGone(a, g)
  <2>1. PICK T : DOMAIN f.threads = DOMAIN b.threads \ {t \in T : InThread(b, t) = {}}
    BY <1>6 DEF EmptyLess
  <2>2. \A t : InThread(b, t) = InThread(g, t)
    <3>1. \A m \in Messages(a) : b.messages[m].thread = g.messages[m].thread
      BY <1>1, <1>9, <1>10
    <3> QED
      BY <1>2, <1>11, <3>1 DEF InThread
  <2>3. {t \in T : InThread(b, t) = {}} = {t \in T : InThread(g, t) = {}}
    BY <2>2
  <2>4. DOMAIN g.threads = DOMAIN a.threads \ {t \in T : InThread(g, t) = {}}
    BY <1>1, <1>8, <2>1, <2>3
  <2> QED
    BY <2>4 DEF EmptyGone
<1>13. \A w \in g.missing : w \in a.missing \/ (w.id = id /\ w.level \in Int /\ w.identifier \in V)
  <2>1. \A w \in MissingEntries(id, lost) : w.id = id /\ w.level \in Int /\ w.identifier \in V
    BY EntriesGood
  <2> QED
    BY <1>6, <1>8, <2>1
<1>14. Written(a, g, id, new, V)
  BY <1>8, <1>10, <1>11, <1>12, <1>13 DEF Written, Table
<1> QED
  BY <1>14 DEF g, h, new, f, e, b, Write

\* The predecessor of md has been found by messagePredecessor.
Found(d, id, md) ==
  /\ md.response \in Messages(d)
  /\ d.messages[md.response].thread = md.thread /\ d.messages[md.response].account = md.account
  /\ ClocksAgree => d.messages[md.response].mail.stamp < md.mail.stamp
  /\ SameThread(d) => id \notin Chain(Resp(d), md.response)

\* The metadata md of message id have its predecessor and thread.
Unchanged(d, id, md) == md.response = d.messages[id].response /\ md.thread = d.messages[id].thread

\* The metadata that message id is given.
Drafted(d, id, md, data) ==
  /\ md \in Row /\ md.account = d.messages[id].account /\ md.mail = d.messages[id].mail
  /\ Beneath(d, id, md)
  /\ ~data => Unchanged(d, id, md) \/ md.response \in Messages(d)
  /\ ~Detaching => Unchanged(d, id, md) \/ Found(d, id, md)

\* g is d with the metadata md, before other messages are looked at.
Rewritten(d, g, id, md, data) ==
  /\ Stored(g) /\ Messages(g) = Messages(d)
  /\ \A m \in Messages(d) : /\ g.messages[m].account = d.messages[m].account
                            /\ g.messages[m].mail = d.messages[m].mail
  /\ \A m \in Messages(d) : g.messages[m].response = IF m = id THEN md.response ELSE d.messages[m].response
  /\ Named(d) => Named(g)
  /\ ThreadsThere(d) => ThreadsThere(g)
  /\ data \/ md.response # d.messages[id].response => g.messages[id].thread = md.thread
  /\ ~Detaching /\ SameThread(d) => Moved(d, g, {d.messages[id].thread}, md.thread)

\* The new predecessor and the row together.
LEMMA RewrittenParts ==
  ASSUME NEW d, Stored(d), NEW id \in Messages(d), NEW data, NEW md, Drafted(d, id, md, data),
         NEW content, NEW name, NEW V, V \subseteq Range(d.messages[id].mail.references), NEW a, NEW g,
         a = IF md.response # d.messages[id].response THEN ChangePredecessor(d, id, md) ELSE d,
         name = d.messages[id].mail.identifier,
         NEW row, row = IF data THEN [md EXCEPT !.identifier = d.messages[id].identifier]
                        ELSE [a.messages[id] EXCEPT !.response = md.response],
         Written(a, g, id, IF content THEN [row EXCEPT !.identifier = name] ELSE row, V)
  PROVE  Rewritten(d, g, id, md, data)
<1> DEFINE old == d.messages[id]
           new == IF content THEN [row EXCEPT !.identifier = name] ELSE row
<1>0. /\ Table(d) /\ ThreadsGood(d) /\ old \in Row /\ MissingGood(d) /\ IdentifiersGood(d)
      /\ d.lastMessage \in 0 .. MaxMessages /\ Messages(d) \subseteq 1 .. d.lastMessage
      /\ md \in Row /\ md.account = old.account /\ md.mail = old.mail /\ Beneath(d, id, md)
      /\ ~data => Unchanged(d, id, md) \/ md.response \in Messages(d)
      /\ ~Detaching => Unchanged(d, id, md) \/ Found(d, id, md)
  BY StoredFacts DEF Stored, Drafted
<1>1. /\ Kept(d, a) /\ SameIdentifiers(d, a)
      /\ \A m \in Messages(d) : a.messages[m].response = d.messages[m].response
      /\ a.missing \subseteq d.missing /\ ThreadsGood(a)
      /\ ThreadsThere(d) => ThreadsThere(a) /\ md.thread \in DOMAIN a.threads
  <2>1. CASE md.response # old.response
    <3>1. a = ChangePredecessor(d, id, md)
      BY <2>1
    <3>2. /\ Kept(d, a) /\ SameIdentifiers(d, a) /\ SameResponses(d, a)
          /\ a.missing \subseteq d.missing /\ ThreadsGood(a)
          /\ ThreadsThere(d) => ThreadsThere(a) /\ md.thread \in DOMAIN a.threads
      BY <1>0, <3>1, ChangeParts
    <3> QED
      BY <3>2 DEF SameResponses
  <2>2. CASE md.response = old.response
    <3>1. a = d
      BY <2>2
    <3> QED
      BY <1>0, <3>1 DEF Kept, SameIdentifiers, ThreadsThere, Beneath
  <2> QED
    BY <2>1, <2>2
<1>2. md.response # old.response /\ md.response \in Messages(d) => Moved(d, a, {old.thread}, md.thread)
  <2> SUFFICES ASSUME md.response # old.response, md.response \in Messages(d)
               PROVE  Moved(d, a, {old.thread}, md.thread)
    OBVIOUS
  <2>1. a = ChangePredecessor(d, id, md)
    OBVIOUS
  <2> QED
    BY <1>0, <2>1, ChangeParts
<1>3. Messages(a) = Messages(d) /\ a.messages[id] \in Row /\ a.messages[id].thread \in Nat
  <2>1. Messages(a) = Messages(d) /\ Table(a)
    BY <1>1 DEF Kept
  <2> QED
    BY <2>1 DEF Table, Row
<1>4. /\ row \in Row /\ row.account = old.account /\ row.mail = old.mail /\ row.identifier = old.identifier
      /\ row.response = md.response
      /\ row.thread = IF data THEN md.thread ELSE a.messages[id].thread
  <2>1. CASE data
    BY <1>0, <2>1 DEF Row
  <2>2. CASE ~data
    <3>1. /\ a.messages[id].account = old.account /\ a.messages[id].mail = old.mail
          /\ a.messages[id].identifier = old.identifier
      BY <1>1 DEF Kept, SameIdentifiers
    <3> QED
      BY <1>0, <1>3, <2>2, <3>1 DEF Row
  <2> QED
    BY <2>1, <2>2
<1>5. /\ new.account = old.account /\ new.mail = old.mail /\ new.response = md.response
      /\ new.thread = row.thread
      /\ new.identifier = IF content THEN name ELSE old.identifier
  BY <1>4 DEF Row
<1> HIDE DEF new
<1>6. /\ Table(g) /\ Messages(g) = Messages(d) /\ g.lastMessage = d.lastMessage /\ g.lastThread = a.lastThread
      /\ \A m \in Messages(d) \ {id} : g.messages[m] = a.messages[m]
      /\ g.messages[id] = new /\ EmptyGone(a, g)
      /\ \A w \in g.missing : w \in a.missing \/ (w.id = id /\ w.level \in Int /\ w.identifier \in V)
  <2>1. Written(a, g, id, new, V)
    BY DEF new
  <2>2. a.lastMessage = d.lastMessage /\ a.missing \subseteq d.missing
    BY <1>1 DEF Kept
  <2> QED
    BY <1>3, <2>1, <2>2 DEF Written
<1>7. \A m \in Messages(d) : /\ g.messages[m].account = d.messages[m].account
                             /\ g.messages[m].mail = d.messages[m].mail
                             /\ m # id => g.messages[m].identifier = d.messages[m].identifier
  <2> TAKE m \in Messages(d)
  <2>1. CASE m = id
    BY <1>5, <1>6, <2>1
  <2>2. CASE m # id
    <3>1. g.messages[m] = a.messages[m]
      BY <1>6, <2>2
    <3>2. /\ a.messages[m].account = d.messages[m].account
          /\ a.messages[m].mail = d.messages[m].mail
      BY <1>1 DEF Kept
    <3>3. a.messages[m].identifier = d.messages[m].identifier
      BY <1>1 DEF SameIdentifiers
    <3> QED
      BY <3>1, <3>2, <3>3
  <2> QED
    BY <2>1, <2>2
<1>8. \A m \in Messages(d) : g.messages[m].response = IF m = id THEN md.response ELSE d.messages[m].response
  BY <1>1, <1>5, <1>6
<1>9. IdentifiersGood(g)
  <2>1. g.messages[id].identifier \in {0, g.messages[id].mail.identifier}
    BY <1>0, <1>5, <1>6 DEF IdentifiersGood
  <2>2. \A m \in Messages(d) \ {id} : g.messages[m].identifier \in {0, g.messages[m].mail.identifier}
    BY <1>0, <1>7 DEF IdentifiersGood
  <2> QED
    BY <1>6, <2>1, <2>2 DEF IdentifiersGood
<1>10. Named(d) => Named(g)
  <2> SUFFICES ASSUME Named(d) PROVE Named(g)
    OBVIOUS
  <2>1. g.messages[id].identifier = g.messages[id].mail.identifier
    BY <1>5, <1>6 DEF Named
  <2>2. \A m \in Messages(d) \ {id} : g.messages[m].identifier = g.messages[m].mail.identifier
    BY <1>7 DEF Named
  <2> QED
    BY <1>6, <2>1, <2>2 DEF Named
<1>11. MissingGood(g)
  <2> SUFFICES ASSUME NEW w \in g.missing
               PROVE  /\ w.id \in Messages(g) /\ w.level \in Int
                      /\ w.identifier \in Range(g.messages[w.id].mail.references)
    BY DEF MissingGood
  <2>1. CASE w \in a.missing
    <3>1. /\ w.id \in Messages(d) /\ w.level \in Int
          /\ w.identifier \in Range(d.messages[w.id].mail.references)
      BY <1>0, <1>1, <2>1 DEF MissingGood
    <3>2. g.messages[w.id].mail = d.messages[w.id].mail
      BY <1>7, <3>1
    <3> QED
      BY <1>6, <3>1, <3>2
  <2>2. CASE w.id = id /\ w.level \in Int /\ w.identifier \in V
    BY <1>5, <1>6, <2>2
  <2> QED
    BY <1>6, <2>1, <2>2
<1>12. ThreadsGood(g)
  <2>1. DOMAIN g.threads \subseteq DOMAIN a.threads
    BY <1>6 DEF EmptyGone
  <2> QED
    BY <1>1, <1>6, <2>1 DEF ThreadsGood
<1>13. Stored(g)
  BY <1>0, <1>6, <1>9, <1>11, <1>12 DEF Stored
<1>14. ThreadsThere(d) => ThreadsThere(g)
  <2> SUFFICES ASSUME ThreadsThere(d) PROVE ThreadsThere(g)
    OBVIOUS
  <2>1. ThreadsThere(a) /\ md.thread \in DOMAIN a.threads
    BY <1>1
  <2>2. \A m \in Messages(g) : g.messages[m].thread \in DOMAIN a.threads
    <3>1. g.messages[id].thread \in DOMAIN a.threads
      BY <1>3, <1>4, <1>5, <1>6, <2>1 DEF ThreadsThere
    <3> QED
      BY <1>3, <1>6, <2>1, <3>1 DEF ThreadsThere
  <2> QED
    BY <1>6, <2>2, EmptyGoneThere
<1>15. data \/ md.response # old.response => g.messages[id].thread = md.thread
  <2>1. CASE data
    BY <1>4, <1>5, <1>6, <2>1
  <2>2. CASE ~data /\ md.response # old.response
    <3>1. Moved(d, a, {old.thread}, md.thread)
      BY <1>0, <1>2, <2>2 DEF Unchanged
    <3>2. a.messages[id].thread = md.thread
      BY <3>1 DEF Moved
    <3> QED
      BY <1>4, <1>5, <1>6, <2>2, <3>2
  <2> QED
    BY <2>1, <2>2
<1>16. ~Detaching /\ SameThread(d) => Moved(d, g, {old.thread}, md.thread)
  <2> SUFFICES ASSUME ~Detaching, SameThread(d) PROVE Moved(d, g, {old.thread}, md.thread)
    OBVIOUS
  <2>1. Unchanged(d, id, md) \/ Found(d, id, md)
    BY <1>0
  <2>2. CASE md.response # old.response
    <3>1. Moved(d, a, {old.thread}, md.thread)
      BY <1>2, <2>1, <2>2 DEF Unchanged, Found
    <3>2. g.messages[id].thread = md.thread
      BY <1>15, <2>2
    <3> QED
      BY <1>6, <3>1, <3>2 DEF Moved
  <2>3. CASE md.response = old.response
    <3>1. a = d
      BY <2>3
    <3>2. md.thread = old.thread
      <4>1. CASE Found(d, id, md)
        <5>1. md.response \in Messages(d) /\ md.response # 0 /\ d.messages[md.response].thread = md.thread
          BY <4>1, StoredFacts DEF Found
        <5> QED
          BY <2>3, <5>1 DEF SameThread
      <4> QED
        BY <2>1, <4>1 DEF Unchanged
    <3>3. g.messages[id].thread = old.thread
      BY <1>4, <1>5, <1>6, <3>1, <3>2
    <3> QED
      BY <1>6, <3>1, <3>2, <3>3 DEF Moved
  <2> QED
    BY <2>2, <2>3
<1> QED
  BY <1>6, <1>7, <1>8, <1>10, <1>13, <1>14, <1>15, <1>16 DEF Rewritten

\* What messagePredecessor finds for a message of the store.
LEMMA FoundParts ==
  ASSUME NEW d, Stored(d), NEW id \in Messages(d), NEW md, md.mail \in Headers, NEW refs,
         refs \in {<<>>, md.mail.references}, NEW p, Precedes(d, id, md, refs, p), NEW new,
         new.response = p, new.thread = d.messages[p].thread, new.account = md.account, new.mail = md.mail
  PROVE  Found(d, id, new)
<1>1. p \in Messages(d) /\ d.messages[p].account = md.account /\ id # 0
  BY StoredFacts DEF Precedes
<1>2. ClocksAgree => d.messages[p].mail.stamp < md.mail.stamp
  BY PrecedesEarlier
<1>3. ASSUME SameThread(d) PROVE id \notin Chain(Resp(d), p)
  <2>1. PICK T : /\ d.messages[p].thread \in T
                 /\ id \notin Chain(Responses(d, {m \in Messages(d) : /\ d.messages[m].account = md.account
                                                                     /\ d.messages[m].thread \in T}), p)
    BY <1>1 DEF Precedes
  <2> DEFINE S == {m \in Messages(d) : d.messages[m].account = md.account /\ d.messages[m].thread \in T}
  <2>2. S \subseteq Messages(d) /\ p \in S
    BY <1>1, <2>1
  <2>3. \A m \in S, n \in Messages(d) :
            d.messages[n].thread = d.messages[m].thread /\ d.messages[n].account = d.messages[m].account => n \in S
    OBVIOUS
  <2>4. id \notin Chain(Responses(d, S), p)
    BY <2>1
  <2> HIDE DEF S
  <2>5. Chain(Responses(d, S), p) = Chain(Resp(d), p)
    BY <1>1, <1>3, <2>2, <2>3, ChainInThread
  <2> QED
    BY <2>4, <2>5
<1> QED
  BY <1>1, <1>2, <1>3 DEF Found

\* The copies that clients give.
Copied(d, id, copy, data) ==
  /\ copy \in Row /\ copy.account = d.messages[id].account /\ copy.mail = d.messages[id].mail
  /\ copy.thread = d.messages[id].thread
  /\ ~data \/ ~Detaching => copy.response = d.messages[id].response

\* What a client may change in metadata.
LEMMA EditsParts ==
  ASSUME Stored(db), NEW id \in Messages(db), NEW copy \in Edits(db.messages[id])
  PROVE  Copied(db, id, copy, TRUE)
<1> DEFINE md == db.messages[id]
<1>1. md \in Row /\ db.lastMessage \in Nat
  BY StoredFacts, ThreadsAssumption DEF Stored
<1> HIDE DEF md
<1>2. CASE \E flag \in Flags : copy = [md EXCEPT ![flag] = ~@]
  <2>1. PICK flag \in {"read", "hidden"} : copy = [md EXCEPT ![flag] = ~@]
    BY <1>2, ThreadsAssumption
  <2>2. CASE flag = "read"
    <3>1. copy = [md EXCEPT !.read = ~@]
      BY <2>1, <2>2
    <3> QED
      BY <1>1, <3>1 DEF Row, Copied, md
  <2>3. CASE flag = "hidden"
    <3>1. copy = [md EXCEPT !.hidden = ~@]
      BY <2>1, <2>3
    <3> QED
      BY <1>1, <3>1 DEF Row, Copied, md
  <2> QED
    BY <2>1, <2>2, <2>3
<1>3. CASE \E f \in Folders : copy = [md EXCEPT !.folder = f]
  BY <1>1, <1>3 DEF Row, Copied, md
<1>4. CASE Detaching /\ \E m \in 0 .. db.lastMessage : copy = [md EXCEPT !.response = m]
  BY <1>1, <1>4 DEF Row, Copied, md
<1> QED
  BY <1>2, <1>3, <1>4 DEF Edits, md

\* d becomes e when message id is updated.
Updated(d, e, c, id) ==
  \E g, md, name, data :
    /\ Drafted(d, id, md, data) /\ Rewritten(d, g, id, md, data) /\ name \in {0, d.messages[id].mail.identifier}
    /\ \/ e = g
       \/ /\ e = ResolveMissingMessages(g, c, id, md, name)
          /\ Named(d) => data \/ md.response # d.messages[id].response

\* UpdateMessage fails, or updates a message as Updated says.
LEMMA UpdateParts ==
  ASSUME Stored(db), Uncached(cache), NEW id \in Messages(db), NEW full, NEW data, NEW content,
         NEW copy, Copied(db, id, copy, data), UpdateMessage(id, copy, full, data, content)
  PROVE  Uncached(cache') /\ (db' = db \/ Updated(db, db', cache, id))
<1> DEFINE old  == db.messages[id]
           ask  == full /\ (content \/ copy.response = 0 \/ copy.response # old.response)
           none == [md |-> copy, lost |-> <<>>, unknown |-> FALSE, cache |-> cache]
           refs == old.mail.references
           V    == Range(refs)
<1>0. /\ old \in Row /\ refs \in Seq(Nat \ {0}) /\ old.mail.identifier \in Nat /\ old.mail \in Headers
      /\ copy \in Row /\ copy.account = old.account /\ copy.mail = old.mail /\ copy.thread = old.thread
      /\ ~data \/ ~Detaching => copy.response = old.response
      /\ Table(db) /\ 0 \notin Messages(db)
  BY StoredFacts, ThreadsAssumption DEF Copied
<1>1. refs \in Seq(V) /\ <<>> \in Seq(V)
  <2>1. \A k \in 1 .. Len(refs) : refs[k] \in V
    BY <1>0 DEF Range
  <2> HIDE DEF V, refs
  <2> QED
    BY <1>0, <2>1
<1>2. PICK r \in IF ~ask THEN {none} ELSE MessagePredecessor(db, cache, id, copy, refs) :
        LET md      == r.md
            changed == md.response # old.response
            name    == IF content THEN old.mail.identifier ELSE 0
            a == IF changed THEN ChangePredecessor(db, id, md) ELSE db
            b == [a EXCEPT !.messages[id] =
                    IF data THEN [md EXCEPT !.identifier = old.identifier]
                    ELSE [@ EXCEPT !.response = md.response]]
            e == CountUpdate(b, old, md)
            f == IF data THEN RegisterSubject(e, id, md, r.unknown) ELSE e
            g == IF ~content THEN f
                 ELSE [f EXCEPT !.messages[id].identifier = name,
                                !.missing = IF r.lost = <<>> THEN @
                                            ELSE {w \in @ : w.id # id} \cup MissingEntries(id, r.lost)]
            z == IF data \/ changed \/ name \notin {0, old.identifier}
                 THEN ResolveMissingMessages(g, r.cache, id, md, name) ELSE g
            new(c) == IF data THEN md ELSE [c EXCEPT !.response = md.response]
        IN Commit(z, [m \in DOMAIN r.cache |-> IF m = id THEN new(r.cache[m]) ELSE r.cache[m]])
  BY DEF UpdateMessage
<1> HIDE DEF old, none, refs, V, ask
<1>3. /\ r.cache = cache /\ r.lost \in Seq(V)
      /\ r.md = copy \/ \E p : Precedes(db, id, copy, refs, p) /\ r.md = Follows(db, copy, p)
  <2>1. CASE ~ask
    <3>1. r = none
      BY <1>2, <2>1
    <3> QED
      BY <1>1, <3>1 DEF none
  <2>2. CASE ask
    <3>1. r \in MessagePredecessor(db, cache, id, copy, refs)
      BY <1>2, <2>2
    <3> QED
      BY <1>1, <3>1, PredecessorParts
  <2> QED
    BY <2>1, <2>2
<1> DEFINE md      == r.md
           changed == md.response # old.response
           ident   == old.mail.identifier
           name    == IF content THEN ident ELSE 0
           a == IF changed THEN ChangePredecessor(db, id, md) ELSE db
           row == IF data THEN [md EXCEPT !.identifier = old.identifier]
                  ELSE [a.messages[id] EXCEPT !.response = md.response]
           b == [a EXCEPT !.messages[id] = row]
           e == CountUpdate(b, old, md)
           f == IF data THEN RegisterSubject(e, id, md, r.unknown) ELSE e
           h(k) == [f EXCEPT !.messages[id].identifier = k,
                             !.missing = IF r.lost = <<>> THEN @
                                         ELSE {w \in @ : w.id # id} \cup MissingEntries(id, r.lost)]
           g == IF ~content THEN f ELSE h(ident)
           z == IF data \/ changed \/ name \notin {0, old.identifier}
                THEN ResolveMissingMessages(g, cache, id, md, name) ELSE g
<1>4. Drafted(db, id, md, data)
  <2>1. CASE r.md = copy
    BY <1>0, <2>1 DEF Drafted, Beneath, Unchanged, old
  <2>2. ASSUME NEW p, Precedes(db, id, copy, refs, p), r.md = Follows(db, copy, p)
        PROVE  Drafted(db, id, md, data)
    <3>1. p \in Messages(db) /\ p \in Nat /\ db.messages[p].thread \in Nat
      BY <2>2, StoredFacts DEF Precedes
    <3>2. /\ md \in Row /\ md.mail = copy.mail /\ md.response = p /\ md.account = copy.account
          /\ md.thread = db.messages[p].thread
      BY <1>0, <2>2, <3>1 DEF Follows, Row
    <3>3. Found(db, id, md)
      <4>1. refs = copy.mail.references /\ copy.mail \in Headers
        BY <1>0 DEF refs
      <4> HIDE DEF md
      <4> QED
        BY <2>2, <3>2, <4>1, FoundParts
    <3> QED
      BY <1>0, <3>1, <3>2, <3>3 DEF Drafted, Beneath, old
  <2> QED
    BY <1>3, <2>1, <2>2
<1>5. \E k : DOMAIN k = DOMAIN cache /\ Commit(z, k)
  <2> DEFINE g1 == IF ~content THEN f ELSE h(name)
             z1 == IF data \/ changed \/ name \notin {0, old.identifier}
                   THEN ResolveMissingMessages(g1, r.cache, id, md, name) ELSE g1
             new(c) == IF data THEN md ELSE [c EXCEPT !.response = md.response]
             k(c) == [m \in DOMAIN c |-> IF m = id THEN new(c[m]) ELSE c[m]]
  <2>1. Commit(z1, k(r.cache))
    BY <1>2
  <2>2. DOMAIN k(r.cache) = DOMAIN cache
    BY <1>3
  <2>3. name = ident \/ ~content
    OBVIOUS
  <2> HIDE DEF f, name, k
  <2>4. g1 = g
    BY <2>3
  <2> HIDE DEF g1, g
  <2>5. z1 = z
    BY <1>3, <2>4
  <2> HIDE DEF z1, z
  <2> QED
    BY <2>1, <2>2, <2>5
<1>6. Uncached(cache')
  <2>1. DOMAIN cache' = DOMAIN cache
    BY <1>5 DEF Commit
  <2> QED
    BY <2>1 DEF Uncached
<1> HIDE DEF md
<1>7. Table(a) /\ Messages(a) = Messages(db)
  <2>1. CASE changed
    <3>1. Kept(db, ChangePredecessor(db, id, md))
      BY <1>4, ChangeParts DEF Drafted
    <3> QED
      BY <2>1, <3>1 DEF Kept
  <2>2. CASE ~changed
    BY <1>0, <2>2
  <2> QED
    BY <2>1, <2>2
<1> HIDE DEF a
<1>8. row \in Row
  <2>1. a.messages[id] \in Row /\ md \in Row
    BY <1>4, <1>7 DEF Table, Drafted
  <2> QED
    BY <1>0, <2>1 DEF Row
<1> HIDE DEF row, ident
<1>9. Written(a, g, id, IF content THEN [row EXCEPT !.identifier = ident] ELSE row, V)
  <2>1. ident \in Nat
    BY <1>0 DEF ident
  <2> DEFINE g1 == Write(a, id, row, old, md, r.unknown, data, content, ident, r.lost)
  <2>2. Written(a, g1, id, IF content THEN [row EXCEPT !.identifier = ident] ELSE row, V)
    BY <1>3, <1>7, <1>8, <2>1, WriteParts
  <2>3. g = g1
    BY DEF Write
  <2> HIDE DEF g, g1
  <2> QED
    BY <2>2, <2>3
<1> HIDE DEF b, e, f, g, h
<1>10. Rewritten(db, g, id, md, data)
  BY <1>4, <1>9, RewrittenParts DEF a, row, old, V, refs, ident
<1>11. Updated(db, z, cache, id)
  <2>1. name \in {0, db.messages[id].mail.identifier}
    BY DEF ident, old
  <2>2. Named(db) => old.identifier = ident
    BY DEF Named, old, ident
  <2>3. \/ z = g
        \/ /\ z = ResolveMissingMessages(g, cache, id, md, name)
           /\ Named(db) => data \/ md.response # db.messages[id].response
    BY <2>2 DEF old
  <2> HIDE DEF z, name
  <2> QED
    BY <1>4, <1>10, <2>1, <2>3 DEF Updated
<1> QED
  BY <1>5, <1>6, <1>11 DEF Commit

\* An update keeps the form of the tables.
LEMMA UpdatedStored ==
  ASSUME NEW d, Stored(d), NEW id \in Messages(d), NEW e, NEW c, Updated(d, e, c, id)
  PROVE  Stored(e) /\ Messages(e) = Messages(d) /\ (Named(d) => Named(e))
<1>1. PICK g, md, name, data :
        /\ Rewritten(d, g, id, md, data)
        /\ e = g \/ e = ResolveMissingMessages(g, c, id, md, name)
  BY DEF Updated
<1>2. Stored(g) /\ Messages(g) = Messages(d) /\ (Named(d) => Named(g))
  BY <1>1 DEF Rewritten
<1>3. CASE e = g
  BY <1>2, <1>3
<1>4. CASE e = ResolveMissingMessages(g, c, id, md, name)
  <2>1. Stored(e) /\ (Named(g) => Named(e))
    BY <1>2, <1>4, ResolveStored, ResolveNamed
  <2>2. Kept(g, ResolveMissingMessages(g, c, id, md, name))
    BY <1>2, ResolveParts
  <2>3. Messages(e) = Messages(g)
    BY <1>4, <2>2 DEF Kept
  <2> QED
    BY <1>2, <2>1, <2>3
<1> QED
  BY <1>1, <1>3, <1>4

\* An update leaves no message without its thread: here it matters that a
\* message waits for nothing that names it, or is in the thread of what it answers.
LEMMA UpdatedThere ==
  ASSUME NEW d, Stored(d), NEW id \in Messages(d), NEW e, NEW c, Updated(d, e, c, id),
         Named(d) \/ (~Detaching /\ SameThread(d)), ThreadsThere(d)
  PROVE  ThreadsThere(e)
<1>1. PICK g, md, name, data :
        /\ Rewritten(d, g, id, md, data)
        /\ \/ e = g
           \/ /\ e = ResolveMissingMessages(g, c, id, md, name)
              /\ Named(d) => data \/ md.response # d.messages[id].response
  BY DEF Updated
<1>2. Stored(g) /\ id \in Messages(g) /\ ThreadsThere(g)
  BY <1>1 DEF Rewritten
<1>3. CASE e = g
  BY <1>2, <1>3
<1>4. CASE /\ e = ResolveMissingMessages(g, c, id, md, name)
           /\ Named(d) => data \/ md.response # d.messages[id].response
  <2>1. g.messages[id].thread = md.thread
    <3>1. CASE Named(d)
      BY <1>1, <1>4, <3>1 DEF Rewritten
    <3>2. CASE ~Detaching /\ SameThread(d)
      BY <1>1, <3>2 DEF Rewritten, Moved
    <3> QED
      BY <3>1, <3>2
  <2> QED
    BY <1>2, <1>4, <2>1, ResolveThere
<1> QED
  BY <1>1, <1>3, <1>4

\* An update leaves predecessors earlier.
LEMMA UpdatedOrdered ==
  ASSUME NEW d, Stored(d), NEW id \in Messages(d), NEW e, NEW c, Updated(d, e, c, id),
         Ordered(d), ClocksAgree, ~Detaching
  PROVE  Ordered(e)
<1>1. PICK g, md, name, data :
        /\ Drafted(d, id, md, data) /\ Rewritten(d, g, id, md, data) /\ name \in {0, d.messages[id].mail.identifier}
        /\ e = g \/ e = ResolveMissingMessages(g, c, id, md, name)
  BY DEF Updated
<1>2. /\ Stored(g) /\ Messages(g) = Messages(d)
      /\ \A m \in Messages(d) : g.messages[m].mail = d.messages[m].mail
      /\ \A m \in Messages(d) : g.messages[m].response = IF m = id THEN md.response ELSE d.messages[m].response
  BY <1>1 DEF Rewritten
<1>3. md.response # 0 => /\ md.response \in Messages(d)
                         /\ d.messages[md.response].mail.stamp < d.messages[id].mail.stamp
  <2>1. Unchanged(d, id, md) \/ Found(d, id, md)
    BY <1>1 DEF Drafted
  <2>2. md.mail = d.messages[id].mail
    BY <1>1 DEF Drafted
  <2> QED
    BY <2>1, <2>2 DEF Unchanged, Found, Ordered
<1>4. Ordered(g)
  BY <1>2, <1>3 DEF Ordered
<1>5. name \in {0, g.messages[id].mail.identifier}
  BY <1>1, <1>2
<1>6. CASE e = ResolveMissingMessages(g, c, id, md, name)
  BY <1>2, <1>4, <1>5, <1>6, ResolveOrdered DEF ClocksAgree
<1> QED
  BY <1>1, <1>4, <1>6

\* Without subjects, an update leaves conversations in their threads.
LEMMA UpdatedSameThread ==
  ASSUME NEW d, Stored(d), NEW id \in Messages(d), NEW e, NEW c, Uncached(c), Updated(d, e, c, id),
         SameThread(d), Acyclic(Resp(d)), NoSubjects, ~Detaching
  PROVE  SameThread(e) /\ Acyclic(Resp(e))
<1>1. PICK g, md, name, data :
        /\ Drafted(d, id, md, data) /\ Rewritten(d, g, id, md, data)
        /\ e = g \/ e = ResolveMissingMessages(g, c, id, md, name)
  BY DEF Updated
<1> DEFINE old == d.messages[id].thread
<1>2. /\ Stored(g) /\ Messages(g) = Messages(d)
      /\ \A m \in Messages(d) : g.messages[m].account = d.messages[m].account
      /\ \A m \in Messages(d) : g.messages[m].response = IF m = id THEN md.response ELSE d.messages[m].response
      /\ \A m \in Messages(d) : g.messages[m].thread = IF d.messages[m].thread = old THEN md.thread ELSE d.messages[m].thread
  BY <1>1 DEF Rewritten, Moved
<1>3. Unchanged(d, id, md) \/ Found(d, id, md)
  BY <1>1 DEF Drafted
<1>4. md \in Row /\ md.account = d.messages[id].account
  BY <1>1 DEF Drafted
<1> DEFINE p == md.response
<1>5. p # 0 => /\ p \in Messages(d) /\ d.messages[p].account = md.account
               /\ d.messages[p].thread \in {old, md.thread}
  BY <1>3, <1>4 DEF Unchanged, Found, SameThread
<1>6. SameThread(g)
  <2> SUFFICES ASSUME NEW m \in Messages(d), g.messages[m].response # 0
               PROVE  /\ g.messages[m].response \in Messages(d)
                      /\ g.messages[g.messages[m].response].thread = g.messages[m].thread
                      /\ g.messages[g.messages[m].response].account = g.messages[m].account
    BY <1>2 DEF SameThread
  <2>1. CASE m = id
    <3>1. g.messages[m].response = p /\ p # 0
      BY <1>2, <2>1
    <3>2. g.messages[p].thread = md.thread /\ g.messages[id].thread = md.thread
      BY <1>2, <1>5, <3>1
    <3>3. g.messages[p].account = md.account /\ g.messages[id].account = md.account
      BY <1>2, <1>4, <1>5, <3>1
    <3> QED
      BY <1>5, <2>1, <3>1, <3>2, <3>3
  <2>2. CASE m # id
    <3> DEFINE n == d.messages[m].response
    <3>1. g.messages[m].response = n /\ n # 0
      BY <1>2, <2>2
    <3>2. /\ n \in Messages(d) /\ d.messages[n].thread = d.messages[m].thread
          /\ d.messages[n].account = d.messages[m].account
      BY <3>1 DEF SameThread
    <3> HIDE DEF n
    <3> QED
      BY <1>2, <3>1, <3>2
  <2> QED
    BY <2>1, <2>2
<1>7. Acyclic(Resp(g))
  <2>1. /\ DOMAIN Resp(d) = Messages(d) /\ Messages(d) \subseteq 1 .. MaxMessages /\ id # 0
        /\ \A y \in Messages(d) : Resp(d)[y] = d.messages[y].response
    BY StoredFacts
  <2>2. DOMAIN Resp(g) = Messages(d) /\ \A y \in Messages(d) : Resp(g)[y] = g.messages[y].response
    BY <1>2, StoredFacts
  <2>3. \A y \in Messages(d) : Resp(g)[y] = IF y = id THEN p ELSE Resp(d)[y]
    BY <1>2, <2>1, <2>2
  <2>4. CASE p = d.messages[id].response
    <3>1. \A y \in Messages(d) : Resp(g)[y] = Resp(d)[y]
      BY <2>1, <2>3, <2>4
    <3> QED
      BY <2>1, <2>2, <3>1 DEF Acyclic
  <2>5. CASE p # d.messages[id].response
    <3>1. id \notin Chain(Resp(d), p) /\ p \in Messages(d)
      BY <1>3, <2>5 DEF Unchanged, Found
    <3> DEFINE S == {id}
    <3>2. p # 0
      BY <2>1, <3>1, ThreadsAssumption
    <3>3. p \notin S
      BY <3>1, <3>2, ChainStart
    <3>4. S \cap Chain(Resp(d), p) = {} /\ \A y \in Messages(d) : Resp(g)[y] = IF y \in S THEN p ELSE Resp(d)[y]
      BY <2>3, <3>1
    <3> HIDE DEF S, p
    <3> QED
      BY <2>1, <2>2, <3>2, <3>3, <3>4, AcyclicChange
  <2> QED
    BY <2>4, <2>5
<1>8. CASE e = ResolveMissingMessages(g, c, id, md, name)
  <2>1. md.mail.subject = NoSubject
    BY <1>4 DEF NoSubjects, Row
  <2>2. md.response = g.messages[id].response /\ md.thread = g.messages[id].thread /\ md.account = g.messages[id].account
    BY <1>2, <1>4
  <2> QED
    BY <1>2, <1>6, <1>7, <1>8, <2>1, <2>2, ResolveSameThread
<1> QED
  BY <1>1, <1>6, <1>7, <1>8

-----------------------------------------------------------------------------
(* Flags and folders *)

\* e has the messages, predecessors and threads of d; threads without messages may be gone.
Retouched(d, e) ==
  /\ Kept(d, e) /\ SameIdentifiers(d, e) /\ SameResponses(d, e)
  /\ \A m \in Messages(d) : e.messages[m].thread = d.messages[m].thread
  /\ e.missing = d.missing /\ e.lastThread = d.lastThread /\ EmptyGone(d, e)

\* A change of folder or flag keeps the form of the tables, and the threads.
LEMMA RetouchedStored ==
  ASSUME NEW d, Stored(d), NEW e, Retouched(d, e)
  PROVE  Stored(e) /\ Messages(e) = Messages(d) /\ (Named(d) => Named(e)) /\ (ThreadsThere(d) => ThreadsThere(e))
<1>1. /\ Kept(d, e) /\ SameIdentifiers(d, e) /\ e.missing = d.missing /\ e.lastThread = d.lastThread
      /\ EmptyGone(d, e) /\ \A m \in Messages(d) : e.messages[m].thread = d.messages[m].thread
  BY DEF Retouched
<1>2. Messages(e) = Messages(d) /\ \A m \in Messages(d) : e.messages[m].mail = d.messages[m].mail
  BY <1>1 DEF Kept
<1>3. IdentifiersGood(e) /\ (Named(d) => Named(e))
  BY <1>1, <1>2 DEF Stored, IdentifiersGood, SameIdentifiers, Named
<1>4. MissingGood(e)
  BY <1>1, <1>2 DEF Stored, MissingGood
<1>5. ThreadsGood(e)
  <2>1. DOMAIN e.threads \subseteq DOMAIN d.threads
    BY <1>1 DEF EmptyGone
  <2> QED
    BY <1>1, <2>1 DEF Stored, ThreadsGood
<1>6. ThreadsThere(d) => ThreadsThere(e)
  BY <1>1, <1>2, EmptyGoneThere DEF ThreadsThere
<1> QED
  BY <1>1, <1>2, <1>3, <1>4, <1>5, <1>6, KeptStored

\* A change of folder or flag leaves the conversations.
LEMMA RetouchedChains ==
  ASSUME NEW d, NEW e, Retouched(d, e)
  PROVE  (Ordered(d) => Ordered(e)) /\ (SameThread(d) => SameThread(e)) /\ (Acyclic(Resp(d)) => Acyclic(Resp(e)))
<1>1. Messages(e) = Messages(d) /\ Kept(d, e) /\ SameResponses(d, e)
  BY DEF Retouched, Kept
<1>2. Ordered(d) => Ordered(e)
  BY <1>1 DEF Ordered, SameResponses, Kept
<1>3. SameThread(d) => SameThread(e)
  BY <1>1 DEF SameThread, SameResponses, Kept, Retouched
<1>4. Resp(e) = Resp(d)
  BY <1>1 DEF Resp, Responses, SameResponses
<1> QED
  BY <1>2, <1>3, <1>4

\* Rows with a new folder or flag.
LEMMA TouchedParts ==
  ASSUME NEW d, Stored(d), NEW f \in [Messages(d) -> Row],
         \A m \in Messages(d) :
           /\ f[m].account = d.messages[m].account /\ f[m].mail = d.messages[m].mail
           /\ f[m].identifier = d.messages[m].identifier /\ f[m].response = d.messages[m].response
           /\ f[m].thread = d.messages[m].thread,
         NEW e, DOMAIN e = Fields, e.messages = f, e.missing = d.missing, e.lastThread = d.lastThread,
         e.lastMessage = d.lastMessage, \E T : DOMAIN e.threads = DOMAIN d.threads \ {t \in T : InThread(e, t) = {}}
  PROVE  Retouched(d, e)
<1>1. Messages(e) = Messages(d) /\ Table(e)
  BY DEF Messages, Table
<1> QED
  BY <1>1 DEF Retouched, Kept, SameIdentifiers, SameResponses, EmptyGone

\* UpdateMessagesMetaData changes folders only.
LEMMA MoveParts ==
  ASSUME Stored(db), Uncached(cache), NEW S, S \subseteq Messages(db), NEW folder \in Folders,
         UpdateMessagesMetaData(S, folder)
  PROVE  Uncached(cache') /\ (db' = db \/ Retouched(db, db'))
<1> DEFINE f == [m \in Messages(db) |-> IF m \in S THEN [db.messages[m] EXCEPT !.folder = folder] ELSE db.messages[m]]
           k == [m \in DOMAIN cache |-> IF m \in S THEN [cache[m] EXCEPT !.folder = folder] ELSE cache[m]]
           T == {db.messages[m].thread : m \in S}
           d == [db EXCEPT !.messages = f]
           e == RecalculateThreads(d, T)
<1>0. Table(db) /\ \A m \in Messages(db) : db.messages[m] \in Row
  BY StoredFacts
<1>1. Commit(e, k)
  BY DEF UpdateMessagesMetaData, Change, Messages
<1>2. Uncached(cache')
  BY <1>1 DEF Commit, Uncached
<1>3. f \in [Messages(db) -> Row]
  BY <1>0 DEF Row
<1>4. \A m \in Messages(db) :
           /\ f[m].account = db.messages[m].account /\ f[m].mail = db.messages[m].mail
           /\ f[m].identifier = db.messages[m].identifier /\ f[m].response = db.messages[m].response
           /\ f[m].thread = db.messages[m].thread
  BY <1>0 DEF Row
<1> HIDE DEF f, k, T
<1>5. /\ DOMAIN d = Fields /\ d.messages = f /\ d.missing = db.missing /\ d.lastThread = db.lastThread
      /\ d.lastMessage = db.lastMessage /\ d.threads = db.threads
  BY <1>0 DEF Table, Fields
<1> HIDE DEF d
<1>6. Table(d) /\ Messages(d) = Messages(db)
  BY <1>3, <1>5 DEF Table, Messages
<1>7. Beside(d, e) /\ e.lastThread = d.lastThread /\ EmptyLess(d, e)
  BY <1>6, RecalculateParts
<1> HIDE DEF e
<1>8. \E X : DOMAIN e.threads = DOMAIN db.threads \ {t \in X : InThread(e, t) = {}}
  <2>1. PICK X : DOMAIN e.threads = DOMAIN d.threads \ {t \in X : InThread(d, t) = {}}
    BY <1>7 DEF EmptyLess
  <2>2. \A t : InThread(d, t) = InThread(e, t)
    BY <1>7 DEF InThread, Beside, Messages
  <2>3. DOMAIN e.threads = DOMAIN db.threads \ {t \in X : InThread(e, t) = {}}
    BY <1>5, <2>1, <2>2
  <2> QED
    BY <2>3
<1>9. /\ DOMAIN e = Fields /\ e.messages = f /\ e.missing = db.missing /\ e.lastThread = db.lastThread
      /\ e.lastMessage = db.lastMessage
  BY <1>5, <1>7 DEF Beside
<1>10. Retouched(db, e)
  BY <1>3, <1>4, <1>8, <1>9, TouchedParts
<1> QED
  BY <1>1, <1>2, <1>10 DEF Commit

\* Without a cache nothing is put there.
LEMMA LookedAllNone ==
  ASSUME NEW d, Stored(d), NEW c, Uncached(c), NEW S, S \subseteq Messages(d)
  PROVE  DOMAIN LookedAll(d, c, S) = {}
<1> DEFINE free     == CacheSize - Cardinality(DOMAIN c)
           before(m) == {k \in S \ DOMAIN c : k < m}
<1>1. Cardinality(DOMAIN c) = 0 /\ free = 0
  BY FS_EmptySet DEF Uncached
<1>2. \A m : Cardinality(before(m)) \in Nat
  <2> TAKE m
  <2>1. IsFiniteSet(1 .. MaxMessages)
    BY FS_Interval, ThreadsAssumption
  <2>2. before(m) \subseteq 1 .. MaxMessages
    BY StoredFacts
  <2> HIDE DEF before
  <2> QED
    BY <2>1, <2>2, FS_Subset, FS_CardinalityType
<1>3. DOMAIN LookedAll(d, c, S) = DOMAIN c \cup {k \in S : Cardinality(before(k)) < free}
  BY DEF LookedAll
<1> HIDE DEF free, before
<1>4. \A m : ~(Cardinality(before(m)) < free)
  BY <1>1, <1>2
<1> QED
  BY <1>3, <1>4 DEF Uncached

\* UpdateMessagesStatus changes flags and counts only.
LEMMA MarkParts ==
  ASSUME Stored(db), Uncached(cache), NEW S, S \subseteq Messages(db), NEW flag \in Flags, NEW set \in BOOLEAN,
         UpdateMessagesStatus(S, flag, set)
  PROVE  Uncached(cache') /\ (db' = db \/ Retouched(db, db'))
<1> DEFINE f == [m \in Messages(db) |-> IF m \in S THEN [db.messages[m] EXCEPT ![flag] = set] ELSE db.messages[m]]
           c == LookedAll(db, cache, S)
           k == [m \in DOMAIN c |-> IF m \in S THEN [c[m] EXCEPT ![flag] = set] ELSE c[m]]
           first == Metadata(db, cache, Min(S)).thread
           flips == {m \in S : db.messages[m].thread = first /\ db.messages[m].read # set}
           n == Cardinality(flips) * (IF set THEN -1 ELSE 1)
           d == IF flag = "read" THEN AddUnread(db, first, n) ELSE db
           e == [d EXCEPT !.messages = f]
<1>0. Table(db) /\ \A m \in Messages(db) : db.messages[m] \in Row
  BY StoredFacts
<1>2. DOMAIN k = {}
  BY LookedAllNone
<1> HIDE DEF first, n, c
<1>3. Beside(db, d) /\ d.lastThread = db.lastThread /\ DOMAIN d.threads = DOMAIN db.threads
  <2>1. CASE flag = "read"
    BY <1>0, <2>1, AddUnreadParts
  <2>2. CASE flag # "read"
    BY <1>0, <2>2 DEF Beside, Table
  <2> QED
    BY <2>1, <2>2
<1>1. Commit(e, k)
  <2> DEFINE e1 == [d EXCEPT !.messages = Change(@, S, LAMBDA md : [md EXCEPT ![flag] = set])]
  <2>1. Commit(e1, k)
    BY DEF UpdateMessagesStatus, Change, first, n, c
  <2>2. e1 = e
    BY <1>3 DEF Change, Beside, Messages
  <2> HIDE DEF e1, e
  <2> QED
    BY <2>1, <2>2
<1>4. Uncached(cache')
  BY <1>1, <1>2 DEF Commit, Uncached
<1>5. flag \in {"read", "hidden"}
  BY ThreadsAssumption
<1>6. f \in [Messages(db) -> Row]
  BY <1>0, <1>5 DEF Row
<1>7. \A m \in Messages(db) :
           /\ f[m].account = db.messages[m].account /\ f[m].mail = db.messages[m].mail
           /\ f[m].identifier = db.messages[m].identifier /\ f[m].response = db.messages[m].response
           /\ f[m].thread = db.messages[m].thread
  BY <1>0, <1>5 DEF Row
<1> HIDE DEF f, k, d
<1>8. /\ DOMAIN e = Fields /\ e.messages = f /\ e.missing = db.missing /\ e.lastThread = db.lastThread
      /\ e.lastMessage = db.lastMessage /\ DOMAIN e.threads = DOMAIN db.threads
  BY <1>3 DEF Beside, Fields
<1> HIDE DEF e
<1>9. \E X : DOMAIN e.threads = DOMAIN db.threads \ {t \in X : InThread(e, t) = {}}
  <2> DEFINE X == {}
  <2>1. {t \in X : InThread(e, t) = {}} = {}
    OBVIOUS
  <2> HIDE DEF X
  <2>2. DOMAIN e.threads = DOMAIN db.threads \ {t \in X : InThread(e, t) = {}}
    BY <1>8, <2>1
  <2> QED
    BY <2>2
<1>10. Retouched(db, e)
  BY <1>6, <1>7, <1>8, <1>9, TouchedParts
<1> QED
  BY <1>1, <1>4, <1>10 DEF Commit

-----------------------------------------------------------------------------
(* Every step *)

\* e is d without some messages.
Shrunk(d, e) ==
  /\ Stored(e) /\ Messages(e) \subseteq Messages(d)
  /\ Named(d) => Named(e)
  /\ ThreadsThere(d) => ThreadsThere(e)
  /\ Ordered(d) => Ordered(e)
  /\ Acyclic(Resp(d)) /\ SameThread(d) => SameThread(e)
  /\ Acyclic(Resp(d)) /\ Linked(Resp(d)) =>
       /\ Acyclic(Resp(e)) /\ Linked(Resp(e))
       /\ \A m \in Messages(e) : Chain(Resp(e), m) = Chain(Resp(d), m) \cap Messages(e)

\* A removal shrinks the tables.
LEMMA DeletedShrunk ==
  ASSUME NEW d, Stored(d), NEW S, S \subseteq Messages(d), NEW e, Deleted(d, e, S),
         DOMAIN e.threads \subseteq DOMAIN d.threads, ThreadsThere(d) => ThreadsThere(e)
  PROVE  Shrunk(d, e)
<1>1. Stored(e)
  BY DeletedStored
<1>2. Messages(e) \subseteq Messages(d)
  BY DEF Deleted
<1>3. Named(d) => Named(e)
  BY DeletedNamed
<1>4. Ordered(d) => Ordered(e)
  BY DeletedOrdered
<1>5. Acyclic(Resp(d)) /\ SameThread(d) => SameThread(e)
  BY DeletedSameThread
<1>6. Acyclic(Resp(d)) /\ Linked(Resp(d)) =>
        /\ Acyclic(Resp(e)) /\ Linked(Resp(e))
        /\ \A m \in Messages(e) : Chain(Resp(e), m) = Chain(Resp(d), m) \cap Messages(e)
  BY DeletedChains
<1> QED
  BY <1>1, <1>2, <1>3, <1>4, <1>5, <1>6 DEF Shrunk

\* Two removals are one.
LEMMA ShrunkTwice ==
  ASSUME NEW d, NEW a, NEW e, Shrunk(d, a), Shrunk(a, e)
  PROVE  Shrunk(d, e)
<1>1. Stored(e) /\ Messages(e) \subseteq Messages(a) /\ Messages(a) \subseteq Messages(d)
  BY DEF Shrunk
<1>2. Acyclic(Resp(d)) /\ SameThread(d) => SameThread(e)
  <2> SUFFICES ASSUME Acyclic(Resp(d)), SameThread(d) PROVE SameThread(e)
    OBVIOUS
  <2>1. Linked(Resp(d))
    BY SameThreadLinked
  <2>2. SameThread(a) /\ Acyclic(Resp(a))
    BY <2>1 DEF Shrunk
  <2> QED
    BY <2>2 DEF Shrunk
<1>3. ASSUME Acyclic(Resp(d)), Linked(Resp(d))
      PROVE  /\ Acyclic(Resp(e)) /\ Linked(Resp(e))
             /\ \A m \in Messages(e) : Chain(Resp(e), m) = Chain(Resp(d), m) \cap Messages(e)
  <2>1. /\ Acyclic(Resp(a)) /\ Linked(Resp(a))
        /\ \A m \in Messages(a) : Chain(Resp(a), m) = Chain(Resp(d), m) \cap Messages(a)
    BY <1>3 DEF Shrunk
  <2>2. /\ Acyclic(Resp(e)) /\ Linked(Resp(e))
        /\ \A m \in Messages(e) : Chain(Resp(e), m) = Chain(Resp(a), m) \cap Messages(e)
    BY <2>1 DEF Shrunk
  <2>3. \A m \in Messages(e) : Chain(Resp(e), m) = Chain(Resp(d), m) \cap Messages(e)
    <3> TAKE m \in Messages(e)
    <3>1. Chain(Resp(e), m) = Chain(Resp(a), m) \cap Messages(e)
      BY <2>2
    <3>2. Chain(Resp(a), m) = Chain(Resp(d), m) \cap Messages(a)
      BY <1>1, <2>1
    <3> QED
      BY <1>1, <3>1, <3>2
  <2> QED
    BY <2>2, <2>3
<1>4. /\ Named(d) => Named(e)
      /\ ThreadsThere(d) => ThreadsThere(e)
      /\ Ordered(d) => Ordered(e)
  BY DEF Shrunk
<1> QED
  BY <1>1, <1>2, <1>3, <1>4 DEF Shrunk

\* deleteMessages shrinks the tables.
LEMMA DeleteMessagesShrunk ==
  ASSUME NEW d, Stored(d), NEW S, S \subseteq Messages(d)
  PROVE  Shrunk(d, DeleteMessages(d, S))
<1> DEFINE e == DeleteMessages(d, S)
<1>1. Deleted(d, e, S) /\ EmptyGone(d, e)
  BY DeleteParts DEF Stored
<1> HIDE DEF e
<1>2. DOMAIN e.threads \subseteq DOMAIN d.threads
  BY <1>1 DEF EmptyGone
<1>3. ThreadsThere(d) => ThreadsThere(e)
  BY <1>1, DeletedThere
<1>4. Shrunk(d, e)
  BY <1>1, <1>2, <1>3, DeletedShrunk
<1> QED
  BY <1>4 DEF e

\* deleteThreads shrinks the tables.
LEMMA DeleteThreadsShrunk ==
  ASSUME NEW d, Stored(d), NEW T
  PROVE  Shrunk(d, DeleteThreads(d, T))
<1> DEFINE e == DeleteThreads(d, T)
           S == {m \in Messages(d) : d.messages[m].thread \in T}
<1>1. Table(d)
  BY DEF Stored
<1>2. Deleted(d, e, S) /\ DOMAIN e.threads \subseteq DOMAIN d.threads /\ (ThreadsThere(d) => ThreadsThere(e))
  BY <1>1, DeleteThreadsParts
<1>3. S \subseteq Messages(d)
  OBVIOUS
<1> HIDE DEF e, S
<1>4. Shrunk(d, e)
  BY <1>2, <1>3, DeletedShrunk
<1> QED
  BY <1>4 DEF e

\* What a step does to the tables.
Became(d, e, c) ==
  \/ e = d
  \/ \E f, id, md, lost : Added(d, e, c, f, id, md, lost)
  \/ \E id \in Messages(d) : Updated(d, e, c, id)
  \/ Retouched(d, e)
  \/ Shrunk(d, e)

\* What a removal commits shrinks the tables.
LEMMA ExpireParts ==
  ASSUME Uncached(cache), NEW e, Shrunk(db, e), NEW S, Expire(e, S)
  PROVE  Uncached(cache') /\ Became(db, db', cache)
BY DEF Expire, Commit, Without, Uncached, Became

\* Every step of the store is one of these five.
LEMMA NextBecame ==
  ASSUME Stored(db), Uncached(cache), [Next]_vars
  PROVE  Uncached(cache') /\ Became(db, db', cache)
<1>1. ASSUME NEW h \in Headers, NEW bare \in Bare, NEW account \in Accounts, NEW flags \in SUBSET Flags,
             NEW folder \in Folders, NEW response \in IF Detaching THEN 0 .. db.lastMessage ELSE {0},
             AddMessage(h, bare, account, folder, flags, response)
      PROVE  Uncached(cache') /\ Became(db, db', cache)
  <2>1. response \in Nat /\ (response = 0 \/ Detaching)
    <3>1. db.lastMessage \in Nat
      BY ThreadsAssumption DEF Stored
    <3> QED
      BY <3>1
  <2> QED
    BY <1>1, <2>1, AddParts DEF Became
<1>2. ASSUME NEW m \in Messages(db), UpdateMetaData(m)
      PROVE  Uncached(cache') /\ Became(db, db', cache)
  <2>1. PICK copy \in Edits(Metadata(db, cache, m)) : UpdateMessage(m, copy, FALSE, TRUE, FALSE)
    BY <1>2 DEF UpdateMetaData
  <2>2. Metadata(db, cache, m) = db.messages[m]
    BY UncachedReads
  <2>3. Copied(db, m, copy, TRUE)
    BY <2>1, <2>2, EditsParts
  <2> QED
    BY <2>1, <2>3, UpdateParts DEF Became
<1>3. ASSUME NEW m \in Messages(db), UpdateContent(m)
      PROVE  Uncached(cache') /\ Became(db, db', cache)
  <2> DEFINE now == db.messages[m]
  <2>1. CASE UpdateMessage(m, now, TRUE, FALSE, TRUE)
    <3>1. Copied(db, m, now, FALSE)
      BY StoredFacts DEF Copied
    <3> HIDE DEF now
    <3> QED
      BY <2>1, <3>1, UpdateParts DEF Became
  <2>2. ASSUME NEW copy \in Edits(now), NEW content \in BOOLEAN, UpdateMessage(m, copy, TRUE, TRUE, content)
        PROVE  Uncached(cache') /\ Became(db, db', cache)
    <3>1. Copied(db, m, copy, TRUE)
      BY EditsParts
    <3> QED
      BY <2>2, <3>1, UpdateParts DEF Became
  <2> QED
    BY <1>3, <2>1, <2>2 DEF UpdateContent
<1>4. ASSUME NEW m \in Messages(db), ReadMetaData(m)
      PROVE  Uncached(cache') /\ Became(db, db', cache)
  BY <1>4, UncachedReads DEF ReadMetaData, Commit, Became
<1>5. ASSUME NEW S \in SUBSET Messages(db), NEW folder \in Folders, UpdateMessagesMetaData(S, folder)
      PROVE  Uncached(cache') /\ Became(db, db', cache)
  BY <1>5, MoveParts DEF Became
<1>6. ASSUME NEW S \in SUBSET Messages(db), NEW flag \in Flags, NEW set \in BOOLEAN, UpdateMessagesStatus(S, flag, set)
      PROVE  Uncached(cache') /\ Became(db, db', cache)
  BY <1>6, MarkParts DEF Became
<1>7. ASSUME NEW S \in SUBSET Messages(db), RemoveMessages(S)
      PROVE  Uncached(cache') /\ Became(db, db', cache)
  BY <1>7, DeleteMessagesShrunk, ExpireParts DEF RemoveMessages
<1>8. ASSUME NEW folder \in Folders, RemoveFolder(folder)
      PROVE  Uncached(cache') /\ Became(db, db', cache)
  <2> DEFINE S == {m \in Messages(db) : db.messages[m].folder = folder}
  <2>1. S \subseteq Messages(db) /\ Expire(DeleteMessages(db, S), S)
    BY <1>8 DEF RemoveFolder
  <2> HIDE DEF S
  <2> QED
    BY <2>1, DeleteMessagesShrunk, ExpireParts
<1>9. ASSUME NEW t \in DOMAIN db.threads, RemoveThread(t)
      PROVE  Uncached(cache') /\ Became(db, db', cache)
  BY <1>9, DeleteThreadsShrunk, ExpireParts DEF RemoveThread
<1>10. ASSUME NEW account \in Accounts, RemoveAccount(account)
       PROVE  Uncached(cache') /\ Became(db, db', cache)
  <2> DEFINE S == {m \in Messages(db) : db.messages[m].account = account}
             a == DeleteMessages(db, S)
             T == {t \in DOMAIN a.threads : a.threads[t].account = account}
  <2>1. S \subseteq Messages(db) /\ \E X : Expire(DeleteThreads(a, T), X)
    BY <1>10 DEF RemoveAccount
  <2> HIDE DEF S, T
  <2>2. Shrunk(db, a)
    BY <2>1, DeleteMessagesShrunk
  <2> HIDE DEF a
  <2>3. Stored(a)
    BY <2>2 DEF Shrunk
  <2>4. Shrunk(db, DeleteThreads(a, T))
    BY <2>2, <2>3, DeleteThreadsShrunk, ShrunkTwice
  <2> QED
    BY <2>1, <2>4, ExpireParts
<1>11. ASSUME PurgeMissingAncestors
       PROVE  Uncached(cache') /\ Became(db, db', cache)
  <2> DEFINE e == [db EXCEPT !.waiting = {w \in @ : ~w.found}]
  <2>1. Commit(e, <<>>)
    BY <1>11 DEF PurgeMissingAncestors
  <2>2. Table(db) /\ \A m \in Messages(db) : db.messages[m] \in Row
    BY StoredFacts
  <2>3. /\ DOMAIN e = Fields /\ e.messages = db.messages /\ e.missing = db.missing /\ e.lastThread = db.lastThread
        /\ e.lastMessage = db.lastMessage /\ e.threads = db.threads
    BY <2>2 DEF Table, Fields
  <2> HIDE DEF e
  <2>4. \E X : DOMAIN e.threads = DOMAIN db.threads \ {t \in X : InThread(e, t) = {}}
    <3> DEFINE X == {}
    <3>1. {t \in X : InThread(e, t) = {}} = {}
      OBVIOUS
    <3> HIDE DEF X
    <3>2. DOMAIN e.threads = DOMAIN db.threads \ {t \in X : InThread(e, t) = {}}
      BY <2>3, <3>1
    <3> QED
      BY <3>2
  <2> DEFINE f == db.messages
  <2>5. f \in [Messages(db) -> Row]
    BY <2>2 DEF Table
  <2>6. Retouched(db, e)
    BY <2>3, <2>4, <2>5, TouchedParts
  <2>7. DOMAIN cache' = {}
    BY <2>1 DEF Commit
  <2> QED
    BY <2>1, <2>6, <2>7 DEF Commit, Became, Uncached
<1>12. CASE UNCHANGED vars
  BY <1>12 DEF vars, Became, Uncached
<1>13. CASE Next
  BY <1>1, <1>2, <1>3, <1>4, <1>5, <1>6, <1>7, <1>8, <1>9, <1>10, <1>11, <1>13 DEF Next
<1> QED
  BY <1>12, <1>13

\* An empty store has all the invariants.
LEMMA InitStored ==
  ASSUME CacheSize = 0, Init
  PROVE  /\ Stored(db) /\ Uncached(cache) /\ ThreadsThere(db) /\ Named(db) /\ Ordered(db) /\ SameThread(db)
         /\ Acyclic(Resp(db))
<1>1. Messages(db) = {} /\ DOMAIN cache = {} /\ DOMAIN db = Fields /\ db.messages \in [{} -> Row]
  BY DEF Init, Messages, Fields
<1>2. /\ db.lastMessage = 0 /\ db.lastThread = 0 /\ db.missing = {} /\ DOMAIN db.threads = {}
  BY DEF Init
<1>3. Stored(db)
  BY <1>1, <1>2, ThreadsAssumption DEF Stored, Table, ThreadsGood, MissingGood, IdentifiersGood
<1>4. DOMAIN Resp(db) = {}
  BY <1>1 DEF Resp, Responses
<1> QED
  BY <1>1, <1>3, <1>4 DEF Uncached, ThreadsThere, Named, Ordered, SameThread, Acyclic

\* Every step keeps the form of the tables.
LEMMA BecameStored ==
  ASSUME NEW d, Stored(d), NEW e, NEW c, Became(d, e, c)
  PROVE  Stored(e)
BY AddedStored, UpdatedStored, RetouchedStored DEF Became, Shrunk

\* The tables keep their form.
THEOREM TablesKept ==
  ASSUME CacheSize = 0
  PROVE  Spec => [](Stored(db) /\ Uncached(cache))
<1>1. Init => Stored(db) /\ Uncached(cache)
  BY InitStored
<1>2. (Stored(db) /\ Uncached(cache)) /\ [Next]_vars => Stored(db)' /\ Uncached(cache)'
  <2> SUFFICES ASSUME Stored(db), Uncached(cache), [Next]_vars PROVE Stored(db)' /\ Uncached(cache)'
    OBVIOUS
  <2>1. Uncached(cache') /\ Became(db, db', cache)
    BY NextBecame
  <2>2. Stored(db')
    BY <2>1, BecameStored
  <2> QED
    BY <2>1, <2>2 DEF Stored, Uncached, Table, Messages, ThreadsGood, MissingGood, IdentifiersGood
<1> QED
  BY <1>1, <1>2, PTL DEF Spec

\* Each invariant below is kept by whatever becomes of the tables.
LEMMA BecameNamed ==
  ASSUME NEW d, Stored(d), NEW e, NEW c, Became(d, e, c), TRUE \notin Bare, Named(d), ThreadsThere(d)
  PROVE  Named(e) /\ ThreadsThere(e)
<1>1. ASSUME NEW f, NEW id, NEW md, NEW lost, Added(d, e, c, f, id, md, lost)
      PROVE  Named(e) /\ ThreadsThere(e)
  BY <1>1, AddedNamed, AddedThere
<1>2. ASSUME NEW id \in Messages(d), Updated(d, e, c, id)
      PROVE  Named(e) /\ ThreadsThere(e)
  BY <1>2, UpdatedStored, UpdatedThere
<1>3. CASE Retouched(d, e)
  BY <1>3, RetouchedStored
<1>4. CASE Shrunk(d, e)
  BY <1>4 DEF Shrunk
<1> QED
  BY <1>1, <1>2, <1>3, <1>4 DEF Became

\* Every step leaves predecessors earlier.
LEMMA BecameOrdered ==
  ASSUME NEW d, Stored(d), NEW e, NEW c, Became(d, e, c), ClocksAgree, ~Detaching, Ordered(d)
  PROVE  Ordered(e)
<1>1. ASSUME NEW f, NEW id, NEW md, NEW lost, Added(d, e, c, f, id, md, lost) PROVE Ordered(e)
  BY <1>1, AddedOrdered
<1>2. ASSUME NEW id \in Messages(d), Updated(d, e, c, id) PROVE Ordered(e)
  BY <1>2, UpdatedOrdered
<1>3. CASE Retouched(d, e)
  BY <1>3, RetouchedChains
<1>4. CASE Shrunk(d, e)
  BY <1>4 DEF Shrunk
<1> QED
  BY <1>1, <1>2, <1>3, <1>4 DEF Became

\* Conversations are in threads, and have an end.
Threaded(d) == ThreadsThere(d) /\ SameThread(d) /\ Acyclic(Resp(d))

\* Without subjects, every step leaves conversations in their threads.
LEMMA BecameThreaded ==
  ASSUME NEW d, Stored(d), NEW e, NEW c, Uncached(c), Became(d, e, c), NoSubjects, ~Detaching, Threaded(d)
  PROVE  Threaded(e)
<1>0. ThreadsThere(d) /\ SameThread(d) /\ Acyclic(Resp(d)) /\ Linked(Resp(d))
  BY SameThreadLinked DEF Threaded
<1>1. ASSUME NEW f, NEW id, NEW md, NEW lost, Added(d, e, c, f, id, md, lost) PROVE Threaded(e)
  BY <1>0, <1>1, AddedThere, AddedSameThread DEF Threaded
<1>2. ASSUME NEW id \in Messages(d), Updated(d, e, c, id) PROVE Threaded(e)
  BY <1>0, <1>2, UpdatedThere, UpdatedSameThread DEF Threaded
<1>3. CASE Retouched(d, e)
  BY <1>0, <1>3, RetouchedStored, RetouchedChains DEF Threaded
<1>4. CASE Shrunk(d, e)
  BY <1>0, <1>4 DEF Shrunk, Threaded
<1>5. CASE e = d
  BY <1>5
<1> QED
  BY <1>1, <1>2, <1>3, <1>4, <1>5 DEF Became

-----------------------------------------------------------------------------
(* The properties *)

\* Every message has the identifier of its mail, if no message is added as
\* metadata only: a message then never waits for what names it.
LEMMA NamesKept ==
  ASSUME CacheSize = 0, TRUE \notin Bare
  PROVE  Spec => [](Named(db) /\ ThreadsThere(db))
<1>1. Init => Named(db) /\ ThreadsThere(db)
  BY InitStored
<1>2. ASSUME Stored(db) /\ Uncached(cache), Named(db) /\ ThreadsThere(db), [Next]_vars
      PROVE  Named(db)' /\ ThreadsThere(db)'
  <2>1. Named(db') /\ ThreadsThere(db')
    BY <1>2, NextBecame, BecameNamed
  <2> QED
    BY <2>1 DEF Named, ThreadsThere, Messages
<1> QED
  BY <1>1, <1>2, TablesKept, PTL DEF Spec

\* A predecessor is always earlier, if the clocks agree.
LEMMA OrderKept ==
  ASSUME CacheSize = 0, ~Detaching, ClocksAgree
  PROVE  Spec => []Ordered(db)
<1>1. Init => Ordered(db)
  BY InitStored
<1>2. ASSUME Stored(db) /\ Uncached(cache), Ordered(db), [Next]_vars
      PROVE  Ordered(db)'
  <2>1. Ordered(db')
    BY <1>2, NextBecame, BecameOrdered
  <2> QED
    BY <2>1 DEF Ordered, Messages
<1> QED
  BY <1>1, <1>2, TablesKept, PTL DEF Spec

\* Without subjects, a conversation is always in one thread.
LEMMA ThreadedKept ==
  ASSUME CacheSize = 0, ~Detaching, NoSubjects
  PROVE  Spec => []Threaded(db)
<1>1. Init => Threaded(db)
  BY InitStored DEF Threaded
<1>2. ASSUME Stored(db) /\ Uncached(cache), Threaded(db), [Next]_vars
      PROVE  Threaded(db)'
  <2>1. Threaded(db')
    BY <1>2, NextBecame, BecameThreaded
  <2> QED
    BY <2>1 DEF Threaded, ThreadsThere, SameThread, Acyclic, Resp, Responses, Messages
<1> QED
  BY <1>1, <1>2, TablesKept, PTL DEF Spec

\* Every predecessor is there, and no message comes before itself.
Sound(d) == Acyclic(Resp(d)) /\ Linked(Resp(d))

\* Either way, the predecessors are there and make no cycle.
LEMMA SoundKept ==
  ASSUME CacheSize = 0, ~Detaching, ClocksAgree \/ NoSubjects
  PROVE  Spec => [](Stored(db) /\ Sound(db))
<1>1. CASE ClocksAgree
  <2>1. Stored(db) /\ Ordered(db) => Sound(db)
    BY OrderedAcyclic, SameThreadLinked DEF Sound
  <2>2. Spec => []Ordered(db)
    BY <1>1, OrderKept
  <2> QED
    BY <2>1, <2>2, TablesKept, PTL
<1>2. CASE NoSubjects
  <2>1. Threaded(db) => Sound(db)
    BY SameThreadLinked DEF Sound, Threaded
  <2>2. Spec => []Threaded(db)
    BY <1>2, ThreadedKept
  <2> QED
    BY <2>1, <2>2, TablesKept, PTL
<1> QED
  BY <1>1, <1>2

\* Every message belongs to a thread of the thread table (ThreadExists), if
\* every message is added with its headers, or conversations are found by
\* references alone.
THEOREM ThreadsExist ==
  ASSUME CacheSize = 0, TRUE \notin Bare \/ (NoSubjects /\ ~Detaching)
  PROVE  Spec => []ThreadExists
<1>1. CASE TRUE \notin Bare
  <2>1. Spec => [](Named(db) /\ ThreadsThere(db))
    BY <1>1, NamesKept
  <2>2. ThreadsThere(db) => ThreadExists
    BY DEF ThreadsThere, ThreadExists
  <2> QED
    BY <2>1, <2>2, PTL
<1>2. CASE NoSubjects /\ ~Detaching
  <2>1. Spec => []Threaded(db)
    BY <1>2, ThreadedKept
  <2>2. Threaded(db) => ThreadExists
    BY DEF Threaded, ThreadsThere, ThreadExists
  <2> QED
    BY <2>1, <2>2, PTL
<1> QED
  BY <1>1, <1>2

\* The predecessor of every message is in the store (ResponseExists).
THEOREM ResponsesExist ==
  ASSUME CacheSize = 0, ~Detaching, ClocksAgree \/ NoSubjects
  PROVE  Spec => []ResponseExists
<1>1. Stored(db) /\ Sound(db) => ResponseExists
  BY DEF Sound, Linked, Resp, Responses, ResponseExists
<1> QED
  BY <1>1, SoundKept, PTL

\* No message is its own ancestor (NoCycle).
THEOREM NoCycles ==
  ASSUME CacheSize = 0, ~Detaching, ClocksAgree \/ NoSubjects
  PROVE  Spec => []NoCycle
<1>1. ASSUME Stored(db) /\ Sound(db) PROVE NoCycle
  <2> SUFFICES ASSUME NEW m \in Messages(db) PROVE m \notin Chain(Resp(db), db.messages[m].response)
    BY DEF NoCycle, Resp
  <2>1. /\ DOMAIN Resp(db) = Messages(db) /\ DOMAIN Resp(db) \subseteq 1 .. MaxMessages
        /\ Resp(db)[m] = db.messages[m].response /\ Acyclic(Resp(db))
    BY <1>1, StoredFacts DEF Sound
  <2>2. m \notin Chain(Resp(db), Resp(db)[m])
    BY <2>1, NoLoop
  <2> QED
    BY <2>1, <2>2
<1> QED
  BY <1>1, SoundKept, PTL

\* A removal leaves every message the ancestors it had, without the deleted
\* ones (AncestorsKept).
THEOREM AncestorsStay ==
  ASSUME CacheSize = 0, ~Detaching, ClocksAgree \/ NoSubjects
  PROVE  Spec => AncestorsKept
<1> DEFINE Kin == Messages(db') \subseteq Messages(db) /\ Messages(db') # Messages(db) =>
                    \A m \in Messages(db') :
                      Chain(Responses(db', Messages(db')), m)
                        = Chain(Responses(db, Messages(db)), m) \cap Messages(db')
<1>1. ASSUME Stored(db) /\ Uncached(cache), Stored(db) /\ Sound(db), [Next]_vars PROVE Kin
  <2> SUFFICES ASSUME Messages(db') \subseteq Messages(db), Messages(db') # Messages(db),
                      NEW m \in Messages(db')
               PROVE  Chain(Resp(db'), m) = Chain(Resp(db), m) \cap Messages(db')
    BY DEF Resp
  <2>1. Became(db, db', cache)
    BY <1>1, NextBecame
  <2>2. ASSUME NEW f, NEW id, NEW md, NEW lost, Added(db, db', cache, f, id, md, lost) PROVE FALSE
    BY <1>1, <2>2, AddedStored
  <2>3. ASSUME NEW id \in Messages(db), Updated(db, db', cache, id) PROVE FALSE
    BY <1>1, <2>3, UpdatedStored
  <2>4. ~Retouched(db, db')
    BY <1>1, RetouchedStored
  <2>5. Shrunk(db, db')
    BY <2>1, <2>2, <2>3, <2>4 DEF Became
  <2> QED
    BY <1>1, <2>5 DEF Shrunk, Sound
<1>2. (Stored(db) /\ Uncached(cache)) /\ (Stored(db) /\ Sound(db)) /\ [Next]_vars => [Kin]_vars
  BY <1>1
<1>3. Spec => [][Kin]_vars
  BY <1>2, TablesKept, SoundKept, PTL DEF Spec
<1> QED
  BY <1>3 DEF AncestorsKept

\* A mail that arrives ends the waits for it (ArrivalEndsWait).
THEOREM ArrivalsEndWaits ==
  ASSUME CacheSize = 0
  PROVE  Spec => ArrivalEndsWait
<1> DEFINE Ends == \A n \in Messages(db') \ Messages(db), w \in db'.missing :
                     LET all == db'.messages
                     IN w.identifier = all[n].identifier /\ all[w.id].account = all[n].account
                          => w.id \in Chain(Responses(db', Messages(db')), n)
<1>1. ASSUME Stored(db) /\ Uncached(cache), [Next]_vars PROVE Ends
  <2> SUFFICES ASSUME NEW n \in Messages(db') \ Messages(db), NEW w \in db'.missing,
                      w.identifier = db'.messages[n].identifier,
                      db'.messages[w.id].account = db'.messages[n].account
               PROVE  w.id \in Chain(Resp(db'), n)
    BY DEF Resp
  <2>1. Became(db, db', cache)
    BY <1>1, NextBecame
  <2>2. ASSUME NEW id \in Messages(db), Updated(db, db', cache, id) PROVE FALSE
    BY <1>1, <2>2, UpdatedStored
  <2>3. ~Retouched(db, db')
    BY <1>1, RetouchedStored
  <2>4. ~Shrunk(db, db')
    BY DEF Shrunk
  <2>5. PICK f, id, md, lost : Added(db, db', cache, f, id, md, lost)
    BY <2>1, <2>2, <2>3, <2>4 DEF Became
  <2> QED
    BY <1>1, <2>5, AddedArrival
<1>2. (Stored(db) /\ Uncached(cache)) /\ [Next]_vars => [Ends]_vars
  BY <1>1
<1>3. Spec => [][Ends]_vars
  BY <1>2, TablesKept, PTL DEF Spec
<1> QED
  BY <1>3 DEF ArrivalEndsWait

=============================================================================
