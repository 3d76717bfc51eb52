-------------------------- MODULE MCServiceHandler --------------------------
(***************************************************************************)
(* Small instances of ServiceHandler: two accounts with one source and one *)
(* sink each, two actions of one client process and one of another, two    *)
(* actions of the server itself, two messages in the Outbox.  Each .cfg    *)
(* picks the part it needs.                                                *)
(***************************************************************************)
EXTENDS ServiceHandler

CONSTANTS a1, a2, src1, src2, snk1, snk2, c1, c2, c3, l1, l2, m1, m2, p1, p2, server

MCAccountOf       == (src1 :> a1) @@ (src2 :> a2) @@ (snk1 :> a1) @@ (snk2 :> a2)
MCSourceAccountOf == (src1 :> a1) @@ (src2 :> a2)
MCOneAccountOf    == (src1 :> a1) @@ (snk1 :> a1)

MCProcessOf == (c1 :> p1) @@ (c2 :> p1) @@ (c3 :> p2) @@ (l1 :> server) @@ (l2 :> server)

\* Two actions of one process are alike, and so are two processes with one
\* action each.
SameProcess == Permutations({c1, c2})
TwoProcesses == Permutations({c1, c3})

\* So are two accounts with one source each.
SwapAccounts ==
  [x \in {a1, a2, src1, src2} |->
     CASE x = a1 -> a2 [] x = a2 -> a1 [] x = src1 -> src2 [] OTHER -> src1]
QueueSymmetry == SameProcess \cup {SwapAccounts}

MCOwnerOf    == (m1 :> a1) @@ (m2 :> a1)
MCNoOwnerOf  == <<>>
=============================================================================
