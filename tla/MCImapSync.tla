----------------------------- MODULE MCImapSync -----------------------------
(* Instances of ImapSync for TLC. *)
EXTENDS ImapSync, TLC

CONSTANTS m1, m2, m3

\* Two mails in the first folder and one in the second.
MCTwoAndOne == (m1 :> 1) @@ (m2 :> 1) @@ (m3 :> 2)

\* A mail in each of two folders.
MCApart == (m1 :> 1) @@ (m3 :> 2)

Symmetry == Permutations({m1, m2})
=============================================================================
