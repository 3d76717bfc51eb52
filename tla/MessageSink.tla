---------------------------- MODULE MessageSink ----------------------------
(***************************************************************************)
(* What the daemon may expect of a message sink (class QMailMessageSink):  *)
(* it is handed a batch of messages from the Outbox, of which it may       *)
(* refuse some; it reports the others as transmitted, one by one; and it   *)
(* ends the batch, successfully only when all of them were reported.       *)
(***************************************************************************)
CONSTANT Message

VARIABLES
  busy,     \* a batch is being transmitted
  pending,  \* messages of the batch not yet reported
  outcome,  \* how the last batch ended
  outbox    \* messages not reported as transmitted

vars == <<busy, pending, outcome, outbox>>

Init == busy = FALSE /\ pending = {} /\ outcome = "none" /\ outbox = Message

\* transmitMessages
Start(M) ==
  /\ ~busy /\ M \subseteq outbox
  /\ busy' = TRUE /\ pending' = M /\ outcome' = "none"
  /\ UNCHANGED outbox

\* The batch cannot be started.
Reject ==
  /\ ~busy
  /\ outcome' = "failed"
  /\ UNCHANGED <<busy, pending, outbox>>

\* messagesTransmitted, for one message
Report(m) ==
  /\ busy /\ m \in pending
  /\ outbox' = outbox \ {m}

Transmit(m) ==
  /\ Report(m)
  /\ pending' = pending \ {m}
  /\ UNCHANGED <<busy, outcome>>

\* actionCompleted(true), possibly together with the last report.
Succeed ==
  /\ busy
  /\ \/ pending = {} /\ UNCHANGED outbox
     \/ \E m \in pending : pending = {m} /\ Report(m)
  /\ busy' = FALSE /\ pending' = {} /\ outcome' = "succeeded"

\* actionCompleted(false): what was not reported stays in the Outbox.
Fail ==
  /\ busy
  /\ busy' = FALSE /\ pending' = {} /\ outcome' = "failed"
  /\ UNCHANGED outbox

Next ==
  \/ \E M \in SUBSET Message : Start(M)
  \/ Reject
  \/ \E m \in Message : Transmit(m)
  \/ Succeed
  \/ Fail

Spec == Init /\ [][Next]_vars
=============================================================================
