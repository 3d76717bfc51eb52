----------------------------- MODULE SmtpClient -----------------------------
(***************************************************************************)
(* The message sink of the SMTP plugin: class SmtpService::Sink, class     *)
(* SmtpClient of src/plugins/messageservices/smtp, the transport under     *)
(* them, and a mail server.  The daemon hands over a batch of messages;    *)
(* the client connects, works through the batch in an SMTP dialog that may *)
(* be pipelined, reports each message the server has accepted, and ends    *)
(* with sendCompleted or errorOccurred.  One step is one event of the      *)
(* client's event loop, or one command handled by the server.              *)
(*                                                                         *)
(* Left out: progress figures, texts and error codes (notUsingAuth and the *)
(* reply 530 only select an error code), what the capabilities say about   *)
(* the account, and the fetching of capabilities without a message.        *)
(***************************************************************************)
EXTENDS Integers, Sequences, FiniteSets, SequencesExt

CONSTANTS
  Message,      \* messages of the account that start in the Outbox
  Invalid,      \* those that addMail refuses
  External,     \* those with status TransmitFromExternal
  ChunksOf,     \* the chunks of a message with HasReferences; 0 for the others
  RecipientsOf, \* how many recipients a message has
  UseTLS,       \* the account is configured for STARTTLS
  Configurations, \* what an update may make of configured
  MultiLine,    \* reply codes that the server may send in two lines
  MaxBatches,   \* bound: calls of transmitMessages
  NoMessage     \* no transaction is open at the server

ASSUME SmtpAssumption ==
  /\ IsFiniteSet(Message)
  /\ Invalid \subseteq Message /\ External \subseteq Message
  /\ NoMessage \notin Message
  /\ ChunksOf \in [Message -> Nat]
  /\ RecipientsOf \in [Message -> Nat \ {0}]
  /\ UseTLS \in BOOLEAN /\ Configurations \subseteq BOOLEAN
  /\ MultiLine \subseteq Nat
  /\ MaxBatches \in Nat

VARIABLES
  configured,    \* the account has an SMTP server
  status,        \* the state of the dialog
  sending,       \* a transfer is running
  mailList,      \* the messages to send
  mailItr,       \* position of the current one; Len(mailList) + 1 is end()
  it,            \* position of the current recipient
  mailChunks,    \* parts of the current message still to send
  outstandingResponses,  \* commands sent and not answered
  temporaryFile, \* the body of the current message is being written
  authTimeout,   \* the timer for the greeting is running
  capabilities,  \* what the server has offered, of {"PIPELINING"}
  lineBuffer,    \* the reply line read in part, if any, and its connection
  socket,        \* state of the transport
  wire,          \* commands on their way to the server
  replies,       \* reply lines on their way to the client
  envelope,      \* server: the message of the open transaction
  content,       \* server: the parts received in it
  accepted,      \* server: messages accepted on this connection, with content
  transmitted,   \* messages reported as transmitted on this connection
  outcome,       \* what actionCompleted said of the last transfer
  outbox,        \* messages not yet reported as transmitted
  batch,         \* what the last call of transmitMessages handed over
  batches        \* how many calls there have been

listVars   == <<mailList, mailItr, it, mailChunks>>
serverVars == <<envelope, content, accepted>>
callVars   == <<configured, batch, batches>>
reportVars == <<transmitted, outbox>>
vars == <<callVars, status, sending, listVars, outstandingResponses, temporaryFile, authTimeout,
          capabilities, lineBuffer, socket, wire, replies, serverVars, reportVars, outcome>>

-----------------------------------------------------------------------------
(* Commands and replies *)

NoPart == <<NoMessage, 0>>

\* The parts of a message: one, unless it is sent in chunks.
PartsOf(m) ==
  [k \in 1 .. (IF m \in External \/ ChunksOf[m] = 0 THEN 1 ELSE ChunksOf[m]) |-> <<m, k>>]

Command(verb, part, last) == [verb |-> verb, part |-> part, last |-> last]
Plain(verb) == Command(verb, NoPart, FALSE)

Line(code, more, offered) == [code |-> code, more |-> more, offered |-> offered]

NoLine == [line |-> Line(0, FALSE, {}), batch |-> 0]

\* The part of a line that was left when a connection ended is put in front of
\* the first line of the next.
Leftover(l) == {Line(l.code, l.more, {}), Line(l.code, FALSE, {}), Line(0, FALSE, {})}

\* What incomingData may take the next line to be.
Responses ==
  IF lineBuffer = NoLine \/ lineBuffer.batch = batches THEN {Head(replies)}
  ELSE Leftover(lineBuffer.line)

-----------------------------------------------------------------------------
(* The dialog.  nextAction calls itself until it has sent a command; these  *)
(* operators give the status it stops at, the commands and what is left of  *)
(* the chunks.                                                              *)

Pipelining == "PIPELINING" \in capabilities

Turn(st, commands, chunks) == [status |-> st, commands |-> commands, chunks |-> chunks]

\* A mistake the runs detect: isLast is set one chunk early.
LastTooEarly(chunks, k) == Command("BDAT", chunks[k], k >= Len(chunks) - 1)

ChunkCommand(chunks, k) == Command("BDAT", chunks[k], k = Len(chunks))

\* case Chunk: one chunk, or all of them if the server allows pipelining.
ChunkTurn(before, chunks, pipelining) ==
  IF pipelining
  THEN Turn("Sent", before \o [k \in 1 .. Len(chunks) |-> ChunkCommand(chunks, k)], <<>>)
  ELSE Turn(IF Len(chunks) = 1 THEN "Sent" ELSE "ChunkSent",
            before \o <<ChunkCommand(chunks, 1)>>, Tail(chunks))

\* cases PrepareData and Data.  The chunks of a message with references replace
\* what is in mailChunks; the reference to an external message is appended.
DataTurn(before, m, pipelining) ==
  IF m \in External THEN ChunkTurn(before, mailChunks \o PartsOf(m), pipelining)
  ELSE IF ChunksOf[m] > 0 THEN ChunkTurn(before, PartsOf(m), pipelining)
  ELSE Turn("Body", before \o <<Plain("DATA")>>, mailChunks)

MailFrom(m) == Command("MAIL", <<m, 0>>, FALSE)

\* cases MetaData and From.
MetaDataTurn(m, pipelining) ==
  IF pipelining
  THEN DataTurn(<<MailFrom(m)>> \o [k \in 1 .. RecipientsOf[m] |-> Plain("RCPT")], m, pipelining)
  ELSE Turn("Recv", <<MailFrom(m)>>, mailChunks)

\* A mistake the runs detect: commands sent together count as one.
GroupAwaited(commands) == IF commands = <<>> THEN 0 ELSE 1

\* sendCommand counts the responses to wait for.
Awaited(commands) == Len(commands)

\* The client has read a line and takes a turn: it writes commands, and waits
\* for as many responses.
Take(turn) ==
  /\ status' = turn.status
  /\ wire' = wire \o turn.commands
  /\ outstandingResponses' = Awaited(turn.commands)
  /\ mailChunks' = turn.chunks
  /\ replies' = Tail(replies)
  /\ UNCHANGED <<sending, mailList, outcome>>

Say(st, command) == Take(Turn(st, <<command>>, mailChunks))

\* The line is read and no command follows.
Hold(st) == Take(Turn(st, <<>>, mailChunks))

\* A mistake the runs detect: the connection stays open.
CloseForgotten == replies' = <<>> /\ UNCHANGED socket

\* close() flushes what was written and reads no more.
close == socket' = "closed" /\ replies' = <<>>

\* A mistake the runs detect: the iterator is not reset.
ListOnlyCleared == mailList' = <<>> /\ UNCHANGED mailItr

ClearList == mailList' = <<>> /\ mailItr' = 1

\* stopTransferring
stopTransferring(st) ==
  /\ temporaryFile' = FALSE
  /\ status' = IF temporaryFile THEN "Sent" ELSE st

\* operationFailed, entered with status st.  (An error inside close() would emit
\* errorOccurred twice, the second time for a service without an action.)
operationFailed(st) ==
  /\ authTimeout' = FALSE
  /\ IF sending
     THEN /\ stopTransferring(st)
          /\ close
          /\ sending' = FALSE
          /\ ClearList
     ELSE /\ status' = st
          /\ UNCHANGED <<temporaryFile, socket, replies, sending, mailList, mailItr>>
  /\ outcome' = "failed"
  /\ UNCHANGED <<it, mailChunks, capabilities>>

\* A response ends the transfer.
Failure == operationFailed(status) /\ outstandingResponses' = 0 /\ UNCHANGED wire

\* case Quit: the connection is closed and sendCompleted emitted.
QuitTurn ==
  /\ wire' = wire \o <<Plain("QUIT")>>
  /\ outstandingResponses' = 1
  /\ sending' = FALSE
  /\ status' = "Done"
  /\ close
  /\ ClearList
  /\ outcome' = "succeeded"
  /\ UNCHANGED mailChunks

\* A mistake the runs detect: the last message is skipped.
AtLast(i) == i >= Len(mailList)

AtEnd(i) == i > Len(mailList)

\* The dialog goes on with the message at position i, or ends.
MessageTurn(i, pipelining) ==
  /\ IF AtEnd(i) THEN QuitTurn
     ELSE /\ Take(MetaDataTurn(mailList[i], pipelining))
          /\ mailItr' = i
          /\ UNCHANGED socket
  /\ UNCHANGED <<it, temporaryFile>>

\* cases StartTLS, Connected and Authenticated.  Whether there is anything to
\* authenticate with depends on the configuration and on the server's offers.
LoginTurn(offered) ==
  IF UseTLS /\ socket # "encrypted"
  THEN Say("TLS", Plain("STARTTLS")) /\ UNCHANGED <<mailItr, it, temporaryFile, socket>>
  ELSE \/ /\ Say("Authenticating", Plain("AUTH"))
          /\ UNCHANGED <<mailItr, it, temporaryFile, socket>>
       \/ MessageTurn(mailItr, "PIPELINING" \in offered)

-----------------------------------------------------------------------------
(* nextAction, for a response r *)

DialogVars == <<mailItr, it, temporaryFile, socket, capabilities>>

OnInit(r) ==
  /\ status = "Init"
  /\ IF r.code = 220
     THEN /\ Say("Helo", Plain("EHLO"))
          /\ mailItr' = 1 /\ capabilities' = {}
          /\ UNCHANGED <<it, temporaryFile, socket>>
     ELSE Failure

OnHelo(r) ==
  /\ status = "Helo"
  /\ CASE r.code = 500 -> Say("Helo", Plain("HELO")) /\ UNCHANGED DialogVars
       [] r.code = 250 /\ r.more -> Hold("Extension") /\ UNCHANGED DialogVars
       [] r.code = 250 /\ ~r.more -> LoginTurn(capabilities) /\ UNCHANGED capabilities
       [] OTHER -> Failure

OnExtension(r) ==
  /\ status = "Extension"
  /\ IF r.code = 250
     THEN /\ capabilities' = capabilities \cup r.offered
          /\ IF r.more THEN Hold("Extension") /\ UNCHANGED <<mailItr, it, temporaryFile, socket>>
             ELSE LoginTurn(capabilities \cup r.offered)
     ELSE Failure

OnTLS(r) ==
  /\ status = "TLS"
  /\ IF r.code = 220
     THEN /\ Hold("TLS")
          /\ socket' = "handshake"
          /\ UNCHANGED <<mailItr, it, temporaryFile, capabilities>>
     ELSE Failure

\* A challenge is answered as long as there is something to answer.
OnAuthenticating(r) ==
  /\ status = "Authenticating"
  /\ \/ r.code = 334 /\ Say("Authenticating", Plain("ANSWER")) /\ UNCHANGED DialogVars
     \/ r.code = 235 /\ MessageTurn(mailItr, Pipelining) /\ UNCHANGED capabilities
     \/ r.code # 235 /\ Failure

OnRecv(r) ==
  /\ status = "Recv"
  /\ IF r.code = 250
     THEN /\ Say("MRcv", Plain("RCPT"))
          /\ it' = 1
          /\ UNCHANGED <<mailItr, temporaryFile, socket, capabilities>>
     ELSE Failure

OnMRcv(r) ==
  /\ status = "MRcv"
  /\ IF r.code \in {250, 251}
     THEN /\ it' = it + 1
          /\ IF it < RecipientsOf[mailList[mailItr]] THEN Say("MRcv", Plain("RCPT"))
             ELSE Take(DataTurn(<<>>, mailList[mailItr], Pipelining))
          /\ UNCHANGED <<mailItr, temporaryFile, socket, capabilities>>
     ELSE Failure

\* The body is spooled to a file, which BodyWritten copies to the transport.
OnBody(r) ==
  /\ status = "Body"
  /\ IF r.code = 354 /\ ~temporaryFile
     THEN /\ Hold("Body")
          /\ temporaryFile' = TRUE
          /\ UNCHANGED <<mailItr, it, socket, capabilities>>
     ELSE Failure

OnChunkSent(r) ==
  /\ status = "ChunkSent"
  /\ IF r.code = 250
     THEN Take(ChunkTurn(<<>>, mailChunks, Pipelining)) /\ UNCHANGED DialogVars
     ELSE Failure

\* The message is reported as transmitted and the next one begins.
OnSent(r) ==
  /\ status = "Sent"
  /\ IF r.code = 250
     THEN /\ transmitted' = transmitted \cup {mailList[mailItr]}
          /\ outbox' = outbox \ {mailList[mailItr]}
          /\ MessageTurn(mailItr + 1, Pipelining)
          /\ UNCHANGED capabilities
     ELSE Failure /\ UNCHANGED reportVars

\* A line that another of the same response follows is put aside, unless its
\* code is 250.
nextAction(r) ==
  \/ /\ r.code # 250 /\ r.more
     /\ Hold(status)
     /\ UNCHANGED <<DialogVars, reportVars>>
  \/ /\ ~(r.code # 250 /\ r.more)
     /\ \/ /\ \/ OnInit(r) \/ OnHelo(r) \/ OnExtension(r) \/ OnTLS(r) \/ OnAuthenticating(r)
              \/ OnRecv(r) \/ OnMRcv(r) \/ OnBody(r) \/ OnChunkSent(r)
           /\ UNCHANGED reportVars
        \/ OnSent(r)

\* A response to a command that others follow only has to be positive.
PipelinedResponse(r) ==
  /\ outstandingResponses' = outstandingResponses - 1
  /\ IF r.code \in 200 .. 299
     THEN /\ replies' = Tail(replies)
          /\ UNCHANGED <<status, sending, mailList, mailChunks, outcome, DialogVars>>
     ELSE operationFailed(status)
  /\ UNCHANGED wire

\* readyRead, incomingData, processResponse: one line.
ReadLine ==
  /\ replies # <<>>
  /\ lineBuffer' = NoLine
  /\ authTimeout' = FALSE
  /\ \E r \in Responses :
       IF outstandingResponses > 1
       THEN PipelinedResponse(r) /\ UNCHANGED reportVars
       ELSE nextAction(r)
  /\ UNCHANGED <<callVars, serverVars>>

\* incomingData before the end of a line has arrived: the part is kept.
ReadPart ==
  /\ replies # <<>> /\ lineBuffer = NoLine
  /\ lineBuffer' = [line |-> Head(replies), batch |-> batches]
  /\ UNCHANGED <<callVars, status, sending, listVars, outstandingResponses, temporaryFile,
                 authTimeout, capabilities, socket, wire, replies, serverVars, reportVars, outcome>>

-----------------------------------------------------------------------------
(* The other events of the client *)

\* Sink::transmitMessages: addMail for each message, of which mails are those it
\* accepts, then newConnection.  The daemon only calls it while no transfer is
\* running.
TransmitMessages(mails) ==
  /\ ~sending /\ batches < MaxBatches
  /\ batches' = batches + 1
  /\ batch' = ToSet(mails)
  /\ mailList' = mailList \o mails
  /\ mailItr' = Len(mailList') + 1
  /\ IF configured
     THEN /\ status' = "Init" /\ sending' = TRUE
          /\ outstandingResponses' = 0
          /\ socket' = "opening"
          /\ outcome' = "none"
     ELSE /\ status' = "Done" /\ outcome' = "failed"
          /\ UNCHANGED <<sending, outstandingResponses, socket>>
  /\ transmitted' = {}
  /\ UNCHANGED <<configured, it, mailChunks, temporaryFile, authTimeout, capabilities,
                 lineBuffer, wire, replies, serverVars, outbox>>

\* connected: the timer for the greeting starts.  The server knows nothing of
\* earlier connections.
Connected ==
  /\ socket = "opening"
  /\ socket' = "open"
  /\ authTimeout' = TRUE
  /\ wire' = <<Plain("CONNECT")>>
  /\ envelope' = NoMessage /\ content' = <<>> /\ accepted' = {}
  /\ UNCHANGED <<callVars, status, sending, listVars, outstandingResponses, temporaryFile,
                 capabilities, lineBuffer, replies, reportVars, outcome>>

\* connected, in TLS mode: the dialog starts again.
Encrypted ==
  /\ socket = "handshake"
  /\ socket' = "encrypted"
  /\ authTimeout' = TRUE
  /\ wire' = wire \o <<Plain("EHLO")>>
  /\ outstandingResponses' = outstandingResponses + 1
  /\ status' = "Helo"
  /\ UNCHANGED <<callVars, sending, listVars, temporaryFile, capabilities, lineBuffer, replies,
                 serverVars, reportVars, outcome>>

\* A mistake the runs detect: the final dot is missing.
Unterminated == <<>>

Terminator == <<Command("END", <<mailList[mailItr], 1>>, TRUE)>>

\* sendMoreData at the end of the file: the body is complete.
BodyWritten ==
  /\ temporaryFile
  /\ stopTransferring(status)
  /\ wire' = wire \o Terminator
  /\ UNCHANGED <<callVars, sending, listVars, outstandingResponses, authTimeout, capabilities,
                 lineBuffer, socket, replies, serverVars, reportVars, outcome>>

\* transportError: the connection is lost, or cannot be made.
TransportError ==
  /\ socket # "closed" /\ status # "Done"
  /\ operationFailed(status)
  /\ wire' = <<>>
  /\ UNCHANGED <<callVars, outstandingResponses, lineBuffer, serverVars, reportVars>>

\* authExpired
AuthExpired ==
  /\ authTimeout
  /\ operationFailed("Done")
  /\ UNCHANGED <<callVars, outstandingResponses, lineBuffer, wire, serverVars, reportVars>>

\* cancelTransfer, which the daemon calls for a running action: its client asks
\* for it, or it has expired.
CancelTransfer ==
  /\ sending
  /\ operationFailed(status)
  /\ UNCHANGED <<callVars, outstandingResponses, lineBuffer, wire, serverVars, reportVars>>

\* accountsUpdated, after the user has set or removed the server.
AccountsUpdated ==
  /\ \E c \in Configurations : configured' = c
  /\ UNCHANGED <<batch, batches, status, sending, listVars, outstandingResponses, temporaryFile,
                 authTimeout, capabilities, lineBuffer, socket, wire, replies, serverVars,
                 reportVars, outcome>>

-----------------------------------------------------------------------------
(* The mail server.  It answers each command; what the client has written   *)
(* before it closed the connection it handles as well.                      *)

clientVars == <<callVars, status, sending, listVars, outstandingResponses, temporaryFile,
                authTimeout, capabilities, lineBuffer, socket, reportVars, outcome>>

Reply(lines) == replies' = IF socket = "closed" THEN <<>> ELSE replies \o lines

\* The response to a command, in one line or in two.
Respond(code) ==
  \E k \in {1} \cup (IF code \in MultiLine THEN {2} ELSE {}) :
    Reply([i \in 1 .. k |-> Line(code, i < k, {})])

\* The positive responses to commands outside a transaction.
Welcome(verb) ==
  \/ verb \in {"CONNECT", "STARTTLS"} /\ Respond(220)
  \/ verb = "EHLO" /\ \E C \in SUBSET {"PIPELINING"} :
                        Reply(<<Line(250, TRUE, {}), Line(250, TRUE, C), Line(250, FALSE, {})>>)
  \/ verb \in {"EHLO", "HELO"} /\ Respond(250)
  \/ verb \in {"AUTH", "ANSWER"} /\ (Respond(235) \/ Respond(334))
  \/ verb = "QUIT" /\ Respond(221)

ServerAccepts ==
  LET c     == Head(wire)
      parts == Append(content, c.part)
  IN \/ Welcome(c.verb) /\ UNCHANGED serverVars
     \/ /\ c.verb = "MAIL"
        /\ envelope' = c.part[1] /\ content' = <<>>
        /\ Respond(250)
        /\ UNCHANGED accepted
     \/ /\ c.verb = "RCPT" /\ envelope # NoMessage
        /\ Respond(250) \/ Respond(251)
        /\ UNCHANGED serverVars
     \/ /\ c.verb = "DATA" /\ envelope # NoMessage
        /\ Respond(354)
        /\ UNCHANGED serverVars
     \/ /\ c.verb \in {"BDAT", "END"} /\ envelope # NoMessage
        /\ Respond(250)
        /\ IF c.last
           THEN /\ accepted' = accepted \cup {[message |-> envelope, parts |-> parts]}
                /\ envelope' = NoMessage /\ content' = <<>>
           ELSE content' = parts /\ UNCHANGED <<envelope, accepted>>

\* A refusal ends the transaction, unless other recipients remain.
ServerRefuses ==
  LET verb == Head(wire).verb
  IN /\ Respond(550) \/ (verb = "EHLO" /\ Respond(500))
     /\ \/ envelope' = NoMessage /\ content' = <<>>
        \/ verb = "RCPT" /\ UNCHANGED <<envelope, content>>
     /\ UNCHANGED accepted

Server ==
  /\ socket \in {"open", "encrypted", "closed"} /\ wire # <<>>
  /\ wire' = Tail(wire)
  /\ ServerAccepts \/ ServerRefuses
  /\ UNCHANGED clientVars

\* The server may give up at any time, and says so.
ServerShutsDown ==
  /\ socket \in {"open", "encrypted"}
  /\ \A i \in DOMAIN replies : replies[i].code # 421
  /\ replies' = Append(replies, Line(421, FALSE, {}))
  /\ wire' = <<>>
  /\ envelope' = NoMessage /\ content' = <<>>
  /\ UNCHANGED <<clientVars, accepted>>

-----------------------------------------------------------------------------

Init ==
  /\ configured = TRUE
  /\ status = "Init" /\ sending = FALSE
  /\ mailList = <<>> /\ mailItr = 1 /\ it = 1 /\ mailChunks = <<>>
  /\ outstandingResponses = 0
  /\ temporaryFile = FALSE /\ authTimeout = FALSE
  /\ capabilities = {}
  /\ lineBuffer = NoLine
  /\ socket = "closed" /\ wire = <<>> /\ replies = <<>>
  /\ envelope = NoMessage /\ content = <<>> /\ accepted = {}
  /\ transmitted = {} /\ outcome = "none"
  /\ outbox = Message
  /\ batch = {} /\ batches = 0

Next ==
  \/ \E M \in SUBSET outbox : \E mails \in SetToSeqs(M \ Invalid) : TransmitMessages(mails)
  \/ Connected
  \/ Encrypted
  \/ ReadLine
  \/ ReadPart
  \/ BodyWritten
  \/ TransportError
  \/ AuthExpired
  \/ CancelTransfer
  \/ AccountsUpdated
  \/ Server
  \/ ServerShutsDown

Spec == Init /\ [][Next]_vars

-----------------------------------------------------------------------------
(* Properties *)

\* The types.  mailItr is the index of a message of the list or its end.
TypeOK ==
  /\ configured \in BOOLEAN /\ sending \in BOOLEAN
  /\ status \in {"Init", "Helo", "Extension", "TLS", "Authenticating", "Recv", "MRcv", "Body",
                 "ChunkSent", "Sent", "Done"}
  /\ mailList \in Seq(Message)
  /\ mailItr \in 1 .. Len(mailList) + 1
  /\ it \in Nat \ {0}
  /\ mailChunks \in Seq(Message \X Nat)
  /\ outstandingResponses \in Nat
  /\ temporaryFile \in BOOLEAN /\ authTimeout \in BOOLEAN
  /\ capabilities \subseteq {"PIPELINING"}
  /\ lineBuffer.batch \in 0 .. MaxBatches
  /\ socket \in {"closed", "opening", "open", "handshake", "encrypted"}
  /\ envelope \in Message \cup {NoMessage}
  /\ transmitted \subseteq Message /\ outbox \subseteq Message /\ batch \subseteq Message
  /\ outcome \in {"none", "succeeded", "failed"}
  /\ batches \in 0 .. MaxBatches

\* A message is reported as transmitted only after the server has accepted it:
\* the count of outstanding responses and the status keep the dialog in step.
ReportedIsAccepted == \A m \in transmitted : \E r \in accepted : r.message = m

\* What the server accepts is the message of its envelope, all parts of it in
\* their order and nothing else.
AcceptedIntact == \A r \in accepted : r.parts = PartsOf(r.message)

\* Once the greeting has been understood, something is on its way to one of the
\* two sides as long as the transfer is running: they never wait for each other.
\* (A part of a line left from an earlier connection can make the client take
\* the greeting for the first of several lines, and wait for the others.)
NoStandstill ==
  sending /\ status # "Init" /\ socket # "handshake"
    => wire # <<>> \/ replies # <<>> \/ temporaryFile

\* When a transfer has ended, its file, its timer and its connection are gone,
\* so that none of them can disturb the next one.
Released == ~sending => ~temporaryFile /\ ~authTimeout /\ socket = "closed"

Sink == INSTANCE MessageSink WITH
          busy <- sending, pending <- IF sending THEN batch \ transmitted ELSE {}

\* The client is a message sink: it reports messages of the batch, each once,
\* and ends each batch once, successfully only if all of it was reported.
ImplementsSink == Sink!Spec

=============================================================================
