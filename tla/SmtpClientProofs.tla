-------------------------- MODULE SmtpClientProofs --------------------------
(***************************************************************************)
(* What TLAPS proves of SmtpClient: a transfer that has ended leaves no    *)
(* file, no timer and no connection behind; the types, among them that the *)
(* position in the list is never beyond its end; that the client is a      *)
(* message sink (MessageSink); and of the commands it writes, that what    *)
(* the server accepts is a whole message.                                  *)
(***************************************************************************)
EXTENDS SmtpClient, SequenceTheorems, FiniteSetTheorems, TLAPS

\* A file is open only while a body is written, the handshake belongs to status
\* TLS, and without a transfer there is nothing to read.
Tidy ==
  /\ sending \in BOOLEAN /\ temporaryFile \in BOOLEAN /\ authTimeout \in BOOLEAN
  /\ Released
  /\ ~sending => replies = <<>>
  /\ temporaryFile => status = "Body"
  /\ socket = "handshake" => status = "TLS"

\* A running transfer that fails releases everything, whatever its status.
LEMMA FailureReleases ==
  ASSUME Tidy, sending, NEW st, operationFailed(st)
  PROVE  Tidy'
  BY DEF Tidy, Released, operationFailed, stopTransferring, close, ClearList

\* The dialog goes on with a message or ends, when no file is open.
LEMMA MessageTidy ==
  ASSUME Tidy, sending, ~temporaryFile, socket # "handshake", authTimeout' = FALSE,
         NEW i, NEW p, MessageTurn(i, p)
  PROVE  Tidy'
  <1>1. CASE AtEnd(i)
    BY <1>1 DEF MessageTurn, QuitTurn, close, Tidy, Released
  <1>2. CASE ~AtEnd(i)
    BY <1>2 DEF MessageTurn, Take, Tidy, Released
  <1> QED BY <1>1, <1>2

\* The client waits for a response, with or without a new command.
LEMMA TakeTidy ==
  ASSUME Tidy, sending, authTimeout' = FALSE, NEW turn, Take(turn),
         UNCHANGED temporaryFile, UNCHANGED socket,
         temporaryFile => turn.status = "Body",
         socket = "handshake" => turn.status = "TLS"
  PROVE  Tidy'
  BY DEF Take, Tidy, Released

\* One command is sent, when no file is open.
LEMMA SayTidy ==
  ASSUME Tidy, sending, ~temporaryFile, socket # "handshake", authTimeout' = FALSE,
         NEW st, NEW c, Say(st, c), UNCHANGED temporaryFile, UNCHANGED socket
  PROVE  Tidy'
  BY DEF Say, Take, Turn, Tidy, Released

\* After the capabilities: encryption, authentication or the first message.
LEMMA LoginTidy ==
  ASSUME Tidy, sending, ~temporaryFile, socket # "handshake", authTimeout' = FALSE,
         NEW offered, LoginTurn(offered)
  PROVE  Tidy'
  BY SayTidy, MessageTidy DEF LoginTurn

\* One line that nextAction handles.
LEMMA NextActionTidy ==
  ASSUME Tidy, sending, authTimeout' = FALSE, NEW r, nextAction(r)
  PROVE  Tidy'
  <1>1. ASSUME Failure PROVE Tidy'
    BY <1>1, FailureReleases DEF Failure
  <1>2. CASE Hold(status) /\ UNCHANGED <<DialogVars, reportVars>>
    BY <1>2, TakeTidy DEF Hold, Turn, DialogVars, Tidy
  <1>3. CASE OnInit(r)
    BY <1>1, <1>3, SayTidy DEF OnInit, Tidy
  <1>4. CASE OnHelo(r)
    <2>0. ~temporaryFile /\ socket # "handshake"
      BY <1>4 DEF OnHelo, Tidy
    <2>1. CASE Say("Helo", Plain("HELO")) /\ UNCHANGED DialogVars
      BY <2>0, <2>1, SayTidy DEF DialogVars
    <2>2. CASE Hold("Extension") /\ UNCHANGED DialogVars
      BY <2>0, <2>2, TakeTidy DEF Hold, Turn, DialogVars
    <2>3. CASE LoginTurn(capabilities)
      BY <2>0, <2>3, LoginTidy
    <2> QED BY <1>1, <1>4, <2>1, <2>2, <2>3 DEF OnHelo
  <1>5. CASE OnExtension(r)
    <2>0. ~temporaryFile /\ socket # "handshake"
      BY <1>5 DEF OnExtension, Tidy
    <2>1. CASE Hold("Extension") /\ UNCHANGED <<mailItr, it, temporaryFile, socket>>
      BY <2>0, <2>1, TakeTidy DEF Hold, Turn
    <2>2. CASE LoginTurn(capabilities \cup r.offered)
      BY <2>0, <2>2, LoginTidy
    <2> QED BY <1>1, <1>5, <2>1, <2>2 DEF OnExtension
  <1>6. CASE OnTLS(r)
    BY <1>1, <1>6 DEF OnTLS, Hold, Take, Turn, Tidy, Released
  <1>7. CASE OnAuthenticating(r)
    <2>0. ~temporaryFile /\ socket # "handshake"
      BY <1>7 DEF OnAuthenticating, Tidy
    <2>1. CASE Say("Authenticating", Plain("ANSWER")) /\ UNCHANGED DialogVars
      BY <2>0, <2>1, SayTidy DEF DialogVars
    <2>2. CASE MessageTurn(mailItr, Pipelining)
      BY <2>0, <2>2, MessageTidy
    <2> QED BY <1>1, <1>7, <2>1, <2>2 DEF OnAuthenticating
  <1>8. CASE OnRecv(r)
    BY <1>1, <1>8, SayTidy DEF OnRecv, Tidy
  <1>9. CASE OnMRcv(r)
    <2>0. ~temporaryFile /\ socket # "handshake"
      BY <1>9 DEF OnMRcv, Tidy
    <2>1. CASE Say("MRcv", Plain("RCPT")) /\ UNCHANGED <<temporaryFile, socket>>
      BY <2>0, <2>1, SayTidy
    <2>2. CASE Take(DataTurn(<<>>, mailList[mailItr], Pipelining)) /\ UNCHANGED <<temporaryFile, socket>>
      BY <2>0, <2>2, TakeTidy
    <2> QED BY <1>1, <1>9, <2>1, <2>2 DEF OnMRcv
  <1>10. CASE OnBody(r)
    BY <1>1, <1>10 DEF OnBody, Hold, Take, Turn, Tidy, Released
  <1>11. CASE OnChunkSent(r)
    <2>0. ~temporaryFile /\ socket # "handshake"
      BY <1>11 DEF OnChunkSent, Tidy
    <2>1. CASE Take(ChunkTurn(<<>>, mailChunks, Pipelining)) /\ UNCHANGED DialogVars
      BY <2>0, <2>1, TakeTidy DEF DialogVars
    <2> QED BY <1>1, <1>11, <2>1 DEF OnChunkSent
  <1>12. CASE OnSent(r)
    <2>0. ~temporaryFile /\ socket # "handshake"
      BY <1>12 DEF OnSent, Tidy
    <2>1. CASE MessageTurn(mailItr + 1, Pipelining)
      BY <2>0, <2>1, MessageTidy
    <2> QED BY <1>1, <1>12, <2>1 DEF OnSent
  <1> QED
    BY <1>2, <1>3, <1>4, <1>5, <1>6, <1>7, <1>8, <1>9, <1>10, <1>11, <1>12 DEF nextAction

\* No step of the client or of the server disturbs Tidy.
LEMMA StepTidy == Tidy /\ [Next]_vars => Tidy'
  <1> SUFFICES ASSUME Tidy, [Next]_vars PROVE Tidy'
    OBVIOUS
  <1>0. socket # "closed" \/ replies # <<>> \/ authTimeout \/ temporaryFile => sending
    BY DEF Tidy, Released
  <1>1. ASSUME NEW M \in SUBSET outbox, NEW mails \in SetToSeqs(M \ Invalid), TransmitMessages(mails) PROVE Tidy'
    BY <1>1 DEF TransmitMessages, Tidy, Released
  <1>2. CASE Connected
    BY <1>2 DEF Connected, Tidy, Released
  <1>3. CASE Encrypted
    BY <1>3 DEF Encrypted, Tidy, Released
  <1>4. CASE ReadLine
    <2>1. PICK r \in Responses :
            IF outstandingResponses > 1
            THEN PipelinedResponse(r) /\ UNCHANGED reportVars
            ELSE nextAction(r)
      BY <1>4 DEF ReadLine
    <2>2. sending /\ authTimeout' = FALSE
      BY <1>0, <1>4 DEF ReadLine
    <2>3. CASE PipelinedResponse(r)
      <3>1. CASE r.code \in 200..299
        BY <2>2, <2>3, <3>1 DEF PipelinedResponse, DialogVars, Tidy, Released
      <3>2. CASE r.code \notin 200..299
        <4>1. operationFailed(status)
          BY <2>3, <3>2 DEF PipelinedResponse
        <4> QED BY <2>2, <4>1, FailureReleases
      <3> QED BY <3>1, <3>2
    <2> QED BY <2>1, <2>2, <2>3, NextActionTidy
  <1>5. CASE ReadPart
    BY <1>5 DEF ReadPart, Tidy, Released
  <1>6. CASE BodyWritten
    BY <1>0, <1>6 DEF BodyWritten, stopTransferring, Tidy, Released
  <1>7. CASE TransportError
    BY <1>0, <1>7, FailureReleases DEF TransportError
  <1>8. CASE AuthExpired
    BY <1>0, <1>8, FailureReleases DEF AuthExpired
  <1>9. CASE CancelTransfer
    BY <1>9, FailureReleases DEF CancelTransfer
  <1>10. CASE AccountsUpdated
    BY <1>10 DEF AccountsUpdated, Tidy, Released
  <1>11. CASE Server
    <2>1. UNCHANGED <<sending, temporaryFile, authTimeout, status, socket>>
      BY <1>11 DEF Server, clientVars
    <2>2. socket = "closed" => replies' = <<>>
      BY <1>11 DEF Server, ServerAccepts, ServerRefuses, Welcome, Respond, Reply
    <2> QED BY <2>1, <2>2 DEF Tidy, Released
  <1>12. CASE ServerShutsDown
    BY <1>0, <1>12 DEF ServerShutsDown, clientVars, Tidy, Released
  <1>13. CASE UNCHANGED vars
    BY <1>13 DEF vars, Tidy, Released
  <1> QED
    BY <1>1, <1>2, <1>3, <1>4, <1>5, <1>6, <1>7, <1>8, <1>9, <1>10, <1>11, <1>12, <1>13 DEF Next

\* Whatever the messages, the server and the moment of a failure: a transfer
\* that has ended has closed its file, its timer and its connection
\* (operationFailed, case Quit, authExpired).
THEOREM TransferReleases == Spec => []Released
  <1>1. Init => Tidy
    BY DEF Init, Tidy, Released
  <1>2. Tidy => Released
    BY DEF Tidy
  <1> QED BY <1>1, <1>2, StepTidy, PTL DEF Spec

-----------------------------------------------------------------------------
(* Types *)

Status == {"Init", "Helo", "Extension", "TLS", "Authenticating", "Recv", "MRcv", "Body",
           "ChunkSent", "Sent", "Done"}

\* The states in which a message of the list is being sent.
Transaction == {"Recv", "MRcv", "Body", "ChunkSent", "Sent"}

Part == Message \X Nat

Verb == {"CONNECT", "EHLO", "HELO", "STARTTLS", "AUTH", "ANSWER", "MAIL", "RCPT", "DATA", "BDAT",
         "END", "QUIT"}

AnyCommand == [verb : Verb, part : (Message \cup {NoMessage}) \X Nat, last : BOOLEAN]

AnyLine == [code : Nat, more : BOOLEAN, offered : SUBSET {"PIPELINING"}]

\* What the client and the server write has its type, the current message is one
\* of the list, and there is a chunk to go on with.
WellTyped ==
  /\ TypeOK
  /\ wire \in Seq(AnyCommand)
  /\ replies \in Seq(AnyLine)
  /\ lineBuffer \in [line : AnyLine, batch : 0 .. MaxBatches]
  /\ sending /\ status \in Transaction => mailItr =< Len(mailList)
  /\ sending /\ status = "ChunkSent" => mailChunks # <<>>

\* A turn of the dialog that writes what it should.
GoodTurn(turn) ==
  /\ turn.status \in Status
  /\ turn.commands \in Seq(AnyCommand)
  /\ turn.chunks \in Seq(Part)
  /\ turn.status = "ChunkSent" => turn.chunks # <<>>

\* The messages of a batch are a sequence without repetition.
LEMMA BatchSequence ==
  ASSUME NEW M \in SUBSET Message, NEW mails \in SetToSeqs(M)
  PROVE  /\ mails \in Seq(Message) /\ Len(mails) \in Nat
         /\ \A i, j \in 1 .. Len(mails) : mails[i] = mails[j] => i = j
         /\ ToSet(mails) \subseteq M
<1>1. IsFiniteSet(M) /\ Cardinality(M) \in Nat
  BY SmtpAssumption, FS_Subset, FS_CardinalityType
<1>2. /\ mails \in [1 .. Cardinality(M) -> M]
      /\ \A i, j \in 1 .. Cardinality(M) : i # j => mails[i] # mails[j]
  BY DEF SetToSeqs
<1>3. mails \in Seq(M)
  BY <1>1, <1>2, IsASeq
<1>4. Len(mails) = Cardinality(M)
  BY <1>1, <1>2, <1>3
<1>5. mails \in Seq(Message)
  BY <1>3, SeqMonotonic
<1>6. ToSet(mails) \subseteq M
  BY <1>2 DEF ToSet
<1> QED
  BY <1>1, <1>2, <1>4, <1>5, <1>6

\* The commands of a message.
LEMMA CommandType ==
  /\ \A v \in Verb : Plain(v) \in AnyCommand
  /\ \A m \in Message : MailFrom(m) \in AnyCommand
  /\ \A p \in Part, b \in BOOLEAN, v \in Verb : Command(v, p, b) \in AnyCommand
<1>1. \A v \in Verb, p \in (Message \cup {NoMessage}) \X Nat, b \in BOOLEAN :
        Command(v, p, b) \in AnyCommand
  BY DEF Command, AnyCommand
<1>2. NoPart \in (Message \cup {NoMessage}) \X Nat
  BY DEF NoPart
<1>3. \A m \in Message : <<m, 0>> \in (Message \cup {NoMessage}) \X Nat
  OBVIOUS
<1>4. \A p \in Part : p \in (Message \cup {NoMessage}) \X Nat
  BY DEF Part
<1>5. \A v \in Verb : Plain(v) \in AnyCommand
  BY <1>1, <1>2 DEF Plain
<1>6. \A m \in Message : MailFrom(m) \in AnyCommand
  BY <1>1, <1>3 DEF MailFrom, Verb
<1> QED
  BY <1>1, <1>4, <1>5, <1>6

\* The parts of a message.
LEMMA PartsType ==
  ASSUME NEW m \in Message
  PROVE  /\ PartsOf(m) \in Seq(Part)
         /\ PartsOf(m) # <<>>
         /\ Len(PartsOf(m)) = IF m \in External \/ ChunksOf[m] = 0 THEN 1 ELSE ChunksOf[m]
         /\ \A k \in 1 .. Len(PartsOf(m)) : PartsOf(m)[k] = <<m, k>>
<1> DEFINE n == IF m \in External \/ ChunksOf[m] = 0 THEN 1 ELSE ChunksOf[m]
<1>1. n \in Nat /\ n >= 1
  BY SmtpAssumption
<1> HIDE DEF n
<1>2. PartsOf(m) = [k \in 1 .. n |-> <<m, k>>]
  BY DEF PartsOf, n
<1>3. PartsOf(m) \in [1 .. n -> Part]
  BY <1>1, <1>2 DEF Part
<1>4. PartsOf(m) \in Seq(Part)
  BY <1>1, <1>3, IsASeq
<1>5. Len(PartsOf(m)) = n
  BY <1>1, <1>3, <1>4
<1>6. PartsOf(m) # <<>>
  BY <1>1, <1>5
<1>7. \A k \in 1 .. Len(PartsOf(m)) : PartsOf(m)[k] = <<m, k>>
  BY <1>2, <1>5
<1> QED
  BY <1>4, <1>5, <1>6, <1>7 DEF n

\* One chunk, or all that are left.
LEMMA ChunkTurnType ==
  ASSUME NEW before \in Seq(AnyCommand), NEW chunks \in Seq(Part), chunks # <<>>, NEW p \in BOOLEAN
  PROVE  GoodTurn(ChunkTurn(before, chunks, p))
<1>1. Len(chunks) \in Nat /\ Len(chunks) >= 1 /\ \A k \in 1 .. Len(chunks) : chunks[k] \in Part
  BY EmptySeq
<1>2. \A k \in 1 .. Len(chunks) : ChunkCommand(chunks, k) \in AnyCommand
  BY <1>1, CommandType DEF ChunkCommand, Verb
<1> DEFINE all == [k \in 1 .. Len(chunks) |-> ChunkCommand(chunks, k)]
<1>3. all \in Seq(AnyCommand)
  BY <1>1, <1>2, IsASeq
<1>4. before \o all \in Seq(AnyCommand)
  BY <1>3, ConcatProperties
<1>5. before \o <<ChunkCommand(chunks, 1)>> \in Seq(AnyCommand)
  BY <1>1, <1>2
<1>6. Tail(chunks) \in Seq(Part) /\ Len(Tail(chunks)) = Len(chunks) - 1
  BY HeadTailProperties
<1>7. CASE p
  BY <1>4, <1>7, EmptySeq DEF ChunkTurn, Turn, GoodTurn, Status
<1>8. CASE ~p
  <2>1. ChunkTurn(before, chunks, p) =
          Turn(IF Len(chunks) = 1 THEN "Sent" ELSE "ChunkSent",
               before \o <<ChunkCommand(chunks, 1)>>, Tail(chunks))
    BY <1>8 DEF ChunkTurn
  <2>2. Len(chunks) # 1 => Tail(chunks) # <<>>
    <3> SUFFICES ASSUME Tail(chunks) = <<>> PROVE Len(chunks) = 1
      OBVIOUS
    <3>1. Len(<<>>) = 0
      OBVIOUS
    <3>2. Len(Tail(chunks)) = 0
      BY <3>1, Zenon
    <3> QED
      BY <3>2, <1>1, <1>6
  <2> QED
    BY <1>5, <1>6, <2>1, <2>2 DEF Turn, GoodTurn, Status
<1> QED
  BY <1>7, <1>8

\* The data of a message, in chunks or not.
LEMMA DataTurnType ==
  ASSUME NEW before \in Seq(AnyCommand), NEW m \in Message, NEW p \in BOOLEAN,
         mailChunks \in Seq(Part)
  PROVE  GoodTurn(DataTurn(before, m, p))
<1>1. CASE m \in External
  <2>1. /\ mailChunks \o PartsOf(m) \in Seq(Part)
        /\ mailChunks \o PartsOf(m) # <<>>
    BY PartsType
  <2> QED
    BY <1>1, <2>1, ChunkTurnType DEF DataTurn
<1>2. CASE m \notin External /\ ChunksOf[m] > 0
  BY <1>2, PartsType, ChunkTurnType DEF DataTurn
<1>3. CASE m \notin External /\ ~(ChunksOf[m] > 0)
  <2>0. Plain("DATA") \in AnyCommand
    BY CommandType DEF Verb
  <2>1. before \o <<Plain("DATA")>> \in Seq(AnyCommand)
    BY <2>0
  <2> QED
    BY <1>3, <2>1 DEF DataTurn, Turn, GoodTurn, Status
<1> QED
  BY <1>1, <1>2, <1>3

\* The first commands of a message.
LEMMA MetaDataTurnType ==
  ASSUME NEW m \in Message, NEW p \in BOOLEAN, mailChunks \in Seq(Part)
  PROVE  /\ GoodTurn(MetaDataTurn(m, p))
         /\ MetaDataTurn(m, p).status \in Transaction
<1> DEFINE n     == RecipientsOf[m]
           rcpts == [k \in 1 .. n |-> Plain("RCPT")]
<1>1. n \in Nat
  BY SmtpAssumption
<1>2. rcpts \in Seq(AnyCommand)
  <2>1. Plain("RCPT") \in AnyCommand
    BY CommandType DEF Verb
  <2>2. rcpts \in [1 .. n -> AnyCommand]
    BY <2>1
  <2> QED
    BY <1>1, <2>2
<1>3. <<MailFrom(m)>> \in Seq(AnyCommand) /\ <<MailFrom(m)>> \o rcpts \in Seq(AnyCommand)
  BY <1>2, CommandType
<1>4. CASE p
  <2>1. MetaDataTurn(m, p) = DataTurn(<<MailFrom(m)>> \o rcpts, m, p)
    BY <1>4 DEF MetaDataTurn
  <2>2. GoodTurn(MetaDataTurn(m, p))
    BY <1>3, <2>1, DataTurnType
  <2>3. MetaDataTurn(m, p).status \in Transaction
    BY <2>1 DEF DataTurn, ChunkTurn, Turn, Transaction
  <2> QED
    BY <2>2, <2>3
<1>5. CASE ~p
  BY <1>3, <1>5 DEF MetaDataTurn, Turn, GoodTurn, Status, Transaction
<1> QED
  BY <1>4, <1>5

\* The lines that the client may read.
LEMMA ResponsesType ==
  ASSUME WellTyped, replies # <<>>, NEW r \in Responses
  PROVE  r \in AnyLine
<1>1. Head(replies) \in AnyLine
  BY DEF WellTyped
<1>2. lineBuffer.line \in AnyLine
  BY DEF WellTyped
<1>3. \A l \in AnyLine : Leftover(l) \subseteq AnyLine
  BY DEF Leftover, Line, AnyLine
<1> QED
  BY <1>1, <1>2, <1>3 DEF Responses

\* No line is a line of its type.
LEMMA NoLineType == NoLine \in [line : AnyLine, batch : 0 .. MaxBatches]
  BY SmtpAssumption DEF NoLine, Line, AnyLine

\* What a step that ends a transfer leaves.
LEMMA FailureTyped ==
  ASSUME WellTyped, NEW st \in Status, operationFailed(st),
         wire' \in Seq(AnyCommand), outstandingResponses' \in Nat,
         lineBuffer' = lineBuffer \/ lineBuffer' = NoLine,
         UNCHANGED <<callVars, envelope, reportVars>>, Tidy
  PROVE  WellTyped'
<1>1. lineBuffer' \in [line : AnyLine, batch : 0 .. MaxBatches]
  BY NoLineType DEF WellTyped
<1>2. /\ sending' \in BOOLEAN /\ temporaryFile' \in BOOLEAN /\ authTimeout' \in BOOLEAN
      /\ status' \in Status /\ outcome' = "failed" /\ sending' = FALSE
      /\ socket' \in {"closed", "opening", "open", "handshake", "encrypted"}
      /\ UNCHANGED <<it, mailChunks, capabilities>>
  BY DEF operationFailed, stopTransferring, close, WellTyped, TypeOK, Status, Tidy
<1>3. /\ mailList' \in Seq(Message) /\ mailItr' \in 1 .. Len(mailList') + 1
      /\ replies' \in Seq(AnyLine)
  <2>1. CASE sending
    BY <2>1 DEF operationFailed, ClearList, close
  <2>2. CASE ~sending
    BY <2>2 DEF operationFailed, WellTyped, TypeOK
  <2> QED
    BY <2>1, <2>2
<1>4. lineBuffer'.batch \in 0 .. MaxBatches
  BY <1>1
<1>5. /\ configured' \in BOOLEAN /\ envelope' \in Message \cup {NoMessage}
      /\ transmitted' \subseteq Message /\ outbox' \subseteq Message /\ batch' \subseteq Message
      /\ batches' \in 0 .. MaxBatches
      /\ it' \in Nat \ {0} /\ mailChunks' \in Seq(Message \X Nat)
      /\ capabilities' \subseteq {"PIPELINING"}
  BY <1>2 DEF WellTyped, TypeOK, callVars, reportVars
<1> QED
  BY <1>1, <1>2, <1>3, <1>4, <1>5 DEF WellTyped, TypeOK, Status

\* What a step leaves in which the client takes a turn of the dialog.
LEMMA TakeTyped ==
  ASSUME WellTyped, replies # <<>>, NEW turn, GoodTurn(turn), Take(turn),
         it' \in Nat \ {0}, temporaryFile' \in BOOLEAN, authTimeout' = FALSE,
         capabilities' \subseteq {"PIPELINING"},
         socket' \in {"closed", "opening", "open", "handshake", "encrypted"},
         mailItr' \in 1 .. Len(mailList) + 1,
         turn.status \in Transaction => mailItr' =< Len(mailList),
         lineBuffer' = NoLine,
         transmitted' \subseteq Message, outbox' \subseteq Message,
         UNCHANGED <<callVars, envelope>>
  PROVE  WellTyped'
<1>1. lineBuffer' \in [line : AnyLine, batch : 0 .. MaxBatches]
  BY NoLineType
<1>2. wire' \in Seq(AnyCommand) /\ outstandingResponses' \in Nat
  BY DEF Take, GoodTurn, WellTyped, Awaited
<1>3. replies' \in Seq(AnyLine)
  BY DEF Take, WellTyped
<1>4. /\ status' = turn.status /\ status' \in Status
      /\ mailChunks' = turn.chunks /\ mailChunks' \in Seq(Message \X Nat)
      /\ status' = "ChunkSent" => mailChunks' # <<>>
      /\ UNCHANGED <<sending, mailList, outcome>>
  BY DEF Take, GoodTurn, Part
<1>5. lineBuffer'.batch \in 0 .. MaxBatches
  BY <1>1
<1>6. /\ configured' \in BOOLEAN /\ sending' \in BOOLEAN /\ envelope' \in Message \cup {NoMessage}
      /\ batch' \subseteq Message
      /\ batches' \in 0 .. MaxBatches /\ mailList' \in Seq(Message)
      /\ outcome' \in {"none", "succeeded", "failed"}
  BY <1>4 DEF WellTyped, TypeOK, callVars
<1>7. sending' /\ status' \in Transaction => mailItr' =< Len(mailList')
  BY <1>4
<1>8. mailItr' \in 1 .. Len(mailList') + 1
  BY <1>4
<1> QED
  BY <1>1, <1>2, <1>3, <1>4, <1>5, <1>6, <1>7, <1>8 DEF WellTyped, TypeOK, Status

\* One command, or none.
LEMMA SayType ==
  ASSUME mailChunks \in Seq(Part), NEW st \in Status, st = "ChunkSent" => mailChunks # <<>>
  PROVE  /\ \A v \in Verb : GoodTurn(Turn(st, <<Plain(v)>>, mailChunks))
         /\ GoodTurn(Turn(st, <<>>, mailChunks))
<1>1. \A v \in Verb : <<Plain(v)>> \in Seq(AnyCommand)
  BY CommandType
<1>2. <<>> \in Seq(AnyCommand)
  OBVIOUS
<1> QED
  BY <1>1, <1>2 DEF GoodTurn, Turn

\* The next message, or the end.
LEMMA MessageTyped ==
  ASSUME WellTyped, Tidy, replies # <<>>, NEW i \in 1 .. Len(mailList) + 1, NEW p \in BOOLEAN,
         MessageTurn(i, p), authTimeout' = FALSE, lineBuffer' = NoLine,
         capabilities' \subseteq {"PIPELINING"},
         transmitted' \subseteq Message, outbox' \subseteq Message,
         UNCHANGED <<callVars, envelope>>
  PROVE  WellTyped'
<1>1. CASE AtEnd(i)
  <2>1. QuitTurn /\ UNCHANGED <<it, temporaryFile>>
    BY <1>1 DEF MessageTurn
  <2>2. lineBuffer' \in [line : AnyLine, batch : 0 .. MaxBatches]
    BY NoLineType
  <2>3. Plain("QUIT") \in AnyCommand
    BY CommandType DEF Verb
  <2>4. wire' \in Seq(AnyCommand) /\ outstandingResponses' \in Nat
    BY <2>1, <2>3 DEF QuitTurn, WellTyped
  <2>5. /\ mailList' = <<>> /\ mailItr' = 1 /\ replies' = <<>> /\ sending' = FALSE
        /\ status' = "Done" /\ socket' = "closed" /\ outcome' = "succeeded"
        /\ UNCHANGED <<mailChunks, it, temporaryFile>>
    BY <2>1 DEF QuitTurn, close, ClearList
  <2>6. /\ mailList' \in Seq(Message) /\ mailItr' \in 1 .. Len(mailList') + 1
        /\ replies' \in Seq(AnyLine)
    BY <2>5
  <2>7. lineBuffer'.batch \in 0 .. MaxBatches
    BY <2>2
  <2>8. /\ configured' \in BOOLEAN /\ envelope' \in Message \cup {NoMessage}
        /\ batch' \subseteq Message
        /\ batches' \in 0 .. MaxBatches /\ it' \in Nat \ {0} /\ mailChunks' \in Seq(Message \X Nat)
        /\ temporaryFile' \in BOOLEAN
    BY <2>5 DEF WellTyped, TypeOK, callVars
  <2> QED
    BY <2>2, <2>4, <2>5, <2>6, <2>7, <2>8 DEF WellTyped, TypeOK
<1>2. CASE ~AtEnd(i)
  <2>1. i \in 1 .. Len(mailList) /\ mailList[i] \in Message
    BY <1>2 DEF AtEnd, WellTyped, TypeOK
  <2>2. GoodTurn(MetaDataTurn(mailList[i], p))
    BY <2>1, MetaDataTurnType DEF WellTyped, TypeOK, Part
  <2>3. /\ Take(MetaDataTurn(mailList[i], p)) /\ mailItr' = i
        /\ UNCHANGED <<socket, it, temporaryFile>>
    BY <1>2 DEF MessageTurn
  <2>4. /\ it' \in Nat \ {0} /\ temporaryFile' \in BOOLEAN
        /\ socket' \in {"closed", "opening", "open", "handshake", "encrypted"}
    BY <2>3 DEF WellTyped, TypeOK
  <2>5. mailItr' \in 1 .. Len(mailList) + 1 /\ mailItr' =< Len(mailList)
    BY <2>1, <2>3 DEF WellTyped, TypeOK
  <2> HIDE DEF WellTyped
  <2> QED
    BY <2>2, <2>3, <2>4, <2>5, TakeTyped, Zenon
<1> QED
  BY <1>1, <1>2

\* What stays as it is, or has its type, when a line is read.
LineRead ==
  /\ replies # <<>> /\ authTimeout' = FALSE /\ lineBuffer' = NoLine
  /\ UNCHANGED <<callVars, serverVars>>

\* One line that nextAction handles.
LEMMA NextActionTyped ==
  ASSUME WellTyped, Tidy, sending, LineRead, NEW r \in AnyLine, nextAction(r)
  PROVE  WellTyped'
<1> USE DEF LineRead
<1>0. /\ UNCHANGED callVars /\ UNCHANGED envelope /\ UNCHANGED <<callVars, envelope>>
      /\ wire \in Seq(AnyCommand) /\ mailChunks \in Seq(Part)
      /\ mailItr \in 1 .. Len(mailList) + 1 /\ mailList \in Seq(Message) /\ Len(mailList) \in Nat
      /\ it \in Nat \ {0} /\ capabilities \subseteq {"PIPELINING"}
      /\ transmitted \subseteq Message /\ outbox \subseteq Message
      /\ temporaryFile \in BOOLEAN /\ status \in Status
      /\ socket \in {"closed", "opening", "open", "handshake", "encrypted"}
      /\ status \in Transaction => mailItr =< Len(mailList)
      /\ status = "ChunkSent" => mailChunks # <<>>
      /\ r.offered \subseteq {"PIPELINING"}
  BY DEF WellTyped, TypeOK, Part, Status, AnyLine, serverVars
<1>1. ASSUME Failure, UNCHANGED reportVars PROVE WellTyped'
  <2>1. wire' \in Seq(AnyCommand) /\ outstandingResponses' \in Nat /\ operationFailed(status)
    BY <1>0, <1>1 DEF Failure
  <2>2. UNCHANGED <<callVars, envelope, reportVars>>
    BY <1>0, <1>1
  <2> QED
    BY <1>0, <2>1, <2>2, FailureTyped
<1>2. ASSUME NEW st \in Status, st # "ChunkSent" \/ st = status, NEW v \in Verb,
             Say(st, Plain(v)) \/ Hold(st),
             it' \in Nat \ {0}, temporaryFile' \in BOOLEAN,
             capabilities' \subseteq {"PIPELINING"},
             socket' \in {"closed", "opening", "open", "handshake", "encrypted"},
             mailItr' \in 1 .. Len(mailList) + 1,
             st \in Transaction => mailItr' =< Len(mailList),
             UNCHANGED reportVars
      PROVE  WellTyped'
  <2>0. mailChunks \in Seq(Part) /\ (st = "ChunkSent" => mailChunks # <<>>)
    BY <1>0, <1>2
  <2>1. PICK turn : GoodTurn(turn) /\ Take(turn) /\ turn.status = st
    <3>1. CASE Say(st, Plain(v))
      <4>1. Take(Turn(st, <<Plain(v)>>, mailChunks))
        BY <3>1 DEF Say
      <4>2. GoodTurn(Turn(st, <<Plain(v)>>, mailChunks))
        BY <2>0, SayType
      <4>3. Turn(st, <<Plain(v)>>, mailChunks).status = st
        BY DEF Turn
      <4> QED
        BY <4>1, <4>2, <4>3
    <3>2. CASE Hold(st)
      <4>1. Take(Turn(st, <<>>, mailChunks))
        BY <3>2 DEF Hold
      <4>2. GoodTurn(Turn(st, <<>>, mailChunks))
        BY <2>0, SayType
      <4>3. Turn(st, <<>>, mailChunks).status = st
        BY DEF Turn
      <4> QED
        BY <4>1, <4>2, <4>3
    <3> QED
      BY <1>2, <3>1, <3>2
  <2>2. transmitted' \subseteq Message /\ outbox' \subseteq Message
    BY <1>0, <1>2 DEF reportVars
  <2> QED
    BY <1>0, <1>2, <2>1, <2>2, TakeTyped
<1>3. ASSUME NEW i \in 1 .. Len(mailList) + 1, NEW p \in BOOLEAN, MessageTurn(i, p),
             capabilities' \subseteq {"PIPELINING"},
             transmitted' \subseteq Message, outbox' \subseteq Message
      PROVE  WellTyped'
  BY <1>0, <1>3, MessageTyped
<1>4. Pipelining \in BOOLEAN
  BY DEF Pipelining
<1>5. ASSUME NEW offered \in SUBSET {"PIPELINING"}, LoginTurn(offered), UNCHANGED reportVars,
             capabilities' \subseteq {"PIPELINING"}, status \notin Transaction
      PROVE  WellTyped'
  <2>1. transmitted' \subseteq Message /\ outbox' \subseteq Message
    BY <1>0, <1>5 DEF reportVars
  <2>2. CASE MessageTurn(mailItr, "PIPELINING" \in offered)
    <3>1. ("PIPELINING" \in offered) \in BOOLEAN
      OBVIOUS
    <3> QED
      BY <1>0, <1>3, <1>5, <2>1, <2>2, <3>1, Zenon
  <2>3. ASSUME NEW st \in {"TLS", "Authenticating"}, NEW v \in {"STARTTLS", "AUTH"},
               Say(st, Plain(v)), UNCHANGED <<mailItr, it, temporaryFile, socket>>
        PROVE  WellTyped'
    <3>1. st \in Status /\ v \in Verb /\ st # "ChunkSent" /\ st \notin Transaction
      BY DEF Status, Verb, Transaction
    <3> QED
      BY <1>0, <1>2, <1>5, <2>3, <3>1
  <2> QED
    BY <1>5, <2>2, <2>3 DEF LoginTurn
<1>6. CASE Hold(status) /\ UNCHANGED <<DialogVars, reportVars>>
  BY <1>0, <1>2, <1>6 DEF DialogVars, Verb
<1>7. CASE OnInit(r) /\ UNCHANGED reportVars
  <2>1. CASE Failure
    BY <1>1, <1>7, <2>1
  <2>2. CASE Say("Helo", Plain("EHLO")) /\ mailItr' = 1 /\ capabilities' = {}
             /\ UNCHANGED <<it, temporaryFile, socket>>
    BY <1>0, <1>2, <1>7, <2>2 DEF Status, Verb, Transaction
  <2> QED
    BY <1>7, <2>1, <2>2 DEF OnInit
<1>8. CASE OnHelo(r) /\ UNCHANGED reportVars
  <2>1. CASE Failure
    BY <1>1, <1>8, <2>1
  <2>2. CASE (Say("Helo", Plain("HELO")) \/ Hold("Extension")) /\ UNCHANGED DialogVars
    BY <1>0, <1>2, <1>8, <2>2 DEF Status, Verb, Transaction, DialogVars
  <2>3. CASE LoginTurn(capabilities) /\ UNCHANGED capabilities
    BY <1>0, <1>5, <1>8, <2>3 DEF OnHelo, Transaction
  <2> QED
    BY <1>8, <2>1, <2>2, <2>3 DEF OnHelo
<1>9. CASE OnExtension(r) /\ UNCHANGED reportVars
  <2>1. CASE Failure
    BY <1>1, <1>9, <2>1
  <2>2. CASE Hold("Extension") /\ capabilities' = capabilities \cup r.offered
             /\ UNCHANGED <<mailItr, it, temporaryFile, socket>>
    BY <1>0, <1>2, <1>9, <2>2 DEF Status, Verb, Transaction
  <2>3. CASE LoginTurn(capabilities \cup r.offered) /\ capabilities' = capabilities \cup r.offered
    BY <1>0, <1>5, <1>9, <2>3 DEF OnExtension, Transaction
  <2> QED
    BY <1>9, <2>1, <2>2, <2>3 DEF OnExtension
<1>10. CASE OnTLS(r) /\ UNCHANGED reportVars
  <2>1. CASE Failure
    BY <1>1, <1>10, <2>1
  <2>2. CASE Hold("TLS") /\ socket' = "handshake"
             /\ UNCHANGED <<mailItr, it, temporaryFile, capabilities>>
    BY <1>0, <1>2, <1>10, <2>2 DEF Status, Verb, Transaction
  <2> QED
    BY <1>10, <2>1, <2>2 DEF OnTLS
<1>11. CASE OnAuthenticating(r) /\ UNCHANGED reportVars
  <2>1. CASE Failure
    BY <1>1, <1>11, <2>1
  <2>2. CASE Say("Authenticating", Plain("ANSWER")) /\ UNCHANGED DialogVars
    BY <1>0, <1>2, <1>11, <2>2 DEF Status, Verb, Transaction, DialogVars
  <2>3. CASE MessageTurn(mailItr, Pipelining) /\ UNCHANGED capabilities
    BY <1>0, <1>3, <1>4, <1>11, <2>3 DEF reportVars
  <2> QED
    BY <1>11, <2>1, <2>2, <2>3 DEF OnAuthenticating
<1>12. CASE OnRecv(r) /\ UNCHANGED reportVars
  <2>1. CASE Failure
    BY <1>1, <1>12, <2>1
  <2>2. CASE Say("MRcv", Plain("RCPT")) /\ it' = 1
             /\ UNCHANGED <<mailItr, temporaryFile, socket, capabilities>>
    <3>1. it' \in Nat \ {0} /\ mailItr' =< Len(mailList)
      BY <1>0, <1>12, <2>2 DEF OnRecv, Transaction
    <3> QED
      BY <1>0, <1>2, <1>12, <2>2, <3>1 DEF Status, Verb
  <2> QED
    BY <1>12, <2>1, <2>2 DEF OnRecv
<1>13. CASE OnMRcv(r) /\ UNCHANGED reportVars
  <2>1. CASE Failure
    BY <1>1, <1>13, <2>1
  <2>2. CASE /\ it' = it + 1 /\ Say("MRcv", Plain("RCPT"))
             /\ UNCHANGED <<mailItr, temporaryFile, socket, capabilities>>
    <3>1. it' \in Nat \ {0}
      BY <1>0, <2>2
    <3> QED
      BY <1>0, <1>2, <1>13, <2>2, <3>1 DEF OnMRcv, Status, Verb, Transaction
  <2>3. CASE /\ it' = it + 1 /\ Take(DataTurn(<<>>, mailList[mailItr], Pipelining))
             /\ UNCHANGED <<mailItr, temporaryFile, socket, capabilities>>
    <3>1. it' \in Nat \ {0}
      BY <1>0, <2>3
    <3>2. mailItr =< Len(mailList) /\ mailList[mailItr] \in Message
      BY <1>0, <1>13 DEF OnMRcv, Transaction
    <3>3. GoodTurn(DataTurn(<<>>, mailList[mailItr], Pipelining))
      <4>1. <<>> \in Seq(AnyCommand)
        OBVIOUS
      <4> QED
        BY <1>0, <1>4, <3>2, <4>1, DataTurnType
    <3>4. transmitted' \subseteq Message /\ outbox' \subseteq Message
      BY <1>0, <1>13 DEF reportVars
    <3>5. /\ mailItr' \in 1 .. Len(mailList) + 1 /\ mailItr' =< Len(mailList)
          /\ temporaryFile' \in BOOLEAN /\ capabilities' \subseteq {"PIPELINING"}
          /\ socket' \in {"closed", "opening", "open", "handshake", "encrypted"}
      BY <1>0, <2>3, <3>2
    <3> QED
      BY <1>0, <2>3, <3>1, <3>3, <3>4, <3>5, TakeTyped, Zenon
  <2> QED
    BY <1>13, <2>1, <2>2, <2>3 DEF OnMRcv
<1>14. CASE OnBody(r) /\ UNCHANGED reportVars
  <2>1. CASE Failure
    BY <1>1, <1>14, <2>1
  <2>2. CASE Hold("Body") /\ temporaryFile' = TRUE
             /\ UNCHANGED <<mailItr, it, socket, capabilities>>
    BY <1>0, <1>2, <1>14, <2>2 DEF OnBody, Status, Verb, Transaction
  <2> QED
    BY <1>14, <2>1, <2>2 DEF OnBody
<1>15. CASE OnChunkSent(r) /\ UNCHANGED reportVars
  <2>1. CASE Failure
    BY <1>1, <1>15, <2>1
  <2>2. CASE Take(ChunkTurn(<<>>, mailChunks, Pipelining)) /\ UNCHANGED DialogVars
    <3>1. status = "ChunkSent" /\ mailItr =< Len(mailList) /\ mailChunks # <<>>
      BY <1>0, <1>15 DEF OnChunkSent, Transaction
    <3>2. GoodTurn(ChunkTurn(<<>>, mailChunks, Pipelining))
      <4>1. <<>> \in Seq(AnyCommand)
        OBVIOUS
      <4> QED
        BY <1>0, <1>4, <3>1, <4>1, ChunkTurnType
    <3>3. transmitted' \subseteq Message /\ outbox' \subseteq Message
      BY <1>0, <1>15 DEF reportVars
    <3>4. /\ mailItr' \in 1 .. Len(mailList) + 1 /\ mailItr' =< Len(mailList)
          /\ temporaryFile' \in BOOLEAN /\ capabilities' \subseteq {"PIPELINING"}
          /\ it' \in Nat \ {0}
          /\ socket' \in {"closed", "opening", "open", "handshake", "encrypted"}
      BY <1>0, <2>2, <3>1 DEF DialogVars
    <3> QED
      BY <1>0, <2>2, <3>2, <3>3, <3>4, TakeTyped, Zenon
  <2> QED
    BY <1>15, <2>1, <2>2 DEF OnChunkSent
<1>16. CASE OnSent(r)
  <2>1. CASE Failure /\ UNCHANGED reportVars
    BY <1>1, <2>1
  <2>2. CASE /\ transmitted' = transmitted \cup {mailList[mailItr]}
             /\ outbox' = outbox \ {mailList[mailItr]}
             /\ MessageTurn(mailItr + 1, Pipelining)
             /\ UNCHANGED capabilities
    <3>1. mailItr =< Len(mailList) /\ mailList[mailItr] \in Message
          /\ mailItr + 1 \in 1 .. Len(mailList) + 1
      BY <1>0, <1>16 DEF OnSent, Transaction
    <3> QED
      BY <1>0, <1>3, <1>4, <2>2, <3>1
  <2> QED
    BY <1>16, <2>1, <2>2 DEF OnSent
<1> QED
  BY <1>6, <1>7, <1>8, <1>9, <1>10, <1>11, <1>12, <1>13, <1>14, <1>15, <1>16 DEF nextAction

\* A response in three lines.
LEMMA ThreeLines ==
  ASSUME NEW S, NEW a \in S, NEW b \in S, NEW c \in S
  PROVE  <<a, b, c>> \in Seq(S)
  OBVIOUS

\* What the server writes are reply lines.
LEMMA RespondType ==
  ASSUME replies \in Seq(AnyLine), NEW code \in Nat, Respond(code)
  PROVE  replies' \in Seq(AnyLine)
<1>1. PICK k \in {1, 2} : Reply([i \in 1 .. k |-> Line(code, i < k, {})])
  BY DEF Respond
<1>2. \A i \in 1 .. k : Line(code, i < k, {}) \in AnyLine
  BY DEF Line, AnyLine
<1>3. [i \in 1 .. k |-> Line(code, i < k, {})] \in [1 .. k -> AnyLine]
  BY <1>2
<1>4. [i \in 1 .. k |-> Line(code, i < k, {})] \in Seq(AnyLine)
  BY <1>3
<1> QED
  BY <1>1, <1>4 DEF Reply

\* One command of the server keeps the types.
LEMMA ServerTyped ==
  ASSUME WellTyped, Server
  PROVE  WellTyped'
<1>0. /\ replies \in Seq(AnyLine) /\ wire \in Seq(AnyCommand) /\ wire # <<>>
      /\ wire' = Tail(wire) /\ UNCHANGED clientVars
  BY DEF WellTyped, Server
<1>1. Head(wire) \in AnyCommand
  BY <1>0
<1>2. wire' \in Seq(AnyCommand)
  BY <1>0
<1>3. ASSUME NEW verb, Welcome(verb) PROVE replies' \in Seq(AnyLine)
  <2>1. ASSUME NEW C \in SUBSET {"PIPELINING"},
               Reply(<<Line(250, TRUE, {}), Line(250, TRUE, C), Line(250, FALSE, {})>>)
        PROVE  replies' \in Seq(AnyLine)
    <3> DEFINE first == Line(250, TRUE, {})
               middle == Line(250, TRUE, C)
               final == Line(250, FALSE, {})
               answer == <<first, middle, final>>
    <3>1. first \in AnyLine /\ middle \in AnyLine /\ final \in AnyLine
      BY DEF Line, AnyLine
    <3>2. answer \in Seq(AnyLine)
      <4> HIDE DEF first, middle, final
      <4> QED
        BY <3>1, ThreeLines
    <3>3. Reply(answer)
      BY <2>1
    <3> HIDE DEF answer
    <3> QED
      BY <1>0, <3>2, <3>3 DEF Reply
  <2>2. ASSUME NEW code \in {220, 221, 235, 250, 334}, Respond(code) PROVE replies' \in Seq(AnyLine)
    BY <1>0, <2>2, RespondType
  <2>3. CASE verb = "EHLO" /\ \E C \in SUBSET {"PIPELINING"} :
                                Reply(<<Line(250, TRUE, {}), Line(250, TRUE, C), Line(250, FALSE, {})>>)
    BY <2>1, <2>3, Zenon
  <2>4. ASSUME Respond(220) \/ Respond(250) \/ Respond(235) \/ Respond(334) \/ Respond(221)
        PROVE  replies' \in Seq(AnyLine)
    <3>1. CASE Respond(220)
      BY <2>2, <3>1
    <3>2. CASE Respond(250)
      BY <2>2, <3>2
    <3>3. CASE Respond(235)
      BY <2>2, <3>3
    <3>4. CASE Respond(334)
      BY <2>2, <3>4
    <3>5. CASE Respond(221)
      BY <2>2, <3>5
    <3> QED
      BY <2>4, <3>1, <3>2, <3>3, <3>4, <3>5, Zenon
  <2>5. \/ verb = "EHLO" /\ \E C \in SUBSET {"PIPELINING"} :
                                Reply(<<Line(250, TRUE, {}), Line(250, TRUE, C), Line(250, FALSE, {})>>)
        \/ Respond(220) \/ Respond(250) \/ Respond(235) \/ Respond(334) \/ Respond(221)
    BY <1>3, Zenon DEF Welcome
  <2> QED
    BY <2>3, <2>4, <2>5, Zenon
<1>4. ASSUME NEW code \in {250, 251, 354, 500, 550}, Respond(code) PROVE replies' \in Seq(AnyLine)
  BY <1>0, <1>4, RespondType
<1>5. envelope \in Message \cup {NoMessage} /\ Head(wire).part[1] \in Message \cup {NoMessage}
  BY <1>1 DEF AnyCommand, WellTyped, TypeOK
<1>6. replies' \in Seq(AnyLine) /\ envelope' \in Message \cup {NoMessage}
  <2>1. CASE ServerAccepts
    BY <1>3, <1>4, <1>5, <2>1 DEF ServerAccepts, serverVars
  <2>2. CASE ServerRefuses
    BY <1>4, <1>5, <2>2 DEF ServerRefuses
  <2> QED
    BY <2>1, <2>2 DEF Server
<1> QED
  BY <1>0, <1>2, <1>6 DEF WellTyped, TypeOK, clientVars, callVars, listVars, reportVars

\* No step of the client or of the server disturbs the types.
LEMMA StepTyped == WellTyped /\ Tidy /\ [Next]_vars => WellTyped'
<1> SUFFICES ASSUME WellTyped, Tidy, [Next]_vars PROVE WellTyped'
  OBVIOUS
<1>0. /\ socket # "closed" \/ replies # <<>> \/ authTimeout \/ temporaryFile => sending
      /\ status \in Status
  BY DEF Tidy, Released, WellTyped, TypeOK, Status
<1>1. ASSUME NEW M \in SUBSET outbox, NEW mails \in SetToSeqs(M \ Invalid), TransmitMessages(mails)
      PROVE  WellTyped'
  <2>1. M \ Invalid \in SUBSET Message
    BY DEF WellTyped, TypeOK
  <2>2. mails \in Seq(Message) /\ ToSet(mails) \subseteq Message
    BY <2>1, BatchSequence
  <2>3. mailList' \in Seq(Message) /\ mailItr' \in 1 .. Len(mailList') + 1 /\ batch' \subseteq Message
    BY <1>1, <2>2 DEF TransmitMessages, WellTyped, TypeOK
  <2>4. batches' \in 0 .. MaxBatches
    BY <1>1, SmtpAssumption DEF TransmitMessages, WellTyped, TypeOK
  <2>5. /\ sending' \in BOOLEAN /\ status' \in {"Init", "Done"} /\ outcome' \in {"none", "failed"}
        /\ outstandingResponses' \in Nat /\ transmitted' = {}
        /\ socket' \in {"closed", "opening", "open", "handshake", "encrypted"}
    <3>1. sending = FALSE
      BY <1>1 DEF TransmitMessages, WellTyped, TypeOK
    <3>2. CASE configured
      BY <1>1, <3>2 DEF TransmitMessages
    <3>3. CASE ~configured
      BY <1>1, <3>1, <3>3 DEF TransmitMessages, WellTyped, TypeOK
    <3> QED
      BY <3>2, <3>3
  <2>6. UNCHANGED <<configured, it, mailChunks, temporaryFile, authTimeout, capabilities,
                    lineBuffer, wire, replies, serverVars, outbox>>
    BY <1>1 DEF TransmitMessages
  <2> QED
    BY <2>3, <2>4, <2>5, <2>6 DEF WellTyped, TypeOK, Transaction, serverVars
<1>2. CASE Connected
  <2>1. Plain("CONNECT") \in AnyCommand
    BY CommandType DEF Verb
  <2>2. wire' \in Seq(AnyCommand)
    BY <1>2, <2>1 DEF Connected
  <2> QED
    BY <1>2, <2>2 DEF Connected, WellTyped, TypeOK, callVars, listVars, reportVars
<1>3. CASE Encrypted
  <2>1. Plain("EHLO") \in AnyCommand
    BY CommandType DEF Verb
  <2>2. wire' \in Seq(AnyCommand) /\ outstandingResponses' \in Nat
    BY <1>3, <2>1 DEF Encrypted, WellTyped, TypeOK
  <2> QED
    BY <1>3, <2>2 DEF Encrypted, WellTyped, TypeOK, Transaction, callVars, listVars, reportVars, serverVars
<1>4. CASE ReadLine
  <2>1. PICK r \in Responses :
          IF outstandingResponses > 1
          THEN PipelinedResponse(r) /\ UNCHANGED reportVars
          ELSE nextAction(r)
    BY <1>4 DEF ReadLine
  <2>2. sending /\ LineRead /\ r \in AnyLine
    BY <1>0, <1>4, ResponsesType DEF ReadLine, LineRead
  <2>3. CASE PipelinedResponse(r) /\ UNCHANGED reportVars /\ outstandingResponses > 1
    <3>1. outstandingResponses' \in Nat /\ UNCHANGED wire /\ wire' \in Seq(AnyCommand)
      BY <2>3 DEF PipelinedResponse, WellTyped, TypeOK
    <3>2. CASE operationFailed(status)
      <4>1. UNCHANGED <<callVars, envelope, reportVars>> /\ lineBuffer' = NoLine
        BY <2>2, <2>3 DEF LineRead, serverVars
      <4> QED
        BY <1>0, <3>1, <3>2, <4>1, FailureTyped
    <3>3. CASE replies' = Tail(replies)
               /\ UNCHANGED <<status, sending, mailList, mailChunks, outcome, DialogVars>>
      <4>1. replies' \in Seq(AnyLine)
        BY <2>2, <3>3 DEF LineRead, WellTyped
      <4>2. lineBuffer' \in [line : AnyLine, batch : 0 .. MaxBatches] /\ authTimeout' = FALSE
        BY <2>2, NoLineType DEF LineRead
      <4>3. UNCHANGED <<callVars, serverVars, reportVars>>
        BY <2>2, <2>3 DEF LineRead
      <4>4. lineBuffer'.batch \in 0 .. MaxBatches
        BY <4>2
      <4>5. UNCHANGED <<status, sending, mailList, mailChunks, outcome, mailItr, it, temporaryFile,
                        socket, capabilities, configured, batch, batches, envelope, transmitted,
                        outbox>>
        BY <3>3, <4>3 DEF DialogVars, callVars, reportVars, serverVars
      <4>6. TypeOK'
        BY <3>1, <4>2, <4>4, <4>5, ZenonT(40) DEF WellTyped, TypeOK
      <4> QED
        BY <3>1, <4>1, <4>2, <4>5, <4>6 DEF WellTyped
    <3> QED
      BY <2>3, <3>2, <3>3 DEF PipelinedResponse
  <2>4. CASE nextAction(r)
    BY <2>2, <2>4, NextActionTyped
  <2> QED
    BY <2>1, <2>3, <2>4
<1>5. CASE ReadPart
  <2>1. lineBuffer' \in [line : AnyLine, batch : 0 .. MaxBatches]
    BY <1>5 DEF ReadPart, WellTyped, TypeOK
  <2> QED
    BY <1>5, <2>1 DEF ReadPart, WellTyped, TypeOK, callVars, listVars, reportVars, serverVars
<1>6. CASE BodyWritten
  <2>1. temporaryFile /\ status = "Body" /\ sending /\ mailItr =< Len(mailList)
    BY <1>0, <1>6 DEF BodyWritten, Tidy, WellTyped, Transaction
  <2>2. mailList[mailItr] \in Message
    BY <2>1 DEF WellTyped, TypeOK
  <2>3. <<mailList[mailItr], 1>> \in Part
    BY <2>2 DEF Part
  <2>4. Command("END", <<mailList[mailItr], 1>>, TRUE) \in AnyCommand
    BY <2>3, CommandType DEF Verb
  <2> DEFINE end == Command("END", <<mailList[mailItr], 1>>, TRUE)
  <2>7. wire' = wire \o <<end>> /\ wire \in Seq(AnyCommand) /\ end \in AnyCommand
    BY <1>6, <2>4 DEF BodyWritten, Terminator, WellTyped
  <2> HIDE DEF end
  <2>5. wire' \in Seq(AnyCommand)
    BY <2>7
  <2>6. temporaryFile' = FALSE /\ status' = "Sent"
    BY <1>6, <2>1 DEF BodyWritten, stopTransferring
  <2> QED
    BY <1>6, <2>1, <2>5, <2>6 DEF BodyWritten, WellTyped, TypeOK, Transaction, callVars, listVars, reportVars, serverVars
<1>7. CASE TransportError
  <2>1. /\ wire' = <<>> /\ UNCHANGED <<callVars, envelope, reportVars>> /\ operationFailed(status)
        /\ outstandingResponses' \in Nat /\ UNCHANGED lineBuffer
    BY <1>7 DEF TransportError, serverVars, WellTyped, TypeOK
  <2>2. wire' \in Seq(AnyCommand)
    BY <2>1
  <2> QED
    BY <1>0, <2>1, <2>2, FailureTyped
<1>8. CASE AuthExpired
  <2>1. /\ wire' \in Seq(AnyCommand) /\ UNCHANGED <<callVars, envelope, reportVars>>
        /\ operationFailed("Done")
        /\ outstandingResponses' \in Nat /\ UNCHANGED lineBuffer
    BY <1>8 DEF AuthExpired, serverVars, WellTyped, TypeOK
  <2>2. "Done" \in Status
    BY DEF Status
  <2> QED
    BY <2>1, <2>2, FailureTyped
<1>9. CASE CancelTransfer
  <2>1. /\ wire' \in Seq(AnyCommand) /\ UNCHANGED <<callVars, envelope, reportVars>>
        /\ operationFailed(status)
        /\ outstandingResponses' \in Nat /\ UNCHANGED lineBuffer
    BY <1>9 DEF CancelTransfer, serverVars, WellTyped, TypeOK
  <2> QED
    BY <1>0, <2>1, FailureTyped
<1>10. CASE AccountsUpdated
  <2>1. configured' \in BOOLEAN
    BY <1>10, SmtpAssumption DEF AccountsUpdated
  <2> QED
    BY <1>10, <2>1 DEF AccountsUpdated, WellTyped, TypeOK, listVars, reportVars, serverVars
<1>11. CASE Server
  BY <1>11, ServerTyped
<1>12. CASE ServerShutsDown
  <2>1. Line(421, FALSE, {}) \in AnyLine
    BY DEF Line, AnyLine
  <2> DEFINE line == Line(421, FALSE, {})
  <2>3. /\ replies' = Append(replies, line) /\ wire' = <<>>
        /\ replies \in Seq(AnyLine) /\ line \in AnyLine
    BY <1>12, <2>1 DEF ServerShutsDown, WellTyped
  <2> HIDE DEF line
  <2>2. replies' \in Seq(AnyLine) /\ wire' \in Seq(AnyCommand)
    BY <2>3
  <2> QED
    BY <1>12, <2>2, ZenonT(40) DEF ServerShutsDown, WellTyped, TypeOK, clientVars, callVars, listVars, reportVars
<1>13. CASE UNCHANGED vars
  BY <1>13 DEF vars, WellTyped, TypeOK, callVars, listVars, reportVars, serverVars
<1> QED
  BY <1>1, <1>2, <1>3, <1>4, <1>5, <1>6, <1>7, <1>8, <1>9, <1>10, <1>11, <1>12, <1>13 DEF Next

\* At the start the types are right and nothing is held.
LEMMA InitTyped == Init => WellTyped /\ Tidy
<1> SUFFICES ASSUME Init PROVE WellTyped /\ Tidy
  OBVIOUS
<1>1. Tidy
  BY DEF Init, Tidy, Released
<1>2. /\ mailList \in Seq(Message) /\ mailItr \in 1 .. Len(mailList) + 1
      /\ mailChunks \in Seq(Message \X Nat)
      /\ wire \in Seq(AnyCommand) /\ replies \in Seq(AnyLine)
  BY DEF Init
<1>3. lineBuffer \in [line : AnyLine, batch : 0 .. MaxBatches]
  BY NoLineType DEF Init
<1>4. lineBuffer.batch \in 0 .. MaxBatches
  BY <1>3
<1>5. 0 \in 0 .. MaxBatches
  BY SmtpAssumption
<1>7. it \in Nat \ {0} /\ outstandingResponses \in Nat /\ batches \in 0 .. MaxBatches
  BY <1>5 DEF Init
<1>8. /\ configured \in BOOLEAN /\ sending \in BOOLEAN
      /\ temporaryFile \in BOOLEAN /\ authTimeout \in BOOLEAN
      /\ status = "Init" /\ socket = "closed" /\ outcome = "none"
      /\ capabilities \subseteq {"PIPELINING"} /\ envelope \in Message \cup {NoMessage}
      /\ transmitted \subseteq Message /\ outbox \subseteq Message /\ batch \subseteq Message
  BY DEF Init
<1>6. TypeOK
  BY <1>2, <1>4, <1>7, <1>8 DEF TypeOK
<1> QED
  BY <1>1, <1>2, <1>3, <1>6 DEF Init, WellTyped

\* The types hold in every state: in particular mailItr never leaves mailList,
\* so that the dialog never sends a message that is not there (nextAction).
THEOREM TypesKept == Spec => []TypeOK
<1>1. Init => WellTyped /\ Tidy
  BY InitTyped
<1>2. WellTyped => TypeOK
  BY DEF WellTyped
<1> QED
  BY <1>1, <1>2, StepTyped, StepTidy, PTL DEF Spec

-----------------------------------------------------------------------------
(* The client is a message sink *)

\* The messages before position i of the list.
Before(i) == {mailList[k] : k \in 1 .. i - 1}

\* A running transfer works through its batch: the list holds each message of it
\* once, and those before the current one are reported.  A list is left over only
\* when the account has no server.
BatchKept ==
  /\ sending =>
       /\ batch = ToSet(mailList)
       /\ \A i, j \in 1 .. Len(mailList) : mailList[i] = mailList[j] => i = j
       /\ transmitted = IF status = "Init" THEN {} ELSE Before(mailItr)
       /\ batch \ transmitted \subseteq outbox
  /\ sending \/ ~configured \/ mailList = <<>>

\* A running transfer that fails ends the batch.
LEMMA FailureEndsBatch ==
  ASSUME sending, sending \in BOOLEAN, NEW st, operationFailed(st), UNCHANGED outbox
  PROVE  Sink!Fail /\ BatchKept'
<1>1. sending' = FALSE /\ outcome' = "failed" /\ mailList' = <<>>
  BY DEF operationFailed, ClearList
<1>2. Sink!Fail
  BY <1>1 DEF Sink!Fail
<1> QED
  BY <1>1, <1>2 DEF BatchKept

\* A step of the dialog in the middle of a message is none of the sink.
LEMMA TakeKeepsBatch ==
  ASSUME BatchKept, sending, sending \in BOOLEAN, NEW turn, Take(turn), status # "Init" \/ turn.status = "Init",
         turn.status # "Init" \/ status = "Init",
         UNCHANGED <<mailItr, configured, batch, transmitted, outbox>>
  PROVE  UNCHANGED Sink!vars /\ BatchKept'
<1>1. UNCHANGED <<sending, mailList, outcome>> /\ status' = turn.status
  BY DEF Take
<1>2. (status' = "Init") <=> (status = "Init")
  BY <1>1
<1>3. Before(mailItr)' = Before(mailItr)
  BY <1>1 DEF Before
<1>4. BatchKept'
  BY <1>1, <1>2, <1>3 DEF BatchKept
<1> QED
  BY <1>1, <1>4 DEF Sink!vars

\* The dialog goes on with the message at position i, when those before it are
\* reported.
LEMMA MessageKeepsBatch ==
  ASSUME WellTyped, BatchKept, sending, NEW i \in 1 .. Len(mailList) + 1, NEW p, MessageTurn(i, p),
         UNCHANGED <<configured, batch>>, p \in BOOLEAN,
         transmitted' = Before(i),
         \/ UNCHANGED <<transmitted, outbox>>
         \/ \E m \in batch \ transmitted :
              transmitted' = transmitted \cup {m} /\ outbox' = outbox \ {m}
  PROVE  (Sink!Next \/ UNCHANGED Sink!vars) /\ BatchKept'
<1>0. /\ sending \in BOOLEAN /\ mailList \in Seq(Message) /\ batch \subseteq Message
      /\ Len(mailList) \in Nat
  BY DEF WellTyped, TypeOK
<1>1. batch \ transmitted' \subseteq outbox'
  BY DEF BatchKept
<1>2. CASE AtEnd(i)
  <2>1. sending' = FALSE /\ outcome' = "succeeded" /\ mailList' = <<>>
    BY <1>2 DEF MessageTurn, QuitTurn, ClearList
  <2>2. transmitted' = batch
    <3>1. i = Len(mailList) + 1
      BY <1>0, <1>2 DEF AtEnd
    <3>2. Before(i) = {mailList[k] : k \in 1 .. Len(mailList)}
      BY <1>0, <3>1 DEF Before
    <3>3. ToSet(mailList) = {mailList[k] : k \in 1 .. Len(mailList)}
      BY <1>0 DEF ToSet
    <3> QED
      BY <3>2, <3>3 DEF BatchKept
  <2>3. Sink!Succeed
    <3>1. CASE UNCHANGED <<transmitted, outbox>>
      BY <2>1, <2>2, <3>1 DEF Sink!Succeed
    <3>2. ASSUME NEW m \in batch \ transmitted,
                 transmitted' = transmitted \cup {m}, outbox' = outbox \ {m}
          PROVE  Sink!Succeed
      <4>1. batch \ transmitted = {m}
        BY <2>2, <3>2
      <4>2. Sink!Report(m)
        BY <3>2 DEF Sink!Report
      <4> QED
        BY <2>1, <4>1, <4>2 DEF Sink!Succeed
    <3> QED
      BY <3>1, <3>2
  <2>4. BatchKept'
    BY <2>1 DEF BatchKept
  <2> QED
    BY <2>3, <2>4 DEF Sink!Next
<1>3. CASE ~AtEnd(i)
  <2>1. mailList[i] \in Message
    BY <1>0, <1>3 DEF AtEnd
  <2>2. /\ Take(MetaDataTurn(mailList[i], p)) /\ mailItr' = i
        /\ MetaDataTurn(mailList[i], p).status \in Transaction
    BY <1>3, <2>1, MetaDataTurnType DEF MessageTurn, WellTyped, TypeOK, Part
  <2>3. UNCHANGED <<sending, mailList, outcome>> /\ status' # "Init"
    BY <2>2 DEF Take, Transaction
  <2>4. Before(mailItr)' = Before(i)
    BY <2>2, <2>3 DEF Before
  <2>5. BatchKept'
    BY <1>1, <2>3, <2>4 DEF BatchKept
  <2>6. CASE UNCHANGED <<transmitted, outbox>>
    BY <2>3, <2>5, <2>6 DEF Sink!vars
  <2>7. ASSUME NEW m \in batch \ transmitted,
               transmitted' = transmitted \cup {m}, outbox' = outbox \ {m}
        PROVE  Sink!Next
    <3>1. batch \ transmitted' = (batch \ transmitted) \ {m}
      BY <2>7
    <3>2. Sink!Report(m)
      BY <2>7 DEF Sink!Report
    <3>3. Sink!Transmit(m)
      BY <2>3, <3>1, <3>2 DEF Sink!Transmit
    <3> QED
      BY <1>0, <2>7, <3>3 DEF Sink!Next
  <2> QED
    BY <2>5, <2>6, <2>7
<1> QED
  BY <1>2, <1>3

\* One line that nextAction handles.
LEMMA NextActionKeepsBatch ==
  ASSUME WellTyped, Tidy, BatchKept, sending, LineRead, NEW r \in AnyLine, nextAction(r)
  PROVE  (Sink!Next \/ UNCHANGED Sink!vars) /\ BatchKept'
<1>0. /\ sending \in BOOLEAN /\ UNCHANGED <<configured, batch>>
      /\ mailItr \in 1 .. Len(mailList) + 1 /\ mailList \in Seq(Message) /\ Len(mailList) \in Nat
      /\ status \in Transaction => mailItr =< Len(mailList)
      /\ Pipelining \in BOOLEAN
  BY DEF WellTyped, TypeOK, LineRead, callVars, Pipelining
<1>1. ASSUME Failure, UNCHANGED reportVars
      PROVE  (Sink!Next \/ UNCHANGED Sink!vars) /\ BatchKept'
  BY <1>0, <1>1, FailureEndsBatch DEF Failure, reportVars, Sink!Next
<1>2. ASSUME NEW turn, Take(turn), turn.status # "Init", status # "Init",
             UNCHANGED mailItr, UNCHANGED reportVars
      PROVE  UNCHANGED Sink!vars /\ BatchKept'
  BY <1>0, <1>2, TakeKeepsBatch DEF reportVars
<1>3. ASSUME NEW i \in 1 .. Len(mailList) + 1, NEW p \in BOOLEAN, MessageTurn(i, p), i = mailItr,
             status # "Init", UNCHANGED reportVars
      PROVE  (Sink!Next \/ UNCHANGED Sink!vars) /\ BatchKept'
  <2>1. transmitted' = Before(i)
    BY <1>3 DEF BatchKept, reportVars
  <2>2. UNCHANGED <<transmitted, outbox>>
    BY <1>3 DEF reportVars
  <2> QED
    BY <1>0, <1>3, <2>1, <2>2, MessageKeepsBatch
<1>4. ASSUME NEW offered, LoginTurn(offered), UNCHANGED reportVars, status # "Init"
      PROVE  (Sink!Next \/ UNCHANGED Sink!vars) /\ BatchKept'
  <2>1. CASE MessageTurn(mailItr, "PIPELINING" \in offered)
    <3>1. ("PIPELINING" \in offered) \in BOOLEAN
      OBVIOUS
    <3> QED
      BY <1>0, <1>3, <1>4, <2>1, <3>1, Zenon
  <2>2. ASSUME NEW st \in {"TLS", "Authenticating"}, NEW c, Say(st, c), UNCHANGED mailItr
        PROVE  UNCHANGED Sink!vars /\ BatchKept'
    <3>1. Take(Turn(st, <<c>>, mailChunks)) /\ Turn(st, <<c>>, mailChunks).status # "Init"
      BY <2>2 DEF Say, Turn
    <3> QED
      BY <1>2, <1>4, <2>2, <3>1
  <2> QED
    BY <1>4, <2>1, <2>2 DEF LoginTurn
<1>5. ASSUME NEW st, st # "Init", NEW c, Say(st, c) \/ Hold(st), status # "Init", UNCHANGED mailItr,
             UNCHANGED reportVars
      PROVE  UNCHANGED Sink!vars /\ BatchKept'
  <2>1. /\ Turn(st, <<c>>, mailChunks).status # "Init"
        /\ Turn(st, <<>>, mailChunks).status # "Init"
    BY <1>5 DEF Turn
  <2>2. Take(Turn(st, <<c>>, mailChunks)) \/ Take(Turn(st, <<>>, mailChunks))
    BY <1>5 DEF Say, Hold
  <2> QED
    BY <1>2, <1>5, <2>1, <2>2
<1>6. CASE Hold(status) /\ UNCHANGED <<DialogVars, reportVars>>
  <2>1. /\ Take(Turn(status, <<>>, mailChunks)) /\ Turn(status, <<>>, mailChunks).status = status
        /\ UNCHANGED <<mailItr, configured, batch, transmitted, outbox>>
    BY <1>0, <1>6 DEF Hold, Turn, DialogVars, reportVars
  <2> QED
    BY <1>0, <2>1, TakeKeepsBatch
<1>7. CASE OnInit(r) /\ UNCHANGED reportVars
  <2>1. CASE Failure
    BY <1>1, <1>7, <2>1
  <2>2. CASE Say("Helo", Plain("EHLO")) /\ mailItr' = 1
    <3>1. UNCHANGED <<sending, mailList, outcome>> /\ status' = "Helo" /\ mailItr' = 1
      BY <2>2 DEF Say, Take, Turn
    <3>2. transmitted' = {} /\ transmitted = {} /\ UNCHANGED outbox
      BY <1>7 DEF OnInit, BatchKept, reportVars
    <3>3. Before(mailItr)' = {}
      BY <3>1 DEF Before
    <3>4. BatchKept'
      BY <1>0, <3>1, <3>2, <3>3 DEF BatchKept
    <3> QED
      BY <1>0, <3>1, <3>2, <3>4 DEF Sink!vars
  <2> QED
    BY <1>7, <2>1, <2>2 DEF OnInit
<1>8. CASE OnHelo(r) /\ UNCHANGED reportVars
  <2>1. CASE Failure
    BY <1>1, <1>8, <2>1
  <2>2. CASE (Say("Helo", Plain("HELO")) \/ Hold("Extension")) /\ UNCHANGED DialogVars
    BY <1>5, <1>8, <2>2 DEF OnHelo, DialogVars
  <2>3. CASE LoginTurn(capabilities)
    BY <1>4, <1>8, <2>3 DEF OnHelo
  <2> QED
    BY <1>8, <2>1, <2>2, <2>3 DEF OnHelo
<1>9. CASE OnExtension(r) /\ UNCHANGED reportVars
  <2>1. CASE Failure
    BY <1>1, <1>9, <2>1
  <2>2. CASE Hold("Extension") /\ UNCHANGED <<mailItr, it, temporaryFile, socket>>
    BY <1>5, <1>9, <2>2 DEF OnExtension
  <2>3. CASE LoginTurn(capabilities \cup r.offered)
    BY <1>4, <1>9, <2>3 DEF OnExtension
  <2> QED
    BY <1>9, <2>1, <2>2, <2>3 DEF OnExtension
<1>10. CASE OnTLS(r) /\ UNCHANGED reportVars
  BY <1>1, <1>5, <1>10 DEF OnTLS
<1>11. CASE OnAuthenticating(r) /\ UNCHANGED reportVars
  <2>1. CASE Failure
    BY <1>1, <1>11, <2>1
  <2>2. CASE Say("Authenticating", Plain("ANSWER")) /\ UNCHANGED DialogVars
    BY <1>5, <1>11, <2>2 DEF OnAuthenticating, DialogVars
  <2>3. CASE MessageTurn(mailItr, Pipelining)
    BY <1>0, <1>3, <1>11, <2>3 DEF OnAuthenticating
  <2> QED
    BY <1>11, <2>1, <2>2, <2>3 DEF OnAuthenticating
<1>12. CASE OnRecv(r) /\ UNCHANGED reportVars
  BY <1>1, <1>5, <1>12 DEF OnRecv
<1>13. CASE OnMRcv(r) /\ UNCHANGED reportVars
  <2>1. CASE Failure
    BY <1>1, <1>13, <2>1
  <2>2. CASE Say("MRcv", Plain("RCPT")) /\ UNCHANGED mailItr
    BY <1>5, <1>13, <2>2 DEF OnMRcv
  <2>3. CASE Take(DataTurn(<<>>, mailList[mailItr], Pipelining)) /\ UNCHANGED mailItr
    <3>1. DataTurn(<<>>, mailList[mailItr], Pipelining).status # "Init"
      BY DEF DataTurn, ChunkTurn, Turn
    <3> QED
      BY <1>2, <1>13, <2>3, <3>1 DEF OnMRcv
  <2> QED
    BY <1>13, <2>1, <2>2, <2>3 DEF OnMRcv
<1>14. CASE OnBody(r) /\ UNCHANGED reportVars
  BY <1>1, <1>5, <1>14 DEF OnBody
<1>15. CASE OnChunkSent(r) /\ UNCHANGED reportVars
  <2>1. CASE Failure
    BY <1>1, <1>15, <2>1
  <2>2. CASE Take(ChunkTurn(<<>>, mailChunks, Pipelining)) /\ UNCHANGED DialogVars
    <3>1. ChunkTurn(<<>>, mailChunks, Pipelining).status # "Init"
      BY DEF ChunkTurn, Turn
    <3> QED
      BY <1>2, <1>15, <2>2, <3>1 DEF OnChunkSent, DialogVars
  <2> QED
    BY <1>15, <2>1, <2>2 DEF OnChunkSent
<1>16. CASE OnSent(r)
  <2>1. CASE Failure /\ UNCHANGED reportVars
    BY <1>1, <2>1
  <2>2. CASE /\ transmitted' = transmitted \cup {mailList[mailItr]}
             /\ outbox' = outbox \ {mailList[mailItr]}
             /\ MessageTurn(mailItr + 1, Pipelining)
    <3>1. mailItr \in 1 .. Len(mailList) /\ mailItr + 1 \in 1 .. Len(mailList) + 1 /\ status = "Sent"
      BY <1>0, <1>16 DEF OnSent, Transaction
    <3>2. transmitted = Before(mailItr)
      BY <3>1 DEF BatchKept
    <3>3. transmitted' = Before(mailItr + 1)
      <4>1. 1 .. (mailItr + 1) - 1 = 1 .. mailItr /\ 1 .. mailItr = (1 .. mailItr - 1) \cup {mailItr}
        BY <3>1
      <4> QED
        BY <2>2, <3>2, <4>1 DEF Before
    <3>4. mailList[mailItr] \in batch
      BY <1>0, <3>1 DEF BatchKept, ToSet
    <3>5. mailList[mailItr] \notin transmitted
      BY <1>0, <3>1, <3>2 DEF BatchKept, Before
    <3> DEFINE m == mailList[mailItr]
    <3>6. m \in batch \ transmitted /\ transmitted' = transmitted \cup {m} /\ outbox' = outbox \ {m}
      BY <2>2, <3>4, <3>5
    <3> HIDE DEF m
    <3> QED
      BY <1>0, <2>2, <3>1, <3>3, <3>6, MessageKeepsBatch
  <2> QED
    BY <1>16, <2>1, <2>2 DEF OnSent
<1> QED
  BY <1>6, <1>7, <1>8, <1>9, <1>10, <1>11, <1>12, <1>13, <1>14, <1>15, <1>16 DEF nextAction

\* Every step of the client or of the server is a step of the sink, or none.
LEMMA StepOfSink ==
  ASSUME TRUE \notin Configurations
  PROVE  WellTyped /\ Tidy /\ BatchKept /\ [Next]_vars
           => (Sink!Next \/ UNCHANGED Sink!vars) /\ BatchKept'
<1> SUFFICES ASSUME WellTyped, Tidy, BatchKept, [Next]_vars
             PROVE  (Sink!Next \/ UNCHANGED Sink!vars) /\ BatchKept'
  OBVIOUS
<1>0. /\ socket # "closed" \/ replies # <<>> \/ authTimeout \/ temporaryFile => sending
      /\ sending \in BOOLEAN /\ configured \in BOOLEAN
  BY DEF Tidy, Released, WellTyped, TypeOK, Status
<1>1. ASSUME NEW M \in SUBSET outbox, NEW mails \in SetToSeqs(M \ Invalid), TransmitMessages(mails)
      PROVE  (Sink!Next \/ UNCHANGED Sink!vars) /\ BatchKept'
  <2>0. /\ M \ Invalid \in SUBSET Message /\ outbox \subseteq Message /\ sending = FALSE
        /\ mailList \in Seq(Message)
    BY <1>0, <1>1 DEF WellTyped, TypeOK, TransmitMessages
  <2>1. /\ mails \in Seq(Message) /\ ToSet(mails) \subseteq M \ Invalid
        /\ \A i, j \in 1 .. Len(mails) : mails[i] = mails[j] => i = j
    BY <2>0, BatchSequence
  <2>2. /\ batch' = ToSet(mails) /\ transmitted' = {} /\ UNCHANGED <<configured, outbox>>
        /\ mailList' = mailList \o mails
    BY <1>1 DEF TransmitMessages
  <2>3. CASE configured
    <3>1. status' = "Init" /\ sending' = TRUE /\ outcome' = "none"
      BY <1>1, <2>3 DEF TransmitMessages
    <3>2. mailList' = mails
      <4>1. mailList = <<>>
        BY <2>0, <2>3 DEF BatchKept
      <4> QED
        BY <2>1, <2>2, <4>1, ConcatEmptySeq
    <3>3. BatchKept'
      BY <2>1, <2>2, <3>1, <3>2 DEF BatchKept
    <3>4. Sink!Start(ToSet(mails))
      BY <2>0, <2>1, <2>2, <3>1 DEF Sink!Start
    <3> QED
      BY <2>0, <2>1, <3>3, <3>4 DEF Sink!Next
  <2>4. CASE ~configured
    <3>1. outcome' = "failed" /\ UNCHANGED sending
      BY <1>1, <2>4 DEF TransmitMessages
    <3>2. Sink!Reject
      BY <2>0, <2>2, <3>1 DEF Sink!Reject
    <3> QED
      BY <2>0, <2>2, <2>4, <3>1, <3>2 DEF Sink!Next, BatchKept
  <2> QED
    BY <2>3, <2>4
<1>2. ASSUME UNCHANGED <<configured, batch, sending, transmitted, outcome, outbox, mailList, mailItr>>,
             status' = status \/ (status # "Init" /\ status' # "Init")
      PROVE  UNCHANGED Sink!vars /\ BatchKept'
  <2>1. Before(mailItr)' = Before(mailItr)
    BY <1>2 DEF Before
  <2> QED
    BY <1>2, <2>1 DEF Sink!vars, BatchKept
<1>14. ASSUME UNCHANGED <<configured, batch, sending, transmitted, outcome, outbox, mailList, mailItr, status>>
       PROVE  UNCHANGED Sink!vars /\ BatchKept'
  <2>1. Before(mailItr)' = Before(mailItr)
    BY <1>14 DEF Before
  <2> QED
    BY <1>14, <2>1 DEF Sink!vars, BatchKept
<1>3. CASE Connected \/ ReadPart
  <2>1. UNCHANGED <<configured, batch, sending, transmitted, outcome, outbox, mailList, mailItr, status>>
    BY <1>3 DEF Connected, ReadPart, callVars, listVars, reportVars
  <2> QED
    BY <1>14, <2>1
<1>4. CASE Encrypted
  BY <1>2, <1>4 DEF Encrypted, callVars, listVars, reportVars, Tidy
<1>5. CASE ReadLine
  <2>1. PICK r \in Responses :
          IF outstandingResponses > 1
          THEN PipelinedResponse(r) /\ UNCHANGED reportVars
          ELSE nextAction(r)
    BY <1>5 DEF ReadLine
  <2>2. sending /\ LineRead /\ r \in AnyLine
    BY <1>0, <1>5, ResponsesType DEF ReadLine, LineRead
  <2>3. CASE PipelinedResponse(r) /\ UNCHANGED reportVars
    <3>1. CASE operationFailed(status)
      BY <1>0, <2>2, <2>3, <3>1, FailureEndsBatch DEF reportVars, Sink!Next
    <3>2. CASE UNCHANGED <<status, sending, mailList, mailChunks, outcome, DialogVars>>
      <4>1. UNCHANGED <<configured, batch, sending, transmitted, outcome, outbox, mailList, mailItr, status>>
        BY <2>2, <2>3, <3>2 DEF DialogVars, LineRead, callVars, reportVars
      <4> QED
        BY <1>14, <4>1
    <3> QED
      BY <2>3, <3>1, <3>2 DEF PipelinedResponse
  <2> QED
    BY <2>1, <2>2, <2>3, NextActionKeepsBatch
<1>6. CASE BodyWritten
  BY <1>2, <1>6 DEF BodyWritten, stopTransferring, callVars, listVars, reportVars, Tidy
<1>7. CASE TransportError
  BY <1>0, <1>7, FailureEndsBatch DEF TransportError, reportVars, Sink!Next
<1>8. CASE AuthExpired
  BY <1>0, <1>8, FailureEndsBatch DEF AuthExpired, reportVars, Sink!Next
<1>9. CASE CancelTransfer
  BY <1>0, <1>9, FailureEndsBatch DEF CancelTransfer, reportVars, Sink!Next
<1>10. CASE AccountsUpdated
  <2>1. configured' = FALSE
    BY <1>10, SmtpAssumption DEF AccountsUpdated
  <2>2. UNCHANGED <<batch, sending, transmitted, outcome, outbox, mailList, mailItr, status>>
    BY <1>10 DEF AccountsUpdated, listVars, reportVars
  <2>3. Before(mailItr)' = Before(mailItr)
    BY <2>2 DEF Before
  <2> QED
    BY <2>1, <2>2, <2>3 DEF Sink!vars, BatchKept
<1>11. CASE Server \/ ServerShutsDown
  <2>1. UNCHANGED <<configured, batch, sending, transmitted, outcome, outbox, mailList, mailItr, status>>
    BY <1>11 DEF Server, ServerShutsDown, clientVars, callVars, listVars, reportVars
  <2> QED
    BY <1>14, <2>1
<1>12. CASE UNCHANGED vars
  <2>1. UNCHANGED <<configured, batch, sending, transmitted, outcome, outbox, mailList, mailItr, status>>
    BY <1>12 DEF vars, callVars, listVars, reportVars
  <2> QED
    BY <1>14, <2>1
<1> QED
  BY <1>1, <1>3, <1>4, <1>5, <1>6, <1>7, <1>8, <1>9, <1>10, <1>11, <1>12 DEF Next

\* The client implements the specification of a message sink, whatever the server
\* and the connection do: each message of a batch is reported at most once, only
\* while the batch runs, and the batch ends once, successfully only when all of
\* it was reported.  The hypothesis leaves out that the user removes the server
\* of the account and sets it again: in between addMail keeps what it is given,
\* and the next batch then sends more than it was handed.
THEOREM ClientIsSink ==
  ASSUME TRUE \notin Configurations
  PROVE  Spec => ImplementsSink
<1>1. Init => WellTyped /\ Tidy /\ BatchKept /\ Sink!Init
  BY InitTyped DEF Init, BatchKept, Sink!Init
<1>2. WellTyped /\ Tidy /\ BatchKept /\ [Next]_vars => [Sink!Next]_(Sink!vars) /\ BatchKept'
  BY StepOfSink
<1> QED
  BY <1>1, <1>2, StepTyped, StepTidy, PTL DEF Spec, ImplementsSink, Sink!Spec

-----------------------------------------------------------------------------
(* The stream of commands, from the client's position to the server's *)

\* A command that carries a part of a message.
IsData(c) == c.verb \in {"BDAT", "END"}

Size(m) == Len(PartsOf(m))

\* It names a part that the message has, and says whether it is the last.
PartOK(c) ==
  /\ c.part[1] \in Message
  /\ c.part[2] \in 1 .. Size(c.part[1])
  /\ c.last <=> c.part[2] = Size(c.part[1])

\* Command d may follow command c: the parts of a message come in their order,
\* without a gap and without another command in between.
Follows(c, d) ==
  /\ IsData(d) => \/ ~IsData(c) /\ d.part[2] = 1
                  \/ IsData(c) /\ ~c.last /\ d.part = <<c.part[1], c.part[2] + 1>>
  /\ IsData(c) /\ ~c.last => IsData(d)

\* Command c may be the next for a server that has received the parts k in the
\* transaction e.
Fits(c, e, k) ==
  /\ k # <<>> => IsData(c) /\ c.part = <<e, Len(k) + 1>>
  /\ k = <<>> /\ e # NoMessage /\ IsData(c) => c.part[2] = 1

\* No transaction is opened from position h to position i.
NoMail(w, h, i) == \A j \in h .. i : w[j].verb # "MAIL"

\* The commands w are those of whole messages, the first of them perhaps begun:
\* each part belongs to the transaction that is open when it arrives.
Stream(w, e, k) ==
  /\ \A i \in 1 .. Len(w) : IsData(w[i]) => PartOK(w[i])
  /\ \A i \in 1 .. Len(w) - 1 : Follows(w[i], w[i + 1])
  /\ \A i \in 1 .. Len(w) : w[i].verb = "MAIL" => w[i].part[1] \in Message
  /\ \A h, i \in 1 .. Len(w) :
       h < i /\ w[h].verb = "MAIL" /\ NoMail(w, h + 1, i) /\ IsData(w[i])
         => w[i].part[1] = w[h].part[1]
  /\ \A i \in 1 .. Len(w) :
       NoMail(w, 1, i) /\ IsData(w[i]) /\ e # NoMessage => w[i].part[1] = e
  /\ Len(w) > 0 => Fits(w[1], e, k)
  /\ e = NoMessage => k = <<>>
  /\ e # NoMessage => /\ e \in Message /\ Len(k) < Size(e)
                      /\ \A j \in 1 .. Len(k) : k[j] = <<e, j>>

\* What a server with transaction e and parts k has after the first of w.
Handled(w, e, k, e2, k2) ==
  \/ e2 = NoMessage /\ k2 = <<>>
  \/ w[1].verb = "MAIL" /\ e2 = w[1].part[1] /\ k2 = <<>>
  \/ ~IsData(w[1]) /\ w[1].verb # "MAIL" /\ e2 = e /\ k2 = k
  \/ IsData(w[1]) /\ ~w[1].last /\ e # NoMessage /\ e2 = e /\ k2 = Append(k, w[1].part)

\* The size of a message.
LEMMA SizeType ==
  ASSUME NEW m \in Message
  PROVE  Size(m) \in Nat /\ Size(m) >= 1
<1>1. PartsOf(m) \in Seq(Part) /\ PartsOf(m) # <<>>
  BY PartsType
<1> QED
  BY <1>1, EmptySeq DEF Size

\* A sequence without its first element.
LEMMA TailIndex ==
  ASSUME NEW S, NEW w \in Seq(S), w # <<>>
  PROVE  /\ Tail(w) \in Seq(S) /\ Len(Tail(w)) = Len(w) - 1 /\ Len(w) \in Nat /\ Len(w) >= 1
         /\ \A i \in 1 .. Len(w) - 1 : Tail(w)[i] = w[i + 1]
         /\ Head(w) = w[1]
  BY HeadTailProperties, EmptySeq

\* The next part that the server receives is the one it lacks.
LEMMA NextPart ==
  ASSUME NEW w \in Seq(AnyCommand), w # <<>>, NEW e \in Message, NEW k \in Seq(Part),
         Stream(w, e, k), IsData(w[1])
  PROVE  /\ w[1].part = <<e, Len(k) + 1>>
         /\ w[1].last <=> Len(k) + 1 = Size(e)
         /\ Len(k) \in Nat
<1>0. Len(w) \in Nat /\ Len(w) >= 1 /\ Len(k) \in Nat /\ w[1] \in AnyCommand
  BY EmptySeq
<1>1. w[1].part \in (Message \cup {NoMessage}) \X Nat
  BY <1>0 DEF AnyCommand
<1>2. PartOK(w[1]) /\ Fits(w[1], e, k)
  BY <1>0 DEF Stream
<1>3. e # NoMessage
  BY SmtpAssumption
<1>4. NoMail(w, 1, 1)
  BY DEF NoMail, IsData
<1>5. w[1].part[1] = e
  BY <1>0, <1>3, <1>4 DEF Stream
<1>6. w[1].part[2] = Len(k) + 1
  <2>1. CASE k = <<>>
    <3>1. Len(k) = 0
      BY <2>1
    <3> QED
      BY <1>2, <1>3, <2>1, <3>1 DEF Fits
  <2>2. CASE k # <<>>
    BY <1>2, <2>2 DEF Fits
  <2> QED
    BY <2>1, <2>2
<1>7. w[1].part = <<e, Len(k) + 1>>
  BY <1>1, <1>5, <1>6
<1> QED
  BY <1>0, <1>2, <1>5, <1>6, <1>7 DEF PartOK

\* The server handles one command of the stream.
LEMMA StreamHandled ==
  ASSUME NEW w \in Seq(AnyCommand), w # <<>>, NEW e \in Message \cup {NoMessage}, NEW k \in Seq(Part),
         NEW e2, NEW k2, Stream(w, e, k), Handled(w, e, k, e2, k2)
  PROVE  Stream(Tail(w), e2, k2) /\ k2 \in Seq(Part) /\ e2 \in Message \cup {NoMessage}
<1> DEFINE v == Tail(w)
<1>0. /\ v \in Seq(AnyCommand) /\ Len(v) = Len(w) - 1 /\ Len(w) \in Nat /\ Len(w) >= 1
      /\ \A i \in 1 .. Len(v) : v[i] = w[i + 1] /\ i + 1 \in 1 .. Len(w) /\ i \in 1 .. Len(w)
      /\ Len(v) \in Nat /\ 1 \in 1 .. Len(w)
  BY TailIndex
<1> HIDE DEF v
<1>1. \A i \in 1 .. Len(v) : IsData(v[i]) => PartOK(v[i])
  BY <1>0 DEF Stream
<1>2. \A i \in 1 .. Len(v) - 1 : Follows(v[i], v[i + 1])
  <2> SUFFICES ASSUME NEW i \in 1 .. Len(v) - 1 PROVE Follows(v[i], v[i + 1])
    OBVIOUS
  <2>1. i + 1 \in 1 .. Len(w) - 1 /\ v[i] = w[i + 1] /\ v[i + 1] = w[(i + 1) + 1]
    BY <1>0
  <2> QED
    BY <2>1 DEF Stream
<1>3. \A i \in 1 .. Len(v) : v[i].verb = "MAIL" => v[i].part[1] \in Message
  BY <1>0 DEF Stream
<1>4. \A h, i \in 1 .. Len(v) : NoMail(v, h, i) => NoMail(w, h + 1, i + 1)
  <2> SUFFICES ASSUME NEW h \in 1 .. Len(v), NEW i \in 1 .. Len(v), NoMail(v, h, i),
                      NEW j \in h + 1 .. i + 1
               PROVE  w[j].verb # "MAIL"
    BY DEF NoMail
  <2>1. j - 1 \in h .. i /\ j - 1 \in 1 .. Len(v) /\ v[j - 1] = w[(j - 1) + 1] /\ (j - 1) + 1 = j
    BY <1>0
  <2> QED
    BY <2>1 DEF NoMail
<1>5. \A h, i \in 1 .. Len(v) :
        h < i /\ v[h].verb = "MAIL" /\ NoMail(v, h + 1, i) /\ IsData(v[i])
          => v[i].part[1] = v[h].part[1]
  <2> SUFFICES ASSUME NEW h \in 1 .. Len(v), NEW i \in 1 .. Len(v),
                      h < i, v[h].verb = "MAIL", NoMail(v, h + 1, i), IsData(v[i])
               PROVE  v[i].part[1] = v[h].part[1]
    OBVIOUS
  <2>1. h + 1 \in 1 .. Len(v) /\ h + 1 \in 1 .. Len(w) /\ i + 1 \in 1 .. Len(w) /\ h + 1 < i + 1
    BY <1>0
  <2>2. NoMail(w, (h + 1) + 1, i + 1) /\ v[h] = w[h + 1] /\ v[i] = w[i + 1]
    BY <1>0, <1>4, <2>1
  <2> QED
    BY <2>1, <2>2 DEF Stream
<1>6. ASSUME e2 # NoMessage
      PROVE  /\ \A i \in 1 .. Len(v) : NoMail(v, 1, i) /\ IsData(v[i]) => v[i].part[1] = e2
             /\ e2 \in Message
  <2>1. CASE w[1].verb = "MAIL" /\ e2 = w[1].part[1]
    <3>1. e2 \in Message
      BY <1>0, <2>1 DEF Stream
    <3>2. ASSUME NEW i \in 1 .. Len(v), NoMail(v, 1, i), IsData(v[i])
          PROVE  v[i].part[1] = e2
      <4>0. 1 \in 1 .. Len(v)
        BY <1>0
      <4>1. NoMail(w, 1 + 1, i + 1) /\ i + 1 \in 1 .. Len(w) /\ 1 < i + 1 /\ v[i] = w[i + 1]
        BY <1>0, <1>4, <3>2, <4>0
      <4> QED
        BY <1>0, <2>1, <3>2, <4>1 DEF Stream
    <3> QED
      BY <3>1, <3>2
  <2>2. CASE w[1].verb # "MAIL" /\ e2 = e
    <3>1. ASSUME NEW i \in 1 .. Len(v), NoMail(v, 1, i), IsData(v[i])
          PROVE  v[i].part[1] = e2
      <4>1. NoMail(w, 1 + 1, i + 1) /\ i + 1 \in 1 .. Len(w) /\ v[i] = w[i + 1]
        BY <1>0, <1>4, <3>1
      <4>2. NoMail(w, 1, i + 1)
        BY <1>0, <2>2, <4>1 DEF NoMail
      <4> QED
        BY <1>6, <2>2, <3>1, <4>1, <4>2 DEF Stream
    <3> QED
      BY <1>6, <2>2, <3>1
  <2> QED
    BY <1>6, <2>1, <2>2 DEF Handled, IsData
<1>7. Len(v) > 0 => v[1] = w[2] /\ Follows(w[1], w[2])
  <2>1. Len(v) > 0 => 1 \in 1 .. Len(w) - 1 /\ 1 \in 1 .. Len(v)
    BY <1>0
  <2> QED
    BY <1>0, <2>1 DEF Stream
<1>8. ASSUME k2 = <<>>, ~IsData(w[1]) \/ e2 = NoMessage
      PROVE  /\ Len(v) > 0 => Fits(v[1], e2, k2)
             /\ e2 # NoMessage => Len(k2) < Size(e2) /\ \A j \in 1 .. Len(k2) : k2[j] = <<e2, j>>
             /\ k2 \in Seq(Part)
  <2>1. Len(k2) = 0
    BY <1>8
  <2>2. e2 # NoMessage => Len(k2) < Size(e2)
    BY <1>6, <2>1, SizeType
  <2>3. Len(v) > 0 => Fits(v[1], e2, k2)
    BY <1>7, <1>8 DEF Fits, Follows
  <2> QED
    BY <1>8, <2>1, <2>2, <2>3
<1>9. /\ Len(v) > 0 => Fits(v[1], e2, k2)
      /\ e2 = NoMessage => k2 = <<>>
      /\ e2 # NoMessage => Len(k2) < Size(e2) /\ \A j \in 1 .. Len(k2) : k2[j] = <<e2, j>>
      /\ k2 \in Seq(Part)
  <2>1. CASE e2 = NoMessage /\ k2 = <<>>
    BY <1>8, <2>1
  <2>2. CASE w[1].verb = "MAIL" /\ e2 = w[1].part[1] /\ k2 = <<>>
    <3>1. ~IsData(w[1])
      BY <2>2 DEF IsData
    <3> QED
      BY <1>8, <2>2, <3>1
  <2>3. CASE ~IsData(w[1]) /\ w[1].verb # "MAIL" /\ e2 = e /\ k2 = k
    <3>1. k = <<>>
      BY <1>0, <2>3 DEF Stream, Fits
    <3> QED
      BY <1>8, <2>3, <3>1
  <2>4. CASE IsData(w[1]) /\ ~w[1].last /\ e # NoMessage /\ e2 = e /\ k2 = Append(k, w[1].part)
    <3>1. /\ w[1].part = <<e, Len(k) + 1>> /\ Len(k) + 1 # Size(e) /\ Len(k) \in Nat
          /\ e \in Message
      BY <2>4, NextPart
    <3>2. <<e, Len(k) + 1>> \in Part
      BY <3>1 DEF Part
    <3>3. /\ k2 \in Seq(Part) /\ Len(k2) = Len(k) + 1
          /\ \A j \in 1 .. Len(k) : k2[j] = k[j]
          /\ k2[Len(k) + 1] = <<e, Len(k) + 1>>
      BY <2>4, <3>1, <3>2
    <3>4. Len(k) < Size(e) /\ \A j \in 1 .. Len(k) : k[j] = <<e, j>>
      BY <2>4 DEF Stream
    <3>5. Len(k2) < Size(e) /\ \A j \in 1 .. Len(k2) : k2[j] = <<e, j>>
      BY <3>1, <3>3, <3>4, SizeType
    <3>6. Len(v) > 0 => IsData(v[1]) /\ v[1].part = <<e, (Len(k) + 1) + 1>>
      BY <1>7, <2>4, <3>1 DEF Follows
    <3>7. Len(v) > 0 => Fits(v[1], e2, k2)
      <4>1. k2 # <<>>
        BY <3>1, <3>3
      <4> QED
        BY <2>4, <3>3, <3>6, <4>1 DEF Fits
    <3> QED
      BY <2>4, <3>3, <3>5, <3>7
  <2> QED
    BY <2>1, <2>2, <2>3, <2>4 DEF Handled
<1>10. Stream(v, e2, k2)
  BY <1>1, <1>2, <1>3, <1>5, <1>6, <1>9 DEF Stream
<1>11. e2 \in Message \cup {NoMessage}
  BY <1>6
<1> QED
  BY <1>9, <1>10, <1>11 DEF v

\* The transaction that will be open when the commands w have been handled, if
\* there is one, is that of message m.
Context(w, e, m) ==
  /\ \A h \in 1 .. Len(w) : w[h].verb = "MAIL" /\ NoMail(w, h + 1, Len(w)) => w[h].part[1] = m
  /\ NoMail(w, 1, Len(w)) /\ e # NoMessage => e = m

\* Commands that the client writes together, for message m.
Block(d, m) ==
  /\ \A i \in 1 .. Len(d) : IsData(d[i]) => PartOK(d[i]) /\ d[i].part[1] = m
  /\ \A i \in 1 .. Len(d) - 1 : Follows(d[i], d[i + 1])
  /\ \A i \in 1 .. Len(d) : d[i].verb = "MAIL" => i = 1 /\ d[i].part[1] = m

\* They continue what was written before.
Joins(w, e, k, d, m) ==
  /\ w # <<>> => Follows(w[Len(w)], d[1])
  /\ w = <<>> => Fits(d[1], e, k)
  /\ Context(w, e, m) \/ d[1].verb = "MAIL" \/ \A i \in 1 .. Len(d) : ~IsData(d[i])

\* The elements of two sequences put together.
LEMMA ConcatIndex ==
  ASSUME NEW S, NEW w \in Seq(S), NEW d \in Seq(S), d # <<>>
  PROVE  /\ w \o d \in Seq(S) /\ Len(w \o d) = Len(w) + Len(d)
         /\ Len(w) \in Nat /\ Len(d) \in Nat /\ Len(d) >= 1
         /\ \A i \in 1 .. Len(w) : (w \o d)[i] = w[i]
         /\ \A i \in Len(w) + 1 .. Len(w) + Len(d) : (w \o d)[i] = d[i - Len(w)] /\ i - Len(w) \in 1 .. Len(d)
  BY EmptySeq

\* The client writes a block of commands.
LEMMA StreamWritten ==
  ASSUME NEW w \in Seq(AnyCommand), NEW d \in Seq(AnyCommand), d # <<>>, NEW e, NEW k, NEW m,
         d[1].verb = "MAIL" => m \in Message,
         Stream(w, e, k), Block(d, m), Joins(w, e, k, d, m)
  PROVE  /\ Stream(w \o d, e, k)
         /\ Context(w, e, m) \/ d[1].verb = "MAIL" => Context(w \o d, e, m)
<1> DEFINE v == w \o d
           n == Len(w)
<1>0. /\ v \in Seq(AnyCommand) /\ Len(v) = n + Len(d) /\ n \in Nat /\ Len(d) \in Nat /\ Len(d) >= 1
      /\ \A i \in 1 .. n : v[i] = w[i]
      /\ \A i \in n + 1 .. Len(v) : v[i] = d[i - n] /\ i - n \in 1 .. Len(d)
      /\ n = Len(w)
  BY ConcatIndex
<1> HIDE DEF v, n
<1>1. \A i \in 1 .. Len(v) : i \in 1 .. n \/ i \in n + 1 .. Len(v)
  BY <1>0
<1>2. \A i \in n + 1 .. Len(v) : v[i].verb = "MAIL" => i = n + 1 /\ v[i].part[1] = m
  <2> SUFFICES ASSUME NEW i \in n + 1 .. Len(v), v[i].verb = "MAIL"
               PROVE  i = n + 1 /\ v[i].part[1] = m
    OBVIOUS
  <2>1. v[i] = d[i - n] /\ i - n \in 1 .. Len(d)
    BY <1>0
  <2>2. i - n = 1 /\ d[i - n].part[1] = m
    BY <2>1 DEF Block
  <2> QED
    BY <1>0, <2>1, <2>2
<1>3. \A i \in 1 .. Len(v) : IsData(v[i]) => PartOK(v[i])
  BY <1>0, <1>1 DEF Stream, Block
<1>4. \A i \in 1 .. Len(v) : v[i].verb = "MAIL" => v[i].part[1] \in Message
  <2> SUFFICES ASSUME NEW i \in 1 .. Len(v), v[i].verb = "MAIL" PROVE v[i].part[1] \in Message
    OBVIOUS
  <2>1. CASE i \in 1 .. n
    BY <1>0, <2>1 DEF Stream
  <2>2. CASE i \in n + 1 .. Len(v)
    <3>1. i = n + 1 /\ v[i].part[1] = m /\ v[i] = d[i - n] /\ (n + 1) - n = 1
      BY <1>0, <1>2, <2>2
    <3> QED
      BY <3>1
  <2> QED
    BY <1>1, <2>1, <2>2
<1>5. \A i \in 1 .. Len(v) - 1 : Follows(v[i], v[i + 1])
  <2> SUFFICES ASSUME NEW i \in 1 .. Len(v) - 1 PROVE Follows(v[i], v[i + 1])
    OBVIOUS
  <2>1. CASE i < n
    <3>1. i \in 1 .. Len(w) - 1 /\ v[i] = w[i] /\ v[i + 1] = w[i + 1]
      BY <1>0, <2>1
    <3> QED
      BY <3>1 DEF Stream
  <2>2. CASE i = n
    <3>1. v[i] = w[Len(w)] /\ v[i + 1] = d[1] /\ w # <<>>
      <4>1. n + 1 \in n + 1 .. Len(v) /\ (n + 1) - n = 1 /\ i \in 1 .. n /\ Len(w) # 0
        BY <1>0, <2>2
      <4>2. w # <<>>
        BY <4>1
      <4> QED
        BY <1>0, <2>2, <4>1, <4>2
    <3> QED
      BY <3>1 DEF Joins
  <2>3. CASE i > n
    <3>1. i - n \in 1 .. Len(d) - 1 /\ v[i] = d[i - n] /\ v[i + 1] = d[(i - n) + 1]
      <4>1. i \in n + 1 .. Len(v) /\ i + 1 \in n + 1 .. Len(v) /\ (i + 1) - n = (i - n) + 1
        BY <1>0, <2>3
      <4> QED
        BY <1>0, <4>1
    <3> QED
      BY <3>1 DEF Block
  <2> QED
    BY <1>0, <2>1, <2>2, <2>3
<1>6. \A h, i \in 1 .. n : NoMail(v, h, i) => NoMail(w, h, i)
  BY <1>0 DEF NoMail
<1>7. \A h \in 1 .. n + 1, i \in n + 1 .. Len(v) : NoMail(v, h, i) =>
        /\ NoMail(w, h, n) /\ d[1].verb # "MAIL"
  <2> SUFFICES ASSUME NEW h \in 1 .. n + 1, NEW i \in n + 1 .. Len(v), NoMail(v, h, i)
               PROVE  NoMail(w, h, n) /\ d[1].verb # "MAIL"
    OBVIOUS
  <2>1. \A j \in h .. n : j \in h .. i /\ j \in 1 .. n
    BY <1>0
  <2>2. n + 1 \in h .. i /\ n + 1 \in n + 1 .. Len(v) /\ (n + 1) - n = 1
    BY <1>0
  <2>3. NoMail(w, h, n)
    <3> SUFFICES ASSUME NEW j \in h .. n PROVE w[j].verb # "MAIL"
      BY DEF NoMail
    <3>1. v[j] = w[j] /\ j \in h .. i
      BY <1>0, <2>1
    <3> QED
      BY <3>1 DEF NoMail
  <2>4. v[n + 1] = d[1]
    BY <1>0, <2>2
  <2>5. v[n + 1].verb # "MAIL"
    BY <2>2 DEF NoMail
  <2> QED
    BY <2>3, <2>4, <2>5
<1>8. \A h, i \in 1 .. Len(v) :
        h < i /\ v[h].verb = "MAIL" /\ NoMail(v, h + 1, i) /\ IsData(v[i])
          => v[i].part[1] = v[h].part[1]
  <2> SUFFICES ASSUME NEW h \in 1 .. Len(v), NEW i \in 1 .. Len(v),
                      h < i, v[h].verb = "MAIL", NoMail(v, h + 1, i), IsData(v[i])
               PROVE  v[i].part[1] = v[h].part[1]
    OBVIOUS
  <2>1. CASE i =< n
    <3>1. h \in 1 .. Len(w) /\ i \in 1 .. Len(w) /\ v[h] = w[h] /\ v[i] = w[i] /\ h + 1 \in 1 .. n
      BY <1>0, <2>1
    <3>2. NoMail(w, h + 1, i)
      BY <1>0, <1>6, <3>1
    <3>3. \A h1, i1 \in 1 .. Len(w) :
            h1 < i1 /\ w[h1].verb = "MAIL" /\ NoMail(w, h1 + 1, i1) /\ IsData(w[i1])
              => w[i1].part[1] = w[h1].part[1]
      BY DEF Stream
    <3> QED
      BY <3>1, <3>2, <3>3
  <2>2. CASE i > n
    <3>0. i \in n + 1 .. Len(v)
      BY <1>0, <2>2
    <3>4. v[i] = d[i - n] /\ i - n \in 1 .. Len(d)
      BY <1>0, <3>0
    <3>1. i \in n + 1 .. Len(v) /\ v[i].part[1] = m /\ \E j \in 1 .. Len(d) : IsData(d[j])
      BY <3>0, <3>4 DEF Block
    <3>2. CASE h > n
      BY <1>0, <1>2, <3>1, <3>2
    <3>3. CASE h =< n
      <4>0. h + 1 \in 1 .. n + 1
        BY <1>0, <3>3
      <4>1. NoMail(w, h + 1, n) /\ d[1].verb # "MAIL"
        BY <1>7, <3>1, <4>0
      <4>2. Context(w, e, m)
        BY <3>1, <4>1 DEF Joins
      <4> QED
        BY <1>0, <3>1, <3>3, <4>1, <4>2 DEF Context
    <3> QED
      BY <1>0, <3>2, <3>3
  <2> QED
    BY <1>0, <2>1, <2>2
<1>9. \A i \in 1 .. Len(v) :
        NoMail(v, 1, i) /\ IsData(v[i]) /\ e # NoMessage => v[i].part[1] = e
  <2> SUFFICES ASSUME NEW i \in 1 .. Len(v), NoMail(v, 1, i), IsData(v[i]), e # NoMessage
               PROVE  v[i].part[1] = e
    OBVIOUS
  <2>1. CASE i =< n
    <3>1. i \in 1 .. Len(w) /\ v[i] = w[i] /\ 1 \in 1 .. n
      BY <1>0, <2>1
    <3>2. NoMail(w, 1, i)
      BY <1>0, <1>6, <3>1
    <3> QED
      BY <3>1, <3>2 DEF Stream
  <2>2. CASE i > n
    <3>0. i \in n + 1 .. Len(v)
      BY <1>0, <2>2
    <3>4. v[i] = d[i - n] /\ i - n \in 1 .. Len(d)
      BY <1>0, <3>0
    <3>1. i \in n + 1 .. Len(v) /\ v[i].part[1] = m /\ \E j \in 1 .. Len(d) : IsData(d[j])
      BY <3>0, <3>4 DEF Block
    <3>2. NoMail(w, 1, n) /\ d[1].verb # "MAIL"
      BY <1>0, <1>7, <3>1
    <3>3. Context(w, e, m)
      BY <3>1, <3>2 DEF Joins
    <3> QED
      BY <1>0, <3>1, <3>2, <3>3 DEF Context
  <2> QED
    BY <1>0, <2>1, <2>2
<1>10. Len(v) > 0 => Fits(v[1], e, k)
  <2>1. CASE w = <<>>
    <3>1. n = 0
      BY <1>0, <2>1
    <3>2. v[1] = d[1]
      BY <1>0, <3>1
    <3> QED
      BY <2>1, <3>2 DEF Joins
  <2>2. CASE w # <<>>
    <3>1. Len(w) > 0
      BY <2>2, EmptySeq
    <3>2. v[1] = w[1]
      BY <1>0, <3>1
    <3> QED
      BY <3>1, <3>2 DEF Stream
  <2> QED
    BY <2>1, <2>2
<1>11. Stream(v, e, k)
  BY <1>3, <1>4, <1>5, <1>8, <1>9, <1>10 DEF Stream
<1>12. ASSUME Context(w, e, m) \/ d[1].verb = "MAIL" PROVE Context(v, e, m)
  <2>0. Len(v) \in n + 1 .. Len(v) /\ n + 1 \in n + 1 .. Len(v) /\ v[n + 1] = d[1] /\ Len(v) \in Nat
    <3>1. Len(v) \in n + 1 .. Len(v) /\ n + 1 \in n + 1 .. Len(v) /\ (n + 1) - n = 1 /\ Len(v) \in Nat
      BY <1>0
    <3> QED
      BY <1>0, <3>1
  <2>1. ASSUME NEW h \in 1 .. Len(v), v[h].verb = "MAIL", NoMail(v, h + 1, Len(v))
        PROVE  v[h].part[1] = m
    <3>1. CASE h > n
      BY <1>0, <1>2, <2>1, <3>1
    <3>2. CASE h =< n
      <4>1. NoMail(w, h + 1, n) /\ d[1].verb # "MAIL"
        BY <1>0, <1>7, <2>0, <2>1, <3>2
      <4> QED
        BY <1>0, <1>12, <2>1, <3>2, <4>1 DEF Context
    <3> QED
      BY <1>0, <3>1, <3>2
  <2>2. ASSUME NoMail(v, 1, Len(v)), e # NoMessage PROVE e = m
    <3>1. NoMail(w, 1, n) /\ d[1].verb # "MAIL"
      BY <1>0, <1>7, <2>0, <2>2
    <3> QED
      BY <1>0, <1>12, <2>2, <3>1 DEF Context
  <2> QED
    BY <2>1, <2>2 DEF Context
<1> QED
  BY <1>11, <1>12 DEF v

\* The parts of m after the first j.
Chunks(chunks, m, j) ==
  /\ Len(chunks) = Size(m) - j
  /\ \A i \in 1 .. Len(chunks) : chunks[i] = <<m, j + i>>

\* The last command of d leaves the client in status st with the chunks left.
Ends(d, st, left, m) ==
  /\ st \in {"Recv", "MRcv", "Body"} => ~IsData(d[Len(d)])
  /\ st = "Body" => ChunksOf[m] = 0
  /\ st = "ChunkSent" => \E j \in 1 .. Size(m) - 1 :
                           /\ Chunks(left, m, j)
                           /\ IsData(d[Len(d)]) /\ d[Len(d)].part = <<m, j>> /\ ~d[Len(d)].last
  /\ st = "Sent" => IsData(d[Len(d)]) /\ d[Len(d)].last /\ d[Len(d)].part[1] = m

\* Two blocks written together.
LEMMA BlockJoin ==
  ASSUME NEW m, NEW b \in Seq(AnyCommand), NEW a \in Seq(AnyCommand), a # <<>>, Block(b, m), Block(a, m),
         \A i \in 1 .. Len(a) : a[i].verb # "MAIL",
         b # <<>> => Follows(b[Len(b)], a[1])
  PROVE  /\ Block(b \o a, m) /\ b \o a \in Seq(AnyCommand) /\ b \o a # <<>>
         /\ (b \o a)[Len(b \o a)] = a[Len(a)]
         /\ (b \o a)[1] = IF b = <<>> THEN a[1] ELSE b[1]
<1> DEFINE v == b \o a
           n == Len(b)
<1>0. /\ v \in Seq(AnyCommand) /\ Len(v) = n + Len(a) /\ n \in Nat /\ Len(a) \in Nat /\ Len(a) >= 1
      /\ \A i \in 1 .. n : v[i] = b[i]
      /\ \A i \in n + 1 .. Len(v) : v[i] = a[i - n] /\ i - n \in 1 .. Len(a)
      /\ n = Len(b)
  BY ConcatIndex
<1>1. b = <<>> <=> n = 0
  BY EmptySeq
<1> HIDE DEF v, n
<1>2. \A i \in 1 .. Len(v) : i \in 1 .. n \/ i \in n + 1 .. Len(v)
  BY <1>0
<1>3. ASSUME NEW i \in 1 .. Len(v)
      PROVE  /\ IsData(v[i]) => PartOK(v[i]) /\ v[i].part[1] = m
             /\ v[i].verb = "MAIL" => i = 1 /\ v[i].part[1] = m
  <2>1. CASE i \in 1 .. n
    <3>1. v[i] = b[i] /\ i \in 1 .. Len(b)
      BY <1>0, <2>1
    <3> QED
      BY <3>1 DEF Block
  <2>2. CASE i \in n + 1 .. Len(v)
    <3>1. v[i] = a[i - n] /\ i - n \in 1 .. Len(a)
      BY <1>0, <2>2
    <3> QED
      BY <3>1 DEF Block
  <2> QED
    BY <1>2, <2>1, <2>2
<1>5. v[n + 1] = a[1] /\ v[Len(v)] = a[Len(a)]
  <2>1. n + 1 \in n + 1 .. Len(v) /\ (n + 1) - n = 1 /\ Len(v) \in n + 1 .. Len(v) /\ Len(v) - n = Len(a)
    BY <1>0
  <2> QED
    BY <1>0, <2>1
<1>6. \A i \in 1 .. Len(v) - 1 : Follows(v[i], v[i + 1])
  <2> SUFFICES ASSUME NEW i \in 1 .. Len(v) - 1 PROVE Follows(v[i], v[i + 1])
    OBVIOUS
  <2>1. CASE i < n
    <3>1. i \in 1 .. Len(b) - 1 /\ v[i] = b[i] /\ v[i + 1] = b[i + 1]
      BY <1>0, <2>1
    <3> QED
      BY <3>1 DEF Block
  <2>2. CASE i = n
    <3>1. v[i] = b[Len(b)] /\ b # <<>>
      BY <1>0, <1>1, <2>2
    <3> QED
      BY <1>5, <2>2, <3>1
  <2>3. CASE i > n
    <3>1. i \in n + 1 .. Len(v) /\ i + 1 \in n + 1 .. Len(v) /\ (i + 1) - n = (i - n) + 1
          /\ i - n \in 1 .. Len(a) - 1
      BY <1>0, <2>3
    <3>2. v[i] = a[i - n] /\ v[i + 1] = a[(i - n) + 1]
      BY <1>0, <3>1
    <3> QED
      BY <3>1, <3>2 DEF Block
  <2> QED
    BY <1>0, <2>1, <2>2, <2>3
<1>7. v # <<>>
  <2> SUFFICES ASSUME v = <<>> PROVE FALSE
    OBVIOUS
  <2>1. Len(v) = 0
    OBVIOUS
  <2> QED
    BY <1>0, <2>1
<1>8. v[1] = IF b = <<>> THEN a[1] ELSE b[1]
  BY <1>0, <1>1, <1>5
<1>9. Block(v, m)
  BY <1>3, <1>6 DEF Block
<1> QED
  BY <1>0, <1>5, <1>7, <1>8, <1>9 DEF v

\* A single command that is none of a message's data.
LEMMA PlainBlock ==
  ASSUME NEW m, NEW c \in AnyCommand, ~IsData(c), c.verb = "MAIL" => c.part[1] = m
  PROVE  /\ Block(<<c>>, m) /\ <<c>> \in Seq(AnyCommand) /\ <<c>> # <<>>
         /\ Len(<<c>>) = 1 /\ <<c>>[1] = c /\ \A i \in 1 .. Len(<<c>>) : ~IsData(<<c>>[i])
<1> DEFINE d == <<c>>
<1>1. Len(d) = 1 /\ d[1] = c /\ d \in Seq(AnyCommand) /\ d # <<>>
  OBVIOUS
<1> HIDE DEF d
<1>2. Block(d, m)
  BY <1>1 DEF Block
<1>3. \A i \in 1 .. Len(d) : ~IsData(d[i])
  BY <1>1
<1> QED
  BY <1>1, <1>2, <1>3 DEF d

\* The fields of a command.
LEMMA CommandFields ==
  ASSUME NEW v, NEW p, NEW b \in BOOLEAN
  PROVE  /\ Command(v, p, b).verb = v /\ Command(v, p, b).part = p
         /\ Command(v, p, b).last = b
  BY DEF Command

\* The first n of the chunks, each in a command.
ChunkCommands(chunks, n) == [i \in 1 .. n |-> ChunkCommand(chunks, i)]

\* The commands a write n of the parts of m that are left after j, of which there are all.
WritesInOrder(a, m, j, n, all) ==
  /\ Block(a, m) /\ a \in Seq(AnyCommand) /\ a # <<>> /\ Len(a) = n
  /\ \A i \in 1 .. n : IsData(a[i]) /\ a[i].verb # "MAIL"
  /\ a[1].part = <<m, j + 1>> /\ a[n].part = <<m, j + n>>
  /\ a[n].last <=> n = all

\* The chunks that are left, written in order.
LEMMA ChunkBlock ==
  ASSUME NEW m \in Message, NEW j \in 0 .. Size(m) - 1, NEW chunks \in Seq(Part), Chunks(chunks, m, j),
         NEW n \in 1 .. Len(chunks)
  PROVE  WritesInOrder(ChunkCommands(chunks, n), m, j, n, Len(chunks))
<1> DEFINE a == ChunkCommands(chunks, n)
<1>0. Size(m) \in Nat /\ Len(chunks) \in Nat /\ Len(chunks) = Size(m) - j /\ j \in Nat /\ n \in Nat /\ n >= 1
  BY SizeType DEF Chunks
<1>1. \A i \in 1 .. n : /\ i \in 1 .. Len(chunks)
                        /\ chunks[i] = <<m, j + i>> /\ chunks[i] \in Part
  BY <1>0 DEF Chunks
<1>2. \A i \in 1 .. n : /\ a[i] = Command("BDAT", <<m, j + i>>, i = Len(chunks))
                        /\ a[i] \in AnyCommand
  <2> SUFFICES ASSUME NEW i \in 1 .. n
               PROVE  /\ a[i] = Command("BDAT", <<m, j + i>>, i = Len(chunks))
                      /\ a[i] \in AnyCommand
    OBVIOUS
  <2>1. a[i] = Command("BDAT", <<m, j + i>>, i = Len(chunks))
    BY <1>1 DEF ChunkCommand, ChunkCommands
  <2>2. <<m, j + i>> \in Part /\ (i = Len(chunks)) \in BOOLEAN /\ "BDAT" \in Verb
    BY <1>1 DEF Verb
  <2> QED
    BY <2>1, <2>2, CommandType
<1>3. a \in Seq(AnyCommand) /\ Len(a) = n
  <2>1. a \in [1 .. n -> AnyCommand]
    BY <1>2 DEF ChunkCommands
  <2> QED
    BY <1>0, <2>1
<1> HIDE DEF a
<1>4. \A i \in 1 .. n : /\ a[i].verb = "BDAT" /\ a[i].part = <<m, j + i>>
                        /\ a[i].last <=> i = Len(chunks)
  <2> SUFFICES ASSUME NEW i \in 1 .. n
               PROVE  /\ a[i].verb = "BDAT" /\ a[i].part = <<m, j + i>>
                      /\ a[i].last <=> i = Len(chunks)
    OBVIOUS
  <2>1. a[i] = Command("BDAT", <<m, j + i>>, i = Len(chunks))
    BY <1>2
  <2>2. a[i].verb = "BDAT" /\ a[i].part = <<m, j + i>>
    BY <2>1 DEF Command
  <2>3. a[i].last <=> i = Len(chunks)
    <3> DEFINE b == i = Len(chunks)
    <3>1. b \in BOOLEAN /\ a[i] = Command("BDAT", <<m, j + i>>, b)
      BY <2>1
    <3> HIDE DEF b
    <3>2. a[i].last = b
      BY <3>1, CommandFields
    <3> QED
      BY <3>2, Zenon DEF b
  <2> QED
    BY <2>2, <2>3
<1>5. \A i \in 1 .. n : IsData(a[i]) /\ a[i].verb # "MAIL"
  BY <1>4 DEF IsData
<1>6. \A i \in 1 .. n : PartOK(a[i]) /\ a[i].part[1] = m
  BY <1>0, <1>4, SMTT(30) DEF PartOK
<1>7. \A i \in 1 .. n - 1 : Follows(a[i], a[i + 1])
  <2> SUFFICES ASSUME NEW i \in 1 .. n - 1 PROVE Follows(a[i], a[i + 1])
    OBVIOUS
  <2>1. i \in 1 .. n /\ i + 1 \in 1 .. n /\ i # Len(chunks)
    BY <1>0
  <2>2. /\ IsData(a[i]) /\ IsData(a[i + 1]) /\ ~a[i].last
        /\ a[i].part = <<m, j + i>> /\ a[i + 1].part = <<m, j + (i + 1)>>
    BY <1>4, <1>5, <2>1
  <2>3. a[i + 1].part = <<a[i].part[1], a[i].part[2] + 1>>
    BY <1>0, <2>2
  <2> QED
    BY <2>2, <2>3 DEF Follows
<1>8. Block(a, m)
  BY <1>3, <1>5, <1>6, <1>7 DEF Block
<1>9. a # <<>>
  <2> SUFFICES ASSUME a = <<>> PROVE FALSE
    OBVIOUS
  <2>1. Len(a) = 0
    OBVIOUS
  <2> QED
    BY <1>0, <1>3, <2>1
<1>10. 1 \in 1 .. n /\ n \in 1 .. n
  BY <1>0
<1> QED
  BY <1>3, <1>4, <1>5, <1>8, <1>9, <1>10 DEF a, WritesInOrder

\* A turn of the dialog writes commands of message m that go with its status.
Issues(turn, m) ==
  /\ turn.commands \in Seq(AnyCommand) /\ turn.commands # <<>>
  /\ Block(turn.commands, m)
  /\ Ends(turn.commands, turn.status, turn.chunks, m)

\* case Chunk, after the commands before and with all but the first j parts left.
LEMMA ChunkTurnIssues ==
  ASSUME NEW m \in Message, NEW j \in 0 .. Size(m) - 1, NEW chunks \in Seq(Part), Chunks(chunks, m, j),
         NEW before \in Seq(AnyCommand), Block(before, m), \A i \in 1 .. Len(before) : ~IsData(before[i]),
         before = <<>> \/ j = 0, NEW p \in BOOLEAN
  PROVE  /\ Issues(ChunkTurn(before, chunks, p), m)
         /\ before # <<>> => ChunkTurn(before, chunks, p).commands[1] = before[1]
         /\ before = <<>> => /\ IsData(ChunkTurn(before, chunks, p).commands[1])
                             /\ ChunkTurn(before, chunks, p).commands[1].part = <<m, j + 1>>
<1>0. /\ Size(m) \in Nat /\ Len(chunks) \in Nat /\ Len(chunks) = Size(m) - j /\ j \in Nat
      /\ Len(chunks) \in 1 .. Len(chunks) /\ 1 \in 1 .. Len(chunks)
  BY SizeType DEF Chunks
<1>1. ASSUME NEW n \in 1 .. Len(chunks)
      PROVE  LET a == ChunkCommands(chunks, n)
                 d == before \o a
             IN  /\ Block(d, m) /\ d \in Seq(AnyCommand) /\ d # <<>>
                 /\ d[Len(d)] = a[n] /\ IsData(d[Len(d)]) /\ d[Len(d)].part = <<m, j + n>>
                 /\ d[Len(d)].last <=> n = Len(chunks)
                 /\ before # <<>> => d[1] = before[1]
                 /\ before = <<>> => IsData(d[1]) /\ d[1].part = <<m, j + 1>>
  <2> DEFINE a == ChunkCommands(chunks, n)
             d == before \o a
  <2>1. /\ Block(a, m) /\ a \in Seq(AnyCommand) /\ a # <<>> /\ Len(a) = n
        /\ \A i \in 1 .. n : IsData(a[i]) /\ a[i].verb # "MAIL"
        /\ a[1].part = <<m, j + 1>> /\ a[n].part = <<m, j + n>>
        /\ a[n].last <=> n = Len(chunks)
    <3>1. WritesInOrder(a, m, j, n, Len(chunks))
      BY ChunkBlock
    <3> HIDE DEF a
    <3> QED
      BY <3>1 DEF WritesInOrder
  <2> HIDE DEF a
  <2>2. 1 \in 1 .. n /\ n \in 1 .. n
    BY <1>0
  <2>3. before # <<>> => Follows(before[Len(before)], a[1])
    <3> SUFFICES ASSUME before # <<>> PROVE Follows(before[Len(before)], a[1])
      OBVIOUS
    <3>1. Len(before) \in 1 .. Len(before)
      BY EmptySeq
    <3>2. ~IsData(before[Len(before)]) /\ a[1].part = <<m, 1>>
      BY <1>0, <2>1, <3>1
    <3> QED
      BY <3>2 DEF Follows
  <2>4. /\ Block(d, m) /\ d \in Seq(AnyCommand) /\ d # <<>>
        /\ d[Len(d)] = a[Len(a)]
        /\ d[1] = IF before = <<>> THEN a[1] ELSE before[1]
    <3>1. \A i \in 1 .. Len(a) : a[i].verb # "MAIL"
      BY <2>1
    <3> QED
      BY <2>1, <2>3, <3>1, BlockJoin
  <2> HIDE DEF d
  <2>5. /\ Block(d, m) /\ d \in Seq(AnyCommand) /\ d # <<>>
        /\ d[Len(d)] = a[n] /\ IsData(d[Len(d)]) /\ d[Len(d)].part = <<m, j + n>>
        /\ d[Len(d)].last <=> n = Len(chunks)
        /\ before # <<>> => d[1] = before[1]
        /\ before = <<>> => IsData(d[1]) /\ d[1].part = <<m, j + 1>>
    BY <2>1, <2>2, <2>4
  <2> QED
    BY <2>5 DEF a, d
<1>2. CASE p
  <2> DEFINE d == before \o ChunkCommands(chunks, Len(chunks))
  <2>1. ChunkTurn(before, chunks, p) = Turn("Sent", d, <<>>)
    BY <1>2 DEF ChunkTurn, ChunkCommands
  <2>2. /\ Block(d, m) /\ d \in Seq(AnyCommand) /\ d # <<>>
        /\ IsData(d[Len(d)]) /\ d[Len(d)].part = <<m, j + Len(chunks)>>
        /\ d[Len(d)].last
        /\ before # <<>> => d[1] = before[1]
        /\ before = <<>> => IsData(d[1]) /\ d[1].part = <<m, j + 1>>
    BY <1>0, <1>1
  <2> HIDE DEF d
  <2>3. Ends(d, "Sent", <<>>, m)
    BY <2>2 DEF Ends
  <2> QED
    BY <2>1, <2>2, <2>3 DEF Turn, Issues
<1>3. CASE ~p
  <2> DEFINE d  == before \o ChunkCommands(chunks, 1)
             st == IF Len(chunks) = 1 THEN "Sent" ELSE "ChunkSent"
  <2>0. ChunkCommands(chunks, 1) = <<ChunkCommand(chunks, 1)>>
    BY DEF ChunkCommands
  <2>1. ChunkTurn(before, chunks, p) = Turn(st, d, Tail(chunks))
    BY <1>3, <2>0 DEF ChunkTurn
  <2>2. /\ Block(d, m) /\ d \in Seq(AnyCommand) /\ d # <<>>
        /\ IsData(d[Len(d)]) /\ d[Len(d)].part = <<m, j + 1>>
        /\ d[Len(d)].last <=> 1 = Len(chunks)
        /\ before # <<>> => d[1] = before[1]
        /\ before = <<>> => IsData(d[1]) /\ d[1].part = <<m, j + 1>>
    BY <1>0, <1>1
  <2> HIDE DEF d
  <2>3. Ends(d, st, Tail(chunks), m)
    <3>1. CASE Len(chunks) = 1
      BY <2>2, <3>1 DEF Ends
    <3>2. CASE Len(chunks) # 1
      <4>1. j + 1 \in 1 .. Size(m) - 1
        BY <1>0, <3>2
      <4>2. /\ Len(Tail(chunks)) = Len(chunks) - 1
            /\ \A i \in 1 .. Len(chunks) - 1 : Tail(chunks)[i] = chunks[i + 1]
        <5>1. chunks # <<>>
          BY <1>0
        <5> QED
          BY <5>1, TailIndex
      <4>3. Chunks(Tail(chunks), m, j + 1)
        <5>1. Len(Tail(chunks)) = Size(m) - (j + 1)
          BY <1>0, <4>2
        <5>2. ASSUME NEW i \in 1 .. Len(Tail(chunks)) PROVE Tail(chunks)[i] = <<m, (j + 1) + i>>
          <6>1. i \in 1 .. Len(chunks) - 1 /\ i + 1 \in 1 .. Len(chunks) /\ j + (i + 1) = (j + 1) + i
            BY <1>0, <4>2
          <6>2. Tail(chunks)[i] = chunks[i + 1] /\ chunks[i + 1] = <<m, j + (i + 1)>>
            BY <4>2, <6>1 DEF Chunks
          <6> QED
            BY <6>1, <6>2
        <5> QED
          BY <5>1, <5>2 DEF Chunks
      <4>4. st = "ChunkSent" /\ ~d[Len(d)].last
        BY <2>2, <3>2
      <4> QED
        BY <2>2, <4>1, <4>3, <4>4 DEF Ends
    <3> QED
      BY <3>1, <3>2
  <2> HIDE DEF st
  <2> QED
    BY <2>1, <2>2, <2>3 DEF Turn, Issues
<1> QED
  BY <1>2, <1>3

\* case Chunk, after the first chunk.
LEMMA NextChunkIssues ==
  ASSUME NEW m \in Message, NEW j \in 0 .. Size(m) - 1, NEW chunks \in Seq(Part), Chunks(chunks, m, j),
         NEW p \in BOOLEAN
  PROVE  /\ Issues(ChunkTurn(<<>>, chunks, p), m)
         /\ IsData(ChunkTurn(<<>>, chunks, p).commands[1])
         /\ ChunkTurn(<<>>, chunks, p).commands[1].part = <<m, j + 1>>
<1> DEFINE before == <<>>
<1>1. /\ before \in Seq(AnyCommand) /\ Block(before, m)
      /\ \A i \in 1 .. Len(before) : ~IsData(before[i])
      /\ before = <<>> \/ j = 0
  BY DEF Block
<1>3. before = <<>>
  OBVIOUS
<1> HIDE DEF before
<1>2. /\ Issues(ChunkTurn(before, chunks, p), m)
      /\ IsData(ChunkTurn(before, chunks, p).commands[1])
      /\ ChunkTurn(before, chunks, p).commands[1].part = <<m, j + 1>>
  <2>2. /\ Issues(ChunkTurn(before, chunks, p), m)
        /\ before # <<>> => ChunkTurn(before, chunks, p).commands[1] = before[1]
        /\ before = <<>> => /\ IsData(ChunkTurn(before, chunks, p).commands[1])
                            /\ ChunkTurn(before, chunks, p).commands[1].part = <<m, j + 1>>
    BY <1>1, ChunkTurnIssues
  <2> QED
    BY <1>3, <2>2
<1> QED
  BY <1>2 DEF before

\* cases PrepareData and Data, for a message of which nothing is written yet.
LEMMA DataTurnIssues ==
  ASSUME External = {}, NEW m \in Message, NEW p \in BOOLEAN,
         NEW before \in Seq(AnyCommand), Block(before, m), \A i \in 1 .. Len(before) : ~IsData(before[i])
  PROVE  /\ Issues(DataTurn(before, m, p), m)
         /\ before # <<>> => DataTurn(before, m, p).commands[1] = before[1]
         /\ before = <<>> => /\ DataTurn(before, m, p).commands[1].verb # "MAIL"
                             /\ IsData(DataTurn(before, m, p).commands[1])
                                  => DataTurn(before, m, p).commands[1].part[2] = 1
<1>1. CASE ChunksOf[m] > 0
  <2>1. DataTurn(before, m, p) = ChunkTurn(before, PartsOf(m), p)
    BY <1>1 DEF DataTurn
  <2>2. PartsOf(m) \in Seq(Part) /\ 0 \in 0 .. Size(m) - 1 /\ Chunks(PartsOf(m), m, 0)
    <3>1. PartsOf(m) \in Seq(Part) /\ \A k \in 1 .. Len(PartsOf(m)) : PartsOf(m)[k] = <<m, k>>
      BY PartsType
    <3>2. Size(m) \in Nat /\ Size(m) >= 1 /\ Size(m) = Len(PartsOf(m))
      BY SizeType DEF Size
    <3>3. \A k \in 1 .. Len(PartsOf(m)) : 0 + k = k
      OBVIOUS
    <3> QED
      BY <3>1, <3>2, <3>3 DEF Chunks
  <2>3. /\ Issues(ChunkTurn(before, PartsOf(m), p), m)
        /\ before # <<>> => ChunkTurn(before, PartsOf(m), p).commands[1] = before[1]
        /\ before = <<>> => /\ IsData(ChunkTurn(before, PartsOf(m), p).commands[1])
                            /\ ChunkTurn(before, PartsOf(m), p).commands[1].part = <<m, 0 + 1>>
    BY <2>2, ChunkTurnIssues
  <2> QED
    BY <2>1, <2>3 DEF IsData
<1>2. CASE ~(ChunksOf[m] > 0)
  <2> DEFINE c == Plain("DATA")
             d == before \o <<c>>
  <2>1. DataTurn(before, m, p) = Turn("Body", d, mailChunks)
    BY <1>2 DEF DataTurn
  <2>2. c \in AnyCommand /\ c.verb = "DATA" /\ ~IsData(c)
    BY CommandType DEF Verb, Plain, Command, IsData
  <2> HIDE DEF c
  <2>3. /\ Block(<<c>>, m) /\ <<c>> \in Seq(AnyCommand) /\ <<c>> # <<>>
        /\ Len(<<c>>) = 1 /\ <<c>>[1] = c
    BY <2>2, PlainBlock
  <2> DEFINE a == <<c>>
  <2>4. /\ Block(a, m) /\ a \in Seq(AnyCommand) /\ a # <<>> /\ Len(a) = 1 /\ a[1] = c
        /\ \A i \in 1 .. Len(a) : a[i].verb # "MAIL"
    BY <2>2, <2>3
  <2> HIDE DEF a
  <2>5. before # <<>> => Follows(before[Len(before)], a[1])
    <3> SUFFICES ASSUME before # <<>> PROVE Follows(before[Len(before)], a[1])
      OBVIOUS
    <3>1. Len(before) \in 1 .. Len(before)
      BY EmptySeq
    <3> QED
      BY <2>2, <2>4, <3>1 DEF Follows
  <2>6. /\ Block(before \o a, m) /\ before \o a \in Seq(AnyCommand) /\ before \o a # <<>>
        /\ (before \o a)[Len(before \o a)] = a[Len(a)]
        /\ (before \o a)[1] = IF before = <<>> THEN a[1] ELSE before[1]
    BY <2>4, <2>5, BlockJoin
  <2>7. /\ Block(d, m) /\ d \in Seq(AnyCommand) /\ d # <<>> /\ d[Len(d)] = c
        /\ d[1] = IF before = <<>> THEN c ELSE before[1]
    BY <2>4, <2>6 DEF a
  <2> HIDE DEF d
  <2>8. Ends(d, "Body", mailChunks, m)
    <3>1. ChunksOf[m] = 0
      BY <1>2, SmtpAssumption
    <3> QED
      BY <2>2, <2>7, <3>1 DEF Ends
  <2> QED
    BY <2>1, <2>2, <2>7, <2>8 DEF Turn, Issues
<1> QED
  BY <1>1, <1>2

\* cases MetaData and From.
LEMMA MetaDataTurnIssues ==
  ASSUME External = {}, NEW m \in Message, NEW p \in BOOLEAN
  PROVE  /\ Issues(MetaDataTurn(m, p), m)
         /\ MetaDataTurn(m, p).commands[1].verb = "MAIL"
<1> DEFINE c == MailFrom(m)
           b == <<c>>
<1>1. c \in AnyCommand /\ c.verb = "MAIL" /\ c.part[1] = m /\ ~IsData(c)
  BY CommandType DEF MailFrom, Command, IsData
<1> HIDE DEF c
<1>2. /\ Block(b, m) /\ b \in Seq(AnyCommand) /\ b # <<>> /\ Len(b) = 1 /\ b[1] = c
      /\ \A i \in 1 .. Len(b) : ~IsData(b[i])
  BY <1>1, PlainBlock
<1> HIDE DEF b
<1>3. CASE p
  <2> DEFINE n == RecipientsOf[m]
             a == [k \in 1 .. n |-> Plain("RCPT")]
  <2>1. n \in Nat /\ n >= 1
    BY SmtpAssumption
  <2> HIDE DEF n
  <2>2. Plain("RCPT") \in AnyCommand /\ Plain("RCPT").verb = "RCPT" /\ ~IsData(Plain("RCPT"))
    BY CommandType DEF Verb, Plain, Command, IsData
  <2>3. a \in Seq(AnyCommand) /\ Len(a) = n /\ \A k \in 1 .. n : a[k] = Plain("RCPT")
    <3>1. a \in [1 .. n -> AnyCommand]
      BY <2>2
    <3> QED
      BY <2>1, <3>1
  <2> HIDE DEF a
  <2>4. Block(a, m) /\ a # <<>> /\ \A k \in 1 .. Len(a) : ~IsData(a[k]) /\ a[k].verb # "MAIL"
    <3>1. \A k \in 1 .. Len(a) : ~IsData(a[k]) /\ a[k].verb # "MAIL"
      BY <2>2, <2>3
    <3>2. \A k \in 1 .. Len(a) - 1 : k \in 1 .. Len(a) /\ k + 1 \in 1 .. Len(a)
      BY <2>1, <2>3
    <3>3. Block(a, m)
      BY <3>1, <3>2 DEF Block, Follows
    <3>4. a # <<>>
      <4> SUFFICES ASSUME a = <<>> PROVE FALSE
        OBVIOUS
      <4>1. Len(a) = 0
        OBVIOUS
      <4> QED
        BY <2>1, <2>3, <4>1
    <3> QED
      BY <3>1, <3>3, <3>4
  <2> DEFINE d == b \o a
  <2>5. 1 \in 1 .. Len(a)
    BY <2>1, <2>3
  <2>6. b # <<>> => Follows(b[Len(b)], a[1])
    BY <1>1, <1>2, <2>4, <2>5 DEF Follows
  <2>7. /\ Block(d, m) /\ d \in Seq(AnyCommand) /\ d # <<>> /\ d[1] = c
    BY <1>2, <2>3, <2>4, <2>6, BlockJoin
  <2>8. \A i \in 1 .. Len(d) : ~IsData(d[i])
    <3>1. /\ Len(d) = Len(b) + Len(a) /\ Len(b) \in Nat /\ Len(a) \in Nat
          /\ \A i \in 1 .. Len(b) : d[i] = b[i]
          /\ \A i \in Len(b) + 1 .. Len(b) + Len(a) : d[i] = a[i - Len(b)] /\ i - Len(b) \in 1 .. Len(a)
      BY <1>2, <2>3, <2>4, ConcatIndex
    <3> HIDE DEF d
    <3> SUFFICES ASSUME NEW i \in 1 .. Len(d) PROVE ~IsData(d[i])
      OBVIOUS
    <3>2. i \in 1 .. Len(b) \/ i \in Len(b) + 1 .. Len(b) + Len(a)
      BY <3>1
    <3> QED
      BY <1>2, <2>4, <3>1, <3>2
  <2>9. MetaDataTurn(m, p) = DataTurn(d, m, p)
    BY <1>3 DEF MetaDataTurn, b, c, a, n
  <2> HIDE DEF d
  <2> QED
    BY <1>1, <2>7, <2>8, <2>9, DataTurnIssues
<1>4. CASE ~p
  <2>1. MetaDataTurn(m, p) = Turn("Recv", b, mailChunks)
    BY <1>4 DEF MetaDataTurn, b, c
  <2>2. Ends(b, "Recv", mailChunks, m)
    BY <1>1, <1>2 DEF Ends
  <2> QED
    BY <1>1, <1>2, <2>1, <2>2 DEF Turn, Issues
<1> QED
  BY <1>3, <1>4

-----------------------------------------------------------------------------
(* The client's side of the stream *)

\* No part of a message is the last that was written, or was received.
NoData(w, k) == (w = <<>> => k = <<>>) /\ (w # <<>> => ~IsData(w[Len(w)]))

\* No message is written in part.
DataDone(w, k) == (w = <<>> => k = <<>>) /\ (w # <<>> => ~IsData(w[Len(w)]) \/ w[Len(w)].last)

\* Of message m, the parts up to j are written.
Reached(w, e, k, m, j) ==
  /\ w = <<>> /\ e # NoMessage => Len(k) = j
  /\ w # <<>> => IsData(w[Len(w)]) /\ w[Len(w)].part = <<m, j>> /\ ~w[Len(w)].last

Current == mailList[mailItr]

\* What is written of the current message goes with the status of the dialog.
Written(w, e, k) ==
  /\ status # "ChunkSent" => DataDone(w, k)
  /\ status \in {"Recv", "MRcv", "Body", "ChunkSent"} => Context(w, e, Current)
  /\ status \in {"Recv", "MRcv", "Body"} => NoData(w, k)
  /\ status = "Body" => ChunksOf[Current] = 0
  /\ status = "ChunkSent" =>
       \E j \in 1 .. Size(Current) - 1 :
         Chunks(mailChunks, Current, j) /\ Reached(w, e, k, Current, j)
  /\ status = "Sent" /\ w # <<>> =>
       IsData(w[Len(w)]) /\ w[Len(w)].last /\ w[Len(w)].part[1] = Current

\* The inductive invariant of the stream.
StreamInv ==
  /\ content \in Seq(Part)
  /\ Stream(wire, envelope, content)
  /\ socket = "opening" => replies = <<>> /\ status = "Init"
  /\ sending /\ socket # "opening" => Written(wire, envelope, content)
  /\ AcceptedIntact

\* The server handles one command.
LEMMA WrittenHandled ==
  ASSUME NEW w \in Seq(AnyCommand), w # <<>>, NEW e \in Message \cup {NoMessage}, NEW k \in Seq(Part),
         NEW e2, NEW k2, Stream(w, e, k), Written(w, e, k), Handled(w, e, k, e2, k2)
  PROVE  Written(Tail(w), e2, k2)
<1> DEFINE v == Tail(w)
<1>0. /\ v \in Seq(AnyCommand) /\ Len(v) = Len(w) - 1 /\ Len(w) \in Nat /\ Len(w) >= 1
      /\ \A i \in 1 .. Len(v) : v[i] = w[i + 1]
      /\ Len(v) \in Nat
  BY TailIndex
<1>1. v = <<>> <=> Len(w) = 1
  <2>1. v = <<>> <=> Len(v) = 0
    BY <1>0, EmptySeq
  <2> QED
    BY <1>0, <2>1
<1> HIDE DEF v
<1>2. v # <<>> => v[Len(v)] = w[Len(w)]
  <2> SUFFICES ASSUME v # <<>> PROVE v[Len(v)] = w[Len(w)]
    OBVIOUS
  <2>1. Len(v) \in 1 .. Len(v) /\ Len(v) + 1 = Len(w)
    BY <1>0, <1>1
  <2> QED
    BY <1>0, <2>1
<1>3. ASSUME v = <<>>, ~IsData(w[1]) \/ w[1].last PROVE k2 = <<>>
  <2>1. ~IsData(w[1]) => k = <<>>
    BY <1>0 DEF Stream, Fits
  <2> QED
    BY <1>3, <2>1 DEF Handled
<1>4. DataDone(w, k) => DataDone(v, k2)
  BY <1>1, <1>2, <1>3 DEF DataDone
<1>5. NoData(w, k) => NoData(v, k2)
  BY <1>1, <1>2, <1>3 DEF NoData
<1>6. \A h, i \in 1 .. Len(v) : NoMail(v, h, i) => NoMail(w, h + 1, i + 1)
  <2> SUFFICES ASSUME NEW h \in 1 .. Len(v), NEW i \in 1 .. Len(v), NoMail(v, h, i),
                      NEW j \in h + 1 .. i + 1
               PROVE  w[j].verb # "MAIL"
    BY DEF NoMail
  <2>1. j - 1 \in h .. i /\ j - 1 \in 1 .. Len(v) /\ v[j - 1] = w[(j - 1) + 1] /\ (j - 1) + 1 = j
    BY <1>0
  <2> QED
    BY <2>1 DEF NoMail
<1>7. ASSUME NEW m, Context(w, e, m) PROVE Context(v, e2, m)
  <2>1. ASSUME NEW h \in 1 .. Len(v), v[h].verb = "MAIL", NoMail(v, h + 1, Len(v))
        PROVE  v[h].part[1] = m
    <3>1. h + 1 \in 1 .. Len(w) /\ v[h] = w[h + 1] /\ Len(v) + 1 = Len(w)
      BY <1>0
    <3>2. NoMail(w, (h + 1) + 1, Len(w))
      <4>1. CASE h = Len(v)
        BY <1>0, <3>1, <4>1 DEF NoMail
      <4>2. CASE h < Len(v)
        <5>1. h + 1 \in 1 .. Len(v) /\ Len(v) \in 1 .. Len(v)
          BY <1>0, <4>2
        <5> QED
          BY <1>6, <2>1, <3>1, <5>1
      <4> QED
        BY <1>0, <4>1, <4>2
    <3> QED
      BY <1>7, <2>1, <3>1, <3>2 DEF Context
  <2>2. ASSUME NoMail(v, 1, Len(v)), e2 # NoMessage PROVE e2 = m
    <3>1. NoMail(w, 2, Len(w))
      <4>1. CASE Len(v) = 0
        <5>1. Len(w) = 1
          BY <1>0, <4>1
        <5>2. \A j \in 2 .. Len(w) : FALSE
          BY <5>1
        <5> QED
          BY <5>2 DEF NoMail
      <4>2. CASE Len(v) # 0
        <5>1. 1 \in 1 .. Len(v) /\ Len(v) \in 1 .. Len(v) /\ 1 + 1 = 2 /\ Len(v) + 1 = Len(w)
          BY <1>0, <4>2
        <5> QED
          BY <1>6, <2>2, <5>1
      <4> QED
        BY <4>1, <4>2
    <3>2. CASE w[1].verb = "MAIL" /\ e2 = w[1].part[1]
      <4>1. 1 \in 1 .. Len(w) /\ 1 + 1 = 2
        BY <1>0
      <4> QED
        BY <1>7, <3>1, <3>2, <4>1, Zenon DEF Context
    <3>3. CASE w[1].verb # "MAIL" /\ e2 = e
      <4>1. NoMail(w, 1, Len(w))
        BY <1>0, <3>1, <3>3 DEF NoMail
      <4> QED
        BY <1>7, <2>2, <3>3, <4>1 DEF Context
    <3> QED
      BY <2>2, <3>2, <3>3 DEF Handled, IsData
  <2> QED
    BY <2>1, <2>2 DEF Context
<1>8. ASSUME NEW m, NEW j, Reached(w, e, k, m, j) PROVE Reached(v, e2, k2, m, j)
  <2>1. ASSUME v = <<>>, e2 # NoMessage PROVE Len(k2) = j
    <3>1. IsData(w[1]) /\ w[1].part = <<m, j>> /\ ~w[1].last
      BY <1>1, <1>8, <2>1 DEF Reached
    <3>2. e # NoMessage /\ k2 = Append(k, w[1].part)
      BY <2>1, <3>1 DEF Handled, IsData
    <3>3. e \in Message
      BY <3>2
    <3>4. w[1].part = <<e, Len(k) + 1>> /\ Len(k) \in Nat
      BY <3>1, <3>3, NextPart
    <3>5. Len(k2) = Len(k) + 1
      BY <3>2
    <3> QED
      BY <3>1, <3>4, <3>5
  <2>2. ASSUME v # <<>> PROVE IsData(v[Len(v)]) /\ v[Len(v)].part = <<m, j>> /\ ~v[Len(v)].last
    BY <1>2, <1>8, <2>2 DEF Reached
  <2> QED
    BY <2>1, <2>2 DEF Reached
<1>9. Written(v, e2, k2)
  BY <1>2, <1>4, <1>5, <1>7, <1>8 DEF Written
<1> QED
  BY <1>9 DEF v

\* A turn that writes commands of message m.
LEMMA WrittenByTurn ==
  ASSUME NEW m \in Message, NEW turn, Issues(turn, m), turn.status \in Transaction,
         wire \in Seq(AnyCommand), Stream(wire, envelope, content),
         Joins(wire, envelope, content, turn.commands, m),
         Context(wire, envelope, m) \/ turn.commands[1].verb = "MAIL",
         wire' = wire \o turn.commands, status' = turn.status, mailChunks' = turn.chunks,
         UNCHANGED <<envelope, content>>, Current' = m
  PROVE  Stream(wire, envelope, content)' /\ Written(wire, envelope, content)'
<1> DEFINE d == turn.commands
<1>0. /\ d \in Seq(AnyCommand) /\ d # <<>> /\ Block(d, m)
      /\ Ends(d, turn.status, turn.chunks, m)
  BY DEF Issues
<1>1. /\ Len(wire') = Len(wire) + Len(d) /\ Len(wire) \in Nat /\ Len(d) \in Nat /\ Len(d) >= 1
      /\ wire'[Len(wire')] = d[Len(d)] /\ wire' # <<>>
  <2>1. /\ Len(wire') = Len(wire) + Len(d) /\ Len(wire) \in Nat /\ Len(d) \in Nat /\ Len(d) >= 1
        /\ \A i \in Len(wire) + 1 .. Len(wire) + Len(d) : wire'[i] = d[i - Len(wire)]
        /\ wire' \in Seq(AnyCommand)
    BY <1>0, ConcatIndex
  <2>2. Len(wire') \in Len(wire) + 1 .. Len(wire) + Len(d) /\ Len(wire') - Len(wire) = Len(d)
    BY <2>1
  <2>3. wire' # <<>>
    BY <2>1, EmptySeq
  <2> QED
    BY <2>1, <2>2, <2>3
<1>2. Stream(wire', envelope, content) /\ Context(wire', envelope, m)
  BY <1>0, StreamWritten
<1> HIDE DEF d
<1>3. status' # "ChunkSent" => DataDone(wire', content)
  BY <1>0, <1>1 DEF Ends, DataDone, Transaction, d
<1>4. status' \in {"Recv", "MRcv", "Body"} => NoData(wire', content)
  BY <1>0, <1>1 DEF Ends, NoData
<1>5. status' = "ChunkSent" =>
        \E j \in 1 .. Size(m) - 1 : Chunks(mailChunks', m, j) /\ Reached(wire', envelope, content, m, j)
  BY <1>0, <1>1 DEF Ends, Reached
<1>6. status' = "Sent" =>
        IsData(wire'[Len(wire')]) /\ wire'[Len(wire')].last /\ wire'[Len(wire')].part[1] = m
  BY <1>0, <1>1 DEF Ends
<1>7. status' = "Body" => ChunksOf[m] = 0
  BY <1>0 DEF Ends
<1>8. Written(wire, envelope, content)'
  BY <1>2, <1>3, <1>4, <1>5, <1>6, <1>7 DEF Written
<1>9. Stream(wire, envelope, content)'
  BY <1>2
<1> QED
  BY <1>8, <1>9

\* A command that is none of a message is written between two messages.
LEMMA StreamPlain ==
  ASSUME wire \in Seq(AnyCommand), Stream(wire, envelope, content), DataDone(wire, content),
         NEW v \in Verb \ {"MAIL", "BDAT", "END"}
  PROVE  /\ Stream(wire \o <<Plain(v)>>, envelope, content)
         /\ DataDone(wire \o <<Plain(v)>>, content)
<1> DEFINE c == Plain(v)
           d == <<c>>
<1>1. c \in AnyCommand /\ c.verb = v /\ ~IsData(c) /\ c.verb # "MAIL"
  BY CommandType DEF Plain, Command, IsData
<1> HIDE DEF c
<1>2. /\ Block(d, NoMessage) /\ d \in Seq(AnyCommand) /\ d # <<>> /\ Len(d) = 1 /\ d[1] = c
      /\ \A i \in 1 .. Len(d) : ~IsData(d[i])
  BY <1>1, PlainBlock
<1> HIDE DEF d
<1>3. Joins(wire, envelope, content, d, NoMessage)
  <2>1. wire # <<>> => Follows(wire[Len(wire)], d[1])
    BY <1>1, <1>2 DEF DataDone, Follows
  <2>2. wire = <<>> => Fits(d[1], envelope, content)
    BY <1>1, <1>2 DEF DataDone, Fits
  <2> QED
    BY <1>2, <2>1, <2>2 DEF Joins
<1>4. Stream(wire \o d, envelope, content)
  BY <1>1, <1>2, <1>3, StreamWritten
<1>5. DataDone(wire \o d, content)
  <2>1. /\ Len(wire \o d) = Len(wire) + 1 /\ Len(wire) \in Nat
        /\ \A i \in Len(wire) + 1 .. Len(wire) + 1 : (wire \o d)[i] = d[i - Len(wire)]
    BY <1>2, ConcatIndex
  <2>2. (wire \o d)[Len(wire \o d)] = d[1]
    <3>1. Len(wire) + 1 \in Len(wire) + 1 .. Len(wire) + 1 /\ (Len(wire) + 1) - Len(wire) = 1
      BY <2>1
    <3> QED
      BY <2>1, <3>1
  <2>3. wire \o d # <<>>
    BY <2>1, <1>2, EmptySeq, ConcatProperties
  <2> QED
    BY <1>1, <1>2, <2>2, <2>3 DEF DataDone
<1> QED
  BY <1>4, <1>5 DEF c, d

\* The dialog goes on with the message at position i.
LEMMA MessageStream ==
  ASSUME External = {}, WellTyped, StreamInv, DataDone(wire, content), socket # "opening",
         NEW i \in 1 .. Len(mailList) + 1, NEW p \in BOOLEAN, MessageTurn(i, p), UNCHANGED serverVars
  PROVE  StreamInv'
<1>0. /\ wire \in Seq(AnyCommand) /\ mailList \in Seq(Message) /\ Len(mailList) \in Nat
      /\ Stream(wire, envelope, content) /\ content \in Seq(Part)
      /\ UNCHANGED <<envelope, content, accepted>>
  BY DEF WellTyped, TypeOK, StreamInv, serverVars
<1>1. AcceptedIntact' /\ content' \in Seq(Part)
  BY <1>0 DEF StreamInv, AcceptedIntact
<1>2. CASE AtEnd(i)
  <2>1. /\ sending' = FALSE /\ wire' = wire \o <<Plain("QUIT")>> /\ socket' = "closed"
    BY <1>2 DEF MessageTurn, QuitTurn, close
  <2>2. Stream(wire', envelope, content)
    BY <1>0, <2>1, StreamPlain DEF Verb
  <2>3. Stream(wire, envelope, content)'
    BY <1>0, <2>2
  <2> QED
    BY <1>1, <2>1, <2>3 DEF StreamInv
<1>3. CASE ~AtEnd(i)
  <2> DEFINE m    == mailList[i]
             turn == MetaDataTurn(m, p)
  <2>1. m \in Message
    BY <1>0, <1>3 DEF AtEnd
  <2>2. Issues(turn, m) /\ turn.commands[1].verb = "MAIL"
    BY <2>1, MetaDataTurnIssues
  <2>3. turn.status \in Transaction
    BY <2>1, MetaDataTurnType DEF WellTyped, TypeOK, Part
  <2>4. Take(turn) /\ mailItr' = i /\ UNCHANGED socket
    BY <1>3 DEF MessageTurn
  <2>5. m = Current'
    BY <2>4 DEF Take, Current
  <2> HIDE DEF m, turn
  <2>6. /\ wire' = wire \o turn.commands /\ status' = turn.status /\ mailChunks' = turn.chunks
    BY <2>4 DEF Take
  <2>7. Joins(wire, envelope, content, turn.commands, m)
    <3>1. ~IsData(turn.commands[1])
      BY <2>2 DEF IsData
    <3>2. wire # <<>> => Follows(wire[Len(wire)], turn.commands[1])
      BY <3>1 DEF DataDone, Follows
    <3>3. wire = <<>> => Fits(turn.commands[1], envelope, content)
      BY <3>1 DEF DataDone, Fits
    <3> QED
      BY <2>2, <3>2, <3>3 DEF Joins
  <2>8. Stream(wire, envelope, content)' /\ Written(wire, envelope, content)'
    BY <1>0, <2>1, <2>2, <2>3, <2>5, <2>6, <2>7, WrittenByTurn
  <2> QED
    BY <1>1, <2>4, <2>8 DEF StreamInv
<1> QED
  BY <1>2, <1>3

\* One line that nextAction handles.
LEMMA NextActionStream ==
  ASSUME External = {}, WellTyped, Tidy, StreamInv, sending, LineRead, NEW r, nextAction(r)
  PROVE  StreamInv'
<1>0. /\ wire \in Seq(AnyCommand) /\ mailList \in Seq(Message) /\ Len(mailList) \in Nat
      /\ mailItr \in 1 .. Len(mailList) + 1
      /\ mailChunks \in Seq(Part) /\ envelope \in Message \cup {NoMessage}
      /\ status \in Transaction => mailItr \in 1 .. Len(mailList) /\ Current \in Message
      /\ Stream(wire, envelope, content) /\ content \in Seq(Part)
      /\ UNCHANGED <<envelope, content, accepted>> /\ UNCHANGED serverVars
      /\ socket # "opening" /\ Written(wire, envelope, content)
      /\ status # "ChunkSent" => DataDone(wire, content)
      /\ Pipelining \in BOOLEAN
  BY DEF WellTyped, TypeOK, StreamInv, serverVars, LineRead, Part, Current, Written, Pipelining
<1>1. AcceptedIntact' /\ content' \in Seq(Part)
  BY <1>0 DEF StreamInv, AcceptedIntact
<1>2. ASSUME Failure PROVE StreamInv'
  <2>1. sending' = FALSE /\ socket' = "closed" /\ UNCHANGED wire
    BY <1>2 DEF Failure, operationFailed, close
  <2>2. Stream(wire, envelope, content)'
    BY <1>0, <2>1
  <2> QED
    BY <1>1, <2>1, <2>2 DEF StreamInv
<1>3. ASSUME NEW st \in Status \ Transaction, NEW v \in Verb \ {"MAIL", "BDAT", "END"},
             Say(st, Plain(v)), status # "ChunkSent", socket' # "opening"
      PROVE  StreamInv'
  <2>1. wire' = wire \o <<Plain(v)>> /\ status' = st
    BY <1>3 DEF Say, Take, Turn
  <2>2. Stream(wire', envelope, content) /\ DataDone(wire', content)
    BY <1>0, <1>3, <2>1, StreamPlain
  <2>3. Stream(wire, envelope, content)' /\ DataDone(wire, content)'
    BY <1>0, <2>2
  <2>4. Written(wire, envelope, content)'
    BY <2>1, <2>3 DEF Written, Transaction
  <2> QED
    BY <1>1, <1>3, <2>3, <2>4 DEF StreamInv
<1>4. ASSUME NEW st \in Status, st \notin Transaction \/ st = status,
             Hold(st), status # "ChunkSent" \/ st = status, socket' # "opening",
             UNCHANGED mailItr
      PROVE  StreamInv'
  <2>1. wire' = wire \o <<>> /\ status' = st /\ UNCHANGED <<mailList, mailChunks>>
    BY <1>4 DEF Hold, Take, Turn
  <2>2. wire' = wire
    BY <1>0, <2>1, ConcatEmptySeq
  <2>3. Stream(wire, envelope, content)' /\ UNCHANGED Current
    BY <1>0, <1>4, <2>1, <2>2 DEF Current
  <2>4. Written(wire, envelope, content)'
    <3>1. CASE st = status
      BY <1>0, <2>1, <2>2, <2>3, <3>1 DEF Written
    <3>2. CASE st \notin Transaction /\ status # "ChunkSent"
      BY <1>0, <2>1, <2>2, <3>2 DEF Written, Transaction
    <3> QED
      BY <1>4, <3>1, <3>2 DEF Transaction
  <2> QED
    BY <1>1, <1>4, <2>3, <2>4 DEF StreamInv
<1>5. ASSUME NEW i \in 1 .. Len(mailList) + 1, NEW p \in BOOLEAN, MessageTurn(i, p),
             status # "ChunkSent"
      PROVE  StreamInv'
  BY <1>0, <1>5, MessageStream
<1>6. ASSUME NEW offered, LoginTurn(offered), status # "ChunkSent" PROVE StreamInv'
  <2>1. CASE MessageTurn(mailItr, "PIPELINING" \in offered)
    <3>1. ("PIPELINING" \in offered) \in BOOLEAN
      OBVIOUS
    <3> QED
      BY <1>0, <1>5, <1>6, <2>1, <3>1, Zenon
  <2>2. CASE Say("TLS", Plain("STARTTLS")) /\ UNCHANGED socket
    BY <1>0, <1>3, <1>6, <2>2 DEF Status, Transaction, Verb
  <2>3. CASE Say("Authenticating", Plain("AUTH")) /\ UNCHANGED socket
    BY <1>0, <1>3, <1>6, <2>3 DEF Status, Transaction, Verb
  <2> QED
    BY <1>6, <2>1, <2>2, <2>3 DEF LoginTurn
<1>7. CASE Hold(status) /\ UNCHANGED <<DialogVars, reportVars>>
  <2>1. status \in Status
    BY DEF WellTyped, TypeOK, Status
  <2> QED
    BY <1>0, <1>4, <1>7, <2>1 DEF DialogVars
<1>8. CASE OnInit(r)
  <2>1. CASE Say("Helo", Plain("EHLO")) /\ UNCHANGED <<it, temporaryFile, socket>>
    BY <1>0, <1>3, <1>8, <2>1 DEF OnInit, Status, Transaction, Verb
  <2> QED
    BY <1>2, <1>8, <2>1 DEF OnInit
<1>9. CASE OnHelo(r)
  <2>1. CASE Say("Helo", Plain("HELO")) /\ UNCHANGED DialogVars
    BY <1>0, <1>3, <1>9, <2>1 DEF OnHelo, Status, Transaction, Verb, DialogVars
  <2>2. CASE Hold("Extension") /\ UNCHANGED DialogVars
    BY <1>0, <1>4, <1>9, <2>2 DEF OnHelo, Status, Transaction, DialogVars
  <2>3. CASE LoginTurn(capabilities)
    BY <1>6, <1>9, <2>3 DEF OnHelo
  <2> QED
    BY <1>2, <1>9, <2>1, <2>2, <2>3 DEF OnHelo
<1>10. CASE OnExtension(r)
  <2>1. CASE Hold("Extension") /\ UNCHANGED <<mailItr, it, temporaryFile, socket>>
    BY <1>0, <1>4, <1>10, <2>1 DEF OnExtension, Status, Transaction
  <2>2. CASE LoginTurn(capabilities \cup r.offered)
    BY <1>6, <1>10, <2>2 DEF OnExtension
  <2> QED
    BY <1>2, <1>10, <2>1, <2>2 DEF OnExtension
<1>11. CASE OnTLS(r)
  <2>1. CASE Hold("TLS") /\ socket' = "handshake" /\ UNCHANGED mailItr
    BY <1>4, <1>11, <2>1 DEF OnTLS, Status, Transaction
  <2> QED
    BY <1>2, <1>11, <2>1 DEF OnTLS
<1>12. CASE OnAuthenticating(r)
  <2>1. CASE Say("Authenticating", Plain("ANSWER")) /\ UNCHANGED DialogVars
    BY <1>0, <1>3, <1>12, <2>1 DEF OnAuthenticating, Status, Transaction, Verb, DialogVars
  <2>2. CASE MessageTurn(mailItr, Pipelining)
    BY <1>0, <1>5, <1>12, <2>2 DEF OnAuthenticating
  <2> QED
    BY <1>2, <1>12, <2>1, <2>2 DEF OnAuthenticating
<1>13. ASSUME status \in {"Recv", "MRcv"}, UNCHANGED <<socket, mailItr>>,
              NEW turn, Take(turn), Issues(turn, Current), turn.status \in Transaction,
              turn.commands[1].verb # "MAIL",
              IsData(turn.commands[1]) => turn.commands[1].part[2] = 1
       PROVE  StreamInv'
  <2>1. /\ wire' = wire \o turn.commands /\ status' = turn.status /\ mailChunks' = turn.chunks
        /\ UNCHANGED mailList
    BY <1>13 DEF Take
  <2>2. Current' = Current /\ Current \in Message
    BY <1>0, <1>13, <2>1 DEF Current, Transaction
  <2>3. NoData(wire, content) /\ Context(wire, envelope, Current)
    BY <1>0, <1>13 DEF Written
  <2>4. Joins(wire, envelope, content, turn.commands, Current)
    <3>1. wire # <<>> => Follows(wire[Len(wire)], turn.commands[1])
      BY <1>13, <2>3 DEF NoData, Follows
    <3>2. wire = <<>> => Fits(turn.commands[1], envelope, content)
      BY <1>13, <2>3 DEF NoData, Fits
    <3> QED
      BY <2>3, <3>1, <3>2 DEF Joins
  <2>5. Stream(wire, envelope, content)' /\ Written(wire, envelope, content)'
    BY <1>0, <1>13, <2>1, <2>2, <2>3, <2>4, WrittenByTurn
  <2> QED
    BY <1>0, <1>1, <1>13, <2>5 DEF StreamInv
<1>14. ASSUME status \in {"Recv", "MRcv"}, UNCHANGED <<socket, mailItr>>, Say("MRcv", Plain("RCPT"))
       PROVE  StreamInv'
  <2> DEFINE c    == Plain("RCPT")
             turn == Turn("MRcv", <<c>>, mailChunks)
  <2>1. c \in AnyCommand /\ c.verb = "RCPT" /\ ~IsData(c)
    BY CommandType DEF Verb, Plain, Command, IsData
  <2>2. Take(turn)
    BY <1>14 DEF Say
  <2> HIDE DEF c
  <2>3. /\ Block(<<c>>, Current) /\ <<c>> \in Seq(AnyCommand) /\ <<c>> # <<>>
        /\ Len(<<c>>) = 1 /\ <<c>>[1] = c
    BY <2>1, PlainBlock
  <2>4. Ends(<<c>>, "MRcv", mailChunks, Current)
    BY <2>1, <2>3 DEF Ends
  <2>5. turn.commands = <<c>> /\ turn.status = "MRcv" /\ turn.chunks = mailChunks
    BY DEF Turn
  <2> HIDE DEF turn
  <2>6. Issues(turn, Current)
    BY <2>3, <2>4, <2>5 DEF Issues
  <2>7. turn.commands[1] = c /\ turn.status \in Transaction
    BY <2>3, <2>5 DEF Transaction
  <2> QED
    BY <1>13, <1>14, <2>1, <2>2, <2>6, <2>7
<1>15. CASE OnRecv(r)
  BY <1>2, <1>14, <1>15 DEF OnRecv
<1>16. CASE OnMRcv(r)
  <2>1. CASE Take(DataTurn(<<>>, mailList[mailItr], Pipelining)) /\ UNCHANGED <<mailItr, socket>>
    <3> DEFINE turn == DataTurn(<<>>, Current, Pipelining)
    <3>1. Current \in Message /\ Take(turn)
      BY <1>0, <1>16, <2>1 DEF OnMRcv, Transaction, Current
    <3>2. <<>> \in Seq(AnyCommand) /\ Block(<<>>, Current) /\ \A i \in 1 .. Len(<<>>) : ~IsData(<<>>[i])
      BY DEF Block
    <3>3. /\ Issues(turn, Current) /\ turn.commands[1].verb # "MAIL"
          /\ IsData(turn.commands[1]) => turn.commands[1].part[2] = 1
      BY <1>0, <3>1, <3>2, DataTurnIssues
    <3>4. turn.status \in Transaction
      BY DEF DataTurn, ChunkTurn, Turn, Transaction
    <3> HIDE DEF turn
    <3> QED
      BY <1>13, <1>16, <2>1, <3>1, <3>3, <3>4 DEF OnMRcv
  <2> QED
    BY <1>2, <1>14, <1>16, <2>1 DEF OnMRcv
<1>17. CASE OnBody(r)
  <2>1. CASE Hold("Body") /\ UNCHANGED <<mailItr, it, socket, capabilities>>
    BY <1>0, <1>4, <1>17, <2>1 DEF OnBody, Status
  <2> QED
    BY <1>2, <1>17, <2>1 DEF OnBody
<1>18. CASE OnChunkSent(r)
  <2>1. CASE Take(ChunkTurn(<<>>, mailChunks, Pipelining)) /\ UNCHANGED DialogVars
    <3> DEFINE turn == ChunkTurn(<<>>, mailChunks, Pipelining)
    <3>1. status = "ChunkSent" /\ Current \in Message /\ Context(wire, envelope, Current)
      BY <1>0, <1>18 DEF OnChunkSent, Transaction, Written
    <3>2. PICK j \in 1 .. Size(Current) - 1 :
            Chunks(mailChunks, Current, j) /\ Reached(wire, envelope, content, Current, j)
      BY <1>0, <3>1 DEF Written
    <3>3. <<>> \in Seq(AnyCommand) /\ Block(<<>>, Current) /\ \A i \in 1 .. Len(<<>>) : ~IsData(<<>>[i])
      BY DEF Block
    <3>4. j \in 0 .. Size(Current) - 1 /\ j \in Nat /\ j >= 1
      BY <3>1, SizeType
    <3>5. /\ Issues(turn, Current)
          /\ IsData(turn.commands[1]) /\ turn.commands[1].part = <<Current, j + 1>>
      BY <1>0, <3>1, <3>2, <3>4, NextChunkIssues
    <3>6. turn.status \in Transaction
      BY DEF ChunkTurn, Turn, Transaction
    <3>7. Take(turn)
      BY <2>1
    <3> HIDE DEF turn
    <3>8. /\ wire' = wire \o turn.commands /\ status' = turn.status /\ mailChunks' = turn.chunks
          /\ UNCHANGED mailList
      BY <3>7 DEF Take
    <3>9. Current' = Current
      BY <2>1, <3>8 DEF Current, DialogVars
    <3>10. Joins(wire, envelope, content, turn.commands, Current)
      <4>1. wire # <<>> => Follows(wire[Len(wire)], turn.commands[1])
        BY <3>2, <3>5 DEF Reached, Follows
      <4>2. ASSUME wire = <<>> PROVE Fits(turn.commands[1], envelope, content)
        <5>1. CASE envelope = NoMessage
          BY <1>0, <5>1 DEF Stream, Fits
        <5>2. CASE envelope # NoMessage
          <6>1. NoMail(wire, 1, Len(wire))
            <7>1. Len(wire) = 0
              BY <4>2
            <7>2. \A i \in 1 .. Len(wire) : FALSE
              BY <7>1
            <7> QED
              BY <7>2 DEF NoMail
          <6>2. envelope = Current
            BY <3>1, <5>2, <6>1 DEF Context
          <6>3. Len(content) = j
            BY <3>2, <4>2, <5>2 DEF Reached
          <6>4. content # <<>>
            <7> SUFFICES ASSUME content = <<>> PROVE FALSE
              OBVIOUS
            <7>1. Len(content) = 0
              OBVIOUS
            <7> QED
              BY <3>4, <6>3, <7>1
          <6> QED
            BY <3>5, <6>2, <6>3, <6>4 DEF Fits
        <5> QED
          BY <5>1, <5>2
      <4> QED
        BY <3>1, <4>1, <4>2 DEF Joins
    <3>11. Stream(wire, envelope, content)' /\ Written(wire, envelope, content)'
      BY <1>0, <3>1, <3>5, <3>6, <3>8, <3>9, <3>10, WrittenByTurn
    <3> QED
      BY <1>0, <1>1, <2>1, <3>11 DEF StreamInv, DialogVars
  <2> QED
    BY <1>2, <1>18, <2>1 DEF OnChunkSent
<1>19. CASE OnSent(r)
  <2>1. CASE MessageTurn(mailItr + 1, Pipelining)
    <3>1. mailItr + 1 \in 1 .. Len(mailList) + 1
      BY <1>0, <1>19 DEF OnSent, Transaction
    <3> QED
      BY <1>0, <1>5, <1>19, <2>1, <3>1 DEF OnSent
  <2> QED
    BY <1>2, <1>19, <2>1 DEF OnSent
<1> QED
  BY <1>7, <1>8, <1>9, <1>10, <1>11, <1>12, <1>15, <1>16, <1>17, <1>18, <1>19 DEF nextAction

\* What the server makes of the first command, and what it accepts.
LEMMA ServerHandles ==
  ASSUME WellTyped, StreamInv, Server
  PROVE  /\ Handled(wire, envelope, content, envelope', content')
         /\ \/ UNCHANGED accepted
            \/ /\ IsData(wire[1]) /\ wire[1].last /\ envelope \in Message
               /\ accepted' = accepted \cup {[message |-> envelope, parts |-> Append(content, wire[1].part)]}
<1> DEFINE c == wire[1]
<1>0. wire \in Seq(AnyCommand) /\ wire # <<>> /\ Head(wire) = c /\ c \in AnyCommand
  BY TailIndex DEF WellTyped, Server
<1>1. envelope \in Message \cup {NoMessage}
  BY DEF WellTyped, TypeOK
<1> HIDE DEF c
<1>2. CASE ServerRefuses
  <2>1. UNCHANGED accepted
    BY <1>2 DEF ServerRefuses
  <2>2. \/ envelope' = NoMessage /\ content' = <<>>
        \/ c.verb = "RCPT" /\ UNCHANGED <<envelope, content>>
    BY <1>0, <1>2 DEF ServerRefuses
  <2> QED
    BY <2>1, <2>2 DEF Handled, IsData, c
<1>3. CASE ServerAccepts
  <2>1. CASE Welcome(c.verb) /\ UNCHANGED serverVars
    <3>1. c.verb \in {"CONNECT", "STARTTLS", "EHLO", "HELO", "AUTH", "ANSWER", "QUIT"}
      BY <2>1 DEF Welcome
    <3> QED
      BY <2>1, <3>1 DEF serverVars, Handled, IsData, c
  <2>2. CASE c.verb = "MAIL" /\ envelope' = c.part[1] /\ content' = <<>> /\ UNCHANGED accepted
    BY <2>2 DEF Handled, c
  <2>3. CASE c.verb \in {"RCPT", "DATA"} /\ UNCHANGED serverVars
    BY <2>3 DEF serverVars, Handled, IsData, c
  <2>4. CASE /\ c.verb \in {"BDAT", "END"} /\ envelope # NoMessage /\ c.last
             /\ accepted' = accepted \cup {[message |-> envelope, parts |-> Append(content, c.part)]}
             /\ envelope' = NoMessage /\ content' = <<>>
    BY <1>1, <2>4 DEF Handled, IsData, c
  <2>5. CASE /\ c.verb \in {"BDAT", "END"} /\ envelope # NoMessage /\ ~c.last
             /\ content' = Append(content, c.part) /\ UNCHANGED <<envelope, accepted>>
    BY <2>5 DEF Handled, IsData, c
  <2> QED
    BY <1>0, <1>3, <2>1, <2>2, <2>3, <2>4, <2>5 DEF ServerAccepts
<1> QED
  BY <1>2, <1>3 DEF Server

\* The server handles a command, and what it accepts is whole.
LEMMA ServerStream ==
  ASSUME WellTyped, StreamInv, Server
  PROVE  StreamInv'
<1>0. /\ wire \in Seq(AnyCommand) /\ wire # <<>> /\ wire' = Tail(wire) /\ UNCHANGED clientVars
      /\ envelope \in Message \cup {NoMessage} /\ content \in Seq(Part)
      /\ Stream(wire, envelope, content)
      /\ socket \in {"open", "encrypted", "closed"}
  BY DEF WellTyped, TypeOK, StreamInv, Server
<1>1. Handled(wire, envelope, content, envelope', content')
  BY ServerHandles
<1>2. Stream(wire', envelope', content') /\ content' \in Seq(Part)
  BY <1>0, <1>1, StreamHandled
<1>3. UNCHANGED <<status, sending, mailList, mailItr, mailChunks, socket>>
  BY <1>0 DEF clientVars, listVars
<1>4. sending /\ socket # "opening" => Written(wire', envelope', content')
  BY <1>0, <1>1, WrittenHandled DEF StreamInv
<1>5. sending' /\ socket' # "opening" => Written(wire, envelope, content)'
  <2> SUFFICES ASSUME Written(wire', envelope', content') PROVE Written(wire, envelope, content)'
    BY <1>3, <1>4
  <2>1. UNCHANGED Current
    BY <1>3 DEF Current
  <2> QED
    BY <1>3, <2>1 DEF Written
<1>6. AcceptedIntact'
  <2>1. CASE UNCHANGED accepted
    BY <2>1 DEF StreamInv, AcceptedIntact
  <2>2. CASE /\ IsData(wire[1]) /\ wire[1].last /\ envelope \in Message
             /\ accepted' = accepted \cup {[message |-> envelope, parts |-> Append(content, wire[1].part)]}
    <3> DEFINE e == envelope
               k == content
               all == Append(k, wire[1].part)
    <3>1. wire[1].part = <<e, Len(k) + 1>> /\ Len(k) + 1 = Size(e) /\ Len(k) \in Nat
      BY <1>0, <2>2, NextPart
    <3>2. \A i \in 1 .. Len(k) : k[i] = <<e, i>>
      <4>1. e # NoMessage
        BY <2>2, SmtpAssumption
      <4> QED
        BY <1>0, <4>1 DEF Stream
    <3>3. <<e, Len(k) + 1>> \in Part
      BY <2>2, <3>1 DEF Part
    <3>4. /\ all \in Seq(Part) /\ Len(all) = Size(e)
          /\ \A i \in 1 .. Len(all) : all[i] = <<e, i>>
      <4>1. /\ all \in Seq(Part) /\ Len(all) = Len(k) + 1
            /\ \A i \in 1 .. Len(k) : all[i] = k[i]
            /\ all[Len(k) + 1] = <<e, Len(k) + 1>>
        BY <1>0, <3>1, <3>3
      <4> HIDE DEF all, e, k
      <4> QED
        BY <3>1, <3>2, <4>1
    <3>5. PartsOf(e) \in Seq(Part) /\ Len(PartsOf(e)) = Size(e)
          /\ \A i \in 1 .. Len(PartsOf(e)) : PartsOf(e)[i] = <<e, i>>
      BY <2>2, PartsType DEF Size
    <3>6. all = PartsOf(e)
      <4> HIDE DEF all, e
      <4>1. Len(all) = Len(PartsOf(e)) /\ \A i \in 1 .. Len(all) : all[i] = PartsOf(e)[i]
        BY <3>4, <3>5
      <4> QED
        BY <3>4, <3>5, <4>1, SeqEqual
    <3> DEFINE new == [message |-> e, parts |-> all]
    <3>7. new.parts = PartsOf(new.message)
      BY <3>6
    <3>8. accepted' = accepted \cup {new}
      BY <2>2
    <3> HIDE DEF new
    <3> QED
      BY <3>7, <3>8 DEF StreamInv, AcceptedIntact
  <2> QED
    BY <2>1, <2>2, ServerHandles
<1>7. Stream(wire, envelope, content)'
  BY <1>2
<1>8. socket' # "opening"
  BY <1>0, <1>3
<1> QED
  BY <1>2, <1>5, <1>6, <1>7, <1>8 DEF StreamInv

\* No step disturbs the invariant of the stream.
LEMMA StepStream ==
  ASSUME External = {}
  PROVE  WellTyped /\ Tidy /\ StreamInv /\ [Next]_vars => StreamInv'
<1> SUFFICES ASSUME WellTyped, Tidy, StreamInv, [Next]_vars PROVE StreamInv'
  OBVIOUS
<1>0. /\ socket # "closed" \/ replies # <<>> \/ authTimeout \/ temporaryFile => sending
      /\ sending \in BOOLEAN /\ wire \in Seq(AnyCommand)
      /\ mailList \in Seq(Message) /\ mailItr \in 1 .. Len(mailList) + 1
  BY DEF Tidy, Released, WellTyped, TypeOK
<1>1. ASSUME UNCHANGED <<wire, serverVars>>
      PROVE  /\ Stream(wire, envelope, content)' /\ AcceptedIntact' /\ content' \in Seq(Part)
             /\ sending' = FALSE /\ socket' = "closed" => StreamInv'
             /\ status' = "Init" /\ socket' = "opening" /\ replies' = <<>> => StreamInv'
  <2>1. Stream(wire, envelope, content)' /\ AcceptedIntact' /\ content' \in Seq(Part)
    BY <1>1 DEF StreamInv, serverVars, AcceptedIntact
  <2>2. ASSUME sending' = FALSE, socket' = "closed" PROVE StreamInv'
    BY <2>1, <2>2 DEF StreamInv
  <2>3. ASSUME status' = "Init", socket' = "opening", replies' = <<>> PROVE StreamInv'
    BY <2>1, <2>3 DEF StreamInv
  <2> QED
    BY <2>1, <2>2, <2>3
<1>2. ASSUME sending, NEW st, operationFailed(st), UNCHANGED <<wire, serverVars>> PROVE StreamInv'
  <2>1. sending' = FALSE /\ socket' = "closed"
    BY <1>2 DEF operationFailed, close
  <2>2. UNCHANGED <<wire, serverVars>>
    BY <1>2
  <2> QED
    BY <1>1, <2>1, <2>2
<1>3. ASSUME UNCHANGED <<wire, serverVars, status, sending, mailList, mailItr, mailChunks, socket>>,
             socket = "opening" => replies' = replies
      PROVE  StreamInv'
  <2>1. Stream(wire, envelope, content)' /\ AcceptedIntact' /\ content' \in Seq(Part)
    BY <1>3 DEF StreamInv, serverVars, AcceptedIntact
  <2>2. UNCHANGED Current
    BY <1>3 DEF Current
  <2>3. Written(wire, envelope, content) => Written(wire, envelope, content)'
    BY <1>3, <2>2 DEF Written, serverVars
  <2> QED
    BY <1>3, <2>1, <2>3 DEF StreamInv
<1>4. ASSUME NEW M \in SUBSET outbox, NEW mails \in SetToSeqs(M \ Invalid), TransmitMessages(mails)
      PROVE  StreamInv'
  <2>1. UNCHANGED <<wire, serverVars, replies>> /\ sending = FALSE /\ replies = <<>> /\ socket = "closed"
    BY <1>0, <1>4 DEF TransmitMessages, Tidy, Released
  <2>2. CASE configured
    <3>1. status' = "Init" /\ socket' = "opening" /\ replies' = <<>> /\ UNCHANGED <<wire, serverVars>>
      BY <1>4, <2>1, <2>2 DEF TransmitMessages
    <3> QED
      BY <1>1, <3>1
  <2>3. CASE ~configured
    <3>1. sending' = FALSE /\ socket' = "closed" /\ UNCHANGED <<wire, serverVars>>
      BY <1>4, <2>1, <2>3 DEF TransmitMessages
    <3> QED
      BY <1>1, <3>1
  <2> QED
    BY <2>2, <2>3
<1>5. CASE Connected
  <2> DEFINE c == Plain("CONNECT")
             w == <<c>>
  <2>1. /\ wire' = w /\ envelope' = NoMessage /\ content' = <<>> /\ accepted' = {}
        /\ socket' = "open" /\ UNCHANGED status /\ status = "Init"
    BY <1>5 DEF Connected, StreamInv
  <2>2. c \in AnyCommand /\ c.verb = "CONNECT" /\ ~IsData(c)
    BY CommandType DEF Verb, Plain, Command, IsData
  <2> HIDE DEF c
  <2>3. w # <<>> /\ Len(w) = 1 /\ w[1] = c
    OBVIOUS
  <2> HIDE DEF w
  <2>4. Stream(w, NoMessage, <<>>)
    BY <2>2, <2>3 DEF Stream, Fits
  <2>5. DataDone(w, <<>>)
    BY <2>2, <2>3 DEF DataDone
  <2>6. Stream(wire, envelope, content)' /\ DataDone(wire, content)'
    BY <2>1, <2>4, <2>5
  <2>7. Written(wire, envelope, content)'
    BY <2>1, <2>6 DEF Written
  <2>8. content' \in Seq(Part) /\ AcceptedIntact'
    BY <2>1 DEF AcceptedIntact
  <2> QED
    BY <2>1, <2>6, <2>7, <2>8 DEF StreamInv
<1>6. CASE Encrypted
  <2>1. /\ status = "TLS" /\ sending /\ socket = "handshake" /\ status' = "Helo" /\ socket' = "encrypted"
        /\ wire' = wire \o <<Plain("EHLO")>> /\ UNCHANGED <<envelope, content, accepted>>
    BY <1>0, <1>6 DEF Encrypted, Tidy, serverVars
  <2>2. DataDone(wire, content) /\ Stream(wire, envelope, content)
    BY <2>1 DEF StreamInv, Written
  <2>3. Stream(wire', envelope, content) /\ DataDone(wire', content)
    BY <1>0, <2>1, <2>2, StreamPlain DEF Verb
  <2>4. Stream(wire, envelope, content)' /\ DataDone(wire, content)'
    BY <2>1, <2>3
  <2>5. Written(wire, envelope, content)'
    BY <2>1, <2>4 DEF Written
  <2>6. content' \in Seq(Part) /\ AcceptedIntact'
    BY <2>1 DEF StreamInv, AcceptedIntact
  <2> QED
    BY <2>1, <2>4, <2>5, <2>6 DEF StreamInv
<1>7. CASE ReadLine
  <2>1. PICK r \in Responses :
          IF outstandingResponses > 1
          THEN PipelinedResponse(r) /\ UNCHANGED reportVars
          ELSE nextAction(r)
    BY <1>7 DEF ReadLine
  <2>2. sending /\ LineRead /\ UNCHANGED serverVars /\ socket # "opening"
    BY <1>0, <1>7 DEF ReadLine, LineRead, StreamInv
  <2>3. CASE PipelinedResponse(r)
    <3>1. CASE operationFailed(status)
      BY <1>2, <2>2, <2>3, <3>1 DEF PipelinedResponse
    <3>2. CASE UNCHANGED <<status, sending, mailList, mailChunks, outcome, DialogVars>>
      BY <1>3, <2>2, <2>3, <3>2 DEF PipelinedResponse, DialogVars
    <3> QED
      BY <2>3, <3>1, <3>2 DEF PipelinedResponse
  <2> QED
    BY <2>1, <2>2, <2>3, NextActionStream
<1>8. CASE ReadPart
  BY <1>3, <1>8 DEF ReadPart, listVars
<1>9. CASE BodyWritten
  <2>1. /\ temporaryFile /\ status = "Body" /\ sending /\ socket # "opening"
    BY <1>0, <1>9 DEF BodyWritten, Tidy, StreamInv
  <2>2. mailItr \in 1 .. Len(mailList) /\ Current \in Message
    BY <1>0, <2>1 DEF WellTyped, Transaction, Current
  <2> DEFINE m == Current
             c == Command("END", <<m, 1>>, TRUE)
             d == <<c>>
             turn == Turn("Sent", d, mailChunks)
  <2>3. /\ Context(wire, envelope, m) /\ NoData(wire, content) /\ ChunksOf[m] = 0
        /\ Stream(wire, envelope, content)
    BY <2>1 DEF StreamInv, Written
  <2>4. Size(m) = 1
    BY <2>2, <2>3, PartsType DEF Size
  <2>5. c \in AnyCommand /\ c.verb = "END" /\ c.part = <<m, 1>> /\ c.last = TRUE
    <3>1. <<m, 1>> \in Part
      BY <2>2 DEF Part
    <3> QED
      BY <3>1, CommandType DEF Verb, Command
  <2>6. /\ wire' = wire \o d /\ status' = "Sent" /\ UNCHANGED <<mailChunks, mailList, mailItr, serverVars, socket>>
    BY <1>9, <2>1 DEF BodyWritten, stopTransferring, Terminator, Current, listVars
  <2> HIDE DEF c
  <2>7. d \in Seq(AnyCommand) /\ d # <<>> /\ Len(d) = 1 /\ d[1] = c
    BY <2>5
  <2>8. turn.commands = d /\ turn.status = "Sent" /\ turn.chunks = mailChunks
    BY DEF Turn
  <2> HIDE DEF d, turn
  <2>9. IsData(c) /\ PartOK(c) /\ c.part[1] = m /\ c.part[2] = 1 /\ c.verb # "MAIL"
    BY <2>2, <2>4, <2>5 DEF IsData, PartOK
  <2>10. Block(d, m)
    BY <2>7, <2>9 DEF Block
  <2>11. Issues(turn, m)
    <3>1. Ends(d, "Sent", mailChunks, m)
      BY <2>5, <2>7, <2>9 DEF Ends
    <3> QED
      BY <2>7, <2>8, <2>10, <3>1 DEF Issues
  <2>12. Joins(wire, envelope, content, d, m)
    <3>1. wire # <<>> => Follows(wire[Len(wire)], d[1])
      BY <2>3, <2>7, <2>9 DEF NoData, Follows
    <3>2. wire = <<>> => Fits(d[1], envelope, content)
      BY <2>3, <2>7, <2>9 DEF NoData, Fits
    <3> QED
      BY <2>3, <3>1, <3>2 DEF Joins
  <2>13. Current' = m /\ UNCHANGED <<envelope, content, accepted>>
    BY <2>6 DEF Current, serverVars
  <2>14. turn.status \in Transaction
    BY <2>8 DEF Transaction
  <2> HIDE DEF m
  <2>15. Stream(wire, envelope, content)' /\ Written(wire, envelope, content)'
    <3>1. m \in Message
      BY <2>2 DEF m
    <3> QED
      BY <1>0, <2>3, <2>6, <2>8, <2>11, <2>12, <2>13, <2>14, <3>1, WrittenByTurn
  <2>16. content' \in Seq(Part) /\ AcceptedIntact'
    BY <2>13 DEF StreamInv, AcceptedIntact
  <2> QED
    BY <2>1, <2>6, <2>15, <2>16 DEF StreamInv
<1>10. CASE TransportError
  <2>1. sending' = FALSE /\ socket' = "closed" /\ wire' = <<>> /\ UNCHANGED <<envelope, content, accepted>>
    BY <1>0, <1>10 DEF TransportError, operationFailed, close, serverVars
  <2>2. Len(wire') = 0
    BY <2>1
  <2>3. Stream(wire, envelope, content)'
    BY <2>1, <2>2 DEF StreamInv, Stream
  <2>4. content' \in Seq(Part) /\ AcceptedIntact'
    BY <2>1 DEF StreamInv, AcceptedIntact
  <2> QED
    BY <2>1, <2>3, <2>4 DEF StreamInv
<1>11. CASE AuthExpired
  BY <1>0, <1>2, <1>11 DEF AuthExpired
<1>12. CASE CancelTransfer
  BY <1>0, <1>2, <1>12 DEF CancelTransfer
<1>13. CASE AccountsUpdated
  BY <1>3, <1>13 DEF AccountsUpdated, listVars
<1>14. CASE Server
  BY <1>14, ServerStream
<1>15. CASE ServerShutsDown
  <2>1. /\ wire' = <<>> /\ envelope' = NoMessage /\ content' = <<>> /\ UNCHANGED accepted
        /\ socket \in {"open", "encrypted"} /\ UNCHANGED <<status, sending, mailList, mailItr, mailChunks, socket>>
    BY <1>15 DEF ServerShutsDown, clientVars, listVars
  <2>2. Len(wire') = 0 /\ Len(content') = 0
    BY <2>1
  <2>3. Stream(wire, envelope, content)'
    BY <2>1, <2>2 DEF Stream
  <2>4. UNCHANGED Current
    BY <2>1 DEF Current
  <2>5. ASSUME Written(wire, envelope, content) PROVE Written(wire, envelope, content)'
    <3>1. DataDone(wire, content)' /\ NoData(wire, content)'
      BY <2>1 DEF DataDone, NoData
    <3>2. \A m : Context(wire, envelope, m)'
      BY <2>1, <2>2 DEF Context
    <3>3. \A m, j : Reached(wire', envelope', content', m, j)
      BY <2>1 DEF Reached
    <3> QED
      BY <2>1, <2>4, <2>5, <3>1, <3>2, <3>3 DEF Written
  <2>6. content' \in Seq(Part) /\ AcceptedIntact'
    BY <2>1 DEF StreamInv, AcceptedIntact
  <2> QED
    BY <2>1, <2>3, <2>5, <2>6 DEF StreamInv
<1>16. CASE UNCHANGED vars
  BY <1>3, <1>16 DEF vars, listVars
<1> QED
  BY <1>4, <1>5, <1>6, <1>7, <1>8, <1>9, <1>10, <1>11, <1>12, <1>13, <1>14, <1>15, <1>16 DEF Next

\* At the start nothing is written.
LEMMA InitStream == Init => StreamInv
<1> SUFFICES ASSUME Init PROVE StreamInv
  OBVIOUS
<1>1. wire = <<>> /\ envelope = NoMessage /\ content = <<>> /\ accepted = {} /\ socket = "closed" /\ sending = FALSE
  BY DEF Init
<1>2. Len(wire) = 0
  BY <1>1
<1> QED
  BY <1>1, <1>2 DEF StreamInv, Stream, AcceptedIntact

\* What the server accepts is the message of its envelope, all parts of it in
\* their order and nothing else: for any messages, chunks and recipients, with
\* and without pipelining, however the server splits and refuses its responses
\* and wherever a transfer is broken off (sendCommand, nextAction, sendMoreData).
\* The hypothesis leaves out messages that are sent from an external account:
\* their reference is appended to what a broken transfer left in mailChunks.
THEOREM AcceptedWhole ==
  ASSUME External = {}
  PROVE  Spec => []AcceptedIntact
<1>1. Init => WellTyped /\ Tidy /\ StreamInv
  BY InitTyped, InitStream
<1>2. StreamInv => AcceptedIntact
  BY DEF StreamInv
<1> QED
  BY <1>1, <1>2, StepTyped, StepTidy, StepStream, PTL DEF Spec

=============================================================================
