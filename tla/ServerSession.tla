---------------------------- MODULE ServerSession ----------------------------
(***************************************************************************)
(* The session of a client with a render server, from the dialog that      *)
(* opens the connection to the packets that are exchanged over it:         *)
(* the client's AddNewServerConnectionDialog and RenderServerConnection,   *)
(* the server's ServerWindow and RenderServer, and the TCP streams between *)
(* them.  A stream is cut into segments anywhere, and what a reader does   *)
(* depends on how much has arrived when its readyRead slot runs.           *)
(*                                                                         *)
(* A message is a sequence of units, just fine enough to be cut where it   *)
(* makes a difference: a text (greeting, introduction, name of the device) *)
(* has two, a packet (a request or a result) has a size field of two units *)
(* and a body.  A request's size counts the whole packet, a result's only  *)
(* what follows the field.                                                 *)
(*                                                                         *)
(* Every connection stands for one attempt of a client.  The renderer is   *)
(* external (module RenderServerRenderer): it answers a request or ignores *)
(* it.  Once a reader has taken a part of a size field for a size, what it *)
(* makes of the rest depends on the bytes and is not followed ("garbled"). *)
(***************************************************************************)
EXTENDS Naturals, FiniteSets, SequencesExt

CONSTANTS
    Connections,
    NoConnection,
    MaxRequests,            \* bound: requests sent over a connection
    BodyUnits               \* the units of a packet's body

ASSUME SessionAssumption ==
    /\ NoConnection \notin Connections
    /\ MaxRequests \in Nat \ {0}
    /\ BodyUnits \in Nat \ {0}

Text(kind) == <<kind, kind>>
SizeField == <<"size", "size">>
Packet == SizeField \o [i \in 1 .. BodyUnits |-> "body"]
Units == {"greeting", "busy", "introduction", "name", "size", "body"}

VARIABLES
    (* ServerWindow *)
    program,                    \* "running", or "crashed"
    m_serverState,
    m_server,                   \* the QTcpServer
    m_clientSocket,
    m_computeDevice,
    isInitialized,              \* the OptixRenderer has a device
    backlog,                    \* connections the window has not accepted yet
    (* RenderServer, in the same thread *)
    servedSocket,               \* RenderServer::m_clientSocket
    m_renderState,
    m_clientExpectingBytes,
    reading,                    \* onDataFromClient is in its loop
    serverGarbled,
    queued,                     \* requests the renderer has yet to answer
    results,                    \* queued calls of onNewRenderResultPacket
    (* the connections *)
    serverEnd, clientEnd,       \* the two sockets
    up, upBuffer,               \* to the server: in transit, and arrived
    down, downBuffer,           \* to the client
    dialog,                     \* AddNewServerConnectionDialog
    (* RenderServerConnection *)
    m_renderServerState,
    newCommands,                \* queued calls of onNewServerCommand
    m_currentCommand,
    m_expectingSize,            \* m_expectingSizeOfRenderCommandResult
    clientGarbled,
    numRequests,                \* requests sent
    (* history *)
    parsed,                     \* requests of the served client
    cutRequest,                 \* a segment ended inside one of them
    cutAnswer,                  \* connections: ... inside a text or size field
    coalesced,                  \* ... two results arrived with one readyRead
    strays                      \* ... a result of an earlier client was queued

windowVars == <<program, m_serverState, m_server, m_computeDevice, isInitialized>>
serverVars == <<servedSocket, m_renderState, m_clientExpectingBytes, reading,
                serverGarbled, queued, parsed, cutRequest>>
connectionVars == <<m_renderServerState, newCommands, m_currentCommand,
                    m_expectingSize, clientGarbled, numRequests, cutAnswer, coalesced>>
vars == <<windowVars, m_clientSocket, backlog, serverVars, results, serverEnd, clientEnd,
          up, upBuffer, down, downBuffer, dialog, connectionVars, strays>>

TypeOK ==
    /\ program \in {"running", "crashed"}
    /\ m_serverState \in {"SET_COMPUTE_DEVICE", "SET_SERVER_SETTINGS",
                          "WAIT_FOR_CLIENT_CONNECTION", "READY_FOR_RENDERING"}
    /\ m_server \in {"none", "listening", "closed"}
    /\ {m_clientSocket, servedSocket} \subseteq Connections \cup {NoConnection}
    /\ m_computeDevice \in {"NULL", "selected"}
    /\ {isInitialized, reading, serverGarbled, cutRequest} \subseteq BOOLEAN
    /\ backlog \in Seq(Connections)
    /\ m_renderState \in {"NOT_VALID_RENDER_STATE", "WAITING_FOR_INTRODUCTION_REQUEST",
                          "RENDERING", "ERROR_UNKNOWN"}
    /\ m_clientExpectingBytes \in {0, Len(Packet)}
    /\ {queued, parsed} \subseteq 0 .. MaxRequests
    /\ results \in Nat
    /\ serverEnd \in [Connections -> {"none", "pending", "open", "closing", "closed"}]
    /\ clientEnd \in [Connections -> {"none", "open", "closed"}]
    /\ \A stream \in {up, upBuffer, down, downBuffer} : stream \in [Connections -> Seq(Units)]
    /\ dialog \in [Connections -> {"form", "connecting", "greeting", "handing",
                                   "accepted", "failed", "crashed"}]
    /\ m_renderServerState \in
           [Connections -> {"NO_DEVICE_INFORMATION", "WAITING_FOR_DEVICE_INFORMATION",
                            "RENDERING", "DISCONNECTED", "ERROR_INVALID_CONFIRMATION"}]
    /\ newCommands \in [Connections -> Nat]
    /\ m_currentCommand \in [Connections -> {"NULL", "pending", "rejected"}]
    /\ m_expectingSize \in [Connections -> {0, BodyUnits}]
    /\ clientGarbled \in [Connections -> BOOLEAN]
    /\ numRequests \in [Connections -> 0 .. MaxRequests]
    /\ {cutAnswer, coalesced, strays} \subseteq SUBSET Connections

Set(f, c, value) == [f EXCEPT ![c] = value]
Drop(s, n) == SubSeq(s, n + 1, Len(s))

-----------------------------------------------------------------------------
(***************************************************************************)
(* ServerWindow                                                            *)
(***************************************************************************)

\* The main thread of the server is in its event loop.
MainIsFree == program = "running" /\ ~reading

\* An uncaught exception or a NULL pointer ends the server.
Crash ==
    /\ program' = "crashed"
    /\ m_server' = "closed"
    /\ backlog' = <<>>
    /\ serverEnd' = [c \in Connections |-> IF serverEnd[c] = "none" THEN "none" ELSE "closed"]

\* onHasSelectedComputeDevice.  OptixRenderer::initialize throws when it is
\* called for the second time, and nothing catches it.
SelectComputeDevice ==
    /\ MainIsFree
    /\ m_serverState = "SET_COMPUTE_DEVICE"
    /\ IF isInitialized
       THEN Crash /\ UNCHANGED <<m_serverState, m_computeDevice, isInitialized>>
       ELSE /\ m_computeDevice' = "selected"
            /\ isInitialized' = TRUE
            /\ m_serverState' = "SET_SERVER_SETTINGS"
            /\ UNCHANGED <<program, m_server, backlog, serverEnd>>
    /\ UNCHANGED <<m_clientSocket, serverVars, results, clientEnd, up, upBuffer, down,
                   downBuffer, dialog, connectionVars, strays>>

\* onStartServerFormSubmitted, when the server can listen on the port: else the
\* form stays.
StartServer ==
    /\ MainIsFree
    /\ m_serverState = "SET_SERVER_SETTINGS"
    /\ m_server' = "listening"
    /\ m_serverState' = "WAIT_FOR_CLIENT_CONNECTION"
    /\ UNCHANGED <<program, m_computeDevice, isInitialized, m_clientSocket, backlog,
                   serverVars, results, serverEnd, clientEnd, up, upBuffer, down,
                   downBuffer, dialog, connectionVars, strays>>

\* onStateReadyForRenderingEnter and initializeClient
Serve(c) ==
    /\ m_clientSocket' = c
    /\ serverEnd' = Set(serverEnd, c, "open")
    /\ down' = Set(down, c, Text("greeting"))
    /\ m_serverState' = "READY_FOR_RENDERING"
    /\ servedSocket' = c
    /\ m_renderState' = "WAITING_FOR_INTRODUCTION_REQUEST"
    /\ m_clientExpectingBytes' = 0
    /\ serverGarbled' = FALSE
    /\ queued' = 0
    /\ parsed' = 0
    /\ cutRequest' = FALSE
    /\ strays' = IF results > 0 THEN strays \cup {c} ELSE strays
    /\ UNCHANGED reading

\* Mutant: the window accepts whoever connects.
AcceptAnyClient(c) == Serve(c)

\* onNewConnection
AcceptClient(c) == m_serverState = "WAIT_FOR_CLIENT_CONNECTION" /\ Serve(c)

\* In every other state the socket is closed and deleted, perhaps before the text
\* that was written to it is sent.
RejectClient(c) ==
    /\ m_serverState # "WAIT_FOR_CLIENT_CONNECTION"
    /\ serverEnd' = Set(serverEnd, c, "closed")
    /\ \E text \in {Text("busy"), <<>>} : down' = Set(down, c, text)
    /\ UNCHANGED <<m_serverState, m_clientSocket, serverVars, strays>>

onNewConnection ==
    /\ MainIsFree
    /\ m_server = "listening"
    /\ backlog # <<>>
    /\ backlog' = Tail(backlog)
    /\ AcceptClient(Head(backlog)) \/ RejectClient(Head(backlog))
    /\ UNCHANGED <<program, m_server, m_computeDevice, isInitialized, results, clientEnd,
                   up, upBuffer, downBuffer, dialog, connectionVars>>

\* onClientConnectionDisconnected: the client has closed its end and everything it
\* sent was read, or the last of what was written to a closing socket has left.
ClientConnectionDisconnected(c) ==
    /\ MainIsFree
    /\ \/ serverEnd[c] = "open" /\ clientEnd[c] = "closed" /\ up[c] = <<>>
       \/ serverEnd[c] = "closing"
    /\ serverEnd' = Set(serverEnd, c, "closed")
    /\ m_clientSocket' = NoConnection
    /\ m_serverState' = "WAIT_FOR_CLIENT_CONNECTION"
    /\ UNCHANGED <<program, m_server, m_computeDevice, isInitialized, backlog, serverVars,
                   results, clientEnd, up, upBuffer, down, downBuffer, dialog,
                   connectionVars, strays>>

\* Mutant: the server keeps listening.
ResetListening ==
    /\ m_computeDevice' = "NULL"
    /\ m_serverState' = "SET_COMPUTE_DEVICE"
    /\ m_clientSocket' = NoConnection
    /\ UNCHANGED <<m_server, backlog>>

\* The rest of resetProcess: QTcpServer::close drops the connections that wait.
ResetWindow ==
    /\ m_computeDevice' = "NULL"
    /\ m_serverState' = "SET_COMPUTE_DEVICE"
    /\ m_clientSocket' = NoConnection
    /\ m_server' = IF m_server = "listening" THEN "closed" ELSE m_server
    /\ backlog' = <<>>

\* resetProcess.  With nothing left to write, disconnectFromHost emits
\* disconnected at once, and the slot sets the pointer to NULL that resetProcess
\* uses next.  Otherwise the socket closes later.
resetProcess ==
    /\ MainIsFree
    /\ \/ /\ m_clientSocket # NoConnection
          /\ Crash
          /\ UNCHANGED <<m_serverState, m_clientSocket, m_computeDevice>>
       \/ /\ m_clientSocket # NoConnection => down[m_clientSocket] # <<>>
          /\ ResetWindow
          /\ serverEnd' = [c \in Connections |->
                              IF c = m_clientSocket THEN "closing"
                              ELSE IF c \in ToSet(backlog) THEN "closed" ELSE serverEnd[c]]
          /\ UNCHANGED program
    /\ UNCHANGED <<isInitialized, serverVars, results, clientEnd, up, upBuffer, down,
                   downBuffer, dialog, connectionVars, strays>>

Window ==
    \/ SelectComputeDevice
    \/ StartServer
    \/ onNewConnection
    \/ \E c \in Connections : ClientConnectionDisconnected(c)
    \/ resetProcess

-----------------------------------------------------------------------------
(***************************************************************************)
(* RenderServer                                                            *)
(***************************************************************************)

IsWhole(buffer) == Len(buffer) % Len(Packet) = 0

\* The first data of a client has to be the whole introduction.  (strncmp asks for
\* 18 of its 19 characters: one cut right before its end of line would do.)
ReadIntroduction(arrived) ==
    /\ m_renderState = "WAITING_FOR_INTRODUCTION_REQUEST"
    /\ IF IsPrefix(Text("introduction"), arrived)
       THEN /\ m_renderState' = "RENDERING"
            /\ down' = [down EXCEPT ![servedSocket] = @ \o Text("name")]
       ELSE m_renderState' = "ERROR_UNKNOWN" /\ UNCHANGED down
    /\ upBuffer' = Set(upBuffer, servedSocket, <<>>)
    /\ UNCHANGED <<reading, cutRequest>>

\* readyRead: the next n units arrive, and onDataFromClient is called.
DataFromClient(c, n) ==
    /\ MainIsFree
    /\ c = servedSocket
    /\ serverEnd[c] = "open"
    /\ up' = Set(up, c, Drop(up[c], n))
    /\ LET arrived == upBuffer[c] \o SubSeq(up[c], 1, n) IN
           \/ ReadIntroduction(arrived)
           \/ /\ m_renderState # "WAITING_FOR_INTRODUCTION_REQUEST"
              /\ upBuffer' = Set(upBuffer, c, arrived)
              /\ reading' = (m_renderState = "RENDERING" /\ ~serverGarbled)
              /\ cutRequest' = (cutRequest \/ ~IsWhole(arrived))
              /\ UNCHANGED <<m_renderState, down>>
    /\ UNCHANGED <<windowVars, m_clientSocket, backlog, servedSocket,
                   m_clientExpectingBytes, serverGarbled, queued, parsed, results,
                   serverEnd, clientEnd, downBuffer, dialog, connectionVars, strays>>

\* Mutant: if instead of while.
LeaveLoopAtOnce(rest) == FALSE

LoopGoesOn(rest) == rest # <<>>

\* One turn of the loop in onDataFromClient.  What is available is counted before
\* the size is read, and is compared with a size that counts the size field: when
\* the field had arrived alone the rest of the packet never is enough.  The loop
\* then turns for ever, for nothing arrives as long as it does.
ReadRequest ==
    /\ program = "running"
    /\ reading
    /\ LET buffer == upBuffer[servedSocket]
           readsSize == m_clientExpectingBytes = 0
           expecting == IF readsSize THEN Len(Packet) ELSE m_clientExpectingBytes
           rest == IF readsSize THEN Drop(buffer, Len(SizeField)) ELSE buffer
       IN  IF readsSize /\ ~IsPrefix(SizeField, buffer)
           THEN /\ serverGarbled' = TRUE
                /\ reading' = FALSE
                /\ UNCHANGED <<m_clientExpectingBytes, upBuffer, queued, parsed>>
           ELSE /\ serverGarbled' = FALSE
                /\ IF Len(buffer) >= expecting
                   THEN /\ m_clientExpectingBytes' = 0
                        /\ upBuffer' = Set(upBuffer, servedSocket, Drop(rest, BodyUnits))
                        /\ queued' = queued + 1
                        /\ parsed' = parsed + 1
                        /\ reading' = LoopGoesOn(Drop(rest, BodyUnits))
                   ELSE /\ m_clientExpectingBytes' = expecting
                        /\ upBuffer' = Set(upBuffer, servedSocket, rest)
                        /\ reading' = (rest # <<>>)
                        /\ UNCHANGED <<queued, parsed>>
    /\ UNCHANGED <<windowVars, m_clientSocket, backlog, servedSocket, m_renderState,
                   cutRequest, results, serverEnd, clientEnd, up, down, downBuffer,
                   dialog, connectionVars, strays>>

\* The renderer answers a request, or finds it overtaken by a newer sequence.
RendererAnswers ==
    /\ program = "running"
    /\ queued > 0
    /\ queued' = queued - 1
    /\ results' \in {results, results + 1}
    /\ UNCHANGED <<windowVars, m_clientSocket, backlog, servedSocket, m_renderState,
                   m_clientExpectingBytes, reading, serverGarbled, parsed, cutRequest,
                   serverEnd, clientEnd, up, upBuffer, down, downBuffer, dialog,
                   connectionVars, strays>>

\* onNewRenderResultPacket writes to whom the server serves now.
onNewRenderResultPacket ==
    /\ MainIsFree
    /\ results > 0
    /\ results' = results - 1
    /\ down' = IF serverEnd[servedSocket] \in {"open", "closing"} /\ ~serverGarbled
               THEN [down EXCEPT ![servedSocket] = @ \o Packet] ELSE down
    /\ UNCHANGED <<windowVars, m_clientSocket, backlog, serverVars, serverEnd, clientEnd,
                   up, upBuffer, downBuffer, dialog, connectionVars, strays>>

Server ==
    \/ \E c \in Connections : \E n \in 1 .. Len(up[c]) : DataFromClient(c, n)
    \/ ReadRequest
    \/ RendererAnswers
    \/ onNewRenderResultPacket

-----------------------------------------------------------------------------
(***************************************************************************)
(* AddNewServerConnectionDialog                                            *)
(***************************************************************************)

SetDialog(c, state) == dialog' = Set(dialog, c, state)

\* onFormSubmit, with a port that is a number.  The next attempt follows the end
\* of this one, so a failed dialog need not come back.
FormSubmit(c) ==
    /\ dialog[c] = "form"
    /\ SetDialog(c, "connecting")
    /\ UNCHANGED <<windowVars, m_clientSocket, backlog, serverVars, results, serverEnd,
                   clientEnd, up, upBuffer, down, downBuffer, connectionVars, strays>>

\* onConnectedToHost.  The operating system of a listening server accepts, even
\* when the program is busy.  The timer for the greeting starts.
ConnectedToHost(c) ==
    /\ dialog[c] = "connecting"
    /\ program = "running" /\ m_server = "listening"
    /\ SetDialog(c, "greeting")
    /\ clientEnd' = Set(clientEnd, c, "open")
    /\ serverEnd' = Set(serverEnd, c, "pending")
    /\ backlog' = Append(backlog, c)
    /\ UNCHANGED <<windowVars, m_clientSocket, serverVars, results, up, upBuffer, down,
                   downBuffer, connectionVars, strays>>

\* onHostConnectionError: no connection, or the server has closed it.
HostConnectionError(c) ==
    /\ \/ dialog[c] = "connecting"
       \/ dialog[c] = "greeting" /\ serverEnd[c] = "closed" /\ down[c] = <<>>
    /\ SetDialog(c, "failed")
    /\ clientEnd' = Set(clientEnd, c, "closed")
    /\ UNCHANGED <<windowVars, m_clientSocket, backlog, serverVars, results, serverEnd,
                   up, upBuffer, down, downBuffer, connectionVars, strays>>

\* onHostDataAvailable.  With the greeting the socket goes to the application, and
\* whatever else has arrived stays in it; else it is disconnected.
HostDataAvailable(c, n) ==
    /\ dialog[c] = "greeting"
    /\ clientEnd[c] = "open"
    /\ LET arrived == SubSeq(down[c], 1, n) IN
           IF IsPrefix(Text("greeting"), arrived)
           THEN /\ SetDialog(c, "handing")
                /\ down' = Set(down, c, Drop(down[c], n))
                /\ downBuffer' = Set(downBuffer, c, Drop(arrived, 2))
                /\ UNCHANGED clientEnd
           ELSE /\ SetDialog(c, "failed")
                /\ clientEnd' = Set(clientEnd, c, "closed")
                /\ UNCHANGED <<down, downBuffer>>
    /\ UNCHANGED <<windowVars, m_clientSocket, backlog, serverVars, results, serverEnd,
                   up, upBuffer, connectionVars, strays>>

\* Mutant: the timer is not started.
NoGreetingTimer(c) == FALSE /\ UNCHANGED vars

\* onWaitForGreetingError: the timer fires.
WaitForGreetingError(c) ==
    /\ dialog[c] = "greeting"
    /\ SetDialog(c, "failed")
    /\ clientEnd' = Set(clientEnd, c, "closed")
    /\ UNCHANGED <<windowVars, m_clientSocket, backlog, serverVars, results, serverEnd,
                   up, upBuffer, down, downBuffer, connectionVars, strays>>

\* Until the application has connected its own slots the server may close the
\* connection unnoticed.  disconnect(m_socket) does not disconnect the socket's
\* signals from the dialog: when it still exists, onHostConnectionError uses a
\* pointer that is NULL.
ClosedWhileHanding(c) ==
    /\ dialog[c] = "handing"
    /\ clientEnd[c] = "open" /\ serverEnd[c] = "closed" /\ down[c] = <<>>
    /\ clientEnd' = Set(clientEnd, c, "closed")
    /\ dialog' \in {dialog, Set(dialog, c, "crashed")}
    /\ UNCHANGED <<windowVars, m_clientSocket, backlog, serverVars, results, serverEnd,
                   up, upBuffer, down, downBuffer, connectionVars, strays>>

\* onNewServerConnectionSocket: a RenderServerConnection, with its timer.
NewServerConnection(c) ==
    /\ dialog[c] = "handing"
    /\ SetDialog(c, "accepted")
    /\ UNCHANGED <<windowVars, m_clientSocket, backlog, serverVars, results, serverEnd,
                   clientEnd, up, upBuffer, down, downBuffer, connectionVars, strays>>

Dialog(c) ==
    \/ FormSubmit(c)
    \/ ConnectedToHost(c)
    \/ HostConnectionError(c)
    \/ \E n \in 1 .. Len(down[c]) : HostDataAvailable(c, n)
    \/ WaitForGreetingError(c)
    \/ ClosedWhileHanding(c)
    \/ NewServerConnection(c)

-----------------------------------------------------------------------------
(***************************************************************************)
(* RenderServerConnection                                                  *)
(***************************************************************************)

\* GetServerDetailsCommand::getInitialRenderServerState
InitialRenderServerState == "WAITING_FOR_DEVICE_INFORMATION"

\* onTimeout without device information: pushCommandAsync
PushCommand(c) ==
    /\ dialog[c] = "accepted"
    /\ m_renderServerState[c] = "NO_DEVICE_INFORMATION"
    /\ newCommands' = [newCommands EXCEPT ![c] = @ + 1]
    /\ m_renderServerState' = Set(m_renderServerState, c, InitialRenderServerState)
    /\ UNCHANGED <<windowVars, m_clientSocket, backlog, serverVars, results, serverEnd,
                   clientEnd, up, upBuffer, down, downBuffer, dialog, m_currentCommand,
                   m_expectingSize, clientGarbled, numRequests, cutAnswer, coalesced,
                   strays>>

\* onNewServerCommand throws when a command is pending.
onNewServerCommand(c) ==
    /\ newCommands[c] > 0
    /\ newCommands' = [newCommands EXCEPT ![c] = @ - 1]
    /\ m_currentCommand' = Set(m_currentCommand, c,
                               IF m_currentCommand[c] = "NULL" THEN "pending" ELSE "rejected")
    /\ up' = IF m_currentCommand[c] = "NULL" /\ clientEnd[c] = "open"
             THEN [up EXCEPT ![c] = @ \o Text("introduction")] ELSE up
    /\ UNCHANGED <<windowVars, m_clientSocket, backlog, serverVars, results, serverEnd,
                   clientEnd, upBuffer, down, downBuffer, dialog, m_renderServerState,
                   m_expectingSize, clientGarbled, numRequests, cutAnswer, coalesced,
                   strays>>

\* onTimeout when the server renders.  (Whether a request is due: module
\* DistributedApplication.)  Nothing is written on a stream with an error.
SendRequest(c) ==
    /\ m_renderServerState[c] = "RENDERING"
    /\ numRequests[c] < MaxRequests
    /\ numRequests' = [numRequests EXCEPT ![c] = @ + 1]
    /\ up' = IF clientEnd[c] = "open" /\ ~clientGarbled[c]
             THEN [up EXCEPT ![c] = @ \o Packet] ELSE up
    /\ UNCHANGED <<windowVars, m_clientSocket, backlog, serverVars, results, serverEnd,
                   clientEnd, upBuffer, down, downBuffer, dialog, m_renderServerState,
                   newCommands, m_currentCommand, m_expectingSize, clientGarbled,
                   cutAnswer, coalesced, strays>>

\* Mutant: the size counts the size field, as that of a request does.
SizeOfWholePacket == Len(Packet)

\* The size a result is sent with
SizeOfResult == BodyUnits

\* Mutant: bytes_available is not reduced when the size has been read.
AvailableBefore(buffer, readsSize) == Len(buffer)

Available(buffer, readsSize) ==
    IF readsSize THEN Len(buffer) - Len(SizeField) ELSE Len(buffer)

\* The second part of onSocketReadyRead: it reads at most one result.
ReadResult(buffer, expecting) ==
    LET readsSize == expecting = 0
        size == IF readsSize THEN SizeOfResult ELSE expecting
        rest == IF readsSize THEN Drop(buffer, Len(SizeField)) ELSE buffer
    IN  IF buffer = <<>>
        THEN [buffer |-> <<>>, expecting |-> expecting, garbled |-> FALSE]
        ELSE IF readsSize /\ ~IsPrefix(SizeField, buffer)
        THEN [buffer |-> <<>>, expecting |-> 0, garbled |-> TRUE]
        ELSE IF Available(buffer, readsSize) >= size
        THEN [buffer |-> Drop(rest, BodyUnits), expecting |-> 0,
              garbled |-> Len(rest) < BodyUnits]
        ELSE [buffer |-> rest, expecting |-> size, garbled |-> FALSE]

\* How many results end in a buffer
ResultsIn(buffer, expecting) ==
    (Len(buffer) + (IF expecting = 0 THEN 0 ELSE Len(SizeField))) \div Len(Packet)

\* Mutant: the command stays pending.
KeepCommand(c) == UNCHANGED m_currentCommand

DeleteCommand(c) == m_currentCommand' = Set(m_currentCommand, c, "NULL")

\* handleCommandResponse: a part of the name, or the start of a result, is no
\* name.  The error is for ever.
CommandResponse(c, arrived) ==
    /\ m_currentCommand[c] = "pending"
    /\ DeleteCommand(c)
    /\ IF IsPrefix(Text("name"), arrived)
       THEN LET read == ReadResult(Drop(arrived, 2), 0) IN
            /\ m_renderServerState' = Set(m_renderServerState, c, "RENDERING")
            /\ downBuffer' = Set(downBuffer, c, read.buffer)
            /\ m_expectingSize' = Set(m_expectingSize, c, read.expecting)
            /\ clientGarbled' = Set(clientGarbled, c, read.garbled)
       ELSE /\ m_renderServerState' = Set(m_renderServerState, c, "ERROR_INVALID_CONFIRMATION")
            /\ downBuffer' = Set(downBuffer, c, <<>>)
            /\ UNCHANGED <<m_expectingSize, clientGarbled>>
    /\ cutAnswer' = IF Len(arrived) < 2 THEN cutAnswer \cup {c} ELSE cutAnswer
    /\ UNCHANGED coalesced

ResultArrives(c, arrived) ==
    /\ m_currentCommand[c] # "pending"
    /\ m_renderServerState[c] = "RENDERING"
    /\ ~clientGarbled[c]
    /\ LET read == ReadResult(arrived, m_expectingSize[c]) IN
           /\ downBuffer' = Set(downBuffer, c, read.buffer)
           /\ m_expectingSize' = Set(m_expectingSize, c, read.expecting)
           /\ clientGarbled' = Set(clientGarbled, c, read.garbled)
    /\ cutAnswer' =
           IF m_expectingSize[c] = 0 /\ Len(arrived) % Len(Packet) = 1
           THEN cutAnswer \cup {c} ELSE cutAnswer
    /\ coalesced' = IF ResultsIn(arrived, m_expectingSize[c]) > 1
                    THEN coalesced \cup {c} ELSE coalesced
    /\ UNCHANGED <<m_renderServerState, m_currentCommand>>

\* Without a command and a server that renders nothing is read, and before the
\* hand-over nobody listens.
NobodyReads(c, arrived) ==
    /\ m_currentCommand[c] # "pending"
    /\ m_renderServerState[c] # "RENDERING" \/ clientGarbled[c]
    /\ downBuffer' = Set(downBuffer, c, arrived)
    /\ UNCHANGED <<m_renderServerState, m_currentCommand, m_expectingSize, clientGarbled,
                   cutAnswer, coalesced>>

\* readyRead: the next n units arrive.
onSocketReadyRead(c, n) ==
    /\ dialog[c] \in {"handing", "accepted"}
    /\ clientEnd[c] = "open"
    /\ down' = Set(down, c, Drop(down[c], n))
    /\ LET arrived == downBuffer[c] \o SubSeq(down[c], 1, n) IN
           CommandResponse(c, arrived) \/ ResultArrives(c, arrived) \/ NobodyReads(c, arrived)
    /\ UNCHANGED <<windowVars, m_clientSocket, backlog, serverVars, results, serverEnd,
                   clientEnd, up, upBuffer, dialog, newCommands, numRequests, strays>>

\* onSocketDisconnected leaves the command.  The client may also close the
\* connection, when it ends (onAboutToQuit).
SocketDisconnected(c) ==
    /\ dialog[c] = "accepted"
    /\ clientEnd[c] = "open"
    /\ clientEnd' = Set(clientEnd, c, "closed")
    /\ m_renderServerState' = Set(m_renderServerState, c, "DISCONNECTED")
    /\ UNCHANGED <<windowVars, m_clientSocket, backlog, serverVars, results, serverEnd, up,
                   upBuffer, down, downBuffer, dialog, newCommands, m_currentCommand,
                   m_expectingSize, clientGarbled, numRequests, cutAnswer, coalesced,
                   strays>>

Connection(c) ==
    \/ PushCommand(c)
    \/ onNewServerCommand(c)
    \/ SendRequest(c)
    \/ \E n \in 1 .. Len(down[c]) : onSocketReadyRead(c, n)
    \/ SocketDisconnected(c)

-----------------------------------------------------------------------------

Init ==
    /\ program = "running"
    /\ m_serverState = "SET_COMPUTE_DEVICE"
    /\ m_server = "none"
    /\ m_clientSocket = NoConnection
    /\ m_computeDevice = "NULL"
    /\ isInitialized = FALSE
    /\ backlog = <<>>
    /\ servedSocket = NoConnection
    /\ m_renderState = "NOT_VALID_RENDER_STATE"
    /\ m_clientExpectingBytes = 0
    /\ reading = FALSE
    /\ serverGarbled = FALSE
    /\ queued = 0
    /\ results = 0
    /\ serverEnd = [c \in Connections |-> "none"]
    /\ clientEnd = [c \in Connections |-> "none"]
    /\ up = [c \in Connections |-> <<>>]
    /\ upBuffer = [c \in Connections |-> <<>>]
    /\ down = [c \in Connections |-> <<>>]
    /\ downBuffer = [c \in Connections |-> <<>>]
    /\ dialog = [c \in Connections |-> "form"]
    /\ m_renderServerState = [c \in Connections |-> "NO_DEVICE_INFORMATION"]
    /\ newCommands = [c \in Connections |-> 0]
    /\ m_currentCommand = [c \in Connections |-> "NULL"]
    /\ m_expectingSize = [c \in Connections |-> 0]
    /\ clientGarbled = [c \in Connections |-> FALSE]
    /\ numRequests = [c \in Connections |-> 0]
    /\ parsed = 0
    /\ cutRequest = FALSE
    /\ cutAnswer = {}
    /\ coalesced = {}
    /\ strays = {}

Next ==
    \/ Window
    \/ Server
    \/ \E c \in Connections : Dialog(c) \/ Connection(c)

Spec == Init /\ [][Next]_vars

\* The timer of the dialog fires, an attempt to connect ends, and the event loop
\* of the application runs.
FairSpec ==
    /\ Spec
    /\ \A c \in Connections :
           /\ WF_vars(ConnectedToHost(c) \/ HostConnectionError(c))
           /\ WF_vars(WaitForGreetingError(c))
           /\ WF_vars(NewServerConnection(c))

-----------------------------------------------------------------------------
(***************************************************************************)
(* Properties                                                              *)
(***************************************************************************)

\* A client that is accepted finds a device and is the one that RenderServer
\* serves, also after the process was reset while a client was still connected,
\* when its late disconnection takes the window back to waiting for a client.
ReadyIsComplete ==
    program = "running" /\ m_serverState = "READY_FOR_RENDERING" =>
        /\ m_computeDevice = "selected"
        /\ m_clientSocket # NoConnection
        /\ servedSocket = m_clientSocket

\* No two clients are connected to the server and hold a greeting: a second
\* one's introduction would never be read.
OneClientServed ==
    Cardinality({c \in Connections : serverEnd[c] = "open"}) <= 1

\* As long as no segment ends inside a request, every request that was sent is
\* parsed or still to be parsed, and onDataFromClient leaves nothing behind.
RequestsArrive ==
    m_renderState = "RENDERING" /\ ~cutRequest =>
        /\ ~serverGarbled
        /\ ~reading => upBuffer[servedSocket] = <<>>
        /\ serverEnd[servedSocket] = "open" /\ ~clientGarbled[servedSocket]
               => parsed * Len(Packet) + Len(upBuffer[servedSocket]) + Len(up[servedSocket])
                      = numRequests[servedSocket] * Len(Packet)

\* Results are read wherever the segments end, unless it is inside a size field.
\* A result that has arrived stays unread only after two of them came at once.
ResultsAreRead ==
    \A c \in Connections :
        m_renderServerState[c] = "RENDERING" /\ c \notin cutAnswer \cup strays =>
            /\ ~clientGarbled[c]
            /\ c \notin coalesced => ResultsIn(downBuffer[c], m_expectingSize[c]) = 0

\* The introduction only fails when its answer arrives in parts, or when a result
\* that was rendered for an earlier client is sent to this one.  No command is ever
\* rejected, although the commands are queued, and a connection that is lost leaves
\* its command pending.
IntroductionSucceeds ==
    \A c \in Connections :
        /\ m_currentCommand[c] # "rejected"
        /\ m_renderServerState[c] = "ERROR_INVALID_CONFIRMATION" => c \in cutAnswer \cup strays

\* A dialog that waits for a server comes to an end, whatever becomes of the
\* server: busy, reset, crashed, or in the loop that never ends.
DialogSettles ==
    \A c \in Connections :
        dialog[c] \in {"connecting", "greeting", "handing"}
            ~> dialog[c] \in {"accepted", "failed", "crashed"}
=============================================================================
